----------------------------- MODULE LedgerFile -----------------------------
(***************************************************************************)
(* ledger.json on disk.  Every call of a TaskLedger method first cleans up *)
(* the temporary files it finds, creates the ledger if there is none,      *)
(* reads it, computes, writes a temporary file of its own and renames it   *)
(* over the ledger (_ensure, _recover_orphaned_writes, _read, _write).     *)
(* There is no lock on the file.  Shared says how the callers are          *)
(* deployed: FALSE when they are threads under the lock of one             *)
(* LedgerSession, TRUE when they are processes of their own.  The threads  *)
(* of a session have one credential, here each caller has its own: whose   *)
(* a call is makes no difference to whether it is atomic.                  *)
(*                                                                         *)
(* A worker has at most one temporary file: it cleans up before it writes. *)
(* Files behave as on POSIX: a file that is removed                        *)
(* while its writer has it open is written in vain, and the rename fails.  *)
(***************************************************************************)
EXTENDS LedgerCalls

CONSTANTS
    Shared,
    MaxClock,       \* bound on the clock
    Torn            \* content of a file that is being written

ASSUME SharedIsBoolean == Shared \in BOOLEAN
ASSUME OthersAreNoLedgers == Torn \notin Ledger /\ None \notin Ledger /\ Torn # None

VARIABLES
    file,           \* content of ledger.json; None when it does not exist
    temp,           \* temp[h]: content of h's temporary file, or None
    pc,             \* pc[h]: the step h is at
    candidates,     \* candidates[h]: whose temporary files h has listed
    promoted,       \* promoted[h]: whose temporary file h is to rename, or None
    pending,        \* pending[h]: the outcome h is writing, or None
    tickets,        \* tickets[h][t]: the last lease h was given on t
    clock           \* seconds

vars == <<file, temp, pc, candidates, promoted, pending, tickets, clock>>

Step == {"idle", "recover", "promote", "sweep", "ensure", "read", "open", "fill", "replace"}

Init ==
    /\ file = None
    /\ temp = [h \in Holder |-> None]
    /\ pc = [h \in Holder |-> "idle"]
    /\ candidates = [h \in Holder |-> {}]
    /\ promoted = [h \in Holder |-> None]
    /\ pending = [h \in Holder |-> None]
    /\ tickets = [h \in Holder |-> NoTickets]
    /\ clock = 0

(* Variant: the calls of a session are not serialised. *)
MayCall_NoLock(h) == TRUE

MayCall(h) == Shared \/ \A g \in Holder : pc[g] = "idle"

Goto(h, step) == pc' = [pc EXCEPT ![h] = step]

(* h's temporary file is gone: nobody finds it under its name any more. *)
Removed(h) ==
    /\ temp' = [temp EXCEPT ![h] = None]
    /\ candidates' = [g \in Holder |-> candidates[g] \ {h}]
    /\ promoted' = [g \in Holder |-> IF promoted[g] = h THEN None ELSE promoted[g]]

-----------------------------------------------------------------------------
(* _recover_orphaned_writes *)

ListTemps(h) ==
    /\ pc[h] = "idle"
    /\ MayCall(h)
    /\ candidates' = [candidates EXCEPT ![h] = {g \in Holder : temp[g] # None}]
    /\ Goto(h, IF candidates'[h] = {} THEN "ensure" ELSE "recover")
    /\ UNCHANGED <<file, temp, promoted, pending, tickets, clock>>

Valid(content) == content # None /\ content # Torn

(* With a ledger in place every listed file is removed.  Without one, the  *)
(* last valid file becomes the ledger; the names are random, so any valid  *)
(* file may be the last.                                                   *)
Recover(h) ==
    /\ pc[h] = "recover"
    /\ LET valid == {g \in candidates[h] : Valid(temp[g])}
       IN  IF file # None \/ valid = {}
           THEN Goto(h, "sweep") /\ UNCHANGED promoted
           ELSE /\ \E g \in valid : promoted' = [promoted EXCEPT ![h] = g]
                /\ Goto(h, "promote")
    /\ UNCHANGED <<file, temp, candidates, pending, tickets, clock>>

(* os.replace raises when the file to rename has disappeared meanwhile. *)
Promote(h) ==
    /\ pc[h] = "promote"
    /\ IF promoted[h] = None
       THEN /\ candidates' = [candidates EXCEPT ![h] = {}]
            /\ Goto(h, "idle")
            /\ UNCHANGED <<file, temp, promoted>>
       ELSE /\ file' = temp[promoted[h]]
            /\ Removed(promoted[h])
            /\ Goto(h, "sweep")
    /\ UNCHANGED <<pending, tickets, clock>>

Sweep(h) ==
    /\ pc[h] = "sweep"
    /\ IF candidates[h] = {}
       THEN Goto(h, "ensure") /\ UNCHANGED <<temp, candidates, promoted>>
       ELSE (\E g \in candidates[h] : Removed(g)) /\ UNCHANGED pc
    /\ UNCHANGED <<file, pending, tickets, clock>>

-----------------------------------------------------------------------------
(* _ensure, _read and the body of the method *)

Write(h, d, mine, then) ==
    /\ pending' = [pending EXCEPT ![h] = [ledger |-> d, tickets |-> mine, then |-> then]]
    /\ Goto(h, "open")

Ensure(h) ==
    /\ pc[h] = "ensure"
    /\ IF file # None
       THEN Goto(h, "read") /\ UNCHANGED pending
       ELSE Write(h, EmptyLedger, tickets[h], "read")
    /\ UNCHANGED <<file, temp, candidates, promoted, tickets, clock>>

(* The method reads the ledger and either computes a new one, or raises or *)
(* only looks.                                                             *)
Read(h) ==
    /\ pc[h] = "read"
    /\ \/ \E o \in Outcomes(file, h, tickets[h], clock) : Write(h, o.ledger, o.tickets, "idle")
       \/ Goto(h, "idle") /\ UNCHANGED pending
    /\ UNCHANGED <<file, temp, candidates, promoted, tickets, clock>>

-----------------------------------------------------------------------------
(* _write: create the temporary file, fill it, rename it over the ledger *)

Open(h) ==
    /\ pc[h] = "open"
    /\ temp' = [temp EXCEPT ![h] = Torn]
    /\ Goto(h, "fill")
    /\ UNCHANGED <<file, candidates, promoted, pending, tickets, clock>>

Fill(h) ==
    /\ pc[h] = "fill"
    /\ temp' = [temp EXCEPT ![h] = IF @ = None THEN None ELSE pending[h].ledger]
    /\ Goto(h, "replace")
    /\ UNCHANGED <<file, candidates, promoted, pending, tickets, clock>>

Replace(h) ==
    /\ pc[h] = "replace"
    /\ pending' = [pending EXCEPT ![h] = None]
    /\ IF temp[h] = None
       THEN /\ Goto(h, "idle")
            /\ UNCHANGED <<file, temp, candidates, promoted, tickets>>
       ELSE /\ file' = temp[h]
            /\ Removed(h)
            /\ tickets' = [tickets EXCEPT ![h] = pending[h].tickets]
            /\ Goto(h, pending[h].then)
    /\ UNCHANGED clock

-----------------------------------------------------------------------------
(* The worker dies between any two steps; its temporary file stays.        *)
Crash(h) ==
    /\ pc' = [pc EXCEPT ![h] = "idle"]
    /\ candidates' = [candidates EXCEPT ![h] = {}]
    /\ promoted' = [promoted EXCEPT ![h] = None]
    /\ pending' = [pending EXCEPT ![h] = None]
    /\ tickets' = [tickets EXCEPT ![h] = NoTickets]
    /\ UNCHANGED <<file, temp, clock>>

Tick ==
    /\ clock < MaxClock
    /\ clock' = clock + 1
    /\ UNCHANGED <<file, temp, pc, candidates, promoted, pending, tickets>>

Work(h) ==
    \/ ListTemps(h) \/ Recover(h) \/ Promote(h) \/ Sweep(h)
    \/ Ensure(h) \/ Read(h)
    \/ Open(h) \/ Fill(h) \/ Replace(h)

Next ==
    \/ \E h \in Holder : Work(h) \/ Crash(h)
    \/ Tick

Spec == Init /\ [][Next]_vars

-----------------------------------------------------------------------------
(* Properties *)

(* Whoever reads ledger.json after _ensure finds a whole ledger, written by *)
(* itself or another: among processes without a lock, too, no clean-up,    *)
(* promotion, rename or death leaves the file half-written or takes it     *)
(* away (_recover_orphaned_writes, _write, _read).                         *)
ReadersFindALedger == \A h \in Holder : pc[h] = "read" => Valid(file)

(* Under the session lock nobody else's clean-up removes the file a worker *)
(* is about to rename: its call does not fail (_write after                *)
(* _recover_orphaned_writes).                                              *)
OwnTempSurvives == \A h \in Holder : pc[h] = "replace" => temp[h] # None

(* Under the session lock the ledger file implements the atomic store: a   *)
(* call has its whole effect on the value it replaces, or none, also when  *)
(* the worker dies on the way.                                             *)
Stored == IF file = None THEN EmptyLedger ELSE file
Store == INSTANCE LedgerStore WITH ledger <- Stored
ImplementsStore == Store!Spec

-----------------------------------------------------------------------------
(* What the source says of itself.  Processes without a lock do not keep   *)
(* it.  The threads of one session have one credential between them, so    *)
(* among them there is nothing to keep.                                    *)

Believes(h, t) == tickets[h][t] # None /\ clock < tickets[h][t].expires_at

(* "The lease fence guarantees only one holder can dispatch": two workers  *)
(* do not both hold a running lease on one task.                           *)
OnlyOneHolder ==
    \A t \in Task : \A g, h \in Holder : Believes(g, t) /\ Believes(h, t) => g = h
=============================================================================
