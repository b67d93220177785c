----------------------------- MODULE InboxFile ------------------------------
(***************************************************************************)
(* inbox_state.json on disk (_AtomicStateFile in durable_inbox.py) and the *)
(* methods of DurableInbox that change it.  Each method reads the whole    *)
(* file, changes its copy and writes the copy back through a temporary     *)
(* file.  Left-over temporary files are looked at only when a DurableInbox *)
(* is constructed: the newest one, unless empty, replaces the state.       *)
(*                                                                         *)
(* Of the state, the outbox and one subscription are kept; the identities  *)
(* of seen events and the cursor are in InboxIngest.                       *)
(***************************************************************************)
EXTENDS Integers, Sequences, SequencesExt

CONSTANTS
    Process,        \* processes that open one namespace
    Task,           \* tasks whose results are sent through the outbox
    Body,           \* receipts
    Shared,         \* whether several processes have the namespace open at once
    MaxSent,        \* bound on the records of the outbox
    Torn,           \* content of a file of which only a part was written
    Empty,          \* content of a file to which nothing was written
    None

ASSUME SharedIsBoolean == Shared \in BOOLEAN
ASSUME ThreeContents == Torn # Empty /\ Torn # None /\ Empty # None

Record == [task : Task, receipt : Body, state : {"PENDING", "DELIVERED"}]
State == [outbox : Seq(Record), subscription : {"none", "active", "paused"}]
ASSUME OthersAreNoStates == \A content \in {Torn, Empty, None} : content \notin State

VARIABLES
    file,           \* content of inbox_state.json; None when it does not exist
    temps,          \* the temporary files on disk, oldest first: owner and content
    pc,             \* pc[p]: the step p is at
    copy,           \* copy[p]: the state p writes, or None
    accepted        \* (task, receipt) pairs whose enqueue_outbox has returned

vars == <<file, temps, pc, copy, accepted>>

Step == {"closed", "recover", "ensure", "idle", "open", "fill", "replace"}

InitialState == [outbox |-> <<>>, subscription |-> "none"]

Init ==
    /\ file = None
    /\ temps = <<>>
    /\ pc = [p \in Process |-> "closed"]
    /\ copy = [p \in Process |-> None]
    /\ accepted = {}

At(p, step) == pc' = [pc EXCEPT ![p] = step]

-----------------------------------------------------------------------------
(* The constructor: _recover_orphans, then an initial state if none exists *)

Construct(p) ==
    /\ pc[p] = "closed"
    /\ Shared \/ \A q \in Process : pc[q] = "closed"
    /\ At(p, "recover")
    /\ UNCHANGED <<file, temps, copy, accepted>>

Recovered(content) == IF content = Empty THEN file ELSE content

(* A process whose temporary file is taken away while it is still writing  *)
(* ends up with a failing rename; what it goes on to write is left out.    *)
Recover(p) ==
    /\ pc[p] = "recover"
    /\ file' = IF temps = <<>> THEN file ELSE Recovered(Last(temps).content)
    /\ temps' = <<>>
    /\ At(p, "ensure")
    /\ UNCHANGED <<copy, accepted>>

Ensure(p) ==
    /\ pc[p] = "ensure"
    /\ IF file # None
       THEN At(p, "idle") /\ UNCHANGED copy
       ELSE At(p, "open") /\ copy' = [copy EXCEPT ![p] = InitialState]
    /\ UNCHANGED <<file, temps, accepted>>

-----------------------------------------------------------------------------
(* The methods: read the file, change the copy.  A file that is torn or    *)
(* empty cannot be read, and every method raises.                          *)

Change(p, state) ==
    /\ pc[p] = "idle"
    /\ file \in State
    /\ copy' = [copy EXCEPT ![p] = state]
    /\ At(p, "open")
    /\ UNCHANGED <<file, temps, accepted>>

PendingIn(state, t, body) ==
    \E i \in DOMAIN state.outbox : state.outbox[i] = [task |-> t, receipt |-> body, state |-> "PENDING"]

(* Variant: a new outbox is begun with every record. *)
EnqueueOutbox_Reset(p, t, body) ==
    /\ file \in State
    /\ ~PendingIn(file, t, body)
    /\ Change(p, [file EXCEPT !.outbox = <<[task |-> t, receipt |-> body, state |-> "PENDING"]>>])

(* Variant: a receipt that is pending is enqueued again. *)
EnqueueOutbox_Again(p, t, body) ==
    /\ file \in State
    /\ Len(file.outbox) < MaxSent
    /\ Change(p, [file EXCEPT !.outbox =
                    Append(@, [task |-> t, receipt |-> body, state |-> "PENDING"])])

EnqueueOutbox(p, t, body) ==
    /\ file \in State
    /\ Len(file.outbox) < MaxSent
    /\ ~PendingIn(file, t, body)
    /\ Change(p, [file EXCEPT !.outbox =
                    Append(@, [task |-> t, receipt |-> body, state |-> "PENDING"])])

Delivered(outbox, t) ==
    [i \in DOMAIN outbox |->
        IF outbox[i].task = t THEN [outbox[i] EXCEPT !.state = "DELIVERED"] ELSE outbox[i]]

MarkOutboxDelivered(p, t) ==
    /\ file \in State
    /\ Change(p, [file EXCEPT !.outbox = Delivered(file.outbox, t)])

Subscribe(p) ==
    /\ file \in State
    /\ Change(p, [file EXCEPT !.subscription = IF @ = "none" THEN "active" ELSE @])

PauseSubscription(p) ==
    /\ file \in State
    /\ Change(p, [file EXCEPT !.subscription = "paused"])

ResumeSubscription(p) ==
    /\ file \in State
    /\ file.subscription # "none"
    /\ Change(p, [file EXCEPT !.subscription = "active"])

-----------------------------------------------------------------------------
(* _write: create the temporary file, fill it, rename it over the state *)

Mine(p) == {i \in DOMAIN temps : temps[i].owner = p}

Open(p) ==
    /\ pc[p] = "open"
    /\ temps' = Append(temps, [owner |-> p, content |-> Empty])
    /\ At(p, "fill")
    /\ UNCHANGED <<file, copy, accepted>>

(* The last write is the complete one; before it, a part is on disk. *)
Fill(p) ==
    /\ pc[p] = "fill"
    /\ \E content \in {Torn, copy[p]} :
          /\ temps' = [i \in DOMAIN temps |->
                         IF i \in Mine(p) THEN [owner |-> p, content |-> content] ELSE temps[i]]
          /\ IF content = Torn THEN UNCHANGED pc ELSE At(p, "replace")
    /\ UNCHANGED <<file, copy, accepted>>

(* The rename raises when somebody's recovery took the temporary file. *)
Replace(p) ==
    /\ pc[p] = "replace"
    /\ At(p, "idle")
    /\ copy' = [copy EXCEPT ![p] = None]
    /\ IF Mine(p) = {}
       THEN UNCHANGED <<file, temps, accepted>>
       ELSE /\ file' = copy[p]
            /\ temps' = RemoveAt(temps, CHOOSE i \in Mine(p) : TRUE)
            /\ accepted' = accepted \cup
                             {a \in Task \X Body : PendingIn(copy[p], a[1], a[2])}

-----------------------------------------------------------------------------
(* The process dies between any two steps. *)
Crash(p) ==
    /\ pc[p] # "closed"
    /\ At(p, "closed")
    /\ temps' = [i \in DOMAIN temps |-> [temps[i] EXCEPT !.owner = IF @ = p THEN None ELSE @]]
    /\ copy' = [copy EXCEPT ![p] = None]
    /\ UNCHANGED <<file, accepted>>

Method(p) ==
    \/ \E t \in Task, body \in Body : EnqueueOutbox(p, t, body)
    \/ \E t \in Task : MarkOutboxDelivered(p, t)
    \/ Subscribe(p)
    \/ PauseSubscription(p)
    \/ ResumeSubscription(p)

Next ==
    \E p \in Process :
        \/ Construct(p) \/ Recover(p) \/ Ensure(p)
        \/ Method(p)
        \/ Open(p) \/ Fill(p) \/ Replace(p)
        \/ Crash(p)

Spec == Init /\ [][Next]_vars

-----------------------------------------------------------------------------
(* Properties *)

(* Once enqueue_outbox has returned, the receipt is in the outbox for good *)
(* - pending or delivered - in every state that can be read, whichever     *)
(* process died writing (the outbox methods, _recover_orphans).            *)
AcceptedIsKept ==
    file \in State =>
        \A a \in accepted : \E i \in DOMAIN file.outbox :
            file.outbox[i].task = a[1] /\ file.outbox[i].receipt = a[2]

(* No receipt is pending twice, so no result is sent twice at a time, also *)
(* when a call is repeated after a crash (enqueue_outbox).                 *)
PendingOnce ==
    file \in State =>
        \A i, j \in DOMAIN file.outbox :
            file.outbox[i].state = "PENDING" /\ file.outbox[i] = file.outbox[j] => i = j

-----------------------------------------------------------------------------
(* What the source says of itself and the code does not keep *)

(* "The SAME atomic-write + orphan-recovery discipline as the ledger": the *)
(* state file is never a half-written one.                                 *)
StateIsReadable == file # Torn
=============================================================================
