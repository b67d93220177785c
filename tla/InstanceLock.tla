---------------------------- MODULE InstanceLock ----------------------------
(* SingleInstanceLock (services/orchestration/sidecar_lock.py): a file that  *)
(* is created exclusively and names its owner's pid and a token. A process   *)
(* that finds the file of a dead owner reads it, looks for the pid, reads it *)
(* again and unlinks it, in four calls. Processes die anywhere; a pid that   *)
(* is used again is a process of the model that starts again.                *)
EXTENDS Integers

CONSTANTS
    Pids,
    MaxTokens     \* bound: calls of acquire

ASSUME MaxTokensIsNat == MaxTokens \in Nat

VARIABLES
    file,      \* the file at the path, Absent when there is none
    pc,        \* where each process is, "down" when there is none with the pid
    token,     \* the token of its last call of acquire
    round,     \* the turn of acquire's loop
    seen,      \* the file it read
    issued,    \* the tokens made so far: uuid4 never makes one twice
    raced,     \* history: did a recovery remove another file than it read?
    alone,     \* history: did no other process step since its acquire began?
    refusal    \* history: why its last acquire raised

lockVars == <<file, pc, token, round, seen, issued, raced, alone, refusal>>

Absent == [token |-> 0, written |-> FALSE]
File == [token : Nat, pid : Pids, written : BOOLEAN]
Steps == {"down", "free", "open", "read", "check", "compare", "unlink", "write", "owned", "remove"}
LockInit ==
    /\ file = Absent
    /\ pc = [p \in Pids |-> "down"]
    /\ token = [p \in Pids |-> 0]
    /\ round = [p \in Pids |-> 1]
    /\ seen = [p \in Pids |-> Absent]
    /\ issued = 0
    /\ raced = FALSE
    /\ alone = [p \in Pids |-> FALSE]
    /\ refusal = [p \in Pids |-> "none"]

(* Every step of one process disturbs the calls of the others.              *)
Disturb(p) == alone' = [q \in Pids |-> q = p /\ alone[p]]

Go(p, step) == pc' = [pc EXCEPT ![p] = step] /\ UNCHANGED <<round, refusal>>

Refuse(p, reason) ==
    /\ pc' = [pc EXCEPT ![p] = "free"]
    /\ refusal' = [refusal EXCEPT ![p] = reason]
    /\ UNCHANGED round

Begin(p) ==
    /\ pc[p] = "down"
    /\ Go(p, "free") /\ Disturb(p)
    /\ UNCHANGED <<file, token, seen, issued, raced>>

(* acquire, up to its loop                                                  *)
Acquire(p) ==
    /\ pc[p] = "free"
    /\ issued < MaxTokens
    /\ issued' = issued + 1
    /\ token' = [token EXCEPT ![p] = issued + 1]
    /\ round' = [round EXCEPT ![p] = 1]
    /\ seen' = [seen EXCEPT ![p] = Absent]
    /\ refusal' = [refusal EXCEPT ![p] = "none"]
    /\ pc' = [pc EXCEPT ![p] = "open"]
    /\ alone' = [q \in Pids |-> q = p]
    /\ UNCHANGED <<file, raced>>

(* os.open with O_CREAT | O_EXCL                                            *)
Open(p) ==
    /\ pc[p] = "open"
    /\ \/ file = Absent /\ Go(p, "write")
          /\ file' = [token |-> token[p], pid |-> p, written |-> FALSE]
       \/ file # Absent /\ Go(p, "read") /\ UNCHANGED file
    /\ Disturb(p)
    /\ UNCHANGED <<token, seen, issued, raced>>

(* The contents; the handle stays with the file that was created, whatever  *)
(* is at the path by now.                                                   *)
WriteOwner(p) ==
    /\ pc[p] = "write"
    /\ file' = IF file.token = token[p] THEN [file EXCEPT !.written = TRUE] ELSE file
    /\ Go(p, "owned") /\ Disturb(p)
    /\ UNCHANGED <<token, seen, issued, raced>>

(* The disk is full: nobody owns the file that stays.                       *)
WriteFails(p) ==
    /\ pc[p] = "write"
    /\ Refuse(p, "disk") /\ Disturb(p)
    /\ UNCHANGED <<file, token, seen, issued, raced>>

(* _read_owner: a file that is gone or not complete raises.                 *)
ReadOwner(p) ==
    /\ pc[p] = "read"
    /\ \/ file = Absent /\ Refuse(p, "gone") /\ UNCHANGED seen
       \/ file # Absent /\ ~file.written /\ Refuse(p, "unreadable") /\ UNCHANGED seen
       \/ file.written /\ Go(p, "check") /\ seen' = [seen EXCEPT ![p] = file]
    /\ Disturb(p)
    /\ UNCHANGED <<file, token, issued, raced>>

(* Variant: an owner is not looked for. *)
Alive_Nobody(pid) == FALSE

(* _pid_alive                                                               *)
Alive(pid) == pc[pid] # "down"

CheckOwner(p) ==
    /\ pc[p] = "check"
    /\ IF Alive(seen[p].pid) THEN Refuse(p, "running") ELSE Go(p, "compare")
    /\ Disturb(p)
    /\ UNCHANGED <<file, token, seen, issued, raced>>

(* Variant: the loop has one turn. *)
NextRound_Once(p) == Refuse(p, "contention")

(* `continue`, or the end of the loop                                       *)
NextRound(p) ==
    \/ /\ round[p] = 1
       /\ round' = [round EXCEPT ![p] = 2]
       /\ pc' = [pc EXCEPT ![p] = "open"]
       /\ UNCHANGED refusal
    \/ round[p] = 2 /\ Refuse(p, "contention")

Compare(p) ==
    /\ pc[p] = "compare"
    /\ \/ file = Absent /\ NextRound(p)
       \/ file \notin {Absent, seen[p]} /\ Refuse(p, "changed")
       \/ file = seen[p] /\ Go(p, "unlink")
    /\ Disturb(p)
    /\ UNCHANGED <<file, token, seen, issued, raced>>

Unlink(p) ==
    /\ pc[p] = "unlink"
    /\ file' = Absent
    /\ raced' = (raced \/ file \notin {Absent, seen[p]})
    /\ NextRound(p) /\ Disturb(p)
    /\ UNCHANGED <<token, seen, issued>>

(* release: the file is read, and unlinked when it is the owner's.          *)
Release(p) ==
    /\ pc[p] = "owned"
    /\ IF file.written /\ file.pid = p /\ file.token = token[p]
       THEN Go(p, "remove") ELSE Go(p, "free")
    /\ Disturb(p)
    /\ UNCHANGED <<file, token, seen, issued, raced>>

Remove(p) ==
    /\ pc[p] = "remove"
    /\ file' = Absent
    /\ Go(p, "free") /\ Disturb(p)
    /\ UNCHANGED <<token, seen, issued, raced>>

(* The process ends, at any point.                                          *)
Die(p) ==
    /\ pc[p] # "down"
    /\ Go(p, "down") /\ Disturb(p)
    /\ UNCHANGED <<file, token, seen, issued, raced>>

Calls(p) == \/ Acquire(p) \/ Open(p) \/ WriteOwner(p) \/ WriteFails(p) \/ ReadOwner(p)
            \/ CheckOwner(p) \/ Compare(p) \/ Unlink(p) \/ Remove(p)

LockNext == \E p \in Pids : Begin(p) \/ Calls(p) \/ Release(p) \/ Die(p)
LockSpec == LockInit /\ [][LockNext]_lockVars
-----------------------------------------------------------------------------
Holders == {p \in Pids : pc[p] \in {"write", "owned", "remove"}}

(* At most one process is past the creation of its file and not yet through *)
(* release, except after a recovery that unlinked another file than the one *)
(* it had compared: "never removes a live or unverifiable owner"            *)
(* (sidecar_lock.py:44) fails in that window and nowhere else, though pids  *)
(* are used again and owners die at any step.                               *)
Exclusion == ~raced => \A p, q \in Holders : p = q

(* A call of acquire that no other process steps into is refused only by an *)
(* owner that is alive or a file that was never completed: two turns of the *)
(* loop are enough for the complete file of a dead owner (:94-113).         *)
LoneCallSucceeds ==
    \A p \in Pids : pc[p] = "free" /\ alone[p] /\ refusal[p] \notin {"none", "disk"} =>
        /\ file # Absent
        /\ refusal[p] = IF file.written THEN "running" ELSE "unreadable"
        /\ refusal[p] = "running" => Alive(file.pid)
=============================================================================
