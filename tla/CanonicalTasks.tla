--------------------------- MODULE CanonicalTasks ---------------------------
(***************************************************************************)
(* The tasks table of the canonical store (canonical_store.py) and what    *)
(* each task and lease method does to it.  A method runs in one SQLite     *)
(* transaction under the store's lock, so it is one step.                  *)
(*                                                                         *)
(* Times are relative: a row keeps the seconds its lease has left instead  *)
(* of the moment it ends, and passing time (Aged) counts them down.        *)
(***************************************************************************)
EXTENDS Integers

CONSTANTS
    Task,           \* task ids
    Life,           \* lease holders: one id per life of a worker process
    Note,           \* the entries of a checkpoint
    Ttl,            \* lease_ttl_seconds
    MaxToken,       \* bound on fencing tokens
    None            \* SQL NULL

ASSUME TtlIsPositive == Ttl \in Nat \ {0}
ASSUME TokenBoundIsPositive == MaxToken \in Nat \ {0}
ASSUME NullIsNothingElse == None \notin Int /\ None \notin Life

-----------------------------------------------------------------------------
(* Types *)

READY == {"PENDING", "RETRYING", "RUNNING", "FAILED_RECOVERABLE"}
SETTLED == {"COMPLETED_LOCAL", "BLOCKED_POLICY"}
Status == READY \cup SETTLED \cup {"QUEUED"}

(* The earliest time that still makes a difference is one second before    *)
(* claim_expired_tasks takes the lease over.                               *)
Left == -(Ttl + 1)..Ttl

Checkpoint == SUBSET Note
Holder == Life \cup {None}

Row == [status       : Status,
        checkpoint   : Checkpoint,
        lease_holder : Holder,
        lease_left   : Left \cup {None},
        fencing_token : Nat \cup {None}]

ASSUME NullIsNoRow == None \notin Row

Table == [Task -> Row \cup {None}]

Rows(table) == {t \in Task : table[t] # None}

-----------------------------------------------------------------------------
(* insert_task_if_absent, upsert_task *)

NewRow(status) ==
    [status |-> status, checkpoint |-> {}, lease_holder |-> None,
     lease_left |-> None, fencing_token |-> None]

(* Variant: a row that exists is replaced. *)
InsertedIfAbsent_Upsert(table, t, status) == [table EXCEPT ![t] = NewRow(status)]

InsertedIfAbsent(table, t, status) ==
    [table EXCEPT ![t] = IF table[t] = None THEN NewRow(status) ELSE table[t]]

(* Variant: the expiry column is left alone. *)
Upserted_ExpiryKept(table, t, status, checkpoint, holder) ==
    [table EXCEPT ![t] = [status |-> status, checkpoint |-> checkpoint,
                          lease_holder |-> holder, lease_left |-> table[t].lease_left,
                          fencing_token |-> None]]

(* Every column is replaced; the expiry and the fencing token, which no    *)
(* caller passes, become NULL.                                             *)
Upserted(table, t, status, checkpoint, holder) ==
    [table EXCEPT ![t] = [status |-> status, checkpoint |-> checkpoint,
                          lease_holder |-> holder, lease_left |-> None,
                          fencing_token |-> None]]

-----------------------------------------------------------------------------
(* acquire_lease, heartbeat, release_lease, claim_expired_tasks *)

(* A lease without an expiry keeps nobody out. *)
MayAcquire(row, me) ==
    row.lease_holder # None /\ row.lease_left # None /\ row.lease_left > 0
        => row.lease_holder = me

(* Tokens from MaxToken on are alike: they are counted and compared with   *)
(* NULL only.                                                              *)
NextToken(row) ==
    IF row.fencing_token = None THEN 1
    ELSE IF row.fencing_token < MaxToken THEN row.fencing_token + 1 ELSE row.fencing_token

Leased(row, me) ==
    [row EXCEPT !.lease_holder = me, !.lease_left = Ttl, !.fencing_token = NextToken(row)]

Acquired(table, t, me) == [table EXCEPT ![t] = Leased(table[t], me)]

Holds(table, t, me) == table[t] # None /\ table[t].lease_holder = me

Heartbeaten(table, t) == [table EXCEPT ![t] = [table[t] EXCEPT !.lease_left = Ttl]]

Released(table, t) ==
    [table EXCEPT ![t] = [table[t] EXCEPT !.lease_holder = None, !.lease_left = None]]

Zombie(row) ==
    row.lease_holder # None /\ row.lease_left # None /\ row.lease_left < -Ttl

(* Adding one to a NULL token raises: the call changes nothing then. *)
ClaimFails(table) == \E t \in Rows(table) : Zombie(table[t]) /\ table[t].fencing_token = None

ExpiredClaimed(table, me) ==
    [t \in Task |->
        IF table[t] # None /\ Zombie(table[t]) THEN Leased(table[t], me) ELSE table[t]]

-----------------------------------------------------------------------------
(* One second passes. *)
Aged(table) ==
    [t \in Task |->
        IF table[t] = None \/ table[t].lease_left = None THEN table[t]
        ELSE [table[t] EXCEPT !.lease_left =
                IF table[t].lease_left > -(Ttl + 1) THEN table[t].lease_left - 1
                ELSE table[t].lease_left]]

(* updated_at orders the rows that list_tasks returns, the last first: an  *)
(* order is the set of pairs <<u, t>> with u written after t.              *)
Touched(order, t) ==
    {p \in order : p[2] # t} \cup {<<t, u>> : u \in Task \ {t}}

Before(order, u, t) == <<u, t>> \in order

(* No two rows are written at one time. *)
Ordered(order, rows) ==
    /\ order \subseteq Task \X Task
    /\ \A t \in Task : ~Before(order, t, t)
    /\ \A t, u, v \in Task : Before(order, t, u) /\ Before(order, u, v) => Before(order, t, v)
    /\ \A t, u \in rows : t # u => Before(order, t, u) \/ Before(order, u, t)

ReadyTasks(table) == {t \in Rows(table) : table[t].status \in READY}

(* t is the first ready task that list_tasks returns. *)
IsFirstReady(table, order, t) ==
    t \in ReadyTasks(table) /\ \A u \in ReadyTasks(table) : ~Before(order, u, t)
=============================================================================
