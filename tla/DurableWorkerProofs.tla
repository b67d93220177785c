------------------------ MODULE DurableWorkerProofs -------------------------
(* Proofs about DurableWorker: what the worker drives it holds, what it    *)
(* finished stays finished, taking over expired tasks cannot fail, and     *)
(* retries have an end, for any tasks, lives, pids and limits.             *)
EXTENDS DurableWorker, TLAPS

-----------------------------------------------------------------------------
(* Rows and tables *)

(* A row that is there is a Row, and Row is not NULL. *)
LEMMA StoredRow ==
    ASSUME NEW tb \in Table, NEW t \in Rows(tb)
    PROVE  tb[t] \in Row
BY DEF Table, Rows

(* Replacing one row by a Row. *)
LEMMA ReplaceRow ==
    ASSUME NEW tb \in Table, NEW t \in Task, NEW r \in Row,
           NEW new, new = [tb EXCEPT ![t] = r]
    PROVE  /\ new \in Table
           /\ new[t] = r
           /\ \A u \in Task \ {t} : new[u] = tb[u]
           /\ Rows(new) = Rows(tb) \cup {t}
BY NullIsNoRow DEF Table, Rows

(* The values a column may start with. *)
LEMMA FieldValues ==
    {} \in Checkpoint /\ None \in Holder /\ \A l \in Life : l \in Holder
BY DEF Checkpoint, Holder

(* A row made of fields of the right types (upsert_task, and insert with   *)
(* an empty checkpoint and no holder).                                     *)
LEMMA FreshRow ==
    ASSUME NEW status \in Status, NEW notes \in Checkpoint, NEW holder \in Holder
    PROVE  [status |-> status, checkpoint |-> notes, lease_holder |-> holder,
            lease_left |-> None, fencing_token |-> None] \in Row
BY DEF Row

(* upsert_task: one row is replaced, and it has no expiry afterwards. *)
LEMMA UpsertedRow ==
    ASSUME NEW tb \in Table, NEW t \in Task, NEW status \in Status,
           NEW notes \in Checkpoint, NEW holder \in Holder,
           NEW new, new = Upserted(tb, t, status, notes, holder)
    PROVE  /\ new \in Table
           /\ new[t].status = status
           /\ new[t].lease_holder = holder
           /\ new[t].lease_left = None
           /\ \A u \in Task \ {t} : new[u] = tb[u]
           /\ Rows(new) = Rows(tb) \cup {t}
<1> DEFINE r == [status |-> status, checkpoint |-> notes, lease_holder |-> holder,
                 lease_left |-> None, fencing_token |-> None]
<1>1. r \in Row
  BY FreshRow
<1>2. r.status = status /\ r.lease_holder = holder /\ r.lease_left = None
  OBVIOUS
<1>3. new = [tb EXCEPT ![t] = r]
  BY DEF Upserted
<1> HIDE DEF r
<1>4. /\ new \in Table
      /\ new[t] = r
      /\ \A u \in Task \ {t} : new[u] = tb[u]
      /\ Rows(new) = Rows(tb) \cup {t}
  BY <1>1, <1>3, ReplaceRow
<1> QED
  BY <1>2, <1>4

(* insert_task_if_absent: no row that is there changes, and a new one has  *)
(* neither holder nor expiry.                                              *)
LEMMA InsertedRow ==
    ASSUME NEW tb \in Table, NEW t \in Task, NEW status \in Status
    PROVE  LET new == InsertedIfAbsent(tb, t, status)
           IN  /\ new \in Table
               /\ Rows(new) = Rows(tb) \cup {t}
               /\ \A u \in Rows(tb) : u \in Rows(new) /\ new[u] = tb[u]
               /\ \A u \in Rows(new) \ Rows(tb) : new[u].lease_left = None
<1>1. NewRow(status) \in Row /\ NewRow(status).lease_left = None
  BY FreshRow, FieldValues DEF NewRow
<1>2. CASE tb[t] = None
  <2> DEFINE new == InsertedIfAbsent(tb, t, status)
  <2>1. new = [tb EXCEPT ![t] = NewRow(status)]
    BY <1>2 DEF InsertedIfAbsent
  <2>2. /\ new \in Table
        /\ new[t] = NewRow(status)
        /\ \A u \in Task \ {t} : new[u] = tb[u]
        /\ Rows(new) = Rows(tb) \cup {t}
    BY <1>1, <2>1, ReplaceRow
  <2>3. t \notin Rows(tb)
    BY <1>2 DEF Rows
  <2>4. Rows(tb) \subseteq Task
    BY DEF Rows
  <2> HIDE DEF new
  <2>5. \A u \in Rows(tb) : u \in Rows(new) /\ new[u] = tb[u]
    BY <2>2, <2>3, <2>4
  <2>6. \A u \in Rows(new) \ Rows(tb) : new[u].lease_left = None
    BY <1>1, <2>2
  <2> QED
    BY <2>2, <2>5, <2>6 DEF new
<1>3. CASE tb[t] # None
  <2>1. InsertedIfAbsent(tb, t, status) = tb
    BY <1>3 DEF InsertedIfAbsent, Table
  <2>2. Rows(tb) = Rows(tb) \cup {t}
    BY <1>3 DEF Rows
  <2> QED
    BY <2>1, <2>2
<1> QED
  BY <1>2, <1>3

(* A lease that is granted has an expiry and a token. *)
LEMMA LeasedRow ==
    ASSUME NEW r \in Row, NEW me \in Life
    PROVE  /\ Leased(r, me) \in Row
           /\ Leased(r, me).status = r.status
           /\ Leased(r, me).lease_holder = me
           /\ Leased(r, me).fencing_token # None
<1>1. NextToken(r) \in Nat
  BY DEF NextToken, Row
<1>2. Ttl \in Left
  BY TtlIsPositive DEF Left
<1>3. Leased(r, me) \in Row
  BY <1>1, <1>2, FieldValues DEF Leased, Row
<1>4. Leased(r, me).status = r.status /\ Leased(r, me).lease_holder = me
  BY DEF Leased, Row
<1>5. Leased(r, me).fencing_token = NextToken(r)
  BY DEF Leased, Row
<1>6. NextToken(r) # None
  BY <1>1, NullIsNothingElse
<1> QED
  BY <1>3, <1>4, <1>5, <1>6

(* acquire_lease changes one row. *)
LEMMA AcquiredRow ==
    ASSUME NEW tb \in Table, NEW t \in Rows(tb), NEW me \in Life
    PROVE  LET new == Acquired(tb, t, me)
           IN  /\ new \in Table
               /\ new[t].status = tb[t].status
               /\ new[t].lease_holder = me
               /\ new[t].fencing_token # None
               /\ \A u \in Task \ {t} : new[u] = tb[u]
               /\ Rows(new) = Rows(tb)
<1>1. t \in Task /\ tb[t] \in Row
  BY StoredRow DEF Rows
<1> QED
  BY <1>1, LeasedRow, ReplaceRow DEF Acquired

(* heartbeat moves the expiry of one row. *)
LEMMA HeartbeatenRow ==
    ASSUME NEW tb \in Table, NEW t \in Rows(tb)
    PROVE  LET new == Heartbeaten(tb, t)
           IN  /\ new \in Table
               /\ new[t].status = tb[t].status
               /\ new[t].lease_holder = tb[t].lease_holder
               /\ new[t].fencing_token = tb[t].fencing_token
               /\ \A u \in Task \ {t} : new[u] = tb[u]
               /\ Rows(new) = Rows(tb)
<1>1. t \in Task /\ tb[t] \in Row
  BY StoredRow DEF Rows
<1>2. Ttl \in Left
  BY TtlIsPositive DEF Left
<1>3. /\ [tb[t] EXCEPT !.lease_left = Ttl] \in Row
      /\ [tb[t] EXCEPT !.lease_left = Ttl].status = tb[t].status
      /\ [tb[t] EXCEPT !.lease_left = Ttl].lease_holder = tb[t].lease_holder
      /\ [tb[t] EXCEPT !.lease_left = Ttl].fencing_token = tb[t].fencing_token
  BY <1>1, <1>2 DEF Row
<1> QED
  BY <1>1, <1>3, ReplaceRow DEF Heartbeaten

(* release_lease clears holder and expiry of one row. *)
LEMMA ReleasedRow ==
    ASSUME NEW tb \in Table, NEW t \in Rows(tb)
    PROVE  LET new == Released(tb, t)
           IN  /\ new \in Table
               /\ new[t].status = tb[t].status
               /\ new[t].lease_left = None
               /\ \A u \in Task \ {t} : new[u] = tb[u]
               /\ Rows(new) = Rows(tb)
<1>1. t \in Task /\ tb[t] \in Row
  BY StoredRow DEF Rows
<1>2. /\ [tb[t] EXCEPT !.lease_holder = None, !.lease_left = None] \in Row
      /\ [tb[t] EXCEPT !.lease_holder = None, !.lease_left = None].status = tb[t].status
      /\ [tb[t] EXCEPT !.lease_holder = None, !.lease_left = None].lease_left = None
  BY <1>1, FieldValues DEF Row
<1> DEFINE r == [tb[t] EXCEPT !.lease_holder = None, !.lease_left = None]
<1> HIDE DEF r
<1>3. r \in Row /\ r.status = tb[t].status /\ r.lease_left = None
  BY <1>2 DEF r
<1>4. Released(tb, t) = [tb EXCEPT ![t] = r]
  BY DEF Released, r
<1>5. Rows(tb) \cup {t} = Rows(tb)
  OBVIOUS
<1> DEFINE new == Released(tb, t)
<1>6. /\ new \in Table
      /\ new[t] = r
      /\ \A u \in Task \ {t} : new[u] = tb[u]
      /\ Rows(new) = Rows(tb) \cup {t}
  BY <1>1, <1>3, <1>4, ReplaceRow
<1> HIDE DEF new
<1> QED
  BY <1>3, <1>5, <1>6 DEF new

(* claim_expired_tasks grants leases and changes no status. *)
LEMMA ClaimedRows ==
    ASSUME NEW tb \in Table, NEW me \in Life
    PROVE  LET new == ExpiredClaimed(tb, me)
           IN  /\ new \in Table
               /\ Rows(new) = Rows(tb)
               /\ \A u \in Rows(tb) :
                    /\ new[u].status = tb[u].status
                    /\ new[u] = tb[u] \/ new[u].fencing_token # None
<1> DEFINE new == ExpiredClaimed(tb, me)
<1>1. ASSUME NEW u \in Rows(tb)
      PROVE  /\ new[u] \in Row
             /\ new[u].status = tb[u].status
             /\ new[u] = tb[u] \/ new[u].fencing_token # None
  <2>1. u \in Task /\ tb[u] \in Row
    BY StoredRow DEF Rows
  <2> QED
    BY <2>1, LeasedRow DEF ExpiredClaimed
<1>2. ASSUME NEW u \in Task \ Rows(tb)
      PROVE  new[u] = None
  BY DEF ExpiredClaimed, Rows
<1>3. new = [u \in Task |-> new[u]]
  BY DEF ExpiredClaimed
<1>4. Rows(new) = Rows(tb)
  BY <1>1, <1>2, NullIsNoRow DEF Rows
<1>5. new \in Table
  BY <1>1, <1>2, <1>3 DEF Table
<1> HIDE DEF new
<1> QED
  BY <1>1, <1>4, <1>5 DEF new

(* Time moves only the expiry, and no row gets one by it. *)
LEMMA AgedRows ==
    ASSUME NEW tb \in Table
    PROVE  LET new == Aged(tb)
           IN  /\ new \in Table
               /\ Rows(new) = Rows(tb)
               /\ \A u \in Rows(tb) :
                    /\ new[u].status = tb[u].status
                    /\ new[u].lease_holder = tb[u].lease_holder
                    /\ new[u].fencing_token = tb[u].fencing_token
                    /\ tb[u].lease_left = None => new[u].lease_left = None
<1> DEFINE new == Aged(tb)
<1>1. ASSUME NEW r \in Row, r.lease_left # None
      PROVE  LET left == IF r.lease_left > -(Ttl + 1) THEN r.lease_left - 1 ELSE r.lease_left
             IN  left \in Left
  <2>1. r.lease_left \in Left
    BY <1>1 DEF Row
  <2> QED
    BY <2>1, TtlIsPositive DEF Left
<1>2. ASSUME NEW r \in Row, NEW left \in Left
      PROVE  /\ [r EXCEPT !.lease_left = left] \in Row
             /\ [r EXCEPT !.lease_left = left].status = r.status
             /\ [r EXCEPT !.lease_left = left].lease_holder = r.lease_holder
             /\ [r EXCEPT !.lease_left = left].fencing_token = r.fencing_token
  BY DEF Row
<1>3. ASSUME NEW u \in Rows(tb)
      PROVE  /\ new[u] \in Row
             /\ new[u].status = tb[u].status
             /\ new[u].lease_holder = tb[u].lease_holder
             /\ new[u].fencing_token = tb[u].fencing_token
             /\ tb[u].lease_left = None => new[u].lease_left = None
  <2>1. u \in Task /\ tb[u] \in Row /\ tb[u] # None
    BY StoredRow DEF Rows
  <2>2. CASE tb[u].lease_left = None
    <3>1. new[u] = tb[u]
      BY <2>1, <2>2 DEF Aged
    <3> QED
      BY <2>1, <2>2, <3>1
  <2>3. CASE tb[u].lease_left # None
    <3>1. new[u] = [tb[u] EXCEPT !.lease_left =
                      IF tb[u].lease_left > -(Ttl + 1) THEN tb[u].lease_left - 1
                      ELSE tb[u].lease_left]
      BY <2>1, <2>3 DEF Aged
    <3> QED
      BY <1>1, <1>2, <2>1, <2>3, <3>1
  <2> QED
    BY <2>2, <2>3
<1>4. ASSUME NEW u \in Task \ Rows(tb)
      PROVE  new[u] = None
  BY DEF Aged, Rows
<1>5. new = [u \in Task |-> new[u]]
  BY DEF Aged
<1>6. Rows(new) = Rows(tb)
  BY <1>3, <1>4, NullIsNoRow DEF Rows
<1>7. new \in Table
  BY <1>3, <1>4, <1>5 DEF Table
<1> HIDE DEF new
<1> QED
  BY <1>3, <1>6, <1>7 DEF new
-----------------------------------------------------------------------------
(* The inductive invariant *)

(* The parts of the state the proofs look at have their types; a worker    *)
(* that is up has a number among the lives.                                *)
Types ==
    /\ table \in Table
    /\ life \in Nat
    /\ pc # "down" => life \in Life
    /\ copy \in Checkpoint /\ checkpoint \in Checkpoint

(* From the choice of a task to the release of its lease the task is there. *)
HasJob == Driving \/ pc \in {"acquire", "release"} => job \in Rows(table)

(* Until its outcome is written, the task is one that may be driven. *)
InWork == Driving \/ pc = "acquire" => table[job].status \in READY

(* The heartbeat, which sets an expiry only, finds the token of the lease. *)
TokenAtBeat == pc = "beat" => table[job].fencing_token # None

WorkerInv ==
    Types /\ HasJob /\ HeldWhileDriven /\ InWork /\ TokenAtBeat /\ ReclaimCannotFail

(* The invariant holds in an empty table with no worker. *)
LEMMA WorkerInit == Init => WorkerInv
BY FieldValues DEF Init, WorkerInv, Types, HasJob, HeldWhileDriven, Driving, InWork, TokenAtBeat,
       ReclaimCannotFail, Table, Rows

(* Steps that leave the table alone and go on with the same task, or give  *)
(* it up, keep the invariant.                                              *)
LEMMA TableKept ==
    ASSUME WorkerInv,
           UNCHANGED <<table, life>>,
           copy' \in Checkpoint /\ checkpoint' \in Checkpoint,
           pc # "down",
           \/ pc' \in {"down", "reclaim", "pick"}
           \/ Driving /\ UNCHANGED job /\ pc' \in {"mark", "plan", "execute", "free", "complete", "fail", "release"}
    PROVE  WorkerInv'
BY DEF WorkerInv, Types, HasJob, HeldWhileDriven, Holds, Driving, InWork, TokenAtBeat,
       ReclaimCannotFail, Rows

(* Start and crash of the process. *)
LEMMA ProcessSteps ==
    ASSUME WorkerInv, (\E p \in Pid : Start(p)) \/ Crash
    PROVE  WorkerInv'
<1>1. ASSUME NEW p \in Pid, Start(p) PROVE WorkerInv'
  BY <1>1, LivesAreNumbered, FieldValues
  DEF Start, GiveUpTick, Goto, WorkerInv, Types, HasJob, HeldWhileDriven, Driving, InWork,
      TokenAtBeat, ReclaimCannotFail, Rows
<1>2. CASE Crash
  BY <1>2, TableKept DEF Crash, Goto, memory, WorkerInv, Types
<1> QED
  BY <1>1, <1>2

(* run_once up to the mark. *)
LEMMA PickSteps ==
    ASSUME WorkerInv, Reclaim \/ Pick \/ Acquire \/ Beat \/ Mark
    PROVE  WorkerInv'
<1> USE DEF Goto
<1>1. CASE Reclaim
  <2>1. table \in Table /\ life \in Life
    BY <1>1 DEF Reclaim, WorkerInv, Types
  <2>2. CASE ClaimFails(table)
    BY <1>1, <2>2, TableKept DEF Reclaim, memory, WorkerInv, Types
  <2>3. CASE ~ClaimFails(table)
    <3>1. /\ table' \in Table
          /\ Rows(table') = Rows(table)
          /\ \A u \in Rows(table) : table'[u] = table[u] \/ table'[u].fencing_token # None
      BY <1>1, <2>1, <2>3, ClaimedRows DEF Reclaim
    <3> QED
      BY <1>1, <2>3, <3>1
      DEF Reclaim, memory, WorkerInv, Types, HasJob, HeldWhileDriven, Driving, InWork,
          TokenAtBeat, ReclaimCannotFail
  <2> QED
    BY <2>2, <2>3
<1>2. CASE Pick
  <2>1. CASE ReadyTasks(table) = {} /\ pc' = "reclaim" /\ UNCHANGED <<job, copy, checkpoint>>
    BY <1>2, <2>1, TableKept DEF Pick, WorkerInv, Types
  <2>2. ASSUME NEW t \in Task, IsFirstReady(table, order, t), job' = t,
               copy' = table[t].checkpoint, checkpoint' = table[t].checkpoint, pc' = "acquire"
        PROVE  WorkerInv'
    <3>1. t \in Rows(table) /\ table[t].status \in READY
      BY <2>2 DEF IsFirstReady, ReadyTasks
    <3>2. table[t].checkpoint \in Checkpoint
      BY <3>1, StoredRow DEF WorkerInv, Types, Row
    <3>3. UNCHANGED <<table, life>> /\ pc = "pick"
      BY <1>2 DEF Pick
    <3> QED
      BY <2>2, <3>1, <3>2, <3>3
      DEF WorkerInv, Types, HasJob, HeldWhileDriven, Driving, InWork, TokenAtBeat,
          ReclaimCannotFail, Rows
  <2> QED
    BY <1>2, <2>1, <2>2 DEF Pick
<1>3. CASE Acquire
  <2>1. table \in Table /\ life \in Life /\ job \in Rows(table) /\ table[job].status \in READY
    BY <1>3 DEF Acquire, WorkerInv, Types, HasJob, InWork
  <2>2. CASE MayAcquire(table[job], life)
    <3>1. /\ table' \in Table
          /\ table'[job].status = table[job].status
          /\ table'[job].lease_holder = life
          /\ table'[job].fencing_token # None
          /\ \A u \in Task \ {job} : table'[u] = table[u]
          /\ Rows(table') = Rows(table)
      BY <1>3, <2>1, <2>2, AcquiredRow DEF Acquire
    <3>2. UNCHANGED <<life, job, copy, checkpoint>> /\ pc = "acquire" /\ pc' = "beat"
      BY <1>3, <2>2 DEF Acquire
    <3> QED
      BY <2>1, <3>1, <3>2
      DEF WorkerInv, Types, HasJob, HeldWhileDriven, Holds, Driving, InWork, TokenAtBeat,
          ReclaimCannotFail, Rows
  <2>3. CASE ~MayAcquire(table[job], life)
    BY <1>3, <2>3, TableKept, FieldValues DEF Acquire, GiveUpTick, WorkerInv, Types
  <2> QED
    BY <2>2, <2>3
<1>4. CASE Beat
  <2>1. /\ table \in Table /\ life \in Life /\ job \in Rows(table) /\ table[job].status \in READY
        /\ Holds(table, job, life) /\ table[job].fencing_token # None
    BY <1>4 DEF Beat, WorkerInv, Types, HasJob, InWork, HeldWhileDriven, Driving, TokenAtBeat
  <2>2. /\ table' \in Table
        /\ table'[job].status = table[job].status
        /\ table'[job].lease_holder = table[job].lease_holder
        /\ table'[job].fencing_token = table[job].fencing_token
        /\ \A u \in Task \ {job} : table'[u] = table[u]
        /\ Rows(table') = Rows(table)
    BY <1>4, <2>1, HeartbeatenRow DEF Beat
  <2>3. UNCHANGED <<life, job, copy, checkpoint>> /\ pc = "beat" /\ pc' = "mark"
    BY <1>4 DEF Beat, memory
  <2> QED
    BY <2>1, <2>2, <2>3
    DEF WorkerInv, Types, HasJob, HeldWhileDriven, Holds, Driving, InWork, TokenAtBeat,
        ReclaimCannotFail, Rows
<1>5. CASE Mark
  <2>1. table \in Table /\ life \in Life /\ job \in Rows(table) /\ checkpoint \in Checkpoint
    BY <1>5 DEF Mark, WorkerInv, Types, HasJob, Driving
  <2>2. checkpoint' \in Checkpoint /\ copy' \in Checkpoint
    BY <1>5, <2>1, NotesAreKnown DEF Mark, Checkpoint, WorkerInv, Types
  <2>3. "RUNNING" \in Status /\ "RUNNING" \in READY /\ job \in Task
    BY <2>1 DEF Status, READY, Rows
  <2>4. PICK running \in Status, notes \in Checkpoint :
            running = "RUNNING" /\ table' = Upserted(table, job, running, notes, life)
    BY <1>5, <2>2, <2>3 DEF Mark
  <2>5. /\ table' \in Table
        /\ table'[job].status = running
        /\ table'[job].lease_holder = life
        /\ table'[job].lease_left = None
        /\ \A u \in Task \ {job} : table'[u] = table[u]
        /\ Rows(table') = Rows(table) \cup {job}
    BY <2>1, <2>3, <2>4, UpsertedRow, FieldValues
  <2>6. UNCHANGED <<life, job>> /\ pc = "mark" /\ pc' = "plan"
    BY <1>5 DEF Mark
  <2>7. Rows(table') = Rows(table) /\ job \in Rows(table')
    BY <2>1, <2>5
  <2>8. Types'
    BY <2>1, <2>2, <2>5, <2>6 DEF WorkerInv, Types
  <2>9. HeldWhileDriven' /\ HasJob' /\ InWork'
    BY <2>3, <2>5, <2>6, <2>7, <2>4 DEF HasJob, InWork, HeldWhileDriven, Holds, Rows
  <2>10. ReclaimCannotFail'
    BY <2>5, <2>7 DEF WorkerInv, ReclaimCannotFail, Rows
  <2> QED
    BY <2>6, <2>8, <2>9, <2>10 DEF WorkerInv, TokenAtBeat
<1> QED
  BY <1>1, <1>2, <1>3, <1>4, <1>5

(* The handler, and calls of the store that fail. *)
LEMMA HandlerSteps ==
    ASSUME WorkerInv,
           \/ \E verdict \in Verdict : Plan(verdict)
           \/ \E raised \in Raised : Execute(raised)
           \/ Free
           \/ StoreFails
    PROVE  WorkerInv'
<1> USE DEF Goto
<1>1. ASSUME NEW verdict \in Verdict, Plan(verdict) PROVE WorkerInv'
  BY <1>1, TableKept DEF Plan, Raise, Driving, WorkerInv, Types
<1>2. ASSUME NEW raised \in Raised, Execute(raised) PROVE WorkerInv'
  <2>1. copy' \in Checkpoint /\ checkpoint' \in Checkpoint
    BY <1>2, NotesAreKnown DEF Execute, Checkpoint, WorkerInv, Types
  <2> QED
    BY <1>2, <2>1, TableKept DEF Execute, Driving
<1>3. CASE Free
  BY <1>3, TableKept DEF Free, memory, Driving, WorkerInv, Types
<1>4. CASE StoreFails
  BY <1>4, TableKept, FieldValues DEF StoreFails, Raise, GiveUpTick, Driving, WorkerInv, Types
<1> QED
  BY <1>1, <1>2, <1>3, <1>4

(* The outcome is written and the lease released. *)
LEMMA OutcomeSteps ==
    ASSUME WorkerInv, Complete \/ Fail \/ Release
    PROVE  WorkerInv'
<1> USE DEF Goto
<1>1. ASSUME Complete \/ Fail PROVE WorkerInv'
  <2>1. /\ table \in Table /\ job \in Rows(table) /\ checkpoint \in Checkpoint
        /\ job \in Task /\ pc # "down" /\ life \in Life /\ copy \in Checkpoint
    BY <1>1 DEF Complete, Fail, WorkerInv, Types, HasJob, Driving, Rows
  <2>2. PICK status \in Status : table' = Upserted(table, job, status, checkpoint, None)
    BY <1>1 DEF Complete, Fail, Status, READY, SETTLED
  <2>3. /\ table' \in Table
        /\ table'[job].lease_left = None
        /\ \A u \in Task \ {job} : table'[u] = table[u]
        /\ Rows(table') = Rows(table) \cup {job}
    BY <2>1, <2>2, UpsertedRow, FieldValues
  <2>4. UNCHANGED <<life, job, copy, checkpoint>> /\ pc' = "release"
    BY <1>1 DEF Complete, Fail, memory
  <2>5. Rows(table') = Rows(table)
    BY <2>1, <2>3
  <2>6. ReclaimCannotFail'
    BY <2>3, <2>5 DEF WorkerInv, ReclaimCannotFail, Rows
  <2> QED
    BY <2>1, <2>3, <2>4, <2>5, <2>6
    DEF WorkerInv, Types, HasJob, HeldWhileDriven, Driving, InWork, TokenAtBeat
<1>2. CASE Release
  <2>1. /\ table \in Table /\ job \in Rows(table)
        /\ pc = "release" /\ pc' = "reclaim" /\ life \in Life /\ UNCHANGED life
        /\ copy' = {} /\ checkpoint' = {}
    BY <1>2 DEF Release, GiveUpTick, WorkerInv, Types, HasJob
  <2>2. CASE table' = table
    BY <2>1, <2>2, TableKept, FieldValues
  <2>3. CASE table' = Released(table, job)
    <3>1. /\ table' \in Table
          /\ table'[job].lease_left = None
          /\ \A u \in Task \ {job} : table'[u] = table[u]
          /\ Rows(table') = Rows(table)
      BY <2>1, <2>3, ReleasedRow
    <3>2. ReclaimCannotFail'
      BY <3>1 DEF WorkerInv, ReclaimCannotFail, Rows
    <3> QED
      BY <2>1, <3>1, <3>2, FieldValues
      DEF WorkerInv, Types, HasJob, HeldWhileDriven, Driving, InWork, TokenAtBeat
  <2> QED
    BY <1>2, <2>2, <2>3 DEF Release
<1> QED
  BY <1>1, <1>2

(* Other processes create tasks, and time passes. *)
LEMMA OutsideSteps ==
    ASSUME WorkerInv,
           (\E t \in Task, status \in {"PENDING", "QUEUED"} : Insert(t, status)) \/ Tick
    PROVE  WorkerInv'
<1>1. ASSUME NEW t \in Task, NEW status \in {"PENDING", "QUEUED"}, Insert(t, status)
      PROVE  WorkerInv'
  <2>1. status \in Status
    BY DEF Status, READY
  <2>2. /\ table' \in Table
        /\ \A u \in Rows(table) : u \in Rows(table') /\ table'[u] = table[u]
        /\ \A u \in Rows(table') \ Rows(table) : table'[u].lease_left = None
    BY <1>1, <2>1, InsertedRow DEF Insert, WorkerInv, Types
  <2>3. UNCHANGED <<life, pc, job, copy, checkpoint>>
    BY <1>1 DEF Insert, memory
  <2>4. ReclaimCannotFail'
    BY <2>2 DEF WorkerInv, ReclaimCannotFail
  <2>5. HasJob' /\ HeldWhileDriven' /\ InWork' /\ TokenAtBeat'
    BY <2>2, <2>3
    DEF WorkerInv, HasJob, HeldWhileDriven, Holds, Driving, InWork, TokenAtBeat, Rows
  <2> QED
    BY <2>2, <2>3, <2>4, <2>5 DEF WorkerInv, Types
<1>2. CASE Tick
  <2>1. /\ table' \in Table
        /\ Rows(table') = Rows(table)
        /\ \A u \in Rows(table) :
             /\ table'[u].status = table[u].status
             /\ table'[u].lease_holder = table[u].lease_holder
             /\ table'[u].fencing_token = table[u].fencing_token
             /\ table[u].lease_left = None => table'[u].lease_left = None
    BY <1>2, AgedRows DEF Tick, WorkerInv, Types
  <2>2. UNCHANGED <<life, pc, job, copy, checkpoint>>
    BY <1>2 DEF Tick, memory
  <2>3. ReclaimCannotFail'
    BY <2>1 DEF WorkerInv, ReclaimCannotFail
  <2>4. HasJob' /\ HeldWhileDriven' /\ InWork' /\ TokenAtBeat'
    BY <2>1, <2>2
    DEF WorkerInv, HasJob, HeldWhileDriven, Holds, Driving, InWork, TokenAtBeat, Rows
  <2> QED
    BY <2>1, <2>2, <2>3, <2>4 DEF WorkerInv, Types
<1> QED
  BY <1>1, <1>2

(* WorkerInv is inductive. *)
LEMMA WorkerStep == WorkerInv /\ [Next]_vars => WorkerInv'
<1> SUFFICES ASSUME WorkerInv, [Next]_vars
             PROVE  WorkerInv'
  OBVIOUS
<1>1. CASE UNCHANGED vars
  BY <1>1
  DEF vars, memory, WorkerInv, Types, HasJob, HeldWhileDriven, Holds, Driving, InWork,
      TokenAtBeat, ReclaimCannotFail, Rows
<1>2. CASE Next
  BY <1>2, ProcessSteps, PickSteps, HandlerSteps, OutcomeSteps, OutsideSteps DEF Next, Work
<1> QED
  BY <1>1, <1>2

-----------------------------------------------------------------------------
(* The theorems *)

(* The strengthened invariant holds in every reachable state. *)
LEMMA WorkerInvariant == Spec => []WorkerInv
BY WorkerInit, WorkerStep, PTL DEF Spec

(* While the worker drives a task, the row names it as the holder.         *)
THEOREM DrivenIsHeld == Spec => []HeldWhileDriven
<1>1. WorkerInv => HeldWhileDriven
  BY DEF WorkerInv
<1> QED
  BY <1>1, WorkerInvariant, PTL

(* claim_expired_tasks never meets a row it would fail on.                 *)
THEOREM ReclaimWorks == Spec => []ReclaimCannotFail
<1>1. WorkerInv => ReclaimCannotFail
  BY DEF WorkerInv
<1> QED
  BY <1>1, WorkerInvariant, PTL

(* No step changes the status of a task that is settled, or removes it:    *)
(* only the task being driven gets another status, and that one is not     *)
(* settled.                                                                *)
LEMMA SettledStep ==
    ASSUME WorkerInv, [Next]_vars, NEW t \in Settled
    PROVE  t \in Rows(table') /\ table'[t].status = table[t].status
<1>1. t \in Rows(table) /\ t \in Task /\ table \in Table /\ table[t].status \notin READY
  BY DEF Settled, Rows, SETTLED, READY, WorkerInv, Types
<1>2. CASE UNCHANGED table
  BY <1>1, <1>2
<1>3. CASE Reclaim
  <2>1. life \in Life
    BY <1>3 DEF Reclaim, WorkerInv, Types
  <2> QED
    BY <1>1, <1>3, <2>1, ClaimedRows DEF Reclaim
<1>4. CASE Acquire \/ Beat
  <2>1. job \in Rows(table) /\ t # job /\ life \in Life
    BY <1>1, <1>4 DEF Acquire, Beat, WorkerInv, Types, HasJob, InWork, Driving
  <2>2. table' \in {table, Acquired(table, job, life), Heartbeaten(table, job)}
    BY <1>4 DEF Acquire, Beat
  <2> QED
    BY <1>1, <2>1, <2>2, AcquiredRow, HeartbeatenRow
<1>5. CASE Mark \/ Complete \/ Fail
  <2>1. job \in Rows(table) /\ t # job
    BY <1>1, <1>5 DEF Mark, Complete, Fail, WorkerInv, HasJob, InWork, Driving
  <2>2. \E r : table' = [table EXCEPT ![job] = r]
    BY <1>5 DEF Mark, Complete, Fail, Upserted
  <2> QED
    BY <1>1, <2>1, <2>2 DEF Table, Rows
<1>6. CASE Release
  <2>1. job \in Rows(table)
    BY <1>6 DEF Release, WorkerInv, HasJob
  <2>2. table' \in {table, Released(table, job)}
    BY <1>6 DEF Release
  <2> QED
    BY <1>1, <2>1, <2>2, ReleasedRow
<1>7. ASSUME NEW u \in Task, NEW status \in {"PENDING", "QUEUED"}, Insert(u, status)
      PROVE  t \in Rows(table') /\ table'[t].status = table[t].status
  <2>1. status \in Status
    BY DEF Status, READY
  <2> QED
    BY <1>1, <1>7, <2>1, InsertedRow DEF Insert
<1>8. CASE Tick
  BY <1>1, <1>8, AgedRows DEF Tick
<1>9. CASE \/ UNCHANGED vars \/ Pick \/ \E verdict \in Verdict : Plan(verdict)
           \/ \E raised \in Raised : Execute(raised)
           \/ Free \/ StoreFails \/ (\E p \in Pid : Start(p)) \/ Crash
  BY <1>2, <1>9 DEF vars, Pick, Plan, Execute, Free, StoreFails, Start, Crash
<1> QED
  BY <1>3, <1>4, <1>5, <1>6, <1>7, <1>8, <1>9 DEF Next, Work

(* A task that was completed or blocked keeps its status for good.         *)
THEOREM SettledForGood == Spec => SettledStays
<1>1. WorkerInv /\ [Next]_vars => [\A t \in Settled : table'[t].status = table[t].status]_vars
  BY SettledStep
<1> QED
  BY <1>1, WorkerInvariant, PTL DEF Spec, SettledStays

-----------------------------------------------------------------------------
(* The machine resource *)

(* Tokens come from lives that have begun. *)
TokensAreOld == life \in Nat /\ (resource # None => resource.token \in Nat /\ resource.token <= life)

(* ResourceIsFreed is inductive together with TokensAreOld. *)
LEMMA ResourceStep ==
    TokensAreOld /\ ResourceIsFreed /\ [Next]_vars => TokensAreOld' /\ ResourceIsFreed'
<1> SUFFICES ASSUME TokensAreOld, ResourceIsFreed, [Next]_vars
             PROVE  TokensAreOld' /\ ResourceIsFreed'
  OBVIOUS
<1> USE DEF TokensAreOld, ResourceIsFreed, Goto
<1>1. ASSUME NEW p \in Pid, Start(p) PROVE TokensAreOld' /\ ResourceIsFreed'
  BY <1>1 DEF Start
<1>2. CASE Crash
  BY <1>2 DEF Crash
<1>3. ASSUME NEW verdict \in Verdict, Plan(verdict) PROVE TokensAreOld' /\ ResourceIsFreed'
  <2>1. pc = "plan" /\ UNCHANGED life
    BY <1>3 DEF Plan
  <2>2. CASE UNCHANGED resource
    BY <2>1, <2>2
  <2>3. CASE resource' = [pid |-> pid, token |-> life] /\ pc' = "execute"
    BY <2>1, <2>3
  <2> QED
    BY <1>3, <2>2, <2>3 DEF Plan
<1>4. ASSUME NEW raised \in Raised, Execute(raised)
      PROVE  TokensAreOld' /\ ResourceIsFreed'
  BY <1>4 DEF Execute
<1>5. CASE Free
  BY <1>5 DEF Free
<1>6. CASE UNCHANGED <<resource, life>> /\ (pc \in {"execute", "free", "down"} => pc' = pc)
  BY <1>6
<1>7. CASE \/ UNCHANGED vars \/ Reclaim \/ Pick \/ Acquire \/ Beat \/ Mark
           \/ Complete \/ Fail \/ Release \/ StoreFails \/ Tick
           \/ \E t \in Task, status \in {"PENDING", "QUEUED"} : Insert(t, status)
  BY <1>6, <1>7
  DEF vars, Reclaim, Pick, Acquire, Beat, Mark, Complete, Fail, Release, StoreFails, Raise,
      GiveUpTick, Tick, Insert
<1> QED
  BY <1>1, <1>2, <1>3, <1>4, <1>5, <1>7 DEF Next, Work

(* A worker never keeps the resource after its executor, nor takes a dead  *)
(* worker's lease for its own.                                             *)
THEOREM ResourceComesBack == Spec => []ResourceIsFreed
<1>1. Init => TokensAreOld /\ ResourceIsFreed
  BY DEF Init, TokensAreOld, ResourceIsFreed
<1> QED
  BY <1>1, ResourceStep, PTL DEF Spec
-----------------------------------------------------------------------------
(* The order of the rows *)

(* What comes before what after a row was written. *)
LEMMA BeforeTouched ==
    ASSUME NEW order_, order_ \subseteq Task \X Task, NEW t \in Task
    PROVE  /\ Touched(order_, t) \subseteq Task \X Task
           /\ \A u, v \in Task :
                Before(Touched(order_, t), u, v) <=>
                    v # t /\ (u = t \/ Before(order_, u, v))
<1>1. Touched(order_, t) \subseteq Task \X Task
  BY DEF Touched
<1>2. ASSUME NEW u \in Task, NEW v \in Task
      PROVE  <<u, v>> \in Touched(order_, t) <=> v # t /\ (u = t \/ <<u, v>> \in order_)
  BY DEF Touched
<1> QED
  BY <1>1, <1>2 DEF Before

(* Writing a row puts it in front, among the rows there are with it. *)
LEMMA TouchedOrdered ==
    ASSUME NEW order_, NEW rows, rows \subseteq Task, Ordered(order_, rows), NEW t \in Task
    PROVE  Ordered(Touched(order_, t), rows \cup {t})
<1> DEFINE new == Touched(order_, t)
<1>1. order_ \subseteq Task \X Task
  BY DEF Ordered
<1>2. new \subseteq Task \X Task
  BY <1>1, BeforeTouched
<1>3. \A u, v \in Task : Before(new, u, v) <=> v # t /\ (u = t \/ Before(order_, u, v))
  BY <1>1, BeforeTouched
<1> HIDE DEF new
<1>4. \A u \in Task : ~Before(new, u, u)
  BY <1>3 DEF Ordered
<1>5. \A u, v, w \in Task : Before(new, u, v) /\ Before(new, v, w) => Before(new, u, w)
  BY <1>3 DEF Ordered
<1>6. \A u, v \in rows \cup {t} : u # v => Before(new, u, v) \/ Before(new, v, u)
  BY <1>3 DEF Ordered
<1>7. Ordered(new, rows \cup {t})
  BY <1>2, <1>4, <1>5, <1>6 DEF Ordered
<1> QED
  BY <1>7 DEF new

-----------------------------------------------------------------------------
(* Retries *)

(* A failure that could not be written does not settle its task, and is    *)
(* counted: the limit is passed by as many as there were of those, and by  *)
(* the failure that settles the task.                                      *)
RetriesEnd ==
    \A t \in Task, c \in Cause :
        \/ retries[t][c] <= MAX_RETRIES_PER_FINGERPRINT + faults
        \/ t \in Settled /\ retries[t][c] <= MAX_RETRIES_PER_FINGERPRINT + 1 + faults

(* What the worker keeps in memory, and the resource. *)
Memory ==
    /\ resource \in [pid : Pid, token : Life] \cup {None}
    /\ life \in Life \cup {0}
    /\ pid \in Pid \cup {None}
    /\ pc # "down" => pid \in Pid
    /\ pc \in Steps
    /\ job \in Task \cup {None}
    /\ failure \in Failure \cup {None}
    /\ pc = "fail" => failure \in Failure
    /\ faults \in 0..MaxFaults
    /\ retries \in [Task -> [Cause -> Nat]]

(* One more failure of one cause. *)
LEMMA CountedOnce ==
    ASSUME NEW counts \in [Task -> [Cause -> Nat]], NEW t \in Task, NEW c \in Cause,
           NEW new, new = [counts EXCEPT ![t][c] = @ + 1]
    PROVE  /\ new \in [Task -> [Cause -> Nat]]
           /\ new[t][c] = counts[t][c] + 1
           /\ \A u \in Task, d \in Cause : u # t \/ d # c => new[u][d] = counts[u][d]
<1>1. new = [counts EXCEPT ![t] = [counts[t] EXCEPT ![c] = counts[t][c] + 1]]
  OBVIOUS
<1>2. counts[t] \in [Cause -> Nat]
  OBVIOUS
<1>3. [counts[t] EXCEPT ![c] = counts[t][c] + 1] \in [Cause -> Nat]
  BY <1>2
<1> QED
  BY <1>1, <1>2, <1>3

(* What was settled stays settled. *)
LEMMA SettledGrow ==
    ASSUME WorkerInv, [Next]_vars, NEW t \in Settled
    PROVE  t \in Settled'
<1>1. t \in Rows(table') /\ table'[t].status = table[t].status
  BY SettledStep
<1>2. table[t].status \in SETTLED
  BY DEF Settled
<1> QED
  BY <1>1, <1>2 DEF Settled

(* The order stays one of all rows: whoever writes a row, but for          *)
(* claim_expired_tasks, writes the time.                                   *)
LEMMA OrderStep ==
    ASSUME WorkerInv, [Next]_vars, Ordered(order, Rows(table))
    PROVE  Ordered(order', Rows(table'))
<1> DEFINE OneRow(t) == /\ t \in Task
                        /\ order' = Touched(order, t)
                        /\ Rows(table') = Rows(table) \cup {t}
<1>1. ASSUME NEW t, OneRow(t) PROVE Ordered(order', Rows(table'))
  BY <1>1, TouchedOrdered DEF Rows
<1>2. CASE order' = order /\ Rows(table') = Rows(table)
  BY <1>2
<1>3. table \in Table
  BY DEF WorkerInv, Types
<1>4. CASE UNCHANGED <<table, order>>
  BY <1>2, <1>4
<1>5. CASE Reclaim
  <2>1. life \in Life
    BY <1>5 DEF Reclaim, WorkerInv, Types
  <2> QED
    BY <1>2, <1>3, <1>5, <2>1, ClaimedRows DEF Reclaim
<1>6. CASE Acquire \/ Beat \/ Release
  <2>1. job \in Rows(table) /\ life \in Life /\ job \in Task
    BY <1>6 DEF Acquire, Beat, Release, WorkerInv, Types, HasJob, Driving, Rows
  <2>2. CASE UNCHANGED <<table, order>>
    BY <1>4, <2>2
  <2>3. CASE /\ table' \in {Acquired(table, job, life), Heartbeaten(table, job), Released(table, job)}
             /\ order' = Touched(order, job)
    <3>1. Rows(table') = Rows(table)
      BY <1>3, <2>1, <2>3, AcquiredRow, HeartbeatenRow, ReleasedRow
    <3> QED
      BY <1>1, <2>1, <2>3, <3>1
  <2> QED
    BY <1>6, <2>2, <2>3 DEF Acquire, Beat, Release
<1>7. CASE Mark \/ Complete \/ Fail
  <2>1. job \in Rows(table) /\ job \in Task
    BY <1>7 DEF Mark, Complete, Fail, WorkerInv, HasJob, Driving, Rows
  <2>2. PICK status \in Status, notes \in Checkpoint, holder \in Holder :
            table' = Upserted(table, job, status, notes, holder)
    <3>1. CASE Mark
      <4>1. checkpoint' \in Checkpoint
        BY <3>1, NotesAreKnown DEF Mark, Checkpoint, WorkerInv, Types
      <4>2. life \in Holder /\ "RUNNING" \in Status
        BY <3>1, FieldValues DEF Mark, WorkerInv, Types, Status, READY
      <4> QED
        BY <3>1, <4>1, <4>2 DEF Mark
    <3>2. CASE Complete \/ Fail
      BY <3>2, FieldValues DEF Complete, Fail, Status, READY, SETTLED, WorkerInv, Types
    <3> QED
      BY <1>7, <3>1, <3>2
  <2>4. Rows(table') = Rows(table) \cup {job}
    BY <1>3, <2>1, <2>2, UpsertedRow
  <2>5. order' = Touched(order, job)
    BY <1>7 DEF Mark, Complete, Fail
  <2> QED
    BY <1>1, <2>1, <2>4, <2>5
<1>8. ASSUME NEW t \in Task, NEW status \in {"PENDING", "QUEUED"}, Insert(t, status)
      PROVE  Ordered(order', Rows(table'))
  <2>1. Rows(table') = Rows(table) \cup {t}
    <3>1. status \in Status
      BY DEF Status, READY
    <3> QED
      BY <1>3, <1>8, <3>1, InsertedRow DEF Insert
  <2>2. CASE t \in Rows(table)
    BY <1>2, <1>8, <2>1, <2>2 DEF Insert
  <2>3. CASE t \notin Rows(table)
    BY <1>1, <1>8, <2>1, <2>3 DEF Insert
  <2> QED
    BY <2>2, <2>3
<1>9. CASE Tick
  BY <1>2, <1>3, <1>9, AgedRows DEF Tick
<1>10. CASE \/ UNCHANGED vars \/ Pick \/ \E verdict \in Verdict : Plan(verdict)
            \/ \E raised \in Raised : Execute(raised)
            \/ Free \/ StoreFails \/ (\E p \in Pid : Start(p)) \/ Crash
  BY <1>4, <1>10 DEF vars, Pick, Plan, Execute, Free, StoreFails, Start, Crash
<1> QED
  BY <1>5, <1>6, <1>7, <1>8, <1>9, <1>10 DEF Next, Work

(* Memory and the resource keep their types. *)
LEMMA MemoryStep ==
    ASSUME WorkerInv, Memory, [Next]_vars
    PROVE  Memory'
<1> USE DEF Memory, Goto
<1>1. CASE UNCHANGED <<resource, life, pid, pc, memory, faults>>
  BY <1>1 DEF memory
<1>2. ASSUME NEW p \in Pid, Start(p) PROVE Memory'
  BY <1>2 DEF Start, GiveUpTick, NoCounts, Steps
<1>3. CASE Crash
  BY <1>3 DEF Crash, memory, Steps
<1>4. CASE Reclaim \/ Pick \/ Acquire \/ Beat \/ Mark \/ Complete \/ Release
  BY <1>4 DEF Reclaim, Pick, Acquire, Beat, Mark, Complete, Release, GiveUpTick, memory, Steps
<1>5. ASSUME NEW verdict \in Verdict, Plan(verdict) PROVE Memory'
  <2>1. life \in Life /\ pid \in Pid
    BY <1>5 DEF Plan, WorkerInv, Types
  <2>2. resource' = resource \/ resource' = [pid |-> pid, token |-> life]
    BY <1>5 DEF Plan
  <2>3. resource' \in [pid : Pid, token : Life] \cup {None}
    BY <2>1, <2>2
  <2>4. pc' \in {"fail", "complete", "execute"} /\ (pc' = "fail" => failure' \in Failure)
    BY <1>5 DEF Plan, Raise, Failure, Cause
  <2>5. failure' \in Failure \cup {None}
    BY <1>5 DEF Plan, Raise, Failure, Cause
  <2> QED
    BY <1>5, <2>1, <2>3, <2>4, <2>5 DEF Plan, Steps
<1>6. ASSUME NEW raised \in Raised, Execute(raised) PROVE Memory'
  BY <1>6 DEF Execute, Raised, Failure, Cause, Steps
<1>7. CASE Free
  BY <1>7 DEF Free, memory, Steps
<1>8. CASE Fail
  <2>1. job \in Task
    BY <1>8 DEF Fail, WorkerInv, HasJob, Driving, Rows
  <2>2. retries' \in [Task -> [Cause -> Nat]]
    <3>1. retries' = Counted(failure)
      BY <1>8 DEF Fail
    <3> QED
      BY <2>1, <3>1, CountedOnce DEF Counted
  <2> QED
    BY <1>8, <2>1, <2>2 DEF Fail, Steps
<1>9. CASE StoreFails
  <2>1. faults' \in 0..MaxFaults
    <3>1. faults < MaxFaults /\ faults' = faults + 1
      BY <1>9 DEF StoreFails
    <3> QED
      BY <3>1, BoundsAreNatural
  <2>2. CASE pc \in {"beat", "fail"}
    <3>1. PICK c \in Failure : retries' = Counted(c)
      BY <1>9, <2>2 DEF StoreFails, Failure, Cause
    <3>2. job \in Task
      BY <2>2 DEF WorkerInv, HasJob, Driving, Rows
    <3>3. retries' \in [Task -> [Cause -> Nat]]
      BY <3>1, <3>2, CountedOnce DEF Counted
    <3> QED
      BY <1>9, <2>1, <2>2, <3>2, <3>3 DEF StoreFails, Steps
  <2>3. CASE pc \notin {"beat", "fail"}
    BY <1>9, <2>1, <2>3 DEF StoreFails, Raise, GiveUpTick, Failure, Cause, Steps
  <2> QED
    BY <2>2, <2>3
<1>10. CASE UNCHANGED vars \/ Tick
  BY <1>1, <1>10 DEF vars, memory, Tick
<1>11. ASSUME NEW t \in Task, NEW status \in {"PENDING", "QUEUED"}, Insert(t, status)
       PROVE  Memory'
  BY <1>1, <1>11 DEF Insert
<1> QED
  BY <1>2, <1>3, <1>4, <1>5, <1>6, <1>7, <1>8, <1>9, <1>10, <1>11 DEF Next, Work

(* The driven task has failed once more for the cause, and for no other.    *)
OneMore(cause) ==
    /\ retries' \in [Task -> [Cause -> Nat]]
    /\ retries'[job][cause] = retries[job][cause] + 1
    /\ \A u \in Task, d \in Cause : u # job \/ d # cause => retries'[u][d] = retries[u][d]

LEMMA CountsOneMore ==
    ASSUME retries \in [Task -> [Cause -> Nat]], job \in Task, NEW c \in Cause, retries' = Counted(c)
    PROVE  OneMore(c)
BY CountedOnce DEF Counted, OneMore

(* The task that is driven is not settled: its counts are within the limit. *)
LEMMA DrivenWithinLimit ==
    ASSUME WorkerInv, RetriesEnd, Driving, NEW c \in Cause
    PROVE  retries[job][c] <= MAX_RETRIES_PER_FINGERPRINT + faults
BY DEF WorkerInv, HasJob, InWork, RetriesEnd, Settled, Rows, READY, SETTLED

(* Counting a failure is the last thing that happens to a task, or one of  *)
(* the failures within the limit, or goes with a store call that failed.   *)
LEMMA RetriesStep ==
    ASSUME WorkerInv, Memory, RetriesEnd, [Next]_vars
    PROVE  RetriesEnd'
<1>1. MAX_RETRIES_PER_FINGERPRINT \in Nat /\ faults \in Nat /\ retries \in [Task -> [Cause -> Nat]]
  BY BoundsAreNatural DEF Memory
<1>2. \A t \in Settled : t \in Settled'
  BY SettledGrow
<1>3. CASE UNCHANGED <<retries, faults>>
  BY <1>2, <1>3 DEF RetriesEnd
<1>4. ASSUME NEW p \in Pid, Start(p) PROVE RetriesEnd'
  BY <1>1, <1>4 DEF Start, NoCounts, RetriesEnd
<1>5. CASE Fail
  <2>1. pc = "fail" /\ Driving /\ job \in Task /\ failure \in Failure /\ faults' = faults
    BY <1>5 DEF Fail, Memory, WorkerInv, HasJob, Driving, Rows
  <2>2. retries' = Counted(failure)
    BY <1>5 DEF Fail
  <2>3. CASE failure \notin Cause
    <3>1. UNCHANGED <<retries, faults>>
      BY <2>1, <2>2, <2>3 DEF Counted
    <3> QED
      BY <1>3, <3>1
  <2>4. CASE failure \in Cause
    <3>1. OneMore(failure)
      BY <1>1, <2>1, <2>2, <2>4, CountsOneMore
    <3>2. retries[job][failure] <= MAX_RETRIES_PER_FINGERPRINT + faults
      BY <2>1, <2>4, DrivenWithinLimit
    <3>3. Attempts(failure) = retries'[job][failure]
      BY <2>4, <3>1 DEF Attempts, OneMore
    <3>4. CASE MayRetry(Attempts(failure))
      <4>1. retries'[job][failure] <= MAX_RETRIES_PER_FINGERPRINT + faults
        BY <1>1, <2>1, <2>4, <3>1, <3>3, <3>4 DEF MayRetry, OneMore
      <4> QED
        BY <1>1, <1>2, <2>1, <3>1, <4>1 DEF RetriesEnd, OneMore
    <3>5. CASE ~MayRetry(Attempts(failure))
      <4>1. PICK status \in Status : status = "BLOCKED_POLICY"
        BY DEF Status, SETTLED
      <4>2. table' = Upserted(table, job, status, checkpoint, None)
        BY <1>5, <3>5, <4>1 DEF Fail
      <4>3. table'[job].status = status /\ job \in Rows(table')
        BY <2>1, <4>2, UpsertedRow, FieldValues DEF WorkerInv, Types
      <4>4. job \in Settled'
        BY <4>1, <4>3 DEF Settled, SETTLED
      <4>5. retries'[job][failure] <= MAX_RETRIES_PER_FINGERPRINT + 1 + faults
        BY <1>1, <2>1, <2>4, <3>1, <3>2 DEF OneMore
      <4> QED
        BY <1>1, <1>2, <2>1, <3>1, <4>4, <4>5 DEF RetriesEnd, OneMore
    <3> QED
      BY <3>4, <3>5
  <2> QED
    BY <2>3, <2>4
<1>6. CASE StoreFails /\ pc \in {"beat", "fail"}
  <2>1. PICK c \in Failure : retries' = Counted(c)
    BY <1>6 DEF StoreFails, Failure, Cause, Memory
  <2>2. Driving /\ job \in Task /\ faults' = faults + 1
    BY <1>6 DEF StoreFails, WorkerInv, HasJob, Driving, Rows
  <2>3. CASE c \notin Cause
    <3>1. UNCHANGED retries
      BY <2>1, <2>3 DEF Counted
    <3> QED
      BY <1>1, <1>2, <2>2, <3>1 DEF RetriesEnd
  <2>4. CASE c \in Cause
    <3>1. OneMore(c)
      BY <1>1, <2>1, <2>2, <2>4, CountsOneMore
    <3>2. retries'[job][c] <= MAX_RETRIES_PER_FINGERPRINT + faults'
      BY <1>1, <2>2, <2>4, <3>1, DrivenWithinLimit DEF OneMore
    <3> QED
      BY <1>1, <1>2, <2>2, <3>1, <3>2 DEF RetriesEnd, OneMore
  <2> QED
    BY <2>3, <2>4
<1>7. CASE StoreFails /\ pc \notin {"beat", "fail"}
  <2>1. UNCHANGED retries /\ faults' = faults + 1
    BY <1>7 DEF StoreFails, Raise, GiveUpTick
  <2> QED
    BY <1>1, <1>2, <2>1 DEF RetriesEnd
<1>8. CASE \/ UNCHANGED vars \/ Reclaim \/ Pick \/ Acquire \/ Beat \/ Mark
           \/ (\E verdict \in Verdict : Plan(verdict))
           \/ (\E raised \in Raised : Execute(raised))
           \/ Free \/ Complete \/ Release \/ Crash \/ Tick
           \/ \E t \in Task, status \in {"PENDING", "QUEUED"} : Insert(t, status)
  BY <1>3, <1>8
  DEF vars, memory, Reclaim, Pick, Acquire, GiveUpTick, Beat, Mark, Plan, Execute, Free, Complete,
      Release, Crash, Tick, Insert
<1> QED
  BY <1>4, <1>5, <1>6, <1>7, <1>8 DEF Next, Work

(* TypeOK, with the end of retries in it: however the worker dies and      *)
(* comes back, and whatever store calls fail, a task is not tried again    *)
(* for a cause beyond the limit (_drive_task), and the rows are in one     *)
(* order, the one written last first (list_tasks).                         *)
THEOREM WorkerTypes == Spec => []TypeOK
<1> DEFINE Inv == Ordered(order, Rows(table)) /\ Memory /\ RetriesEnd
<1>1. Init => Inv
  <2> SUFFICES ASSUME Init PROVE Inv
    OBVIOUS
  <2>1. Rows(table) = {} /\ order = {}
    BY DEF Init, Rows
  <2>2. Ordered(order, Rows(table))
    BY <2>1 DEF Ordered, Before
  <2>3. Memory /\ RetriesEnd
    BY BoundsAreNatural DEF Init, Memory, RetriesEnd, NoCounts, Steps
  <2> QED
    BY <2>2, <2>3
<1>2. WorkerInv /\ Inv /\ [Next]_vars => Inv'
  BY OrderStep, MemoryStep, RetriesStep
<1>3. WorkerInv /\ Inv => TypeOK
  <2> SUFFICES ASSUME WorkerInv, Inv PROVE TypeOK
    OBVIOUS
  <2>1. ASSUME NEW t \in Task, NEW c \in Cause
        PROVE  retries[t][c] \in 0..MAX_RETRIES_PER_FINGERPRINT + 1 + MaxFaults
    BY BoundsAreNatural DEF Memory, RetriesEnd
  <2>2. retries \in [Task -> [Cause -> 0..MAX_RETRIES_PER_FINGERPRINT + 1 + MaxFaults]]
    BY <2>1 DEF Memory
  <2> QED
    BY <2>2 DEF TypeOK, WorkerInv, Types, Memory, Checkpoint
<1> HIDE DEF Inv
<1> QED
  BY <1>1, <1>2, <1>3, WorkerInvariant, PTL DEF Spec
=============================================================================
