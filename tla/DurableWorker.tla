---------------------------- MODULE DurableWorker ---------------------------
(***************************************************************************)
(* One durable worker (durable_worker.py) with the model task handler      *)
(* (model_task_bridge.py) on the canonical store: take over what a dead    *)
(* worker left, pick a ready task, lease it, mark it running, resolve a    *)
(* plan, lease the machine resource (resource_lease.py), run the executor, *)
(* free the resource, write the outcome, release the lease.  The single-   *)
(* instance lock lets one worker run at a time; it may die between any two *)
(* steps, and its successor has a new holder id and a new memory.  Every   *)
(* call of the store is one step and may fail (the database is locked).    *)
(***************************************************************************)
EXTENDS CanonicalTasks

CONSTANTS
    Pid,                            \* process ids; the system reuses them
    MAX_RETRIES_PER_FINGERPRINT,    \* 3 in the source
    MaxFaults                       \* bound on store calls that fail

ASSUME LivesAreNumbered == Life \subseteq Nat \ {0}
ASSUME BoundsAreNatural == MAX_RETRIES_PER_FINGERPRINT \in Nat /\ MaxFaults \in Nat
ASSUME NullIsNoPid == None \notin Pid
ASSUME NotesAreKnown == {"last_attempt_holder", "attempt_key"} \subseteq Note

VARIABLES
    table, order,   \* stored: the tasks and the order in which they were written
    resource,       \* stored: the resource lease [pid, token], or None
    life, pid,      \* the worker process: its number and its pid, or None
    pc,
    job,            \* the task being driven, or None
    copy,           \* the checkpoint in the row that list_tasks returned
    checkpoint,     \* the worker's own checkpoint variable
    failure,        \* why the attempt failed, or None
    retries,        \* _retries[t][c]: failures of t with cause c in this life
    faults          \* store calls that have failed

memory == <<job, copy, checkpoint, failure, retries>>
vars == <<table, order, resource, life, pid, pc, memory, faults>>

(* Failures are counted by task, exception type and message.  A cause is a *)
(* failure whose message comes again; one with a message that never came   *)
(* before has a count of its own, which nothing looks up later.            *)
Cause == {"plan blocked", "resource busy", "executor failed", "store failed"}
Anew == "executor failed anew"
Failure == Cause \cup {Anew}
Steps == {"down", "reclaim", "pick", "acquire", "beat", "mark", "plan", "execute",
          "free", "complete", "fail", "release"}

TypeOK ==
    /\ table \in Table
    /\ Ordered(order, Rows(table))
    /\ resource \in [pid : Pid, token : Life] \cup {None}
    /\ life \in Life \cup {0}
    /\ pid \in Pid \cup {None}
    /\ pc \in Steps
    /\ job \in Task \cup {None}
    /\ copy \subseteq Note /\ checkpoint \subseteq Note
    /\ failure \in Failure \cup {None}
    /\ retries \in [Task -> [Cause -> 0..MAX_RETRIES_PER_FINGERPRINT + 1 + MaxFaults]]
    /\ faults \in 0..MaxFaults

NoCounts == [t \in Task |-> [c \in Cause |-> 0]]

Init ==
    /\ table = [t \in Task |-> None] /\ order = {}
    /\ resource = None
    /\ life = 0 /\ pid = None /\ pc = "down"
    /\ job = None /\ copy = {} /\ checkpoint = {} /\ failure = None
    /\ retries = NoCounts
    /\ faults = 0

Goto(step) == pc' = step

(* run_once is over; what it held in local variables is gone. *)
GiveUpTick ==
    /\ job' = None /\ copy' = {} /\ checkpoint' = {} /\ failure' = None
    /\ Goto("reclaim")

-----------------------------------------------------------------------------
(* The process *)

Start(p) ==
    /\ pc = "down" /\ life + 1 \in Life
    /\ life' = life + 1 /\ pid' = p
    /\ GiveUpTick
    /\ retries' = NoCounts
    /\ UNCHANGED <<table, order, resource, faults>>

(* The last life is not cut short: Life bounds the crashes.                *)
Crash ==
    /\ pc # "down" /\ life + 1 \in Life
    /\ pid' = None
    /\ Goto("down")
    /\ UNCHANGED <<table, order, resource, life, memory, faults>>

-----------------------------------------------------------------------------
(* run_once: reclaim, pick, lease, mark *)

Reclaim ==
    /\ pc = "reclaim"
    /\ table' = IF ClaimFails(table) THEN table ELSE ExpiredClaimed(table, life)
    /\ Goto(IF ClaimFails(table) THEN "reclaim" ELSE "pick")
    /\ UNCHANGED <<order, resource, life, pid, memory, faults>>

Pick ==
    /\ pc = "pick"
    /\ \/ /\ ReadyTasks(table) = {}
          /\ Goto("reclaim") /\ UNCHANGED <<job, copy, checkpoint>>
       \/ \E t \in Task :
             /\ IsFirstReady(table, order, t)
             /\ job' = t
             /\ copy' = table[t].checkpoint
             /\ checkpoint' = table[t].checkpoint
             /\ Goto("acquire")
    /\ UNCHANGED <<table, order, resource, life, pid, failure, retries, faults>>

Acquire ==
    /\ pc = "acquire"
    /\ IF MayAcquire(table[job], life)
       THEN /\ table' = Acquired(table, job, life)
            /\ order' = Touched(order, job)
            /\ Goto("beat")
            /\ UNCHANGED <<job, copy, checkpoint, failure>>
       ELSE GiveUpTick /\ UNCHANGED <<table, order>>
    /\ UNCHANGED <<resource, life, pid, retries, faults>>

Beat ==
    /\ pc = "beat"
    /\ IF Holds(table, job, life)
       THEN table' = Heartbeaten(table, job) /\ order' = Touched(order, job)
       ELSE UNCHANGED <<table, order>>
    /\ Goto("mark")
    /\ UNCHANGED <<resource, life, pid, memory, faults>>

(* Variant: the row no longer says who runs the task. *)
Mark_NoHolder ==
    /\ pc = "mark"
    /\ checkpoint' = checkpoint \cup {"last_attempt_holder"}
    /\ table' = Upserted(table, job, "RUNNING", checkpoint', None)
    /\ order' = Touched(order, job)
    /\ Goto("plan")
    /\ UNCHANGED <<resource, life, pid, job, copy, failure, retries, faults>>

(* "checkpoint or {}": only a checkpoint that is not empty is the object   *)
(* the handler gets to see as the task's.                                  *)
SharesCheckpoint == copy # {}

Mark ==
    /\ pc = "mark"
    /\ checkpoint' = checkpoint \cup {"last_attempt_holder"}
    /\ copy' = IF SharesCheckpoint THEN checkpoint' ELSE copy
    /\ table' = Upserted(table, job, "RUNNING", checkpoint', life)
    /\ order' = Touched(order, job)
    /\ Goto("plan")
    /\ UNCHANGED <<resource, life, pid, job, failure, retries, faults>>

-----------------------------------------------------------------------------
(* ModelTaskHandler *)

Raise(cause) == failure' = cause /\ Goto("fail")

(* A lease whose owner's process is alive keeps others out, this worker's  *)
(* own pid included; the start time on record is not looked at.            *)
ResourceBusy == resource # None /\ resource.pid = pid

Plan(verdict) ==
    /\ pc = "plan"
    /\ \/ verdict = "BLOCKED" /\ Raise("plan blocked") /\ UNCHANGED resource
       \/ verdict = "NO_MODEL_REQUIRED" /\ Goto("complete") /\ UNCHANGED <<resource, failure>>
       \/ verdict = "PLANNED" /\ ResourceBusy /\ Raise("resource busy") /\ UNCHANGED resource
       \/ /\ verdict = "PLANNED" /\ ~ResourceBusy
          /\ resource' = [pid |-> pid, token |-> life]
          /\ Goto("execute") /\ UNCHANGED failure
    /\ UNCHANGED <<table, order, life, pid, job, copy, checkpoint, retries, faults>>

(* What comes of an executor: nothing raised, or one of two failures.      *)
Raised == {None, "executor failed", Anew}

(* The executor runs to its end, or raises, or returns a result that       *)
(* validate_result refuses.                                                *)
Execute(raised) ==
    /\ pc = "execute"
    /\ failure' = raised
    /\ IF raised = None
       THEN /\ copy' = copy \cup {"attempt_key"}
            /\ checkpoint' = IF SharesCheckpoint THEN checkpoint \cup {"attempt_key"} ELSE checkpoint
       ELSE UNCHANGED <<copy, checkpoint>>
    /\ Goto("free")
    /\ UNCHANGED <<table, order, resource, life, pid, job, retries, faults>>

(* Variant: the resource is freed only after a success. *)
Free_OnSuccess ==
    /\ pc = "free"
    /\ resource' = IF failure = None THEN None ELSE resource
    /\ Goto(IF failure = None THEN "complete" ELSE "fail")
    /\ UNCHANGED <<table, order, life, pid, memory, faults>>

Free ==
    /\ pc = "free"
    /\ resource' = IF resource # None /\ resource.token = life THEN None ELSE resource
    /\ Goto(IF failure = None THEN "complete" ELSE "fail")
    /\ UNCHANGED <<table, order, life, pid, memory, faults>>

-----------------------------------------------------------------------------
(* _drive_task: the outcome *)

Complete ==
    /\ pc = "complete"
    /\ table' = Upserted(table, job, "COMPLETED_LOCAL", checkpoint, None)
    /\ order' = Touched(order, job)
    /\ Goto("release")
    /\ UNCHANGED <<resource, life, pid, memory, faults>>

(* Variant: a failure is not counted. *)
Counted_Not(cause) == retries

Counted(cause) == IF cause \in Cause THEN [retries EXCEPT ![job][cause] = @ + 1] ELSE retries

Attempts(cause) == IF cause \in Cause THEN retries[job][cause] + 1 ELSE 1

(* Variant: no limit. *)
MayRetry_Always(attempts) == TRUE

MayRetry(attempts) == attempts <= MAX_RETRIES_PER_FINGERPRINT

Fail ==
    /\ pc = "fail"
    /\ retries' = Counted(failure)
    /\ table' = Upserted(table, job,
                    IF MayRetry(Attempts(failure)) THEN "FAILED_RECOVERABLE" ELSE "BLOCKED_POLICY",
                    checkpoint, None)
    /\ order' = Touched(order, job)
    /\ Goto("release")
    /\ UNCHANGED <<resource, life, pid, job, copy, checkpoint, failure, faults>>

Release ==
    /\ pc = "release"
    /\ IF Holds(table, job, life)
       THEN table' = Released(table, job) /\ order' = Touched(order, job)
       ELSE UNCHANGED <<table, order>>
    /\ GiveUpTick
    /\ UNCHANGED <<resource, life, pid, retries, faults>>

(* A store call raises.  To mark the task and to complete it are attempts  *)
(* that fail.  When the failure cannot be written it is counted all the    *)
(* same, and so is a heartbeat that fails: there is no checkpoint to write *)
(* then.  The lease is released before run_forever takes the exception;    *)
(* outside of the attempt it takes it at once.                             *)
StoreFails ==
    /\ faults < MaxFaults
    /\ faults' = faults + 1
    /\ \/ /\ pc \in {"mark", "complete"}
          /\ Raise("store failed")
          /\ UNCHANGED <<job, copy, checkpoint, retries>>
       \/ /\ pc \in {"beat", "fail"}
          /\ retries' = Counted(IF pc = "beat" THEN "store failed" ELSE failure)
          /\ Goto("release")
          /\ UNCHANGED <<job, copy, checkpoint, failure>>
       \/ pc \in {"acquire", "release"} /\ GiveUpTick /\ UNCHANGED retries
    /\ UNCHANGED <<table, order, resource, life, pid>>

-----------------------------------------------------------------------------
(* Around the worker: other processes create tasks, time passes *)

Insert(t, status) ==
    /\ table' = InsertedIfAbsent(table, t, status)
    /\ order' = IF t \in Rows(table) THEN order ELSE Touched(order, t)
    /\ UNCHANGED <<resource, life, pid, pc, memory, faults>>

Tick ==
    /\ table' = Aged(table)
    /\ UNCHANGED <<order, resource, life, pid, pc, memory, faults>>

Verdict == {"BLOCKED", "NO_MODEL_REQUIRED", "PLANNED"}

Work ==
    \/ Reclaim \/ Pick \/ Acquire \/ Beat \/ Mark
    \/ \E verdict \in Verdict : Plan(verdict)
    \/ \E raised \in Raised : Execute(raised)
    \/ Free \/ Complete \/ Fail \/ Release

Next ==
    \/ Work
    \/ StoreFails
    \/ \E p \in Pid : Start(p)
    \/ Crash
    \/ \E t \in Task, status \in {"PENDING", "QUEUED"} : Insert(t, status)
    \/ Tick

Spec == Init /\ [][Next]_vars

(* The worker's thread keeps running, a dead worker is started again, and  *)
(* time passes.                                                            *)
Fairness == WF_vars(Work) /\ WF_vars(\E p \in Pid : Start(p)) /\ WF_vars(Tick)

FairSpec == Spec /\ Fairness

-----------------------------------------------------------------------------
(* Properties *)

Driving == pc \in {"beat", "mark", "plan", "execute", "free", "complete", "fail"}

(* While the worker drives a task the row names it as the holder, also     *)
(* when other processes create tasks meanwhile, under the same name too    *)
(* (acquire_lease, upsert_task, insert_task_if_absent).                    *)
HeldWhileDriven == Driving => Holds(table, job, life)

(* claim_expired_tasks adds one to a token that is there, on every row it  *)
(* can select, although upsert_task keeps resetting tokens to NULL.        *)
ReclaimCannotFail == \A t \in Rows(table) : table[t].lease_left # None => table[t].fencing_token # None

(* Only a worker that is running an executor holds the resource: it is     *)
(* given back on every way out of the handler, and what a dead worker left *)
(* does not look like a lease of the present one (ModelTaskHandler).       *)
ResourceIsFreed == resource # None /\ resource.token = life => pc \in {"execute", "free", "down"}

Settled == {t \in Rows(table) : table[t].status \in SETTLED}

(* A task that was completed or blocked is never driven again, whatever    *)
(* fails and whoever dies (_drive_task, claim_expired_tasks).              *)
SettledStays == [][\A t \in Settled : table'[t].status = table[t].status]_vars

(* From some time on no executor fails with a message that never came. *)
FailuresComeAgain == <>[](failure # Anew)

(* Every task that a worker may drive is completed or blocked in the end:  *)
(* a dead worker's lease runs out, and a failure that comes again is not   *)
(* retried for ever, though crashes forget the counts, causes alternate,   *)
(* and the task that failed last is always the next to be tried            *)
(* (_drive_task, list_tasks).  A task whose executor words every failure   *)
(* anew is retried for ever, and keeps the others waiting; so would new    *)
(* tasks that never stop coming, of which there are finitely many here.    *)
EveryTaskSettles ==
    FailuresComeAgain => \A t \in Task : t \in ReadyTasks(table) ~> t \in Settled

-----------------------------------------------------------------------------
(* What the source says of itself and the code does not keep *)

(* "Mutate the task's checkpoint IN PLACE so DurableWorker's own           *)
(* checkpoint variable persists the fields": a task that was completed     *)
(* after an executor run has the run's evidence in its checkpoint.         *)
EvidencePersists == pc = "complete" /\ "attempt_key" \in copy => "attempt_key" \in checkpoint
=============================================================================
