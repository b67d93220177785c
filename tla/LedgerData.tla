----------------------------- MODULE LedgerData -----------------------------
(***************************************************************************)
(* The value that TaskLedger (task_ledger.py) keeps in ledger.json and the *)
(* effect of each of its methods on that value.  A method is a pair: May.. *)
(* is the conjunction of the conditions under which it reaches _write, and *)
(* the past participle is the value it writes.  A call that raises writes  *)
(* nothing, so it is a step that changes nothing and has no operator here. *)
(*                                                                         *)
(* Two modules use these operators: TaskLedger, where a method is atomic,  *)
(* and LedgerFile, where several processes run the read, the change and    *)
(* the replacement of the file as separate steps.                          *)
(***************************************************************************)
EXTENDS Integers, FiniteSets

CONSTANTS
    Task,           \* task ids
    Holder,         \* lease holders (one per worker process)
    Key,            \* idempotency keys
    Effect,         \* external effect ids
    Digest,         \* (action, intent digest) pairs of external effects
    Meter,          \* budget dimensions: tokens, time_seconds, tools
    EvidenceState,  \* verdicts of recorded evidence
    MAX_RETRIES,    \* 3 in the source
    MAX_CHILDREN,   \* 8 in the source
    None            \* JSON null

ASSUME LimitsAreNatural == MAX_RETRIES \in Nat /\ MAX_CHILDREN \in Nat
ASSUME NoneIsNoNumber == None \notin Nat
ASSUME NoneIsNoHolder == None \notin Holder
ASSUME TasksAreFinite == IsFiniteSet(Task)

-----------------------------------------------------------------------------
(* Types *)

STATES == {"QUEUED", "PLANNING", "WAITING_APPROVAL", "RUNNING", "RETRYING",
           "PAUSED", "BLOCKED", "REVIEWING", "COMPLETED", "FAILED", "CANCELLED"}

TRANSITIONS ==
    [QUEUED           |-> {"PLANNING", "CANCELLED", "BLOCKED"},
     PLANNING         |-> {"WAITING_APPROVAL", "RUNNING", "PAUSED", "BLOCKED"},
     WAITING_APPROVAL |-> {"RUNNING", "CANCELLED", "BLOCKED"},
     RUNNING          |-> {"RETRYING", "PAUSED", "WAITING_APPROVAL", "REVIEWING",
                           "COMPLETED", "FAILED", "BLOCKED"},
     RETRYING         |-> {"RUNNING", "BLOCKED", "FAILED"},
     PAUSED           |-> {"RUNNING", "CANCELLED", "BLOCKED"},
     REVIEWING        |-> {"COMPLETED", "FAILED", "PAUSED"},
     BLOCKED |-> {}, COMPLETED |-> {}, FAILED |-> {}, CANCELLED |-> {}]

ObservedState == {"CONFIRMED", "ABSENT", "CONFLICT"}
EXTERNAL_EFFECT_STATES == ObservedState \cup {"PENDING"}

ErrorKind == {"BUDGET_EXCEEDED", "RETRYABLE", "EXTERNAL_WRITE", "FATAL"}

Credential == [holder : Holder, fence : Nat]
Lease == [holder : Holder, fence : Nat, heartbeat_at : Nat, expires_at : Nat]
EffectRecord == [intent : Digest, status : EXTERNAL_EFFECT_STATES]

TaskRecord ==
    [idempotency_key  : Key,
     status           : STATES,
     cursor_version   : Nat,
     waitpoint        : Credential \cup {None},
     retry_count      : 0..MAX_RETRIES,
     budget           : [Meter -> Nat \cup {None}],
     usage            : [Meter -> Nat],
     lease            : Lease \cup {None},
     evidence         : SUBSET EvidenceState,
     parent_task_id   : Task \cup {None},
     dependencies     : SUBSET Task,
     children         : SUBSET Task,
     external_effects : [Effect -> EffectRecord \cup {None}],
     errors           : SUBSET ErrorKind]

ASSUME NoneIsNoRecord ==
    /\ None \notin TaskRecord /\ None \notin Lease
    /\ None \notin Credential /\ None \notin EffectRecord

Ledger == [Task -> TaskRecord \cup {None}]

EmptyLedger == [t \in Task |-> None]
Tasks(d) == {t \in Task : d[t] # None}

-----------------------------------------------------------------------------
(* create *)

MayCreate(d, t) == d[t] = None

Created(d, t, key, budget) ==
    [d EXCEPT ![t] =
        [idempotency_key  |-> key,
         status           |-> "QUEUED",
         cursor_version   |-> 0,
         waitpoint        |-> None,
         retry_count      |-> 0,
         budget           |-> budget,
         usage            |-> [m \in Meter |-> 0],
         lease            |-> None,
         evidence         |-> {},
         parent_task_id   |-> None,
         dependencies     |-> {},
         children         |-> {},
         external_effects |-> [x \in Effect |-> None],
         errors           |-> {}]]

-----------------------------------------------------------------------------
(* record_external_effect, reconcile_external_effect *)

MayRecordEffect(d, t, x) ==
    /\ t \in Tasks(d)
    /\ d[t].external_effects[x] = None

EffectRecorded(d, t, x, intent) ==
    [d EXCEPT ![t].external_effects[x] = [intent |-> intent, status |-> "PENDING"]]

(* Variant: the confirmed state is not protected. *)
MayReconcileEffect_Unprotected(d, t, x, observed) ==
    t \in Tasks(d) /\ d[t].external_effects[x] # None

MayReconcileEffect(d, t, x, observed) ==
    /\ t \in Tasks(d)
    /\ d[t].external_effects[x] # None
    /\ d[t].external_effects[x].status = "CONFIRMED" => observed = "CONFIRMED"

EffectReconciled(d, t, x, observed) ==
    [d EXCEPT ![t].external_effects[x] = [@ EXCEPT !.status = observed]]

-----------------------------------------------------------------------------
(* set_dependencies, attach_child, ready_tasks *)

(* The depth-first search of set_dependencies raises exactly when a walk   *)
(* along dependency edges can return to its start: some non-empty set of   *)
(* tasks in which every task depends on another member.                    *)
HasCycle(graph) ==
    \E S \in SUBSET Task : S # {} /\ \A t \in S : graph[t] \cap S # {}

DependencyGraph(d) == [t \in Task |-> IF d[t] = None THEN {} ELSE d[t].dependencies]

(* Variant: only the direct self-dependency is refused. *)
MaySetDependencies_NoSearch(d, t, deps) ==
    t \in Tasks(d) /\ t \notin deps /\ deps \subseteq Tasks(d)

MaySetDependencies(d, t, deps) ==
    /\ t \in Tasks(d)
    /\ t \notin deps
    /\ deps \subseteq Tasks(d)
    /\ ~HasCycle([DependencyGraph(d) EXCEPT ![t] = deps])

DependenciesSet(d, t, deps) == [d EXCEPT ![t].dependencies = deps]

MayAttachChild(d, parent, child) ==
    /\ {parent, child} \subseteq Tasks(d)
    /\ child \notin d[parent].children => Cardinality(d[parent].children) < MAX_CHILDREN

ChildAttached(d, parent, child) ==
    [d EXCEPT ![parent].children = @ \cup {child}, ![child].parent_task_id = parent]

Completed(d) == {t \in Tasks(d) : d[t].status = "COMPLETED"}

ReadyTasks(d) ==
    {t \in Tasks(d) : d[t].status = "QUEUED" /\ d[t].dependencies \subseteq Completed(d)}

-----------------------------------------------------------------------------
(* Leases: _assert_lease and the operations on the lease itself *)

Unexpired(lease, now) == now < lease.expires_at

(* Variant: the expiry of the lease is not looked at. *)
LeaseAccepts_Expired(d, t, cred, now) ==
    d[t].lease # None =>
        cred # None /\ d[t].lease.holder = cred.holder /\ d[t].lease.fence = cred.fence

(* Variant: any worker's credential will do. *)
LeaseAccepts_AnyHolder(d, t, cred, now) ==
    d[t].lease # None => cred # None /\ Unexpired(d[t].lease, now)

(* A task without a lease accepts any caller.  A leased task accepts the   *)
(* holder named in the lease, with its fence, until the lease expires.     *)
LeaseAccepts(d, t, cred, now) ==
    d[t].lease # None =>
        /\ cred # None
        /\ d[t].lease.holder = cred.holder
        /\ d[t].lease.fence = cred.fence
        /\ Unexpired(d[t].lease, now)

(* Methods that change the lease itself fail on a null lease. *)
OwnsLease(d, t, cred, now) ==
    /\ t \in Tasks(d)
    /\ d[t].lease # None
    /\ LeaseAccepts(d, t, cred, now)

(* Variant: an unexpired lease can be taken over. *)
MayAcquireLease_Steal(d, t, now) == t \in Tasks(d)

MayAcquireLease(d, t, now) ==
    /\ t \in Tasks(d)
    /\ d[t].lease # None => ~Unexpired(d[t].lease, now)

(* Variant: every lease starts at fence 1. *)
NextFence_Restart(d, t) == 1

NextFence(d, t) == IF d[t].lease = None THEN 1 ELSE d[t].lease.fence + 1

LeaseAcquired(d, t, holder, ttl, now) ==
    [d EXCEPT ![t].lease = [holder |-> holder, fence |-> NextFence(d, t),
                            heartbeat_at |-> now, expires_at |-> now + ttl]]

LeaseRenewed(d, t, ttl, now) ==
    [d EXCEPT ![t].lease = [@ EXCEPT !.heartbeat_at = now, !.expires_at = now + ttl]]

LeaseHeartbeat(d, t, now) == [d EXCEPT ![t].lease = [@ EXCEPT !.heartbeat_at = now]]

DetectZombie(d, t, now) == d[t].lease # None /\ ~Unexpired(d[t].lease, now)

(* Variant: a stale worker may release its successor's lease. *)
MayReleaseLease_Unchecked(d, t, cred, now) == t \in Tasks(d)

MayReleaseLease(d, t, cred, now) == t \in Tasks(d) /\ LeaseAccepts(d, t, cred, now)

LeaseReleased(d, t) == [d EXCEPT ![t].lease = None]

-----------------------------------------------------------------------------
(* Status, cursor, waitpoint *)

MayTransition(d, t, status, cred, now) ==
    /\ t \in Tasks(d)
    /\ LeaseAccepts(d, t, cred, now)
    /\ status \in TRANSITIONS[d[t].status]

Transitioned(d, t, status) == [d EXCEPT ![t].status = status]

MayCheckpoint(d, t, cred, now) == t \in Tasks(d) /\ LeaseAccepts(d, t, cred, now)

Checkpointed(d, t) == [d EXCEPT ![t].cursor_version = @ + 1]

MaySetWaitpoint(d, t, cred, now) ==
    /\ t \in Tasks(d)
    /\ LeaseAccepts(d, t, cred, now)
    /\ d[t].status = "RUNNING"

WaitpointSet(d, t, cred) ==
    [d EXCEPT ![t] = [d[t] EXCEPT !.cursor_version = d[t].cursor_version + 1,
                                  !.waitpoint = cred, !.status = "WAITING_APPROVAL",
                                  !.lease = None]]

(* clear_waitpoint matches the waitpoint's own holder and fence and does   *)
(* not look at the lease.                                                  *)
MayClearWaitpoint(d, t, cred) ==
    /\ t \in Tasks(d)
    /\ d[t].status = "WAITING_APPROVAL"
    /\ d[t].waitpoint = cred

WaitpointCleared(d, t) == 
    [d EXCEPT ![t] = [@ EXCEPT !.waitpoint = None, !.status = "RUNNING"]]

(* resume: get, then a transition to RUNNING without a credential. *)
MayResume(d, t, now) ==
    /\ t \in Tasks(d)
    /\ d[t].status \in {"PAUSED", "RETRYING", "WAITING_APPROVAL"}
    /\ MayTransition(d, t, "RUNNING", None, now)

-----------------------------------------------------------------------------
(* record_usage, record_evidence, record_error *)

MayRecordUsage(d, t, cred, now) == t \in Tasks(d) /\ LeaseAccepts(d, t, cred, now)

Exceeded(task) == \E m \in Meter : task.budget[m] # None /\ task.usage[m] > task.budget[m]

Charged(task, amount) == [task EXCEPT !.usage = [m \in Meter |-> @[m] + amount[m]]]

Overspent(task) ==
    [task EXCEPT !.status = "BLOCKED", !.errors = task.errors \cup {"BUDGET_EXCEEDED"}]

(* Variant: the budget is compared before the usage is added. *)
UsageRecorded_CheckFirst(d, t, amount) ==
    LET task == Charged(d[t], amount)
    IN  [d EXCEPT ![t] = IF Exceeded(d[t]) THEN Overspent(task) ELSE task]

UsageRecorded(d, t, amount) ==
    LET task == Charged(d[t], amount)
    IN  [d EXCEPT ![t] = IF Exceeded(task) THEN Overspent(task) ELSE task]

MayRecordEvidence(d, t, cred, now) == t \in Tasks(d) /\ LeaseAccepts(d, t, cred, now)

EvidenceRecorded(d, t, verdict) == [d EXCEPT ![t].evidence = @ \cup {verdict}]

MayRecordError(d, t, cred, now) ==
    /\ t \in Tasks(d)
    /\ LeaseAccepts(d, t, cred, now)
    /\ d[t].status \notin {"COMPLETED", "CANCELLED"}

(* Variant: one retry too many. *)
RetriesExhausted_OffByOne(task) == task.retry_count > MAX_RETRIES

RetriesExhausted(task) == task.retry_count >= MAX_RETRIES

(* kind stands for the (retryable, external_write) arguments: an external  *)
(* write is never retried, whatever retryable says.                        *)
ErrorStatus(task, kind) ==
    CASE kind # "RETRYABLE" -> "FAILED"
      [] kind = "RETRYABLE" /\ RetriesExhausted(task) -> "BLOCKED"
      [] kind = "RETRYABLE" /\ ~RetriesExhausted(task) -> "RETRYING"

Failed(task, kind) ==
    LET status == ErrorStatus(task, kind)
        retries == task.retry_count + (IF status = "RETRYING" THEN 1 ELSE 0)
    IN  [task EXCEPT !.status = status, !.errors = task.errors \cup {kind},
                     !.retry_count = retries]

ErrorRecorded(d, t, kind) == [d EXCEPT ![t] = Failed(d[t], kind)]
=============================================================================
