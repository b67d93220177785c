-------------------------- MODULE LedgerDataProofs --------------------------
(* The methods of the Task Ledger, for any ledger: every one makes a        *)
(* well-formed ledger of a well-formed one, and those that are not about    *)
(* leases leave the leases as they were.                                    *)
EXTENDS LedgerData, TLAPS

-----------------------------------------------------------------------------
(* Methods: every one turns a well-formed ledger into a well-formed ledger. *)

(* A stored task is a task record (_read, get). *)
LEMMA StoredTask ==
    ASSUME NEW d \in Ledger, NEW t \in Tasks(d)
    PROVE  t \in Task /\ d[t] \in TaskRecord
BY DEF Ledger, Tasks

(* Replacing one task by a task record keeps a ledger a ledger (_write). *)
LEMMA ReplaceTask ==
    ASSUME NEW d \in Ledger, NEW t \in Task, NEW r \in TaskRecord
    PROVE  [d EXCEPT ![t] = r] \in Ledger
BY DEF Ledger

(* set_waitpoint: cursor, waitpoint, status and lease together. *)
LEMMA WaitpointFields ==
    ASSUME NEW r \in TaskRecord, NEW cursor \in Nat, NEW wait \in Credential \cup {None},
           NEW status \in STATES, NEW lease \in Lease \cup {None}
    PROVE  [r EXCEPT !.cursor_version = cursor, !.waitpoint = wait, !.status = status,
                     !.lease = lease] \in TaskRecord
BY DEF TaskRecord

(* clear_waitpoint: waitpoint and status. *)
LEMMA ClearFields ==
    ASSUME NEW r \in TaskRecord, NEW wait \in Credential \cup {None}, NEW status \in STATES
    PROVE  [r EXCEPT !.waitpoint = wait, !.status = status] \in TaskRecord
BY DEF TaskRecord

(* record_usage over budget, record_error: status and errors. *)
LEMMA StatusErrorFields ==
    ASSUME NEW r \in TaskRecord, NEW status \in STATES, NEW errors \in SUBSET ErrorKind
    PROVE  [r EXCEPT !.status = status, !.errors = errors] \in TaskRecord
BY DEF TaskRecord

(* record_error: status, errors and the retry counter. *)
LEMMA RetryFields ==
    ASSUME NEW r \in TaskRecord, NEW status \in STATES, NEW errors \in SUBSET ErrorKind,
           NEW retries \in 0..MAX_RETRIES
    PROVE  [r EXCEPT !.status = status, !.errors = errors, !.retry_count = retries]
             \in TaskRecord
BY DEF TaskRecord

(* A lease built from the fields of its type is a lease. *)
LEMMA LeaseFieldsReplaced ==
    ASSUME NEW lease \in Lease, NEW beat \in Nat, NEW until \in Nat
    PROVE  /\ [lease EXCEPT !.heartbeat_at = beat] \in Lease
           /\ [lease EXCEPT !.heartbeat_at = beat, !.expires_at = until] \in Lease
BY DEF Lease

(* A renewal or a heartbeat leaves the holder and the fence alone. *)
LEMMA LeaseFieldsKept ==
    ASSUME NEW lease \in Lease, NEW beat \in Nat, NEW until \in Nat
    PROVE  /\ [lease EXCEPT !.heartbeat_at = beat, !.expires_at = until].holder = lease.holder
           /\ [lease EXCEPT !.heartbeat_at = beat, !.expires_at = until].fence = lease.fence
           /\ [lease EXCEPT !.heartbeat_at = beat, !.expires_at = until].expires_at = until
           /\ [lease EXCEPT !.heartbeat_at = beat].holder = lease.holder
           /\ [lease EXCEPT !.heartbeat_at = beat].fence = lease.fence
           /\ [lease EXCEPT !.heartbeat_at = beat].expires_at = lease.expires_at
BY DEF Lease

(* What the fields of a stored task are. *)
LEMMA StoredFields ==
    ASSUME NEW d \in Ledger, NEW t \in Tasks(d)
    PROVE  /\ d[t].status \in STATES
           /\ d[t].cursor_version \in Nat
           /\ d[t].cursor_version + 1 \in Nat
           /\ d[t].retry_count \in 0..MAX_RETRIES
           /\ d[t].lease \in Lease \cup {None}
           /\ d[t].errors \in SUBSET ErrorKind
BY StoredTask DEF TaskRecord

(* create stores a well-formed task. *)
LEMMA CreatedType ==
    ASSUME NEW d \in Ledger, NEW t \in Task, NEW key \in Key,
           NEW budget \in [Meter -> Nat \cup {None}]
    PROVE  Created(d, t, key, budget) \in Ledger
<1>1. [idempotency_key |-> key, status |-> "QUEUED", cursor_version |-> 0,
       waitpoint |-> None, retry_count |-> 0, budget |-> budget,
       usage |-> [m \in Meter |-> 0], lease |-> None, evidence |-> {},
       parent_task_id |-> None, dependencies |-> {}, children |-> {},
       external_effects |-> [x \in Effect |-> None], errors |-> {}] \in TaskRecord
  BY LimitsAreNatural DEF TaskRecord, STATES
<1> QED
  BY <1>1, ReplaceTask DEF Created

(* set_dependencies writes the dependencies of one task. *)
LEMMA DependenciesSetType ==
    ASSUME NEW d \in Ledger, NEW t \in Tasks(d), NEW deps \in SUBSET Task
    PROVE  DependenciesSet(d, t, deps) \in Ledger
<1>1. [d[t] EXCEPT !.dependencies = deps] \in TaskRecord
  BY StoredTask DEF TaskRecord
<1> QED
  BY <1>1, StoredTask, ReplaceTask DEF DependenciesSet

(* attach_child writes two tasks, the parent and the child. *)
LEMMA ChildAttachedType ==
    ASSUME NEW d \in Ledger, NEW p \in Tasks(d), NEW c \in Tasks(d)
    PROVE  ChildAttached(d, p, c) \in Ledger
<1> DEFINE listed == [d[p] EXCEPT !.children = d[p].children \cup {c}]
           mid == [d EXCEPT ![p] = listed]
<1>1. p \in Task /\ c \in Task /\ d[p] \in TaskRecord /\ d[c] \in TaskRecord
  BY StoredTask
<1>2. listed \in TaskRecord
  BY <1>1 DEF TaskRecord
<1>3. mid \in Ledger
  BY <1>1, <1>2, ReplaceTask
<1>4. mid[c] \in TaskRecord
  BY <1>1, <1>2 DEF Ledger
<1>5. [mid[c] EXCEPT !.parent_task_id = p] \in TaskRecord
  BY <1>1, <1>4 DEF TaskRecord
<1>6. [mid EXCEPT ![c] = [mid[c] EXCEPT !.parent_task_id = p]] \in Ledger
  BY <1>1, <1>3, <1>5, ReplaceTask
<1> QED
  BY <1>6 DEF ChildAttached

(* Replacing the external effects of a task. *)
LEMMA EffectsChangedType ==
    ASSUME NEW d \in Ledger, NEW t \in Tasks(d),
           NEW effects \in [Effect -> EffectRecord \cup {None}]
    PROVE  [d EXCEPT ![t] = [d[t] EXCEPT !.external_effects = effects]] \in Ledger
<1>1. [d[t] EXCEPT !.external_effects = effects] \in TaskRecord
  BY StoredTask DEF TaskRecord
<1> QED
  BY <1>1, StoredTask, ReplaceTask

(* record_external_effect stores an intent. *)
LEMMA EffectRecordedType ==
    ASSUME NEW d \in Ledger, NEW t \in Tasks(d), NEW x \in Effect, NEW intent \in Digest
    PROVE  EffectRecorded(d, t, x, intent) \in Ledger
<1>1. [d[t].external_effects EXCEPT ![x] = [intent |-> intent, status |-> "PENDING"]]
        \in [Effect -> EffectRecord \cup {None}]
  BY StoredTask DEF TaskRecord, EffectRecord, EXTERNAL_EFFECT_STATES
<1> QED
  BY <1>1, EffectsChangedType DEF EffectRecorded

(* reconcile_external_effect stores what was observed. *)
LEMMA EffectReconciledType ==
    ASSUME NEW d \in Ledger, NEW t \in Tasks(d), NEW x \in Effect,
           NEW observed \in ObservedState, d[t].external_effects[x] # None
    PROVE  EffectReconciled(d, t, x, observed) \in Ledger
<1>1. d[t].external_effects[x] \in EffectRecord
  BY StoredTask DEF TaskRecord
<1>2. [d[t].external_effects[x] EXCEPT !.status = observed] \in EffectRecord
  BY <1>1 DEF EffectRecord, EXTERNAL_EFFECT_STATES
<1>3. [d[t].external_effects EXCEPT ![x] = [d[t].external_effects[x] EXCEPT !.status = observed]]
        \in [Effect -> EffectRecord \cup {None}]
  BY <1>2, StoredTask DEF TaskRecord
<1> QED
  BY <1>3, EffectsChangedType DEF EffectReconciled

(* acquire_lease stores a lease with the next fence. *)
LEMMA LeaseAcquiredType ==
    ASSUME NEW d \in Ledger, NEW t \in Tasks(d), NEW h \in Holder, NEW ttl \in Nat, NEW now \in Nat
    PROVE  NextFence(d, t) \in Nat /\ LeaseAcquired(d, t, h, ttl, now) \in Ledger
<1> DEFINE lease == [holder |-> h, fence |-> NextFence(d, t),
                     heartbeat_at |-> now, expires_at |-> now + ttl]
<1>1. NextFence(d, t) \in Nat
  BY StoredTask DEF NextFence, TaskRecord, Lease
<1>2. lease \in Lease
  BY <1>1 DEF Lease
<1>3. [d[t] EXCEPT !.lease = lease] \in TaskRecord
  BY <1>2, StoredTask DEF TaskRecord
<1>4. [d EXCEPT ![t] = [d[t] EXCEPT !.lease = lease]] \in Ledger
  BY <1>3, StoredTask, ReplaceTask
<1> QED
  BY <1>1, <1>4 DEF LeaseAcquired

(* Replacing the lease of a task by a lease or by none. *)
LEMMA LeaseChangedType ==
    ASSUME NEW d \in Ledger, NEW t \in Tasks(d), NEW lease \in Lease \cup {None}
    PROVE  [d EXCEPT ![t] = [d[t] EXCEPT !.lease = lease]] \in Ledger
<1>1. [d[t] EXCEPT !.lease = lease] \in TaskRecord
  BY StoredTask DEF TaskRecord
<1> QED
  BY <1>1, StoredTask, ReplaceTask

(* heartbeat moves heartbeat_at. *)
LEMMA LeaseHeartbeatType ==
    ASSUME NEW d \in Ledger, NEW t \in Tasks(d), NEW now \in Nat, d[t].lease # None
    PROVE  LeaseHeartbeat(d, t, now) \in Ledger
<1>1. d[t].lease \in Lease
  BY StoredTask DEF TaskRecord
<1>2. [d[t].lease EXCEPT !.heartbeat_at = now] \in Lease
  BY <1>1 DEF Lease
<1>3. [d EXCEPT ![t] = [d[t] EXCEPT !.lease = [d[t].lease EXCEPT !.heartbeat_at = now]]] \in Ledger
  BY <1>2, LeaseChangedType
<1> QED
  BY <1>3 DEF LeaseHeartbeat

(* release_lease leaves no lease. *)
LEMMA LeaseReleasedType ==
    ASSUME NEW d \in Ledger, NEW t \in Tasks(d)
    PROVE  LeaseReleased(d, t) \in Ledger
BY LeaseChangedType DEF LeaseReleased

(* renew_lease moves the expiry and the heartbeat. *)
LEMMA LeaseRenewedType ==
    ASSUME NEW d \in Ledger, NEW t \in Tasks(d), NEW ttl \in Nat, NEW now \in Nat,
           d[t].lease # None
    PROVE  LeaseRenewed(d, t, ttl, now) \in Ledger
<1>1. d[t].lease \in Lease /\ now + ttl \in Nat
  BY StoredFields
<1>2. [d[t].lease EXCEPT !.heartbeat_at = now, !.expires_at = now + ttl] \in Lease
  BY <1>1, LeaseFieldsReplaced
<1> QED
  BY <1>2, LeaseChangedType DEF LeaseRenewed

(* transition and resume store a status. *)
LEMMA TransitionedType ==
    ASSUME NEW d \in Ledger, NEW t \in Tasks(d), NEW status \in STATES
    PROVE  Transitioned(d, t, status) \in Ledger
<1>1. [d[t] EXCEPT !.status = status] \in TaskRecord
  BY StoredTask DEF TaskRecord
<1> QED
  BY <1>1, StoredTask, ReplaceTask DEF Transitioned

(* checkpoint counts the cursor up. *)
LEMMA CheckpointedType ==
    ASSUME NEW d \in Ledger, NEW t \in Tasks(d)
    PROVE  Checkpointed(d, t) \in Ledger
<1>1. [d[t] EXCEPT !.cursor_version = d[t].cursor_version + 1] \in TaskRecord
  BY StoredTask DEF TaskRecord
<1> QED
  BY <1>1, StoredTask, ReplaceTask DEF Checkpointed

(* set_waitpoint stores a waitpoint and drops the lease. *)
LEMMA WaitpointSetType ==
    ASSUME NEW d \in Ledger, NEW t \in Tasks(d), NEW cred \in Credential
    PROVE  WaitpointSet(d, t, cred) \in Ledger
<1>1. "WAITING_APPROVAL" \in STATES
  BY DEF STATES
<1>2. [d[t] EXCEPT !.cursor_version = d[t].cursor_version + 1, !.waitpoint = cred,
                   !.status = "WAITING_APPROVAL", !.lease = None] \in TaskRecord
  BY <1>1, StoredTask, StoredFields, WaitpointFields
<1> QED
  BY <1>2, StoredTask, ReplaceTask DEF WaitpointSet

(* clear_waitpoint drops the waitpoint. *)
LEMMA WaitpointClearedType ==
    ASSUME NEW d \in Ledger, NEW t \in Tasks(d)
    PROVE  WaitpointCleared(d, t) \in Ledger
<1>1. "RUNNING" \in STATES
  BY DEF STATES
<1>2. [d[t] EXCEPT !.waitpoint = None, !.status = "RUNNING"] \in TaskRecord
  BY <1>1, StoredTask, ClearFields
<1> QED
  BY <1>2, StoredTask, ReplaceTask DEF WaitpointCleared

(* What record_usage adds to the counters of a task. *)
LEMMA ChargedType ==
    ASSUME NEW r \in TaskRecord, NEW amount \in [Meter -> Nat]
    PROVE  Charged(r, amount) \in TaskRecord /\ Charged(r, amount).lease = r.lease
BY DEF Charged, TaskRecord

(* What record_usage makes of a task that is over its budget. *)
LEMMA OverspentType ==
    ASSUME NEW r \in TaskRecord
    PROVE  Overspent(r) \in TaskRecord /\ Overspent(r).lease = r.lease
<1>1. "BLOCKED" \in STATES /\ r.errors \cup {"BUDGET_EXCEEDED"} \in SUBSET ErrorKind
  BY DEF STATES, ErrorKind, TaskRecord
<1>2. Overspent(r) \in TaskRecord
  BY <1>1, StatusErrorFields DEF Overspent
<1>3. Overspent(r).lease = r.lease
  BY DEF Overspent, TaskRecord
<1> QED
  BY <1>2, <1>3

(* record_usage charges, then compares with the budget. *)
LEMMA UsageRecordedType ==
    ASSUME NEW d \in Ledger, NEW t \in Tasks(d), NEW amount \in [Meter -> Nat]
    PROVE  UsageRecorded(d, t, amount) \in Ledger
BY ChargedType, OverspentType, StoredTask, ReplaceTask DEF UsageRecorded

(* record_evidence appends evidence. *)
LEMMA EvidenceRecordedType ==
    ASSUME NEW d \in Ledger, NEW t \in Tasks(d), NEW verdict \in EvidenceState
    PROVE  EvidenceRecorded(d, t, verdict) \in Ledger
<1>1. [d[t] EXCEPT !.evidence = d[t].evidence \cup {verdict}] \in TaskRecord
  BY StoredTask DEF TaskRecord
<1> QED
  BY <1>1, StoredTask, ReplaceTask DEF EvidenceRecorded

(* record_error on one record: the status it leads to, and the retry limit. *)
LEMMA FailedType ==
    ASSUME NEW r \in TaskRecord, NEW kind \in ErrorKind
    PROVE  Failed(r, kind) \in TaskRecord /\ Failed(r, kind).lease = r.lease
<1> DEFINE status == ErrorStatus(r, kind)
           retries == r.retry_count + (IF status = "RETRYING" THEN 1 ELSE 0)
<1>1. status \in STATES
  BY DEF STATES, ErrorStatus
<1>2. r.retry_count \in 0..MAX_RETRIES /\ r.errors \cup {kind} \in SUBSET ErrorKind
  BY DEF TaskRecord
<1>3. status = "RETRYING" => r.retry_count < MAX_RETRIES
  BY <1>2, LimitsAreNatural DEF ErrorStatus, RetriesExhausted
<1>4. retries \in 0..MAX_RETRIES
  <2> HIDE DEF status
  <2> QED BY <1>2, <1>3, LimitsAreNatural
<1> HIDE DEF status, retries
<1>5. [r EXCEPT !.status = status, !.errors = r.errors \cup {kind}, !.retry_count = retries]
        \in TaskRecord
  BY <1>1, <1>2, <1>4, RetryFields
<1>6. [r EXCEPT !.status = status, !.errors = r.errors \cup {kind},
                !.retry_count = retries].lease = r.lease
  BY DEF TaskRecord
<1> QED
  BY <1>5, <1>6 DEF Failed, status, retries

(* record_error on the ledger. *)
LEMMA ErrorRecordedType ==
    ASSUME NEW d \in Ledger, NEW t \in Tasks(d), NEW kind \in ErrorKind
    PROVE  ErrorRecorded(d, t, kind) \in Ledger
BY FailedType, StoredTask, ReplaceTask DEF ErrorRecorded

-----------------------------------------------------------------------------
(* Methods other than the lease's own leave every lease as it was.         *)
LeasesKept(d, e) ==
    \A t \in Tasks(d) : t \in Tasks(e) /\ e[t].lease = d[t].lease

(* Replacing a task by one with the same lease keeps all leases. *)
LEMMA ReplaceKeepsLeases ==
    ASSUME NEW d \in Ledger, NEW t \in Tasks(d), NEW r \in TaskRecord, r.lease = d[t].lease
    PROVE  LeasesKept(d, [d EXCEPT ![t] = r])
BY NoneIsNoRecord DEF LeasesKept, Tasks, Ledger

(* create touches no task that exists. *)
LEMMA CreateKeepsLeases ==
    ASSUME NEW d \in Ledger, NEW t \in Task, MayCreate(d, t), NEW key, NEW budget
    PROVE  LeasesKept(d, Created(d, t, key, budget))
BY DEF LeasesKept, MayCreate, Created, Tasks, Ledger

(* set_dependencies changes no lease. *)
LEMMA DependenciesKeepLeases ==
    ASSUME NEW d \in Ledger, NEW t \in Tasks(d), NEW deps \in SUBSET Task
    PROVE  LeasesKept(d, DependenciesSet(d, t, deps))
<1>1. [d[t] EXCEPT !.dependencies = deps] \in TaskRecord
  BY StoredTask DEF TaskRecord
<1>2. [d[t] EXCEPT !.dependencies = deps].lease = d[t].lease
  BY StoredTask DEF TaskRecord
<1> QED
  BY <1>1, <1>2, ReplaceKeepsLeases DEF DependenciesSet

(* attach_child changes no lease, of the parent, the child or another task. *)
LEMMA ChildrenKeepLeases ==
    ASSUME NEW d \in Ledger, NEW p \in Tasks(d), NEW c \in Tasks(d)
    PROVE  LeasesKept(d, ChildAttached(d, p, c))
<1> DEFINE listed == [d[p] EXCEPT !.children = d[p].children \cup {c}]
           mid == [d EXCEPT ![p] = listed]
           moved == [mid[c] EXCEPT !.parent_task_id = p]
<1>1. listed \in TaskRecord /\ listed.lease = d[p].lease
  BY StoredTask DEF TaskRecord
<1>2. mid \in Ledger /\ LeasesKept(d, mid)
  <2> HIDE DEF listed
  <2> QED BY <1>1, StoredTask, ReplaceTask, ReplaceKeepsLeases
<1>3. c \in Tasks(mid) /\ mid[c] \in TaskRecord
  <2> HIDE DEF mid
  <2> QED BY <1>2, StoredTask DEF LeasesKept
<1>4. moved \in TaskRecord /\ moved.lease = mid[c].lease
  <2>1. p \in Task
    BY StoredTask
  <2> HIDE DEF mid
  <2> QED BY <1>3, <2>1 DEF TaskRecord
<1>5. LeasesKept(mid, [mid EXCEPT ![c] = moved])
  <2> HIDE DEF mid, moved
  <2> QED BY <1>2, <1>3, <1>4, ReplaceKeepsLeases
<1>6. LeasesKept(d, [mid EXCEPT ![c] = moved])
  BY <1>2, <1>5 DEF LeasesKept
<1> QED
  BY <1>6 DEF ChildAttached

(* Replacing the effects of a task changes no lease. *)
LEMMA EffectFieldKeepsLeases ==
    ASSUME NEW d \in Ledger, NEW t \in Tasks(d),
           NEW effects \in [Effect -> EffectRecord \cup {None}]
    PROVE  LeasesKept(d, [d EXCEPT ![t] = [d[t] EXCEPT !.external_effects = effects]])
<1>1. [d[t] EXCEPT !.external_effects = effects] \in TaskRecord
  BY StoredTask DEF TaskRecord
<1>2. [d[t] EXCEPT !.external_effects = effects].lease = d[t].lease
  BY StoredTask DEF TaskRecord
<1> QED
  BY <1>1, <1>2, ReplaceKeepsLeases

(* record_external_effect and reconcile_external_effect change no lease. *)
LEMMA EffectsKeepLeases ==
    ASSUME NEW d \in Ledger, NEW t \in Tasks(d), NEW x \in Effect
    PROVE  /\ \A intent \in Digest : LeasesKept(d, EffectRecorded(d, t, x, intent))
           /\ \A s \in ObservedState : d[t].external_effects[x] # None
                                          => LeasesKept(d, EffectReconciled(d, t, x, s))
<1>1. ASSUME NEW intent \in Digest PROVE LeasesKept(d, EffectRecorded(d, t, x, intent))
  <2>1. [d[t].external_effects EXCEPT ![x] = [intent |-> intent, status |-> "PENDING"]]
          \in [Effect -> EffectRecord \cup {None}]
    BY StoredTask DEF TaskRecord, EffectRecord, EXTERNAL_EFFECT_STATES
  <2> QED
    BY <2>1, EffectFieldKeepsLeases DEF EffectRecorded
<1>2. ASSUME NEW s \in ObservedState, d[t].external_effects[x] # None
      PROVE  LeasesKept(d, EffectReconciled(d, t, x, s))
  <2>1. d[t].external_effects[x] \in EffectRecord
    BY <1>2, StoredTask DEF TaskRecord
  <2>2. [d[t].external_effects[x] EXCEPT !.status = s] \in EffectRecord
    BY <2>1 DEF EffectRecord, EXTERNAL_EFFECT_STATES
  <2>3. [d[t].external_effects EXCEPT ![x] = [d[t].external_effects[x] EXCEPT !.status = s]]
          \in [Effect -> EffectRecord \cup {None}]
    BY <2>2, StoredTask DEF TaskRecord
  <2> QED
    BY <2>3, EffectFieldKeepsLeases DEF EffectReconciled
<1> QED
  BY <1>1, <1>2

(* transition, resume, checkpoint and clear_waitpoint change no lease. *)
LEMMA StatusKeepsLeases ==
    ASSUME NEW d \in Ledger, NEW t \in Tasks(d), NEW status \in STATES
    PROVE  /\ LeasesKept(d, Transitioned(d, t, status))
           /\ LeasesKept(d, WaitpointCleared(d, t))
           /\ LeasesKept(d, Checkpointed(d, t))
<1>1. LeasesKept(d, Transitioned(d, t, status))
  <2>1. [d[t] EXCEPT !.status = status] \in TaskRecord
    BY StoredTask DEF TaskRecord
  <2>2. [d[t] EXCEPT !.status = status].lease = d[t].lease
    BY StoredTask DEF TaskRecord
  <2> QED
    BY <2>1, <2>2, ReplaceKeepsLeases DEF Transitioned
<1>2. LeasesKept(d, WaitpointCleared(d, t))
  <2>1. "RUNNING" \in STATES
    BY DEF STATES
  <2>2. [d[t] EXCEPT !.waitpoint = None, !.status = "RUNNING"] \in TaskRecord
    BY <2>1, StoredTask, ClearFields
  <2>3. [d[t] EXCEPT !.waitpoint = None, !.status = "RUNNING"].lease = d[t].lease
    BY StoredTask DEF TaskRecord
  <2> QED
    BY <2>2, <2>3, ReplaceKeepsLeases DEF WaitpointCleared
<1>3. LeasesKept(d, Checkpointed(d, t))
  <2>1. [d[t] EXCEPT !.cursor_version = d[t].cursor_version + 1] \in TaskRecord
    BY StoredTask DEF TaskRecord
  <2>2. [d[t] EXCEPT !.cursor_version = d[t].cursor_version + 1].lease = d[t].lease
    BY StoredTask DEF TaskRecord
  <2> QED
    BY <2>1, <2>2, ReplaceKeepsLeases DEF Checkpointed
<1> QED
  BY <1>1, <1>2, <1>3

(* record_usage, record_evidence and record_error change no lease. *)
LEMMA ReportsKeepLeases ==
    ASSUME NEW d \in Ledger, NEW t \in Tasks(d)
    PROVE  /\ \A amount \in [Meter -> Nat] : LeasesKept(d, UsageRecorded(d, t, amount))
           /\ \A verdict \in EvidenceState : LeasesKept(d, EvidenceRecorded(d, t, verdict))
           /\ \A kind \in ErrorKind : LeasesKept(d, ErrorRecorded(d, t, kind))
<1>1. ASSUME NEW amount \in [Meter -> Nat] PROVE LeasesKept(d, UsageRecorded(d, t, amount))
  <2> DEFINE charged == Charged(d[t], amount)
             r == IF Exceeded(charged) THEN Overspent(charged) ELSE charged
  <2>1. r \in TaskRecord /\ r.lease = d[t].lease
    BY ChargedType, OverspentType, StoredTask
  <2>2. UsageRecorded(d, t, amount) = [d EXCEPT ![t] = r]
    BY DEF UsageRecorded
  <2> HIDE DEF r
  <2> QED
    BY <2>1, <2>2, ReplaceKeepsLeases
<1>2. ASSUME NEW verdict \in EvidenceState PROVE LeasesKept(d, EvidenceRecorded(d, t, verdict))
  <2>1. [d[t] EXCEPT !.evidence = d[t].evidence \cup {verdict}] \in TaskRecord
    BY StoredTask DEF TaskRecord
  <2>2. [d[t] EXCEPT !.evidence = d[t].evidence \cup {verdict}].lease = d[t].lease
    BY StoredTask DEF TaskRecord
  <2> QED
    BY <2>1, <2>2, ReplaceKeepsLeases DEF EvidenceRecorded
<1>3. ASSUME NEW kind \in ErrorKind PROVE LeasesKept(d, ErrorRecorded(d, t, kind))
  BY FailedType, StoredTask, ReplaceKeepsLeases DEF ErrorRecorded
<1> QED
  BY <1>1, <1>2, <1>3

(* The lease's own methods, and set_waitpoint, change one lease. *)
OneLease(d, e, t, lease) ==
    /\ t \in Tasks(e)
    /\ e[t].lease = lease
    /\ \A u \in Tasks(d) \ {t} : u \in Tasks(e) /\ e[u].lease = d[u].lease

(* Replacing one task changes at most its own lease. *)
LEMMA ReplaceOneLease ==
    ASSUME NEW d \in Ledger, NEW t \in Tasks(d), NEW r \in TaskRecord
    PROVE  OneLease(d, [d EXCEPT ![t] = r], t, r.lease)
BY NoneIsNoRecord DEF OneLease, Tasks, Ledger

(* The same for the lease field alone. *)
LEMMA LeaseFieldChanges ==
    ASSUME NEW d \in Ledger, NEW t \in Tasks(d), NEW lease \in Lease \cup {None}
    PROVE  OneLease(d, [d EXCEPT ![t] = [d[t] EXCEPT !.lease = lease]], t, lease)
<1>1. [d[t] EXCEPT !.lease = lease] \in TaskRecord
  BY StoredTask DEF TaskRecord
<1>2. [d[t] EXCEPT !.lease = lease].lease = lease
  BY StoredTask DEF TaskRecord
<1> QED
  BY <1>1, <1>2, ReplaceOneLease

(* acquire_lease changes one lease, to the one it grants. *)
LEMMA AcquireChangesLease ==
    ASSUME NEW d \in Ledger, NEW t \in Tasks(d), NEW h \in Holder, NEW ttl \in Nat, NEW now \in Nat
    PROVE  OneLease(d, LeaseAcquired(d, t, h, ttl, now), t,
                    [holder |-> h, fence |-> NextFence(d, t),
                     heartbeat_at |-> now, expires_at |-> now + ttl])
<1>1. [holder |-> h, fence |-> NextFence(d, t),
       heartbeat_at |-> now, expires_at |-> now + ttl] \in Lease
  BY LeaseAcquiredType DEF Lease
<1> QED
  BY <1>1, LeaseFieldChanges DEF LeaseAcquired

(* renew_lease and heartbeat change one lease and keep its holder and fence. *)
LEMMA RenewChangesLease ==
    ASSUME NEW d \in Ledger, NEW t \in Tasks(d), NEW ttl \in Nat, NEW now \in Nat,
           d[t].lease # None
    PROVE  /\ OneLease(d, LeaseRenewed(d, t, ttl, now), t,
                    [d[t].lease EXCEPT !.heartbeat_at = now, !.expires_at = now + ttl])
           /\ OneLease(d, LeaseHeartbeat(d, t, now), t,
                       [d[t].lease EXCEPT !.heartbeat_at = now])
<1>1. d[t].lease \in Lease /\ now + ttl \in Nat
  BY StoredFields
<1>2. [d[t].lease EXCEPT !.heartbeat_at = now, !.expires_at = now + ttl] \in Lease
  BY <1>1, LeaseFieldsReplaced
<1>3. [d[t].lease EXCEPT !.heartbeat_at = now] \in Lease
  BY <1>1, LeaseFieldsReplaced
<1> QED
  BY <1>2, <1>3, LeaseFieldChanges DEF LeaseRenewed, LeaseHeartbeat

(* release_lease ends one lease. *)
LEMMA ReleaseChangesLease ==
    ASSUME NEW d \in Ledger, NEW t \in Tasks(d)
    PROVE  OneLease(d, LeaseReleased(d, t), t, None)
BY LeaseFieldChanges DEF LeaseReleased

(* set_waitpoint ends one lease. *)
LEMMA WaitpointChangesLease ==
    ASSUME NEW d \in Ledger, NEW t \in Tasks(d), NEW cred \in Credential
    PROVE  OneLease(d, WaitpointSet(d, t, cred), t, None)
<1>1. "WAITING_APPROVAL" \in STATES
  BY DEF STATES
<1>2. [d[t] EXCEPT !.cursor_version = d[t].cursor_version + 1, !.waitpoint = cred,
                   !.status = "WAITING_APPROVAL", !.lease = None] \in TaskRecord
  BY <1>1, StoredTask, StoredFields, WaitpointFields
<1>3. [d[t] EXCEPT !.cursor_version = d[t].cursor_version + 1, !.waitpoint = cred,
                   !.status = "WAITING_APPROVAL", !.lease = None].lease = None
  BY StoredTask DEF TaskRecord
<1> QED
  BY <1>2, <1>3, ReplaceOneLease DEF WaitpointSet
=============================================================================
