-------------------------- MODULE TaskLedgerProofs --------------------------
(* The Task Ledger and the claims that the inbox makes on it, for any       *)
(* tasks, workers, lease durations and bounds: types and lease exclusion,   *)
(* what one step may do to a lease, to the work that a lease protects, to   *)
(* effects, accounts and dependencies; then no executor without its intent  *)
(* on record, no start where one ran, and no two runs under one claim       *)
(* effect while leases end by expiring.                                     *)
EXTENDS InboxClaims, LedgerDataProofs

-----------------------------------------------------------------------------
(* Types, and what workers believe of their leases                         *)

(* Every step keeps the types. *)
LEMMA TypeStep == TypeOK /\ [Next]_vars => TypeOK'
<1> SUFFICES ASSUME TypeOK, [Next]_vars PROVE TypeOK'
  OBVIOUS
<1> USE DEF TypeOK
<1>1. ASSUME NEW t \in Task, Structure(t) PROVE TypeOK'
  <2>1. ASSUME NEW key \in Key, NEW budget \in Budgets, Create(t, key, budget) PROVE TypeOK'
    BY <2>1, CreatedType, BudgetsAreBudgets DEF Create
  <2>2. ASSUME NEW deps \in SUBSET Task, SetDependencies(t, deps) PROVE TypeOK'
    BY <2>2, DependenciesSetType DEF SetDependencies, MaySetDependencies
  <2>3. ASSUME NEW child \in Task, AttachChild(t, child) PROVE TypeOK'
    BY <2>3, ChildAttachedType DEF AttachChild, MayAttachChild
  <2>4. ASSUME NEW x \in Effect, NEW intent \in Digest, RecordExternalEffect(t, x, intent)
        PROVE  TypeOK'
    BY <2>4, EffectRecordedType DEF RecordExternalEffect, MayRecordEffect
  <2>5. ASSUME NEW x \in Effect, NEW s \in ObservedState, ReconcileExternalEffect(t, x, s)
        PROVE  TypeOK'
    BY <2>5, EffectReconciledType DEF ReconcileExternalEffect, MayReconcileEffect
  <2> QED
    BY <1>1, <2>1, <2>2, <2>3, <2>4, <2>5 DEF Structure
<1>2. ASSUME NEW h \in Holder, NEW t \in Task, LeaseWork(h, t) PROVE TypeOK'
  <2>1. ASSUME tickets[h][t] # None PROVE TicketEnded(h, t) \in [Holder -> [Task -> Ticket \cup {None}]]
    <3>1. tickets[h][t] \in Ticket
      BY <2>1
    <3>2. [tickets[h][t] EXCEPT !.expires_at = 0] \in Ticket
      BY <3>1 DEF Ticket
    <3> QED
      BY <3>2 DEF TicketEnded
  <2>2. ASSUME NEW ttl \in Ttl, AcquireLease(h, t, ttl) PROVE TypeOK'
    <3>1. ttl \in Nat /\ t \in Tasks(tasks)
      BY <2>2, TtlIsPositive DEF AcquireLease, MayAcquireLease
    <3>2. NextFence(tasks, t) \in Nat /\ LeaseAcquired(tasks, t, h, ttl, clock) \in Ledger
      BY <3>1, LeaseAcquiredType
    <3>3. [fence |-> NextFence(tasks, t), expires_at |-> clock + ttl] \in Ticket
      BY <3>1, <3>2 DEF Ticket
    <3> QED
      BY <2>2, <3>2, <3>3 DEF AcquireLease
  <2>3. ASSUME NEW ttl \in Ttl, RenewLease(h, t, ttl) PROVE TypeOK'
    <3>1. ttl \in Nat /\ t \in Tasks(tasks) /\ tasks[t].lease # None
      BY <2>3, TtlIsPositive DEF RenewLease, OwnsLease
    <3>2. LeaseRenewed(tasks, t, ttl, clock) \in Ledger
      BY <3>1, LeaseRenewedType
    <3>3. tickets[h][t] # None
      BY <2>3, <3>1 DEF RenewLease, OwnsLease, LeaseAccepts, Presented
    <3>4. [tickets[h][t] EXCEPT !.expires_at = clock + ttl] \in Ticket
      BY <3>1, <3>3 DEF Ticket
    <3> QED
      BY <2>3, <3>2, <3>4 DEF RenewLease
  <2>4. ASSUME Heartbeat(h, t) PROVE TypeOK'
    BY <2>4, LeaseHeartbeatType DEF Heartbeat, OwnsLease
  <2>5. ASSUME ReleaseLease(h, t) PROVE TypeOK'
    BY <2>1, <2>5, LeaseReleasedType DEF ReleaseLease, MayReleaseLease
  <2>6. ASSUME SetWaitpoint(h, t) PROVE TypeOK'
    <3>1. Presented(h, t) \in Credential
      BY <2>6, NoneIsNoHolder DEF SetWaitpoint, Presented, Ticket, Credential
    <3> QED
      BY <2>1, <2>6, <3>1, WaitpointSetType DEF SetWaitpoint, MaySetWaitpoint
  <2>7. ASSUME ClearWaitpoint(h, t) PROVE TypeOK'
    BY <2>7, WaitpointClearedType DEF ClearWaitpoint, MayClearWaitpoint
  <2> QED
    BY <1>2, <2>2, <2>3, <2>4, <2>5, <2>6, <2>7 DEF LeaseWork
<1>3. ASSUME NEW t \in Task, NEW cred, StatusWork(t, cred) PROVE TypeOK'
  <2>1. ASSUME NEW s \in STATES, Transition(t, s, cred) PROVE TypeOK'
    BY <2>1, TransitionedType DEF Transition, MayTransition
  <2>2. ASSUME Checkpoint(t, cred) PROVE TypeOK'
    BY <2>2, CheckpointedType DEF Checkpoint, MayCheckpoint
  <2>3. ASSUME NEW amount \in Amounts, RecordUsage(t, amount, cred) PROVE TypeOK'
    BY <2>3, UsageRecordedType, AmountsAreAmounts DEF RecordUsage, MayRecordUsage
  <2>4. ASSUME NEW e \in EvidenceState, RecordEvidence(t, e, cred) PROVE TypeOK'
    BY <2>4, EvidenceRecordedType DEF RecordEvidence, MayRecordEvidence
  <2>5. ASSUME NEW kind \in Reported, RecordError(t, kind, cred) PROVE TypeOK'
    BY <2>5, ErrorRecordedType, ReportedAreErrors DEF RecordError, MayRecordError
  <2> QED
    BY <1>3, <2>1, <2>2, <2>3, <2>4, <2>5 DEF StatusWork
<1>4. ASSUME NEW t \in Task, Resume(t) PROVE TypeOK'
  <2>1. "RUNNING" \in STATES
    BY DEF STATES
  <2> QED
    BY <1>4, <2>1, TransitionedType DEF Resume, MayResume
<1>5. ASSUME Tick PROVE TypeOK'
  BY <1>5 DEF Tick
<1>6. ASSUME NEW h \in Holder, Crash(h) PROVE TypeOK'
  BY <1>6 DEF Crash
<1>7. ASSUME UNCHANGED vars PROVE TypeOK'
  BY <1>7 DEF vars
<1> QED
  BY <1>1, <1>2, <1>3, <1>4, <1>5, <1>6, <1>7 DEF Next

(* The state stays within its types (every method of TaskLedger). *)
THEOREM TypeCorrect == Spec => []TypeOK
<1>1. Init => TypeOK
  BY DEF Init, TypeOK, EmptyLedger, Ledger
<1> QED
  BY <1>1, TypeStep, PTL DEF Spec

-----------------------------------------------------------------------------
(* A step that changes neither time nor tickets nor leases keeps beliefs true. *)
LEMMA QuietStep ==
    ASSUME TypeOK, BeliefIsTrue, UNCHANGED <<clock, tickets>>, LeasesKept(tasks, tasks')
    PROVE  BeliefIsTrue'
<1> SUFFICES ASSUME NEW h \in Holder, NEW t \in Task, Believes(h, t)'
             PROVE  /\ tasks'[t] # None
                    /\ tasks'[t].lease # None
                    /\ tasks'[t].lease.holder = h
                    /\ tasks'[t].lease.fence = tickets'[h][t].fence
                    /\ tasks'[t].lease.expires_at = tickets'[h][t].expires_at
  BY DEF BeliefIsTrue
<1>1. Believes(h, t)
  BY DEF Believes
<1>2. t \in Tasks(tasks)
  BY <1>1 DEF BeliefIsTrue, Tasks
<1> QED
  BY <1>1, <1>2 DEF BeliefIsTrue, LeasesKept, Tasks

(* When t carries a lease that h owns, no one else believes to hold t. *)
LEMMA OnlyOwnerBelieves ==
    ASSUME TypeOK, BeliefIsTrue, NEW g \in Holder, NEW h \in Holder, NEW t \in Tasks(tasks),
           Believes(g, t), LeaseAccepts(tasks, t, Presented(h, t), clock)
    PROVE  g = h
BY NoneIsNoHolder DEF BeliefIsTrue, LeaseAccepts, Presented, Tasks

(* BeliefIsTrue is inductive, given the types. *)
LEMMA BeliefStep == TypeOK /\ BeliefIsTrue /\ [Next]_vars => BeliefIsTrue'
<1> SUFFICES ASSUME TypeOK, BeliefIsTrue, [Next]_vars PROVE BeliefIsTrue'
  OBVIOUS
<1>t. tasks \in Ledger /\ clock \in Nat
  BY DEF TypeOK
<1>1. ASSUME NEW t \in Task, Structure(t) PROVE BeliefIsTrue'
  <2>1. ASSUME NEW key \in Key, NEW budget \in Budgets, Create(t, key, budget) PROVE BeliefIsTrue'
    BY <1>t, <2>1, CreateKeepsLeases, QuietStep DEF Create
  <2>2. ASSUME NEW deps \in SUBSET Task, SetDependencies(t, deps) PROVE BeliefIsTrue'
    BY <1>t, <2>2, DependenciesKeepLeases, QuietStep DEF SetDependencies, MaySetDependencies
  <2>3. ASSUME NEW child \in Task, AttachChild(t, child) PROVE BeliefIsTrue'
    BY <1>t, <2>3, ChildrenKeepLeases, QuietStep DEF AttachChild, MayAttachChild
  <2>4. ASSUME NEW x \in Effect, NEW intent \in Digest, RecordExternalEffect(t, x, intent)
        PROVE  BeliefIsTrue'
    BY <1>t, <2>4, EffectsKeepLeases, QuietStep DEF RecordExternalEffect, MayRecordEffect
  <2>5. ASSUME NEW x \in Effect, NEW s \in ObservedState, ReconcileExternalEffect(t, x, s)
        PROVE  BeliefIsTrue'
    BY <1>t, <2>5, EffectsKeepLeases, QuietStep DEF ReconcileExternalEffect, MayReconcileEffect
  <2> QED
    BY <1>1, <2>1, <2>2, <2>3, <2>4, <2>5 DEF Structure
<1>2. ASSUME NEW h \in Holder, NEW t \in Task, LeaseWork(h, t) PROVE BeliefIsTrue'
  <2>e. ASSUME tickets[h][t] # None, tickets' = TicketEnded(h, t), clock' = clock,
               OneLease(tasks, tasks', t, None), LeaseAccepts(tasks, t, Presented(h, t), clock),
               t \in Tasks(tasks)
        PROVE  BeliefIsTrue'
    <3> SUFFICES ASSUME NEW g \in Holder, NEW u \in Task, Believes(g, u)'
                 PROVE  /\ tasks'[u] # None
                        /\ tasks'[u].lease # None
                        /\ tasks'[u].lease.holder = g
                        /\ tasks'[u].lease.fence = tickets'[g][u].fence
                        /\ tasks'[u].lease.expires_at = tickets'[g][u].expires_at
      BY DEF BeliefIsTrue
    <3>1. ~(g = h /\ u = t)
      BY <2>e DEF Believes, TicketEnded, TypeOK, Ticket
    <3>2. tickets'[g][u] = tickets[g][u] /\ Believes(g, u)
      BY <2>e, <3>1 DEF Believes, TicketEnded, TypeOK
    <3>3. u # t
      BY <2>e, <3>1, <3>2, OnlyOwnerBelieves
    <3> QED
      BY <2>e, <3>2, <3>3 DEF OneLease, Tasks, BeliefIsTrue
  <2>1. ASSUME NEW ttl \in Ttl, AcquireLease(h, t, ttl) PROVE BeliefIsTrue'
    <3> SUFFICES ASSUME NEW g \in Holder, NEW u \in Task, Believes(g, u)'
                 PROVE  /\ tasks'[u] # None
                        /\ tasks'[u].lease # None
                        /\ tasks'[u].lease.holder = g
                        /\ tasks'[u].lease.fence = tickets'[g][u].fence
                        /\ tasks'[u].lease.expires_at = tickets'[g][u].expires_at
      BY DEF BeliefIsTrue
    <3> DEFINE lease == [holder |-> h, fence |-> NextFence(tasks, t),
                         heartbeat_at |-> clock, expires_at |-> clock + ttl]
    <3>1. t \in Tasks(tasks) /\ ttl \in Nat /\ lease \in Lease
      BY <1>t, <2>1, TtlIsPositive, LeaseAcquiredType DEF AcquireLease, MayAcquireLease, Lease
    <3>2. OneLease(tasks, tasks', t, lease)
      BY <1>t, <2>1, <3>1, AcquireChangesLease DEF AcquireLease
    <3>3. CASE g = h /\ u = t
      <4>1. tickets'[h][t] = [fence |-> NextFence(tasks, t), expires_at |-> clock + ttl]
        BY <2>1 DEF AcquireLease, TypeOK
      <4> QED
        BY <3>1, <3>2, <3>3, <4>1, NoneIsNoRecord DEF OneLease, Tasks
    <3>4. CASE ~(g = h /\ u = t)
      <4>1. tickets'[g][u] = tickets[g][u] /\ Believes(g, u)
        BY <2>1, <3>4 DEF Believes, AcquireLease, TypeOK
      <4>2. u # t
        BY <2>1, <4>1 DEF AcquireLease, MayAcquireLease, Unexpired, BeliefIsTrue, Believes
      <4> QED
        BY <3>2, <4>1, <4>2 DEF OneLease, Tasks, BeliefIsTrue
    <3> QED
      BY <3>3, <3>4
  <2>2. ASSUME NEW ttl \in Ttl, RenewLease(h, t, ttl) PROVE BeliefIsTrue'
    <3> SUFFICES ASSUME NEW g \in Holder, NEW u \in Task, Believes(g, u)'
                 PROVE  /\ tasks'[u] # None
                        /\ tasks'[u].lease # None
                        /\ tasks'[u].lease.holder = g
                        /\ tasks'[u].lease.fence = tickets'[g][u].fence
                        /\ tasks'[u].lease.expires_at = tickets'[g][u].expires_at
      BY DEF BeliefIsTrue
    <3> DEFINE lease == [tasks[t].lease EXCEPT !.heartbeat_at = clock, !.expires_at = clock + ttl]
    <3>1. t \in Tasks(tasks) /\ ttl \in Nat /\ tasks[t].lease \in Lease
      BY <1>t, <2>2, TtlIsPositive, StoredFields DEF RenewLease, OwnsLease
    <3>2. OneLease(tasks, tasks', t, lease)
      BY <1>t, <2>2, <3>1, RenewChangesLease, NoneIsNoRecord DEF RenewLease
    <3>3. tickets[h][t] # None /\ tasks[t].lease.holder = h
          /\ tasks[t].lease.fence = tickets[h][t].fence
      BY <2>2, <3>1, NoneIsNoRecord DEF RenewLease, OwnsLease, LeaseAccepts, Presented
    <3>4. CASE g = h /\ u = t
      <4>1. tickets'[h][t] = [tickets[h][t] EXCEPT !.expires_at = clock + ttl]
        BY <2>2 DEF RenewLease, TypeOK
      <4>2. tickets'[h][t].fence = tickets[h][t].fence /\ tickets'[h][t].expires_at = clock + ttl
        BY <3>3, <4>1 DEF TypeOK, Ticket
      <4>3. lease \in Lease /\ lease.holder = h /\ lease.fence = tickets[h][t].fence
            /\ lease.expires_at = clock + ttl
        <5>1. clock + ttl \in Nat
          BY <1>t, <3>1
        <5>2. lease \in Lease
          BY <1>t, <3>1, <5>1, LeaseFieldsReplaced
        <5>3. lease.holder = tasks[t].lease.holder /\ lease.fence = tasks[t].lease.fence
              /\ lease.expires_at = clock + ttl
          BY <1>t, <3>1, <5>1, LeaseFieldsKept
        <5> HIDE DEF lease
        <5> QED
          BY <3>3, <5>2, <5>3
      <4> QED
        BY <3>2, <3>4, <4>2, <4>3, NoneIsNoRecord DEF OneLease, Tasks
    <3>5. CASE ~(g = h /\ u = t)
      <4>1. tickets'[g][u] = tickets[g][u] /\ Believes(g, u)
        BY <2>2, <3>5 DEF Believes, RenewLease, TypeOK
      <4>2. u # t
        BY <2>2, <3>5, <4>1, OnlyOwnerBelieves DEF RenewLease, OwnsLease
      <4> QED
        BY <3>2, <4>1, <4>2 DEF OneLease, Tasks, BeliefIsTrue
    <3> QED
      BY <3>4, <3>5
  <2>3. ASSUME Heartbeat(h, t) PROVE BeliefIsTrue'
    <3> SUFFICES ASSUME NEW g \in Holder, NEW u \in Task, Believes(g, u)'
                 PROVE  /\ tasks'[u] # None
                        /\ tasks'[u].lease # None
                        /\ tasks'[u].lease.holder = g
                        /\ tasks'[u].lease.fence = tickets'[g][u].fence
                        /\ tasks'[u].lease.expires_at = tickets'[g][u].expires_at
      BY DEF BeliefIsTrue
    <3> DEFINE lease == [tasks[t].lease EXCEPT !.heartbeat_at = clock]
    <3>1. t \in Tasks(tasks) /\ tasks[t].lease \in Lease
      BY <1>t, <2>3, StoredFields DEF Heartbeat, OwnsLease
    <3>2. OneLease(tasks, tasks', t, lease)
      BY <1>t, <2>3, <3>1, RenewChangesLease, NoneIsNoRecord DEF Heartbeat
    <3>3. lease \in Lease /\ lease.holder = tasks[t].lease.holder
          /\ lease.fence = tasks[t].lease.fence /\ lease.expires_at = tasks[t].lease.expires_at
      BY <1>t, <3>1, LeaseFieldsReplaced, LeaseFieldsKept
    <3>4. Believes(g, u) /\ tickets' = tickets
      BY <2>3 DEF Heartbeat, Believes
    <3>5. CASE u = t
      <4> HIDE DEF lease
      <4> QED
        BY <3>2, <3>3, <3>4, <3>5, NoneIsNoRecord DEF OneLease, Tasks, BeliefIsTrue
    <3>6. CASE u # t
      BY <3>2, <3>4, <3>6 DEF OneLease, Tasks, BeliefIsTrue
    <3> QED
      BY <3>5, <3>6
  <2>4. ASSUME ReleaseLease(h, t) PROVE BeliefIsTrue'
    BY <1>t, <2>4, <2>e, ReleaseChangesLease DEF ReleaseLease, MayReleaseLease
  <2>5. ASSUME SetWaitpoint(h, t) PROVE BeliefIsTrue'
    <3>1. Presented(h, t) \in Credential
      BY <2>5, NoneIsNoHolder DEF SetWaitpoint, Presented, TypeOK, Ticket, Credential
    <3> QED
      BY <1>t, <2>5, <2>e, <3>1, WaitpointChangesLease DEF SetWaitpoint, MaySetWaitpoint
  <2>6. ASSUME ClearWaitpoint(h, t) PROVE BeliefIsTrue'
    <3>1. "RUNNING" \in STATES
      BY DEF STATES
    <3> QED
      BY <1>t, <2>6, <3>1, StatusKeepsLeases, QuietStep DEF ClearWaitpoint, MayClearWaitpoint
  <2> QED
    BY <1>2, <2>1, <2>2, <2>3, <2>4, <2>5, <2>6 DEF LeaseWork
<1>3. ASSUME NEW t \in Task, NEW cred, StatusWork(t, cred) PROVE BeliefIsTrue'
  <2>1. ASSUME NEW s \in STATES, Transition(t, s, cred) PROVE BeliefIsTrue'
    BY <1>t, <2>1, StatusKeepsLeases, QuietStep DEF Transition, MayTransition
  <2>2. ASSUME Checkpoint(t, cred) PROVE BeliefIsTrue'
    <3>1. "RUNNING" \in STATES
      BY DEF STATES
    <3> QED
      BY <1>t, <2>2, <3>1, StatusKeepsLeases, QuietStep DEF Checkpoint, MayCheckpoint
  <2>3. ASSUME NEW amount \in Amounts, RecordUsage(t, amount, cred) PROVE BeliefIsTrue'
    BY <1>t, <2>3, ReportsKeepLeases, AmountsAreAmounts, QuietStep DEF RecordUsage, MayRecordUsage
  <2>4. ASSUME NEW e \in EvidenceState, RecordEvidence(t, e, cred) PROVE BeliefIsTrue'
    BY <1>t, <2>4, ReportsKeepLeases, QuietStep DEF RecordEvidence, MayRecordEvidence
  <2>5. ASSUME NEW kind \in Reported, RecordError(t, kind, cred) PROVE BeliefIsTrue'
    BY <1>t, <2>5, ReportsKeepLeases, ReportedAreErrors, QuietStep DEF RecordError, MayRecordError
  <2> QED
    BY <1>3, <2>1, <2>2, <2>3, <2>4, <2>5 DEF StatusWork
<1>4. ASSUME NEW t \in Task, Resume(t) PROVE BeliefIsTrue'
  <2>1. "RUNNING" \in STATES
    BY DEF STATES
  <2> QED
    BY <1>t, <1>4, <2>1, StatusKeepsLeases, QuietStep DEF Resume, MayResume
<1>5. ASSUME Tick PROVE BeliefIsTrue'
  BY <1>t, <1>5 DEF Tick, BeliefIsTrue, Believes, TypeOK, Ticket
<1>6. ASSUME NEW h \in Holder, Crash(h) PROVE BeliefIsTrue'
  BY <1>6 DEF Crash, BeliefIsTrue, Believes, TypeOK
<1>7. ASSUME UNCHANGED vars PROVE BeliefIsTrue'
  BY <1>7 DEF vars, BeliefIsTrue, Believes
<1> QED
  BY <1>1, <1>2, <1>3, <1>4, <1>5, <1>6, <1>7 DEF Next

(* What a worker believes of its lease is true (BeliefIsTrue): the ledger   *)
(* has not given the task to another while the worker's time runs.          *)
THEOREM LeaseBeliefs == Spec => []BeliefIsTrue
<1>1. Init => BeliefIsTrue
  BY DEF Init, BeliefIsTrue, Believes
<1> QED
  BY <1>1, TypeCorrect, BeliefStep, PTL DEF Spec

(* At most one worker believes it holds a task.                             *)
THEOREM LeaseSafety == Spec => []LeaseMutualExclusion
<1>1. BeliefIsTrue => LeaseMutualExclusion
  BY DEF BeliefIsTrue, LeaseMutualExclusion
<1> QED
  BY <1>1, LeaseBeliefs, PTL

-----------------------------------------------------------------------------
(* What one step may do                                                    *)

(* The lease of a stored task, None when there is no such task. *)
LeaseOf(d, t) == IF d[t] = None THEN None ELSE d[t].lease

(* acquire_lease: there was no lease, or one that has expired. *)
GrantsLease(old, new, now) ==
    /\ old # None => ~Unexpired(old, now) /\ new.fence > old.fence
    /\ new.heartbeat_at = now
    /\ now < new.expires_at

(* renew_lease and heartbeat: the same holder, the same fence, in time. *)
KeepsLease(old, new, now) ==
    /\ old # None
    /\ new.holder = old.holder
    /\ new.heartbeat_at = now
    /\ now < new.expires_at

(* No task disappears; a lease stays, goes, is granted or is kept alive.   *)
LeaseMoves(d, e, now) ==
    /\ Tasks(d) \subseteq Tasks(e)
    /\ \A t \in Task :
          LET old == LeaseOf(d, t)
              new == LeaseOf(e, t)
          IN  new \in {None, old} \/ GrantsLease(old, new, now) \/ KeepsLease(old, new, now)

(* A method that keeps every lease and adds no task moves no lease. *)
LEMMA KeptLeases ==
    ASSUME NEW d, NEW e, NEW now, LeasesKept(d, e), Tasks(e) \subseteq Tasks(d)
    PROVE  LeaseMoves(d, e, now)
<1>1. \A t \in Task : LeaseOf(e, t) = LeaseOf(d, t)
  BY DEF LeaseOf, LeasesKept, Tasks
<1> QED
  BY <1>1 DEF LeaseMoves, LeasesKept

(* A method that changes one lease moves that one. *)
LEMMA OneLeaseMoves ==
    ASSUME NEW d, NEW e, NEW now, NEW t \in Tasks(d), NEW lease, OneLease(d, e, t, lease),
           Tasks(e) \subseteq Tasks(d),
           \/ lease = None
           \/ GrantsLease(d[t].lease, lease, now)
           \/ KeepsLease(d[t].lease, lease, now)
    PROVE  LeaseMoves(d, e, now)
<1>1. LeaseOf(d, t) = d[t].lease /\ LeaseOf(e, t) = lease
  BY DEF LeaseOf, OneLease, Tasks
<1>2. \A u \in Task \ {t} : LeaseOf(e, u) = LeaseOf(d, u)
  BY DEF LeaseOf, OneLease, Tasks
<1>3. Tasks(d) \subseteq Tasks(e)
  BY DEF OneLease
<1> QED
  BY <1>1, <1>2, <1>3 DEF LeaseMoves

(* Every method but create adds no task. *)
LEMMA NoTaskAdded ==
    ASSUME NEW d \in Ledger, NEW t \in Tasks(d)
    PROVE  /\ \A r : Tasks([d EXCEPT ![t] = r]) \subseteq Tasks(d)
           /\ \A u \in Tasks(d) : \A r, s :
                  Tasks([[d EXCEPT ![t] = r] EXCEPT ![u] = s]) \subseteq Tasks(d)
BY DEF Tasks, Ledger

(* What a step does to the leases. *)
LEMMA StepMovesLeases ==
    ASSUME TypeOK, Next
    PROVE  LeaseMoves(tasks, tasks', clock) /\ clock' \in {clock, clock + 1}
<1>t. tasks \in Ledger /\ clock \in Nat
  BY DEF TypeOK
<1>1. ASSUME NEW t \in Task, Structure(t) PROVE LeaseMoves(tasks, tasks', clock) /\ clock' = clock
  <2>1. ASSUME NEW key \in Key, NEW budget \in Budgets, Create(t, key, budget)
        PROVE  LeaseMoves(tasks, tasks', clock)
    <3>1. \A u \in Task : LeaseOf(tasks', u) \in {None, LeaseOf(tasks, u)}
      BY <1>t, <2>1 DEF Create, MayCreate, Created, LeaseOf, Ledger
    <3>2. Tasks(tasks) \subseteq Tasks(tasks')
      BY <1>t, <2>1, CreateKeepsLeases DEF Create, LeasesKept
    <3> QED
      BY <3>1, <3>2 DEF LeaseMoves
  <2>2. ASSUME NEW deps \in SUBSET Task, SetDependencies(t, deps)
        PROVE  LeaseMoves(tasks, tasks', clock)
    <3>1. t \in Tasks(tasks) /\ tasks' = DependenciesSet(tasks, t, deps)
      BY <2>2 DEF SetDependencies, MaySetDependencies
    <3>2. Tasks(tasks') \subseteq Tasks(tasks)
      BY <1>t, <3>1, NoTaskAdded DEF DependenciesSet
    <3> QED
      BY <1>t, <3>1, <3>2, DependenciesKeepLeases, KeptLeases
  <2>3. ASSUME NEW child \in Task, AttachChild(t, child) PROVE LeaseMoves(tasks, tasks', clock)
    <3>1. t \in Tasks(tasks) /\ child \in Tasks(tasks) /\ tasks' = ChildAttached(tasks, t, child)
      BY <2>3 DEF AttachChild, MayAttachChild
    <3> DEFINE listed == [tasks[t] EXCEPT !.children = tasks[t].children \cup {child}]
               moved == [[tasks EXCEPT ![t] = listed][child] EXCEPT !.parent_task_id = t]
    <3>a. tasks' = [[tasks EXCEPT ![t] = listed] EXCEPT ![child] = moved]
      BY <3>1 DEF ChildAttached
    <3>2. Tasks(tasks') \subseteq Tasks(tasks)
      <4> HIDE DEF listed, moved
      <4> QED
        BY <1>t, <3>1, <3>a, NoTaskAdded
    <3> QED
      BY <1>t, <3>1, <3>2, ChildrenKeepLeases, KeptLeases
  <2>4. ASSUME NEW x \in Effect, NEW intent \in Digest, RecordExternalEffect(t, x, intent)
        PROVE  LeaseMoves(tasks, tasks', clock)
    <3>1. t \in Tasks(tasks) /\ tasks' = EffectRecorded(tasks, t, x, intent)
      BY <2>4 DEF RecordExternalEffect, MayRecordEffect
    <3>2. Tasks(tasks') \subseteq Tasks(tasks)
      BY <1>t, <3>1, NoTaskAdded DEF EffectRecorded
    <3> QED
      BY <1>t, <3>1, <3>2, EffectsKeepLeases, KeptLeases
  <2>5. ASSUME NEW x \in Effect, NEW s \in ObservedState, ReconcileExternalEffect(t, x, s)
        PROVE  LeaseMoves(tasks, tasks', clock)
    <3>1. t \in Tasks(tasks) /\ tasks[t].external_effects[x] # None
          /\ tasks' = EffectReconciled(tasks, t, x, s)
      BY <2>5 DEF ReconcileExternalEffect, MayReconcileEffect
    <3>2. Tasks(tasks') \subseteq Tasks(tasks)
      BY <1>t, <3>1, NoTaskAdded DEF EffectReconciled
    <3> QED
      BY <1>t, <3>1, <3>2, EffectsKeepLeases, KeptLeases
  <2>6. clock' = clock
    BY <1>1 DEF Structure, Create, SetDependencies, AttachChild, RecordExternalEffect,
                ReconcileExternalEffect
  <2> QED
    BY <1>1, <2>1, <2>2, <2>3, <2>4, <2>5, <2>6 DEF Structure
<1>2. ASSUME NEW h \in Holder, NEW t \in Task, LeaseWork(h, t)
      PROVE  LeaseMoves(tasks, tasks', clock) /\ clock' = clock
  <2>1. ASSUME NEW ttl \in Ttl, AcquireLease(h, t, ttl) PROVE LeaseMoves(tasks, tasks', clock)
    <3> DEFINE lease == [holder |-> h, fence |-> NextFence(tasks, t),
                         heartbeat_at |-> clock, expires_at |-> clock + ttl]
    <3>1. t \in Tasks(tasks) /\ ttl \in Nat /\ ttl > 0 /\ tasks' = LeaseAcquired(tasks, t, h, ttl, clock)
      BY <2>1, TtlIsPositive DEF AcquireLease, MayAcquireLease
    <3>2. Tasks(tasks') \subseteq Tasks(tasks)
      BY <1>t, <3>1, NoTaskAdded DEF LeaseAcquired
    <3>3. tasks[t].lease # None => ~Unexpired(tasks[t].lease, clock) /\ tasks[t].lease \in Lease
      BY <1>t, <2>1, <3>1, StoredFields DEF AcquireLease, MayAcquireLease
    <3>4. GrantsLease(tasks[t].lease, lease, clock)
      BY <1>t, <3>1, <3>3 DEF GrantsLease, NextFence, Lease
    <3>5. OneLease(tasks, tasks', t, lease)
      BY <1>t, <3>1, AcquireChangesLease
    <3> HIDE DEF lease
    <3> QED
      BY <3>1, <3>2, <3>4, <3>5, OneLeaseMoves
  <2>2. ASSUME NEW ttl \in Ttl, RenewLease(h, t, ttl) PROVE LeaseMoves(tasks, tasks', clock)
    <3> DEFINE lease == [tasks[t].lease EXCEPT !.heartbeat_at = clock, !.expires_at = clock + ttl]
    <3>1. t \in Tasks(tasks) /\ tasks[t].lease # None /\ ttl \in Nat /\ ttl > 0
          /\ tasks' = LeaseRenewed(tasks, t, ttl, clock)
      BY <2>2, TtlIsPositive DEF RenewLease, OwnsLease
    <3>2. Tasks(tasks') \subseteq Tasks(tasks)
      BY <1>t, <3>1, NoTaskAdded DEF LeaseRenewed
    <3>3. tasks[t].lease \in Lease
      BY <1>t, <3>1, StoredFields
    <3>4. KeepsLease(tasks[t].lease, lease, clock)
      BY <1>t, <3>1, <3>3 DEF KeepsLease, Lease
    <3>5. OneLease(tasks, tasks', t, lease)
      BY <1>t, <3>1, RenewChangesLease
    <3> HIDE DEF lease
    <3> QED
      BY <3>1, <3>2, <3>4, <3>5, OneLeaseMoves
  <2>3. ASSUME Heartbeat(h, t) PROVE LeaseMoves(tasks, tasks', clock)
    <3> DEFINE lease == [tasks[t].lease EXCEPT !.heartbeat_at = clock]
    <3>1. t \in Tasks(tasks) /\ tasks[t].lease # None
          /\ tasks' = LeaseHeartbeat(tasks, t, clock)
      BY <2>3 DEF Heartbeat, OwnsLease
    <3>2. Tasks(tasks') \subseteq Tasks(tasks)
      BY <1>t, <3>1, NoTaskAdded DEF LeaseHeartbeat
    <3>3. tasks[t].lease \in Lease /\ Unexpired(tasks[t].lease, clock)
      BY <1>t, <2>3, <3>1, StoredFields DEF Heartbeat, OwnsLease, LeaseAccepts
    <3>4. KeepsLease(tasks[t].lease, lease, clock)
      BY <1>t, <3>1, <3>3 DEF KeepsLease, Lease, Unexpired
    <3>5. 0 \in Nat /\ OneLease(tasks, tasks', t, lease)
      BY <1>t, <3>1, RenewChangesLease
    <3> HIDE DEF lease
    <3> QED
      BY <3>1, <3>2, <3>4, <3>5, OneLeaseMoves
  <2>4. ASSUME ReleaseLease(h, t) PROVE LeaseMoves(tasks, tasks', clock)
    <3>1. t \in Tasks(tasks) /\ tasks' = LeaseReleased(tasks, t)
      BY <2>4 DEF ReleaseLease, MayReleaseLease
    <3>2. Tasks(tasks') \subseteq Tasks(tasks)
      BY <1>t, <3>1, NoTaskAdded DEF LeaseReleased
    <3>3. OneLease(tasks, tasks', t, None)
      BY <1>t, <3>1, ReleaseChangesLease
    <3> QED
      BY <3>1, <3>2, <3>3, OneLeaseMoves
  <2>5. ASSUME SetWaitpoint(h, t) PROVE LeaseMoves(tasks, tasks', clock)
    <3>1. t \in Tasks(tasks) /\ tasks' = WaitpointSet(tasks, t, Presented(h, t))
      BY <2>5 DEF SetWaitpoint, MaySetWaitpoint
    <3> DEFINE waiting == [tasks[t] EXCEPT !.cursor_version = tasks[t].cursor_version + 1,
                                           !.waitpoint = Presented(h, t),
                                           !.status = "WAITING_APPROVAL", !.lease = None]
    <3>a. tasks' = [tasks EXCEPT ![t] = waiting]
      BY <3>1 DEF WaitpointSet
    <3>2. Tasks(tasks') \subseteq Tasks(tasks)
      <4> HIDE DEF waiting
      <4> QED
        BY <1>t, <3>1, <3>a, NoTaskAdded
    <3>3. Presented(h, t) \in Credential
      BY <2>5, NoneIsNoHolder DEF SetWaitpoint, Presented, TypeOK, Ticket, Credential
    <3>4. OneLease(tasks, tasks', t, None)
      BY <1>t, <3>1, <3>3, WaitpointChangesLease
    <3> QED
      BY <3>1, <3>2, <3>4, OneLeaseMoves
  <2>6. ASSUME ClearWaitpoint(h, t) PROVE LeaseMoves(tasks, tasks', clock)
    <3>1. t \in Tasks(tasks) /\ "RUNNING" \in STATES /\ tasks' = WaitpointCleared(tasks, t)
      BY <2>6 DEF ClearWaitpoint, MayClearWaitpoint, STATES
    <3>2. Tasks(tasks') \subseteq Tasks(tasks)
      BY <1>t, <3>1, NoTaskAdded DEF WaitpointCleared
    <3> QED
      BY <1>t, <3>1, <3>2, StatusKeepsLeases, KeptLeases
  <2>7. clock' = clock
    BY <1>2 DEF LeaseWork, AcquireLease, RenewLease, Heartbeat, ReleaseLease, SetWaitpoint,
                ClearWaitpoint
  <2> QED
    BY <1>2, <2>1, <2>2, <2>3, <2>4, <2>5, <2>6, <2>7 DEF LeaseWork
<1>3. ASSUME NEW t \in Task, NEW cred, StatusWork(t, cred)
      PROVE  LeaseMoves(tasks, tasks', clock) /\ clock' = clock
  <2>1. ASSUME NEW s \in STATES, Transition(t, s, cred) PROVE LeaseMoves(tasks, tasks', clock)
    <3>1. t \in Tasks(tasks) /\ tasks' = Transitioned(tasks, t, s)
      BY <2>1 DEF Transition, MayTransition
    <3>2. Tasks(tasks') \subseteq Tasks(tasks)
      BY <1>t, <3>1, NoTaskAdded DEF Transitioned
    <3> QED
      BY <1>t, <3>1, <3>2, StatusKeepsLeases, KeptLeases
  <2>2. ASSUME Checkpoint(t, cred) PROVE LeaseMoves(tasks, tasks', clock)
    <3>1. t \in Tasks(tasks) /\ "RUNNING" \in STATES /\ tasks' = Checkpointed(tasks, t)
      BY <2>2 DEF Checkpoint, MayCheckpoint, STATES
    <3>2. Tasks(tasks') \subseteq Tasks(tasks)
      BY <1>t, <3>1, NoTaskAdded DEF Checkpointed
    <3> QED
      BY <1>t, <3>1, <3>2, StatusKeepsLeases, KeptLeases
  <2>3. ASSUME NEW amount \in Amounts, RecordUsage(t, amount, cred)
        PROVE  LeaseMoves(tasks, tasks', clock)
    <3>1. t \in Tasks(tasks) /\ tasks' = UsageRecorded(tasks, t, amount)
      BY <2>3 DEF RecordUsage, MayRecordUsage
    <3>2. Tasks(tasks') \subseteq Tasks(tasks)
      BY <1>t, <3>1, NoTaskAdded DEF UsageRecorded
    <3> QED
      BY <1>t, <3>1, <3>2, AmountsAreAmounts, ReportsKeepLeases, KeptLeases
  <2>4. ASSUME NEW e \in EvidenceState, RecordEvidence(t, e, cred)
        PROVE  LeaseMoves(tasks, tasks', clock)
    <3>1. t \in Tasks(tasks) /\ tasks' = EvidenceRecorded(tasks, t, e)
      BY <2>4 DEF RecordEvidence, MayRecordEvidence
    <3>2. Tasks(tasks') \subseteq Tasks(tasks)
      BY <1>t, <3>1, NoTaskAdded DEF EvidenceRecorded
    <3> QED
      BY <1>t, <3>1, <3>2, ReportsKeepLeases, KeptLeases
  <2>5. ASSUME NEW kind \in Reported, RecordError(t, kind, cred)
        PROVE  LeaseMoves(tasks, tasks', clock)
    <3>1. t \in Tasks(tasks) /\ tasks' = ErrorRecorded(tasks, t, kind)
      BY <2>5 DEF RecordError, MayRecordError
    <3>2. Tasks(tasks') \subseteq Tasks(tasks)
      BY <1>t, <3>1, NoTaskAdded DEF ErrorRecorded
    <3> QED
      BY <1>t, <3>1, <3>2, ReportedAreErrors, ReportsKeepLeases, KeptLeases
  <2>6. clock' = clock
    BY <1>3 DEF StatusWork, Transition, Checkpoint, RecordUsage, RecordEvidence, RecordError
  <2> QED
    BY <1>3, <2>1, <2>2, <2>3, <2>4, <2>5, <2>6 DEF StatusWork
<1>4. ASSUME NEW t \in Task, Resume(t) PROVE LeaseMoves(tasks, tasks', clock) /\ clock' = clock
  <2>1. t \in Tasks(tasks) /\ "RUNNING" \in STATES /\ tasks' = Transitioned(tasks, t, "RUNNING")
    BY <1>4 DEF Resume, MayResume, STATES
  <2>2. Tasks(tasks') \subseteq Tasks(tasks)
    BY <1>t, <2>1, NoTaskAdded DEF Transitioned
  <2>3. LeasesKept(tasks, tasks')
    BY <1>t, <2>1, StatusKeepsLeases
  <2>4. clock' = clock
    BY <1>4 DEF Resume
  <2> QED
    BY <2>2, <2>3, <2>4, KeptLeases
<1>5. ASSUME UNCHANGED tasks PROVE LeaseMoves(tasks, tasks', clock)
  BY <1>5 DEF LeaseMoves, LeaseOf
<1>6. Tick => UNCHANGED tasks /\ clock' = clock + 1
  BY DEF Tick
<1>7. \A h \in Holder : Crash(h) => UNCHANGED <<tasks, clock>>
  BY DEF Crash
<1> QED
  BY <1>1, <1>2, <1>3, <1>4, <1>5, <1>6, <1>7 DEF Next

-----------------------------------------------------------------------------
(* No lease is alive from outside its own period (HeartbeatWithinLease):   *)
(* every lease that is granted, renewed or kept beats now and ends later.  *)
THEOREM LeasesAreTimely == Spec => []HeartbeatWithinLease
<1>1. Init => HeartbeatWithinLease
  BY DEF Init, HeartbeatWithinLease, EmptyLedger, Tasks
<1>2. TypeOK /\ TypeOK' /\ HeartbeatWithinLease /\ [Next]_vars => HeartbeatWithinLease'
  <2> SUFFICES ASSUME TypeOK, TypeOK', HeartbeatWithinLease, [Next]_vars,
                      NEW t \in Tasks(tasks'), tasks'[t].lease # None
               PROVE  /\ tasks'[t].lease.heartbeat_at <= clock'
                      /\ tasks'[t].lease.heartbeat_at < tasks'[t].lease.expires_at
    BY DEF HeartbeatWithinLease
  <2>1. CASE UNCHANGED vars
    BY <2>1 DEF vars, HeartbeatWithinLease
  <2>2. CASE Next
    <3>1. LeaseMoves(tasks, tasks', clock) /\ clock' \in {clock, clock + 1} /\ clock \in Nat
      BY <2>2, StepMovesLeases DEF TypeOK
    <3>2. t \in Task /\ tasks'[t].lease = LeaseOf(tasks', t)
      BY DEF Tasks, LeaseOf
    <3>3. CASE tasks'[t].lease = LeaseOf(tasks, t)
      <4>1. t \in Tasks(tasks) /\ tasks'[t].lease = tasks[t].lease
        BY <3>2, <3>3 DEF LeaseOf, Tasks
      <4>2. tasks[t].lease.heartbeat_at <= clock
            /\ tasks[t].lease.heartbeat_at < tasks[t].lease.expires_at
        BY <4>1 DEF HeartbeatWithinLease
      <4>3. tasks[t].lease \in Lease
        BY <4>1, StoredFields DEF TypeOK
      <4> QED
        BY <3>1, <4>1, <4>2, <4>3 DEF Lease
    <3>4. CASE tasks'[t].lease # LeaseOf(tasks, t)
      <4>1. tasks'[t].lease.heartbeat_at = clock /\ clock < tasks'[t].lease.expires_at
        BY <3>1, <3>2, <3>4 DEF LeaseMoves, GrantsLease, KeepsLease
      <4> QED
        BY <3>1, <4>1
    <3> QED
      BY <3>3, <3>4
  <2> QED
    BY <2>1, <2>2
<1> QED
  BY <1>1, <1>2, TypeCorrect, PTL DEF Spec

(* A lease passes to another worker only after it has expired, and with a  *)
(* higher fence (TakeoverRaisesFence).                                     *)
THEOREM TakeoversAreFenced == Spec => TakeoverRaisesFence
<1>1. TypeOK /\ [Next]_vars =>
        [\A t \in Tasks(tasks) :
           tasks[t].lease # None /\ tasks'[t].lease # None
             /\ tasks[t].lease.holder # tasks'[t].lease.holder
           => tasks'[t].lease.fence > tasks[t].lease.fence
              /\ ~Unexpired(tasks[t].lease, clock)]_vars
  <2> SUFFICES ASSUME TypeOK, Next, NEW t \in Tasks(tasks), tasks[t].lease # None,
                      tasks'[t].lease # None, tasks[t].lease.holder # tasks'[t].lease.holder
               PROVE  tasks'[t].lease.fence > tasks[t].lease.fence
                      /\ ~Unexpired(tasks[t].lease, clock)
    OBVIOUS
  <2>1. LeaseMoves(tasks, tasks', clock) /\ t \in Task /\ LeaseOf(tasks, t) = tasks[t].lease
    BY StepMovesLeases DEF Tasks, LeaseOf
  <2>2. tasks'[t].lease = LeaseOf(tasks', t)
    BY <2>1 DEF LeaseMoves, LeaseOf, Tasks
  <2> QED
    BY <2>1, <2>2 DEF LeaseMoves, GrantsLease, KeepsLease
<1> QED
  BY <1>1, TypeCorrect, PTL DEF Spec, TakeoverRaisesFence

-----------------------------------------------------------------------------
(* What one method may do to the record of a task that exists: effects and *)
(* errors only grow, and budget and usage change only in a method that     *)
(* compares them.                                                          *)
EffectMoves(old, new) ==
    old # None => /\ new # None
                  /\ new.intent = old.intent
                  /\ old.status = "CONFIRMED" => new.status = "CONFIRMED"

Follows(old, new) ==
    /\ \A x \in Effect : EffectMoves(old.external_effects[x], new.external_effects[x])
    /\ old.errors \subseteq new.errors
    /\ \/ new.budget = old.budget /\ new.usage = old.usage
       \/ Exceeded(new) => "BUDGET_EXCEEDED" \in new.errors

(* Every task follows what it was, and a new one has spent nothing.        *)
AllFollow(d, e) ==
    /\ \A t \in Tasks(d) : Follows(d[t], e[t])
    /\ \A t \in Tasks(e) \ Tasks(d) : ~Exceeded(e[t])

(* Most methods write neither effects nor accounts nor errors.             *)
Quiet(old, new) ==
    /\ new.external_effects = old.external_effects
    /\ new.budget = old.budget
    /\ new.usage = old.usage
    /\ new.errors = old.errors

LEMMA QuietFollows ==
    ASSUME NEW r, NEW s, Quiet(r, s)
    PROVE  Follows(r, s)
BY DEF Quiet, Follows, EffectMoves

(* Replacing one task by one that follows it. *)
LEMMA ReplaceFollows ==
    ASSUME NEW d \in Ledger, NEW t \in Tasks(d), NEW r, Follows(d[t], r)
    PROVE  AllFollow(d, [d EXCEPT ![t] = r])
<1>1. \A u \in Tasks(d) : Follows(d[u], d[u])
  BY QuietFollows DEF Quiet
<1>2. \A u \in Tasks(d) : [d EXCEPT ![t] = r][u] = IF u = t THEN r ELSE d[u]
  BY DEF Tasks, Ledger
<1>3. Tasks([d EXCEPT ![t] = r]) \subseteq Tasks(d)
  BY NoTaskAdded
<1> QED
  BY <1>1, <1>2, <1>3 DEF AllFollow

(* create *)
LEMMA CreatedFollows ==
    ASSUME NEW d \in Ledger, NEW t \in Task, MayCreate(d, t), NEW key,
           NEW budget \in [Meter -> Nat \cup {None}]
    PROVE  AllFollow(d, Created(d, t, key, budget))
<1>1. \A u \in Task \ {t} : Created(d, t, key, budget)[u] = d[u]
  BY DEF Created, Ledger
<1>2. t \notin Tasks(d)
  BY DEF MayCreate, Tasks
<1>3. Created(d, t, key, budget)[t].budget = budget
      /\ Created(d, t, key, budget)[t].usage = [m \in Meter |-> 0]
  BY DEF Created, Ledger
<1>4. ~Exceeded(Created(d, t, key, budget)[t])
  BY <1>3 DEF Exceeded
<1>5. \A u \in Tasks(d) : Follows(d[u], Created(d, t, key, budget)[u])
  BY <1>1, <1>2, QuietFollows DEF Quiet, Tasks
<1>6. \A u \in Tasks(Created(d, t, key, budget)) \ Tasks(d) : u = t
  BY <1>1 DEF Tasks
<1> QED
  BY <1>4, <1>5, <1>6 DEF AllFollow

(* The fields of a task other than those three.                            *)
LEMMA FieldsAreQuiet ==
    ASSUME NEW r \in TaskRecord
    PROVE  /\ \A deps : Quiet(r, [r EXCEPT !.dependencies = deps])
           /\ \A children : Quiet(r, [r EXCEPT !.children = children])
           /\ \A p : Quiet(r, [r EXCEPT !.parent_task_id = p])
           /\ \A lease : Quiet(r, [r EXCEPT !.lease = lease])
           /\ \A s : Quiet(r, [r EXCEPT !.status = s])
           /\ \A v : Quiet(r, [r EXCEPT !.cursor_version = v])
           /\ \A e : Quiet(r, [r EXCEPT !.evidence = e])
           /\ \A w, s : Quiet(r, [r EXCEPT !.waitpoint = w, !.status = s])
           /\ \A v, w, s, l : Quiet(r, [r EXCEPT !.cursor_version = v, !.waitpoint = w,
                                                 !.status = s, !.lease = l])
BY DEF Quiet, TaskRecord

(* attach_child writes the parent, then the child.                         *)
LEMMA AttachedFollows ==
    ASSUME NEW d \in Ledger, NEW p \in Tasks(d), NEW c \in Tasks(d)
    PROVE  AllFollow(d, ChildAttached(d, p, c))
<1> DEFINE listed == [d[p] EXCEPT !.children = d[p].children \cup {c}]
           mid == [d EXCEPT ![p] = listed]
           moved == [mid[c] EXCEPT !.parent_task_id = p]
<1>1. p \in Task /\ c \in Task /\ d[p] \in TaskRecord /\ d[c] \in TaskRecord
  BY StoredTask
<1>2. listed \in TaskRecord /\ Quiet(d[p], listed)
  BY <1>1, FieldsAreQuiet DEF TaskRecord
<1>3. mid \in Ledger /\ \A u \in Tasks(d) : Quiet(d[u], mid[u])
  <2> HIDE DEF listed
  <2> QED
    BY <1>1, <1>2, ReplaceTask DEF Quiet, Tasks, Ledger
<1>4. mid[c] \in TaskRecord
  <2> HIDE DEF listed
  <2> QED
    BY <1>1, <1>2 DEF Ledger
<1>5. Quiet(mid[c], moved)
  <2> HIDE DEF mid
  <2> QED
    BY <1>4, FieldsAreQuiet
<1>6. \A u \in Tasks(d) : Quiet(mid[u], [mid EXCEPT ![c] = moved][u])
  <2> HIDE DEF mid, moved
  <2> QED
    BY <1>1, <1>3, <1>5 DEF Quiet, Tasks, Ledger
<1>7. \A u \in Tasks(d) : Quiet(d[u], [mid EXCEPT ![c] = moved][u])
  <2> HIDE DEF mid, moved
  <2> QED
    BY <1>3, <1>6 DEF Quiet
<1>8. ChildAttached(d, p, c) = [mid EXCEPT ![c] = moved]
  BY DEF ChildAttached
<1>9. Tasks([mid EXCEPT ![c] = moved]) \subseteq Tasks(d)
  <2> HIDE DEF listed, moved
  <2> QED
    BY NoTaskAdded
<1> HIDE DEF mid, moved
<1> QED
  BY <1>7, <1>8, <1>9, QuietFollows DEF AllFollow

(* record_external_effect and reconcile_external_effect.                   *)
LEMMA EffectsFollow ==
    ASSUME NEW d \in Ledger, NEW t \in Tasks(d), NEW x \in Effect
    PROVE  /\ \A intent \in Digest : MayRecordEffect(d, t, x)
                => AllFollow(d, EffectRecorded(d, t, x, intent))
           /\ \A s \in ObservedState : MayReconcileEffect(d, t, x, s)
                => AllFollow(d, EffectReconciled(d, t, x, s))
<1>1. d[t] \in TaskRecord /\ d[t].external_effects \in [Effect -> EffectRecord \cup {None}]
  BY StoredTask DEF TaskRecord
<1>2. ASSUME NEW effects \in [Effect -> EffectRecord \cup {None}],
             \A y \in Effect : EffectMoves(d[t].external_effects[y], effects[y])
      PROVE  AllFollow(d, [d EXCEPT ![t] = [d[t] EXCEPT !.external_effects = effects]])
  <2>1. Follows(d[t], [d[t] EXCEPT !.external_effects = effects])
    BY <1>1, <1>2 DEF Follows, TaskRecord
  <2> QED
    BY <2>1, ReplaceFollows
<1>3. ASSUME NEW intent \in Digest, MayRecordEffect(d, t, x)
      PROVE  AllFollow(d, EffectRecorded(d, t, x, intent))
  <2> DEFINE effects == [d[t].external_effects EXCEPT ![x] = [intent |-> intent, status |-> "PENDING"]]
  <2>1. effects \in [Effect -> EffectRecord \cup {None}]
    BY <1>1 DEF EffectRecord, EXTERNAL_EFFECT_STATES
  <2>2. \A y \in Effect : EffectMoves(d[t].external_effects[y], effects[y])
    BY <1>1, <1>3 DEF MayRecordEffect, EffectMoves
  <2>3. EffectRecorded(d, t, x, intent) = [d EXCEPT ![t] = [d[t] EXCEPT !.external_effects = effects]]
    BY DEF EffectRecorded
  <2> HIDE DEF effects
  <2> QED
    BY <1>2, <2>1, <2>2, <2>3
<1>4. ASSUME NEW s \in ObservedState, MayReconcileEffect(d, t, x, s)
      PROVE  AllFollow(d, EffectReconciled(d, t, x, s))
  <2> DEFINE observed == [d[t].external_effects[x] EXCEPT !.status = s]
             effects == [d[t].external_effects EXCEPT ![x] = observed]
  <2>1. d[t].external_effects[x] \in EffectRecord
    BY <1>1, <1>4 DEF MayReconcileEffect
  <2>2. observed \in EffectRecord /\ observed.intent = d[t].external_effects[x].intent
        /\ observed.status = s
    BY <2>1 DEF EffectRecord, EXTERNAL_EFFECT_STATES
  <2>3. observed # None
    BY <2>2, NoneIsNoRecord
  <2>4. effects \in [Effect -> EffectRecord \cup {None}]
    <3> HIDE DEF observed
    <3> QED BY <1>1, <2>2
  <2>5. \A y \in Effect : EffectMoves(d[t].external_effects[y], effects[y])
    <3> HIDE DEF observed
    <3> QED BY <1>1, <1>4, <2>2, <2>3 DEF MayReconcileEffect, EffectMoves
  <2>6. EffectReconciled(d, t, x, s) = [d EXCEPT ![t] = [d[t] EXCEPT !.external_effects = effects]]
    BY DEF EffectReconciled
  <2> HIDE DEF effects
  <2> QED
    BY <1>2, <2>4, <2>5, <2>6
<1> QED
  BY <1>3, <1>4

(* record_usage compares what it charged with the budget.                  *)
LEMMA UsageFollows ==
    ASSUME NEW d \in Ledger, NEW t \in Tasks(d), NEW amount \in [Meter -> Nat]
    PROVE  AllFollow(d, UsageRecorded(d, t, amount))
<1> DEFINE charged == Charged(d[t], amount)
           r == IF Exceeded(charged) THEN Overspent(charged) ELSE charged
<1>1. d[t] \in TaskRecord /\ charged \in TaskRecord
  BY StoredTask, ChargedType
<1>2. charged.external_effects = d[t].external_effects /\ charged.errors = d[t].errors
  BY <1>1 DEF Charged, TaskRecord
<1>3. /\ Overspent(charged).external_effects = charged.external_effects
      /\ Overspent(charged).errors = charged.errors \cup {"BUDGET_EXCEEDED"}
  <2> HIDE DEF charged
  <2> QED
    BY <1>1 DEF Overspent, TaskRecord
<1>4. r.external_effects = d[t].external_effects /\ d[t].errors \subseteq r.errors
      /\ (Exceeded(r) => "BUDGET_EXCEEDED" \in r.errors)
  <2> HIDE DEF charged
  <2> QED
    BY <1>2, <1>3
<1>5. UsageRecorded(d, t, amount) = [d EXCEPT ![t] = r]
  BY DEF UsageRecorded
<1>6. Follows(d[t], r)
  <2> HIDE DEF r
  <2> QED
    BY <1>4 DEF Follows, EffectMoves
<1> HIDE DEF r
<1> QED
  BY <1>5, <1>6, ReplaceFollows

(* record_error adds one error.                                            *)
LEMMA ErrorFollows ==
    ASSUME NEW d \in Ledger, NEW t \in Tasks(d), NEW kind \in ErrorKind
    PROVE  AllFollow(d, ErrorRecorded(d, t, kind))
<1> DEFINE r == Failed(d[t], kind)
<1>1. d[t] \in TaskRecord
  BY StoredTask
<1>2. r.external_effects = d[t].external_effects /\ r.budget = d[t].budget
      /\ r.usage = d[t].usage /\ r.errors = d[t].errors \cup {kind}
  BY <1>1 DEF Failed, TaskRecord
<1>3. Follows(d[t], r)
  <2> HIDE DEF r
  <2> QED
    BY <1>2 DEF Follows, EffectMoves
<1> HIDE DEF r
<1> QED
  BY <1>3, ReplaceFollows DEF ErrorRecorded, r

(* Every step leaves tasks that follow what they were.                     *)
LEMMA StepFollows ==
    ASSUME TypeOK, Next
    PROVE  AllFollow(tasks, tasks')
<1>t. tasks \in Ledger /\ clock \in Nat
  BY DEF TypeOK
<1>q. ASSUME NEW t \in Tasks(tasks), NEW r, Quiet(tasks[t], r), tasks' = [tasks EXCEPT ![t] = r]
      PROVE  AllFollow(tasks, tasks')
  BY <1>t, <1>q, QuietFollows, ReplaceFollows
<1>f. \A t \in Tasks(tasks) : tasks[t] \in TaskRecord
  BY <1>t, StoredTask
<1>1. ASSUME NEW t \in Task, Structure(t) PROVE AllFollow(tasks, tasks')
  <2>1. ASSUME NEW key \in Key, NEW budget \in Budgets, Create(t, key, budget)
        PROVE  AllFollow(tasks, tasks')
    BY <1>t, <2>1, BudgetsAreBudgets, CreatedFollows DEF Create
  <2>2. ASSUME NEW deps \in SUBSET Task, SetDependencies(t, deps) PROVE AllFollow(tasks, tasks')
    <3>1. t \in Tasks(tasks) /\ tasks' = [tasks EXCEPT ![t] = [tasks[t] EXCEPT !.dependencies = deps]]
      BY <2>2 DEF SetDependencies, MaySetDependencies, DependenciesSet
    <3> QED
      BY <1>q, <1>f, <3>1, FieldsAreQuiet
  <2>3. ASSUME NEW child \in Task, AttachChild(t, child) PROVE AllFollow(tasks, tasks')
    BY <1>t, <2>3, AttachedFollows DEF AttachChild, MayAttachChild
  <2>4. ASSUME NEW x \in Effect, NEW intent \in Digest, RecordExternalEffect(t, x, intent)
        PROVE  AllFollow(tasks, tasks')
    <3>1. t \in Tasks(tasks) /\ MayRecordEffect(tasks, t, x)
          /\ tasks' = EffectRecorded(tasks, t, x, intent)
      BY <2>4 DEF RecordExternalEffect, MayRecordEffect
    <3> QED
      BY <1>t, <3>1, EffectsFollow
  <2>5. ASSUME NEW x \in Effect, NEW s \in ObservedState, ReconcileExternalEffect(t, x, s)
        PROVE  AllFollow(tasks, tasks')
    <3>1. t \in Tasks(tasks) /\ MayReconcileEffect(tasks, t, x, s)
          /\ tasks' = EffectReconciled(tasks, t, x, s)
      BY <2>5 DEF ReconcileExternalEffect, MayReconcileEffect
    <3> QED
      BY <1>t, <3>1, EffectsFollow
  <2> QED
    BY <1>1, <2>1, <2>2, <2>3, <2>4, <2>5 DEF Structure
<1>2. ASSUME NEW h \in Holder, NEW t \in Task, LeaseWork(h, t) PROVE AllFollow(tasks, tasks')
  <2>1. ASSUME t \in Tasks(tasks),
               \E lease : tasks' = [tasks EXCEPT ![t] = [tasks[t] EXCEPT !.lease = lease]]
        PROVE  AllFollow(tasks, tasks')
    BY <1>q, <1>f, <2>1, FieldsAreQuiet
  <2>2. ASSUME NEW ttl \in Ttl, AcquireLease(h, t, ttl) PROVE AllFollow(tasks, tasks')
    BY <2>1, <2>2 DEF AcquireLease, MayAcquireLease, LeaseAcquired
  <2>3. ASSUME NEW ttl \in Ttl, RenewLease(h, t, ttl) PROVE AllFollow(tasks, tasks')
    BY <2>1, <2>3 DEF RenewLease, OwnsLease, LeaseRenewed
  <2>4. ASSUME Heartbeat(h, t) PROVE AllFollow(tasks, tasks')
    BY <2>1, <2>4 DEF Heartbeat, OwnsLease, LeaseHeartbeat
  <2>5. ASSUME ReleaseLease(h, t) PROVE AllFollow(tasks, tasks')
    BY <2>1, <2>5 DEF ReleaseLease, MayReleaseLease, LeaseReleased
  <2>6. ASSUME SetWaitpoint(h, t) PROVE AllFollow(tasks, tasks')
    <3> DEFINE waiting == [tasks[t] EXCEPT !.cursor_version = tasks[t].cursor_version + 1,
                                           !.waitpoint = Presented(h, t),
                                           !.status = "WAITING_APPROVAL", !.lease = None]
    <3>1. t \in Tasks(tasks) /\ tasks' = [tasks EXCEPT ![t] = waiting]
      BY <2>6 DEF SetWaitpoint, MaySetWaitpoint, WaitpointSet
    <3>2. Quiet(tasks[t], waiting)
      BY <1>f, <3>1, FieldsAreQuiet
    <3> HIDE DEF waiting
    <3> QED
      BY <1>q, <3>1, <3>2
  <2>7. ASSUME ClearWaitpoint(h, t) PROVE AllFollow(tasks, tasks')
    <3> DEFINE cleared == [tasks[t] EXCEPT !.waitpoint = None, !.status = "RUNNING"]
    <3>1. t \in Tasks(tasks) /\ tasks' = [tasks EXCEPT ![t] = cleared]
      BY <2>7 DEF ClearWaitpoint, MayClearWaitpoint, WaitpointCleared
    <3>2. Quiet(tasks[t], cleared)
      BY <1>f, <3>1, FieldsAreQuiet
    <3> HIDE DEF cleared
    <3> QED
      BY <1>q, <3>1, <3>2
  <2> QED
    BY <1>2, <2>2, <2>3, <2>4, <2>5, <2>6, <2>7 DEF LeaseWork
<1>s. ASSUME NEW t \in Tasks(tasks), NEW s, tasks' = Transitioned(tasks, t, s)
      PROVE  AllFollow(tasks, tasks')
  BY <1>q, <1>f, <1>s, FieldsAreQuiet DEF Transitioned
<1>3. ASSUME NEW t \in Task, NEW cred, StatusWork(t, cred) PROVE AllFollow(tasks, tasks')
  <2>1. ASSUME NEW s \in STATES, Transition(t, s, cred) PROVE AllFollow(tasks, tasks')
    BY <1>s, <2>1 DEF Transition, MayTransition
  <2>2. ASSUME Checkpoint(t, cred) PROVE AllFollow(tasks, tasks')
    <3>1. t \in Tasks(tasks) /\ tasks' = Checkpointed(tasks, t)
      BY <2>2 DEF Checkpoint, MayCheckpoint
    <3> QED
      BY <1>q, <1>f, <3>1, FieldsAreQuiet DEF Checkpointed
  <2>3. ASSUME NEW amount \in Amounts, RecordUsage(t, amount, cred) PROVE AllFollow(tasks, tasks')
    BY <1>t, <2>3, AmountsAreAmounts, UsageFollows DEF RecordUsage, MayRecordUsage
  <2>4. ASSUME NEW e \in EvidenceState, RecordEvidence(t, e, cred) PROVE AllFollow(tasks, tasks')
    <3>1. t \in Tasks(tasks) /\ tasks' = EvidenceRecorded(tasks, t, e)
      BY <2>4 DEF RecordEvidence, MayRecordEvidence
    <3> QED
      BY <1>q, <1>f, <3>1, FieldsAreQuiet DEF EvidenceRecorded
  <2>5. ASSUME NEW kind \in Reported, RecordError(t, kind, cred) PROVE AllFollow(tasks, tasks')
    BY <1>t, <2>5, ReportedAreErrors, ErrorFollows DEF RecordError, MayRecordError
  <2> QED
    BY <1>3, <2>1, <2>2, <2>3, <2>4, <2>5 DEF StatusWork
<1>4. ASSUME NEW t \in Task, Resume(t) PROVE AllFollow(tasks, tasks')
  BY <1>s, <1>4 DEF Resume, MayResume
<1>5. ASSUME UNCHANGED tasks PROVE AllFollow(tasks, tasks')
  BY <1>5, QuietFollows DEF AllFollow, Quiet
<1>6. Tick => UNCHANGED tasks
  BY DEF Tick
<1>7. \A h \in Holder : Crash(h) => UNCHANGED tasks
  BY DEF Crash
<1> QED
  BY <1>1, <1>2, <1>3, <1>4, <1>5, <1>6, <1>7 DEF Next

(* A recorded effect keeps its intent and a confirmed one stays confirmed  *)
(* (EffectsNeverRegress).                                                  *)
THEOREM EffectsStand == Spec => EffectsNeverRegress
<1>1. TypeOK /\ [Next]_vars =>
        [\A t \in Tasks(tasks), x \in Effect :
            LET old == tasks[t].external_effects[x]
                new == tasks'[t].external_effects[x]
            IN  old # None => /\ new # None
                              /\ new.intent = old.intent
                              /\ old.status = "CONFIRMED" => new.status = "CONFIRMED"]_vars
  BY StepFollows DEF AllFollow, Follows, EffectMoves
<1> QED
  BY <1>1, TypeCorrect, PTL DEF Spec, EffectsNeverRegress

(* Overspending leaves its trace (OverspendRecorded).                      *)
THEOREM OverspendingStands == Spec => []OverspendRecorded
<1>1. Init => OverspendRecorded
  BY DEF Init, OverspendRecorded, EmptyLedger, Tasks
<1>2. TypeOK /\ OverspendRecorded /\ [Next]_vars => OverspendRecorded'
  <2> SUFFICES ASSUME TypeOK, OverspendRecorded, [Next]_vars, NEW t \in Tasks(tasks'),
                      Exceeded(tasks'[t])
               PROVE  "BUDGET_EXCEEDED" \in tasks'[t].errors
    BY DEF OverspendRecorded
  <2>1. CASE UNCHANGED vars
    BY <2>1 DEF vars, OverspendRecorded
  <2>2. CASE Next
    <3>1. t \in Tasks(tasks) /\ Follows(tasks[t], tasks'[t])
      BY <2>2, StepFollows DEF AllFollow
    <3>2. CASE tasks'[t].budget = tasks[t].budget /\ tasks'[t].usage = tasks[t].usage
      BY <3>1, <3>2 DEF Follows, Exceeded, OverspendRecorded
    <3> QED
      BY <3>1, <3>2 DEF Follows
  <2> QED
    BY <2>1, <2>2
<1> QED
  BY <1>1, <1>2, TypeCorrect, PTL DEF Spec

-----------------------------------------------------------------------------
(* The fields that a lease protects. *)
SameWork(r, s) ==
    /\ s.status = r.status
    /\ s.cursor_version = r.cursor_version
    /\ s.retry_count = r.retry_count
    /\ s.usage = r.usage
    /\ s.evidence = r.evidence
    /\ s.errors = r.errors
    /\ s.waitpoint = r.waitpoint

(* A task whose lease nobody holds, and which waits for nobody.            *)
Orphaned(t) ==
    /\ tasks[t] # None
    /\ tasks[t].lease # None
    /\ ~\E h \in Holder : HoldsLease(h, t)
    /\ tasks[t].waitpoint = None

(* No credential that a caller can present opens an orphaned task          *)
(* (_assert_lease).                                                        *)
LEMMA OrphansRefuse ==
    ASSUME TypeOK, NEW t \in Task, Orphaned(t), NEW c \in Caller
    PROVE  ~LeaseAccepts(tasks, t, Presented(c, t), clock)
<1> SUFFICES ASSUME LeaseAccepts(tasks, t, Presented(c, t), clock) PROVE FALSE
  OBVIOUS
<1>1. c # None /\ tickets[c][t] # None
  BY DEF LeaseAccepts, Presented, Orphaned
<1>2. c \in Holder /\ Presented(c, t) = [holder |-> c, fence |-> tickets[c][t].fence]
  BY <1>1 DEF Caller, Presented
<1>3. HoldsLease(c, t)
  BY <1>1, <1>2 DEF HoldsLease, LeaseAccepts, Unexpired, Orphaned
<1> QED
  BY <1>2, <1>3 DEF Orphaned

(* The fields of a task that no lease protects.                            *)
LEMMA UnprotectedFields ==
    ASSUME NEW r \in TaskRecord
    PROVE  /\ \A deps : SameWork(r, [r EXCEPT !.dependencies = deps])
           /\ \A children : SameWork(r, [r EXCEPT !.children = children])
           /\ \A p : SameWork(r, [r EXCEPT !.parent_task_id = p])
           /\ \A lease : SameWork(r, [r EXCEPT !.lease = lease])
           /\ \A effects : SameWork(r, [r EXCEPT !.external_effects = effects])
BY DEF SameWork, TaskRecord

(* attach_child changes no work.                                           *)
LEMMA AttachKeepsWork ==
    ASSUME NEW d \in Ledger, NEW p \in Tasks(d), NEW c \in Tasks(d), NEW t \in Tasks(d)
    PROVE  SameWork(d[t], ChildAttached(d, p, c)[t])
<1> DEFINE listed == [d[p] EXCEPT !.children = d[p].children \cup {c}]
           mid == [d EXCEPT ![p] = listed]
           moved == [mid[c] EXCEPT !.parent_task_id = p]
<1>1. p \in Task /\ c \in Task /\ d[p] \in TaskRecord /\ d[c] \in TaskRecord
  BY StoredTask
<1>2. listed \in TaskRecord /\ SameWork(d[p], listed)
  BY <1>1, UnprotectedFields DEF TaskRecord
<1>3. mid \in Ledger /\ \A u \in Tasks(d) : SameWork(d[u], mid[u])
  <2> HIDE DEF listed
  <2> QED
    BY <1>1, <1>2, ReplaceTask DEF SameWork, Tasks, Ledger
<1>4. mid[c] \in TaskRecord
  <2> HIDE DEF listed
  <2> QED
    BY <1>1, <1>2 DEF Ledger
<1>5. SameWork(mid[c], moved)
  <2> HIDE DEF mid
  <2> QED
    BY <1>4, UnprotectedFields
<1>6. SameWork(mid[t], [mid EXCEPT ![c] = moved][t])
  <2> HIDE DEF mid, moved
  <2> QED
    BY <1>1, <1>3, <1>5 DEF SameWork, Tasks, Ledger
<1>7. ChildAttached(d, p, c) = [mid EXCEPT ![c] = moved]
  BY DEF ChildAttached
<1> HIDE DEF mid, moved
<1> QED
  BY <1>3, <1>6, <1>7 DEF SameWork

(* No step moves an orphaned task. *)
LEMMA OrphansStay ==
    ASSUME TypeOK, Next, NEW t \in Task, Orphaned(t)
    PROVE  SameWork(tasks[t], tasks'[t])
<1>t. tasks \in Ledger /\ t \in Tasks(tasks) /\ tasks[t] \in TaskRecord
  BY StoredTask DEF TypeOK, Orphaned, Tasks
<1>s. SameWork(tasks[t], tasks[t])
  BY DEF SameWork
<1>o. ASSUME NEW u \in Task, NEW r, tasks' = [tasks EXCEPT ![u] = r],
             u = t => SameWork(tasks[t], r)
      PROVE  SameWork(tasks[t], tasks'[t])
  BY <1>t, <1>s, <1>o DEF Ledger
<1>1. ASSUME NEW u \in Task, Structure(u) PROVE SameWork(tasks[t], tasks'[t])
  <2>1. ASSUME NEW key \in Key, NEW budget \in Budgets, Create(u, key, budget)
        PROVE  SameWork(tasks[t], tasks'[t])
    <3>1. u # t
      BY <2>1 DEF Create, MayCreate, Orphaned
    <3> QED
      BY <1>o, <2>1, <3>1 DEF Create, Created
  <2>2. ASSUME NEW deps \in SUBSET Task, SetDependencies(u, deps)
        PROVE  SameWork(tasks[t], tasks'[t])
    <3>1. tasks' = [tasks EXCEPT ![u] = [tasks[u] EXCEPT !.dependencies = deps]]
      BY <2>2 DEF SetDependencies, DependenciesSet
    <3> QED
      BY <1>t, <1>o, <3>1, UnprotectedFields
  <2>3. ASSUME NEW child \in Task, AttachChild(u, child) PROVE SameWork(tasks[t], tasks'[t])
    <3>1. u \in Tasks(tasks) /\ child \in Tasks(tasks) /\ tasks' = ChildAttached(tasks, u, child)
      BY <2>3 DEF AttachChild, MayAttachChild
    <3> QED
      BY <1>t, <3>1, AttachKeepsWork
  <2>4. ASSUME NEW effects, tasks' = [tasks EXCEPT ![u] = [tasks[u] EXCEPT !.external_effects = effects]]
        PROVE  SameWork(tasks[t], tasks'[t])
    BY <1>t, <1>o, <2>4, UnprotectedFields
  <2>5. ASSUME NEW x \in Effect, NEW intent \in Digest, RecordExternalEffect(u, x, intent)
        PROVE  SameWork(tasks[t], tasks'[t])
    BY <2>4, <2>5 DEF RecordExternalEffect, EffectRecorded
  <2>6. ASSUME NEW x \in Effect, NEW s \in ObservedState, ReconcileExternalEffect(u, x, s)
        PROVE  SameWork(tasks[t], tasks'[t])
    BY <2>4, <2>6 DEF ReconcileExternalEffect, EffectReconciled
  <2> QED
    BY <1>1, <2>1, <2>2, <2>3, <2>5, <2>6 DEF Structure
<1>2. ASSUME NEW h \in Holder, NEW u \in Task, LeaseWork(h, u) PROVE SameWork(tasks[t], tasks'[t])
  <2>1. ASSUME NEW lease, tasks' = [tasks EXCEPT ![u] = [tasks[u] EXCEPT !.lease = lease]]
        PROVE  SameWork(tasks[t], tasks'[t])
    BY <1>t, <1>o, <2>1, UnprotectedFields
  <2>2. ASSUME NEW ttl \in Ttl, AcquireLease(h, u, ttl) PROVE SameWork(tasks[t], tasks'[t])
    BY <2>1, <2>2 DEF AcquireLease, LeaseAcquired
  <2>3. ASSUME NEW ttl \in Ttl, RenewLease(h, u, ttl) PROVE SameWork(tasks[t], tasks'[t])
    BY <2>1, <2>3 DEF RenewLease, LeaseRenewed
  <2>4. ASSUME Heartbeat(h, u) PROVE SameWork(tasks[t], tasks'[t])
    BY <2>1, <2>4 DEF Heartbeat, LeaseHeartbeat
  <2>5. ASSUME ReleaseLease(h, u) PROVE SameWork(tasks[t], tasks'[t])
    BY <2>1, <2>5 DEF ReleaseLease, LeaseReleased
  <2>6. ASSUME SetWaitpoint(h, u) PROVE SameWork(tasks[t], tasks'[t])
    <3>1. u # t
      BY <2>6, OrphansRefuse DEF SetWaitpoint, MaySetWaitpoint, Caller
    <3>2. \E r : tasks' = [tasks EXCEPT ![u] = r]
      BY <2>6 DEF SetWaitpoint, WaitpointSet
    <3> QED
      BY <1>o, <3>1, <3>2
  <2>7. ASSUME ClearWaitpoint(h, u) PROVE SameWork(tasks[t], tasks'[t])
    <3>1. Presented(h, u) \in Credential
      BY <2>7, NoneIsNoHolder DEF ClearWaitpoint, Presented, TypeOK, Ticket, Credential
    <3>2. u # t
      BY <2>7, <3>1, NoneIsNoRecord DEF ClearWaitpoint, MayClearWaitpoint, Orphaned
    <3>3. \E r : tasks' = [tasks EXCEPT ![u] = r]
      BY <2>7 DEF ClearWaitpoint, WaitpointCleared
    <3> QED
      BY <1>o, <3>2, <3>3
  <2> QED
    BY <1>2, <2>2, <2>3, <2>4, <2>5, <2>6, <2>7 DEF LeaseWork
<1>3. ASSUME NEW c \in Caller, NEW u \in Task, StatusWork(u, Presented(c, u))
      PROVE  SameWork(tasks[t], tasks'[t])
  <2>1. u # t
    BY <1>3, OrphansRefuse
    DEF StatusWork, Transition, MayTransition, Checkpoint, MayCheckpoint, RecordUsage,
        MayRecordUsage, RecordEvidence, MayRecordEvidence, RecordError, MayRecordError
  <2>2. \E r : tasks' = [tasks EXCEPT ![u] = r]
    BY <1>3
    DEF StatusWork, Transition, Transitioned, Checkpoint, Checkpointed, RecordUsage,
        UsageRecorded, RecordEvidence, EvidenceRecorded, RecordError, ErrorRecorded
  <2> QED
    BY <1>o, <2>1, <2>2
<1>4. ASSUME NEW u \in Task, Resume(u) PROVE SameWork(tasks[t], tasks'[t])
  <2>1. u # t
    BY <1>4 DEF Resume, MayResume, MayTransition, LeaseAccepts, Orphaned
  <2>2. \E r : tasks' = [tasks EXCEPT ![u] = r]
    BY <1>4 DEF Resume, Transitioned
  <2> QED
    BY <1>o, <2>1, <2>2
<1>5. Tick => UNCHANGED tasks
  BY DEF Tick
<1>6. \A h \in Holder : Crash(h) => UNCHANGED tasks
  BY DEF Crash
<1> QED
  BY <1>s, <1>1, <1>2, <1>3, <1>4, <1>5, <1>6 DEF Next

(* Nobody moves a task whose lease nobody holds (OrphanedTaskIsFrozen).    *)
THEOREM OrphansAreFrozen == Spec => OrphanedTaskIsFrozen
<1>1. TypeOK /\ [Next]_vars =>
        [\A t \in Task :
            /\ tasks[t] # None
            /\ tasks[t].lease # None
            /\ ~\E h \in Holder : HoldsLease(h, t)
            /\ tasks[t].waitpoint = None
            => Work(t)' = Work(t)]_vars
  BY OrphansStay DEF Orphaned, SameWork, Work
<1> QED
  BY <1>1, TypeCorrect, PTL DEF Spec, OrphanedTaskIsFrozen

-----------------------------------------------------------------------------
(* Dependencies: every edge leads to a task, and no set of tasks waits for *)
(* itself.  Both are kept because set_dependencies looks at the graph it   *)
(* would leave, and because no other method writes an edge.                *)
EdgesLeadToTasks(d) == \A t \in Tasks(d) : d[t].dependencies \subseteq Tasks(d)

Untangled == EdgesLeadToTasks(tasks) /\ ~HasCycle(DependencyGraph(tasks))

SameEdges(d, e) == \A t \in Tasks(d) : e[t].dependencies = d[t].dependencies

(* Replacing one task by one with the same edges. *)
LEMMA ReplaceKeepsEdges ==
    ASSUME NEW d \in Ledger, NEW t \in Tasks(d), NEW r, r.dependencies = d[t].dependencies
    PROVE  SameEdges(d, [d EXCEPT ![t] = r])
<1>1. \A u \in Tasks(d) : [d EXCEPT ![t] = r][u] = IF u = t THEN r ELSE d[u]
  BY DEF Tasks, Ledger
<1> QED
  BY <1>1 DEF SameEdges

(* The fields of a task other than its edges. *)
LEMMA FieldsKeepEdges ==
    ASSUME NEW r \in TaskRecord
    PROVE  /\ \A children : [r EXCEPT !.children = children].dependencies = r.dependencies
           /\ \A p : [r EXCEPT !.parent_task_id = p].dependencies = r.dependencies
           /\ \A x : [r EXCEPT !.external_effects = x].dependencies = r.dependencies
           /\ \A lease : [r EXCEPT !.lease = lease].dependencies = r.dependencies
           /\ \A s : [r EXCEPT !.status = s].dependencies = r.dependencies
           /\ \A v : [r EXCEPT !.cursor_version = v].dependencies = r.dependencies
           /\ \A e : [r EXCEPT !.evidence = e].dependencies = r.dependencies
           /\ \A w, s : [r EXCEPT !.waitpoint = w, !.status = s].dependencies = r.dependencies
           /\ \A s, e : [r EXCEPT !.status = s, !.errors = e].dependencies = r.dependencies
           /\ \A s, e, n : [r EXCEPT !.status = s, !.errors = e, !.retry_count = n].dependencies
                             = r.dependencies
           /\ \A v, w, s, l : [r EXCEPT !.cursor_version = v, !.waitpoint = w, !.status = s,
                                        !.lease = l].dependencies = r.dependencies
BY DEF TaskRecord

(* attach_child writes no edge. *)
LEMMA AttachKeepsEdges ==
    ASSUME NEW d \in Ledger, NEW p \in Tasks(d), NEW c \in Tasks(d)
    PROVE  SameEdges(d, ChildAttached(d, p, c))
<1> DEFINE listed == [d[p] EXCEPT !.children = d[p].children \cup {c}]
           mid == [d EXCEPT ![p] = listed]
           moved == [mid[c] EXCEPT !.parent_task_id = p]
<1>1. p \in Task /\ c \in Task /\ d[p] \in TaskRecord /\ d[c] \in TaskRecord
  BY StoredTask
<1>2. listed \in TaskRecord /\ listed.dependencies = d[p].dependencies
  BY <1>1, FieldsKeepEdges DEF TaskRecord
<1>3. mid \in Ledger /\ SameEdges(d, mid)
  <2> HIDE DEF listed
  <2> QED
    BY <1>1, <1>2, ReplaceTask, ReplaceKeepsEdges
<1>4. mid[c] \in TaskRecord
  <2> HIDE DEF listed
  <2> QED
    BY <1>1, <1>2 DEF Ledger
<1>5. moved.dependencies = mid[c].dependencies
  <2> HIDE DEF mid
  <2> QED
    BY <1>4, FieldsKeepEdges
<1>6. c \in Tasks(mid)
  <2> HIDE DEF mid
  <2> QED
    BY <1>1, <1>4, NoneIsNoRecord DEF Tasks
<1>7. SameEdges(mid, [mid EXCEPT ![c] = moved])
  <2> HIDE DEF mid, moved
  <2> QED
    BY <1>3, <1>5, <1>6, ReplaceKeepsEdges
<1>8. Tasks(d) \subseteq Tasks(mid)
  <2> HIDE DEF listed
  <2> QED
    BY <1>1, <1>2, NoneIsNoRecord DEF Tasks, Ledger
<1>9. ChildAttached(d, p, c) = [mid EXCEPT ![c] = moved]
  BY DEF ChildAttached
<1> HIDE DEF mid, moved
<1> QED
  BY <1>3, <1>7, <1>8, <1>9 DEF SameEdges

(* Only set_dependencies writes edges. *)
LEMMA StepKeepsEdges ==
    ASSUME TypeOK, Next, ~\E t \in Task : \E deps \in SUBSET Task : SetDependencies(t, deps)
    PROVE  SameEdges(tasks, tasks') /\ \A t \in Tasks(tasks') \ Tasks(tasks) : tasks'[t].dependencies = {}
<1> DEFINE Goal == SameEdges(tasks, tasks')
                   /\ \A t \in Tasks(tasks') \ Tasks(tasks) : tasks'[t].dependencies = {}
<1>t. tasks \in Ledger
  BY DEF TypeOK
<1>f. \A t \in Tasks(tasks) : tasks[t] \in TaskRecord
  BY <1>t, StoredTask
<1>o. ASSUME NEW t \in Tasks(tasks), NEW r, tasks' = [tasks EXCEPT ![t] = r],
             r.dependencies = tasks[t].dependencies
      PROVE  Goal
  <2>1. Tasks(tasks') \subseteq Tasks(tasks)
    BY <1>t, <1>o, NoTaskAdded
  <2> QED
    BY <1>t, <1>o, <2>1, ReplaceKeepsEdges
<1> HIDE DEF Goal
<1>1. ASSUME NEW t \in Task, Structure(t) PROVE Goal
  <2>1. ASSUME NEW key \in Key, NEW budget \in Budgets, Create(t, key, budget) PROVE Goal
    <3>1. \A u \in Task \ {t} : tasks'[u] = tasks[u]
      BY <1>t, <2>1 DEF Create, Created, Ledger
    <3>2. t \notin Tasks(tasks) /\ tasks'[t].dependencies = {}
      BY <1>t, <2>1 DEF Create, MayCreate, Created, Ledger, Tasks
    <3> QED
      BY <3>1, <3>2 DEF Goal, SameEdges, Tasks
  <2>2. ASSUME NEW child \in Task, AttachChild(t, child) PROVE Goal
    <3>1. t \in Tasks(tasks) /\ child \in Tasks(tasks) /\ tasks' = ChildAttached(tasks, t, child)
      BY <2>2 DEF AttachChild, MayAttachChild
    <3> DEFINE listed == [tasks[t] EXCEPT !.children = tasks[t].children \cup {child}]
               moved == [[tasks EXCEPT ![t] = listed][child] EXCEPT !.parent_task_id = t]
    <3>2. tasks' = [[tasks EXCEPT ![t] = listed] EXCEPT ![child] = moved]
      BY <3>1 DEF ChildAttached
    <3>3. Tasks(tasks') \subseteq Tasks(tasks)
      <4> HIDE DEF listed, moved
      <4> QED
        BY <1>t, <3>1, <3>2, NoTaskAdded
    <3> QED
      BY <1>t, <3>1, <3>3, AttachKeepsEdges DEF Goal
  <2>3. ASSUME NEW effects, t \in Tasks(tasks),
               tasks' = [tasks EXCEPT ![t] = [tasks[t] EXCEPT !.external_effects = effects]]
        PROVE  Goal
    BY <1>f, <1>o, <2>3, FieldsKeepEdges
  <2>4. ASSUME NEW x \in Effect, NEW intent \in Digest, RecordExternalEffect(t, x, intent) PROVE Goal
    BY <2>3, <2>4 DEF RecordExternalEffect, MayRecordEffect, EffectRecorded
  <2>5. ASSUME NEW x \in Effect, NEW s \in ObservedState, ReconcileExternalEffect(t, x, s) PROVE Goal
    BY <2>3, <2>5 DEF ReconcileExternalEffect, MayReconcileEffect, EffectReconciled
  <2> QED
    BY <1>1, <2>1, <2>2, <2>4, <2>5 DEF Structure
<1>2. ASSUME NEW h \in Holder, NEW t \in Task, LeaseWork(h, t) PROVE Goal
  <2>1. ASSUME NEW lease, t \in Tasks(tasks),
               tasks' = [tasks EXCEPT ![t] = [tasks[t] EXCEPT !.lease = lease]]
        PROVE  Goal
    BY <1>f, <1>o, <2>1, FieldsKeepEdges
  <2>2. ASSUME NEW ttl \in Ttl, AcquireLease(h, t, ttl) PROVE Goal
    BY <2>1, <2>2 DEF AcquireLease, MayAcquireLease, LeaseAcquired
  <2>3. ASSUME NEW ttl \in Ttl, RenewLease(h, t, ttl) PROVE Goal
    BY <2>1, <2>3 DEF RenewLease, OwnsLease, LeaseRenewed
  <2>4. ASSUME Heartbeat(h, t) PROVE Goal
    BY <2>1, <2>4 DEF Heartbeat, OwnsLease, LeaseHeartbeat
  <2>5. ASSUME ReleaseLease(h, t) PROVE Goal
    BY <2>1, <2>5 DEF ReleaseLease, MayReleaseLease, LeaseReleased
  <2>6. ASSUME SetWaitpoint(h, t) PROVE Goal
    <3> DEFINE waiting == [tasks[t] EXCEPT !.cursor_version = tasks[t].cursor_version + 1,
                                           !.waitpoint = Presented(h, t),
                                           !.status = "WAITING_APPROVAL", !.lease = None]
    <3>1. t \in Tasks(tasks) /\ tasks' = [tasks EXCEPT ![t] = waiting]
      BY <2>6 DEF SetWaitpoint, MaySetWaitpoint, WaitpointSet
    <3>2. waiting.dependencies = tasks[t].dependencies
      BY <1>f, <3>1, FieldsKeepEdges
    <3> HIDE DEF waiting
    <3> QED
      BY <1>o, <3>1, <3>2
  <2>7. ASSUME ClearWaitpoint(h, t) PROVE Goal
    <3> DEFINE cleared == [tasks[t] EXCEPT !.waitpoint = None, !.status = "RUNNING"]
    <3>1. t \in Tasks(tasks) /\ tasks' = [tasks EXCEPT ![t] = cleared]
      BY <2>7 DEF ClearWaitpoint, MayClearWaitpoint, WaitpointCleared
    <3>2. cleared.dependencies = tasks[t].dependencies
      BY <1>f, <3>1, FieldsKeepEdges
    <3> HIDE DEF cleared
    <3> QED
      BY <1>o, <3>1, <3>2
  <2> QED
    BY <1>2, <2>2, <2>3, <2>4, <2>5, <2>6, <2>7 DEF LeaseWork
<1>s. ASSUME NEW t \in Tasks(tasks), NEW s, tasks' = Transitioned(tasks, t, s) PROVE Goal
  BY <1>o, <1>f, <1>s, FieldsKeepEdges DEF Transitioned
<1>3. ASSUME NEW t \in Task, NEW cred, StatusWork(t, cred) PROVE Goal
  <2>1. ASSUME NEW s \in STATES, Transition(t, s, cred) PROVE Goal
    BY <1>s, <2>1 DEF Transition, MayTransition
  <2>2. ASSUME Checkpoint(t, cred) PROVE Goal
    <3>1. t \in Tasks(tasks) /\ tasks' = Checkpointed(tasks, t)
      BY <2>2 DEF Checkpoint, MayCheckpoint
    <3> QED
      BY <1>o, <1>f, <3>1, FieldsKeepEdges DEF Checkpointed
  <2>3. ASSUME NEW amount \in Amounts, RecordUsage(t, amount, cred) PROVE Goal
    <3> DEFINE charged == Charged(tasks[t], amount)
               r == IF Exceeded(charged) THEN Overspent(charged) ELSE charged
    <3>1. t \in Tasks(tasks) /\ amount \in [Meter -> Nat] /\ tasks' = [tasks EXCEPT ![t] = r]
      BY <2>3, AmountsAreAmounts DEF RecordUsage, MayRecordUsage, UsageRecorded
    <3>2. charged \in TaskRecord /\ charged.dependencies = tasks[t].dependencies
      BY <1>f, <3>1, ChargedType DEF Charged, TaskRecord
    <3>3. Overspent(charged).dependencies = charged.dependencies
      <4> HIDE DEF charged
      <4> QED BY <3>2, FieldsKeepEdges DEF Overspent
    <3>4. r.dependencies = tasks[t].dependencies
      <4> HIDE DEF charged
      <4> QED BY <3>2, <3>3
    <3> HIDE DEF r
    <3> QED
      BY <1>o, <3>1, <3>4
  <2>4. ASSUME NEW e \in EvidenceState, RecordEvidence(t, e, cred) PROVE Goal
    <3>1. t \in Tasks(tasks) /\ tasks' = EvidenceRecorded(tasks, t, e)
      BY <2>4 DEF RecordEvidence, MayRecordEvidence
    <3> QED
      BY <1>o, <1>f, <3>1, FieldsKeepEdges DEF EvidenceRecorded
  <2>5. ASSUME NEW kind \in Reported, RecordError(t, kind, cred) PROVE Goal
    <3>1. t \in Tasks(tasks) /\ tasks' = [tasks EXCEPT ![t] = Failed(tasks[t], kind)]
      BY <2>5 DEF RecordError, MayRecordError, ErrorRecorded
    <3>2. Failed(tasks[t], kind).dependencies = tasks[t].dependencies
      BY <1>f, <3>1, FieldsKeepEdges DEF Failed
    <3> QED
      BY <1>o, <3>1, <3>2
  <2> QED
    BY <1>3, <2>1, <2>2, <2>3, <2>4, <2>5 DEF StatusWork
<1>4. ASSUME NEW t \in Task, Resume(t) PROVE Goal
  BY <1>s, <1>4 DEF Resume, MayResume
<1>5. ASSUME UNCHANGED tasks PROVE Goal
  BY <1>5 DEF Goal, SameEdges
<1>6. Tick => UNCHANGED tasks
  BY DEF Tick
<1>7. \A h \in Holder : Crash(h) => UNCHANGED tasks
  BY DEF Crash
<1>8. Goal
  BY <1>1, <1>2, <1>3, <1>4, <1>5, <1>6, <1>7 DEF Next
<1> QED
  BY <1>8 DEF Goal

(* Untangled is inductive, given the types. *)
LEMMA UntangledStep == TypeOK /\ Untangled /\ [Next]_vars => Untangled'
<1> SUFFICES ASSUME TypeOK, Untangled, [Next]_vars PROVE Untangled'
  OBVIOUS
<1>t. tasks \in Ledger
  BY DEF TypeOK
<1>1. ASSUME NEW t \in Task, NEW deps \in SUBSET Task, SetDependencies(t, deps) PROVE Untangled'
  <2>1. t \in Tasks(tasks) /\ deps \subseteq Tasks(tasks)
        /\ ~HasCycle([DependencyGraph(tasks) EXCEPT ![t] = deps])
        /\ tasks' = [tasks EXCEPT ![t] = [tasks[t] EXCEPT !.dependencies = deps]]
    BY <1>1 DEF SetDependencies, MaySetDependencies, DependenciesSet
  <2>2. tasks[t] \in TaskRecord
    BY <1>t, <2>1, StoredTask
  <2>3. [tasks[t] EXCEPT !.dependencies = deps] \in TaskRecord
        /\ [tasks[t] EXCEPT !.dependencies = deps].dependencies = deps
    BY <2>2 DEF TaskRecord
  <2>4. \A u \in Task : tasks'[u] = IF u = t THEN [tasks[t] EXCEPT !.dependencies = deps] ELSE tasks[u]
    BY <1>t, <2>1 DEF Ledger
  <2>5. tasks'[t] # None /\ tasks'[t].dependencies = deps /\ \A u \in Task \ {t} : tasks'[u] = tasks[u]
    BY <2>3, <2>4, NoneIsNoRecord
  <2>6. Tasks(tasks') = Tasks(tasks)
    BY <2>1, <2>5 DEF Tasks
  <2>7. EdgesLeadToTasks(tasks')
    BY <2>1, <2>5, <2>6 DEF Untangled, EdgesLeadToTasks, Tasks
  <2>8. DependencyGraph(tasks') = [DependencyGraph(tasks) EXCEPT ![t] = deps]
    BY <2>5 DEF DependencyGraph
  <2> QED
    BY <2>1, <2>7, <2>8 DEF Untangled
<1>2. ASSUME Next, ~\E t \in Task : \E deps \in SUBSET Task : SetDependencies(t, deps)
      PROVE  Untangled'
  <2>1. SameEdges(tasks, tasks')
        /\ \A t \in Tasks(tasks') \ Tasks(tasks) : tasks'[t].dependencies = {}
    BY <1>2, StepKeepsEdges
  <2>2. Tasks(tasks) \subseteq Tasks(tasks')
    BY <1>2, StepMovesLeases DEF LeaseMoves
  <2>3. EdgesLeadToTasks(tasks')
    BY <2>1, <2>2 DEF SameEdges, Untangled, EdgesLeadToTasks
  <2>4. \A t \in Task : DependencyGraph(tasks')[t] = DependencyGraph(tasks)[t]
    BY <2>1, <2>2 DEF DependencyGraph, SameEdges, Tasks
  <2>5. DependencyGraph(tasks') = DependencyGraph(tasks)
    BY <2>4 DEF DependencyGraph
  <2> QED
    BY <2>3, <2>5 DEF Untangled
<1>3. CASE UNCHANGED vars
  BY <1>3 DEF vars, Untangled
<1> QED
  BY <1>1, <1>2, <1>3

(* Dependencies cannot wedge the queue (ReadyProgress): were no queued     *)
(* task ready, the queued tasks would be a set that waits for itself.      *)
THEOREM QueueNeverWedges == Spec => []ReadyProgress
<1>1. Init => Untangled
  <2> SUFFICES ASSUME Init PROVE Untangled
    OBVIOUS
  <2>1. Tasks(tasks) = {} /\ \A t \in Task : DependencyGraph(tasks)[t] = {}
    BY DEF Init, EmptyLedger, Tasks, DependencyGraph
  <2> QED
    BY <2>1 DEF Untangled, EdgesLeadToTasks, HasCycle
<1>2. Untangled => ReadyProgress
  <2> SUFFICES ASSUME Untangled, ~ReadyProgress PROVE FALSE
    OBVIOUS
  <2> DEFINE queued == {t \in Tasks(tasks) : tasks[t].status = "QUEUED"}
  <2>1. queued # {} /\ Tasks(tasks) \ queued = Completed(tasks) /\ ReadyTasks(tasks) = {}
    BY DEF ReadyProgress
  <2>2. queued \subseteq Task /\ \A t \in queued : DependencyGraph(tasks)[t] = tasks[t].dependencies
    BY DEF DependencyGraph, Tasks
  <2>3. ASSUME NEW t \in queued PROVE DependencyGraph(tasks)[t] \cap queued # {}
    <3>1. PICK u \in tasks[t].dependencies : u \notin Completed(tasks)
      BY <2>1, <2>3 DEF ReadyTasks
    <3>2. u \in Tasks(tasks)
      BY <2>3, <3>1 DEF Untangled, EdgesLeadToTasks
    <3> QED
      BY <2>1, <2>2, <2>3, <3>1, <3>2
  <2>4. HasCycle(DependencyGraph(tasks))
    BY <2>1, <2>2, <2>3 DEF HasCycle
  <2> QED
    BY <2>4 DEF Untangled
<1> QED
  BY <1>1, <1>2, TypeCorrect, UntangledStep, PTL DEF Spec

-----------------------------------------------------------------------------
(* Claims through the inbox *)

Run == [holder : Holder, effect : Effect]
Steps == {"idle", "claim", "intent", "execute"}

(* From the lease to the executor a worker stands by its job. *)
Claiming(h) == pc[h] \in {"intent", "execute"}

ClaimTypes ==
    /\ TypeOK
    /\ pc \in [Holder -> Steps]
    /\ job \in [Holder -> Task \cup {None}]
    /\ runs \in [Task -> Seq(Run)]
    /\ \A h \in Holder : pc[h] # "idle" => job[h] \in Tasks(tasks)
    /\ \A h \in Holder : Claiming(h) => ClaimEffect(h) \in Effect
    /\ \A t \in Task : runs[t] # <<>> => t \in Tasks(tasks)

(* The intent is on record before the executor is called and stays there.  *)
IntentInv ==
    /\ IntentBeforeExecutor
    /\ \A h \in Holder : pc[h] = "execute" =>
          tasks[job[h]].external_effects[ClaimEffect(h)] # None

(* While the lease of t was never given up, fences tell claims apart.      *)
Apart(t) ==
    /\ \A h \in Holder : Claiming(h) /\ job[h] = t =>
          /\ tasks[t].lease # None
          /\ ClaimEffect(h) <= tasks[t].lease.fence
    /\ \A i \in DOMAIN runs[t] :
          /\ tasks[t] # None
          /\ tasks[t].lease # None
          /\ runs[t][i].effect <= tasks[t].lease.fence
    /\ \A g, h \in Holder : g # h /\ Claiming(g) /\ Claiming(h) /\ job[g] = t /\ job[h] = t =>
          ClaimEffect(g) # ClaimEffect(h)
    /\ \A h \in Holder, i \in DOMAIN runs[t] : Claiming(h) /\ job[h] = t =>
          runs[t][i].effect # ClaimEffect(h)
    /\ \A i, j \in DOMAIN runs[t] : i # j => runs[t][i].effect # runs[t][j].effect

ApartInv == \A t \in Task \ released : Apart(t)

-----------------------------------------------------------------------------
(* A step of the claims is a step of the ledger, or leaves it alone.       *)
LEMMA LedgerSteps ==
    ASSUME ClaimTypes, ClaimNext
    PROVE  Next \/ UNCHANGED vars
<1>1. ASSUME NEW t \in Task, NEW key \in Key, NEW budget \in Budgets, Receive(t, key, budget)
      PROVE  Next
  BY <1>1 DEF Receive, Next, Structure
<1>2. ASSUME NEW h \in Holder, NEW t \in Task, Check(h, t) PROVE UNCHANGED vars
  BY <1>2 DEF Check
<1>3. ASSUME NEW h \in Holder, NEW t \in Task, NEW ttl \in Ttl, Claim(h, t, ttl) PROVE Next
  BY <1>3 DEF Claim, Next, LeaseWork
<1>4. ASSUME NEW h \in Holder, ClaimRefused(h) PROVE UNCHANGED vars
  BY <1>4 DEF ClaimRefused
<1>5. ASSUME NEW h \in Holder, NEW digest \in Digest, PersistIntent(h, digest)
      PROVE  Next \/ UNCHANGED vars
  <2>1. job[h] \in Task /\ ClaimEffect(h) \in Effect
    BY <1>5 DEF PersistIntent, ClaimTypes, Claiming, Tasks
  <2>2. RecordExternalEffect(job[h], ClaimEffect(h), digest) \/ UNCHANGED vars
    BY <1>5 DEF PersistIntent
  <2> QED
    BY <2>1, <2>2 DEF Next, Structure
<1>6. ASSUME NEW h \in Holder, Execute(h) PROVE UNCHANGED vars
  BY <1>6 DEF Execute
<1>7. ASSUME NEW h \in Holder, NEW t \in Task, GiveUp(h, t) PROVE Next
  BY <1>7 DEF GiveUp, Next, LeaseWork
<1>8. ASSUME NEW t \in Task, NEW x \in Effect, NEW s \in ObservedState, Observe(t, x, s) PROVE Next
  BY <1>8 DEF Observe, Next, Structure
<1>9. ClaimTick => Next
  BY DEF ClaimTick, Next
<1>10. \A h \in Holder : Die(h) => Next
  BY DEF Die, Next
<1> QED
  BY <1>1, <1>2, <1>3, <1>4, <1>5, <1>6, <1>7, <1>8, <1>9, <1>10 DEF ClaimNext

(* What every step keeps of the ledger: types, tasks and recorded effects. *)
LEMMA LedgerKeeps ==
    ASSUME ClaimTypes, ClaimNext
    PROVE  /\ TypeOK'
           /\ Tasks(tasks) \subseteq Tasks(tasks')
           /\ \A t \in Tasks(tasks), x \in Effect :
                 tasks[t].external_effects[x] # None => tasks'[t].external_effects[x] # None
<1>1. TypeOK /\ (Next \/ UNCHANGED vars)
  BY LedgerSteps DEF ClaimTypes
<1>2. TypeOK'
  BY <1>1, TypeStep
<1>3. CASE Next
  BY <1>1, <1>2, <1>3, StepMovesLeases, StepFollows DEF LeaseMoves, AllFollow, Follows, EffectMoves
<1>4. CASE UNCHANGED vars
  BY <1>2, <1>4 DEF vars
<1> QED
  BY <1>1, <1>3, <1>4

(* What a worker remembers of its claim changes only with its place in     *)
(* claim (Claim, Die; GiveUp keeps the fence).                             *)
LEMMA TicketsKept ==
    ASSUME ClaimTypes, ClaimNext, NEW h \in Holder, Claiming(h)'
    PROVE  \/ Claiming(h) /\ job'[h] = job[h] /\ tickets'[h][job[h]] = tickets[h][job[h]]
           \/ /\ pc'[h] = "intent"
              /\ \E t \in Task, ttl \in Ttl : Claim(h, t, ttl)
<1>t. pc \in [Holder -> Steps] /\ job \in [Holder -> Task \cup {None}]
      /\ tickets \in [Holder -> [Task -> Ticket \cup {None}]]
  BY DEF ClaimTypes, TypeOK
<1> DEFINE Same == Claiming(h) /\ job'[h] = job[h] /\ tickets'[h][job[h]] = tickets[h][job[h]]
<1>1. ASSUME NEW t \in Task, NEW key \in Key, NEW budget \in Budgets, Receive(t, key, budget)
      PROVE  Same
  BY <1>1 DEF Receive, Create, Claiming
<1>2. ASSUME NEW g \in Holder, NEW t \in Task, Check(g, t) PROVE Same
  BY <1>t, <1>2 DEF Check, At, Claiming, vars
<1>3. ASSUME NEW g \in Holder, NEW t \in Task, NEW ttl \in Ttl, Claim(g, t, ttl), g # h PROVE Same
  BY <1>t, <1>3 DEF Claim, At, Claiming, AcquireLease
<1>4. ASSUME NEW g \in Holder, ClaimRefused(g) PROVE Same
  BY <1>t, <1>4 DEF ClaimRefused, At, Claiming, vars
<1>5. ASSUME NEW g \in Holder, NEW digest \in Digest, PersistIntent(g, digest) PROVE Same
  <2>1. UNCHANGED <<tickets, job>>
    BY <1>5 DEF PersistIntent, RecordExternalEffect, vars
  <2>2. pc[g] = "intent" /\ \E s \in {"execute", "idle"} : At(g, s)
    BY <1>5 DEF PersistIntent
  <2> QED
    BY <1>t, <2>1, <2>2 DEF At, Claiming
<1>6. ASSUME NEW g \in Holder, Execute(g) PROVE Same
  BY <1>t, <1>6 DEF Execute, At, Claiming, vars
<1>7. ASSUME NEW g \in Holder, NEW t \in Task, GiveUp(g, t) PROVE Same
  <2>1. g # h /\ UNCHANGED <<pc, job>>
    BY <1>7 DEF GiveUp, Claiming
  <2>2. tickets'[h] = tickets[h]
    BY <1>t, <1>7, <2>1 DEF GiveUp, ReleaseLease, TicketEnded
  <2> QED
    BY <2>1, <2>2 DEF Claiming
<1>8. ASSUME NEW t \in Task, NEW x \in Effect, NEW s \in ObservedState, Observe(t, x, s) PROVE Same
  BY <1>8 DEF Observe, ReconcileExternalEffect, Claiming
<1>9. ClaimTick => Same
  BY DEF ClaimTick, Tick, Claiming
<1>10. ASSUME NEW g \in Holder, Die(g) PROVE Same
  <2>1. g # h
    BY <1>t, <1>10 DEF Die, At, Claiming
  <2> QED
    BY <1>t, <1>10, <2>1 DEF Die, Crash, At, Claiming
<1>11. ASSUME NEW t \in Task, NEW ttl \in Ttl, Claim(h, t, ttl) PROVE pc'[h] = "intent"
  BY <1>t, <1>11 DEF Claim, At
<1> HIDE DEF Same
<1>12. Same \/ (pc'[h] = "intent" /\ \E t \in Task, ttl \in Ttl : Claim(h, t, ttl))
  BY <1>1, <1>2, <1>3, <1>4, <1>5, <1>6, <1>7, <1>8, <1>9, <1>10, <1>11 DEF ClaimNext
<1> QED
  BY <1>12 DEF Same

(* Only Execute adds to the runs, one run under the claim's effect.        *)
LEMMA RunsGrow ==
    ASSUME ClaimTypes, ClaimNext
    PROVE  \/ UNCHANGED runs
           \/ \E h \in Holder : /\ Execute(h)
                                /\ runs' = [runs EXCEPT ![job[h]] = Append(runs[job[h]],
                                              [holder |-> h, effect |-> ClaimEffect(h)])]
BY DEF ClaimNext, Receive, Check, Claim, ClaimRefused, PersistIntent, Execute, GiveUp, Observe,
       ClaimTick, Die

(* The types and the places of the workers. *)
LEMMA ClaimTypesStep == ClaimTypes /\ [ClaimNext]_claim_vars => ClaimTypes'
<1> SUFFICES ASSUME ClaimTypes, [ClaimNext]_claim_vars PROVE ClaimTypes'
  OBVIOUS
<1>1. CASE UNCHANGED claim_vars
  BY <1>1 DEF claim_vars, ClaimTypes, TypeOK, Claiming, ClaimEffect
<1>2. CASE ClaimNext
  <2>t. pc \in [Holder -> Steps] /\ job \in [Holder -> Task \cup {None}]
        /\ runs \in [Task -> Seq(Run)] /\ tickets \in [Holder -> [Task -> Ticket \cup {None}]]
    BY DEF ClaimTypes, TypeOK
  <2>1. TypeOK' /\ Tasks(tasks) \subseteq Tasks(tasks')
    BY <1>2, LedgerKeeps
  <2>2. pc' \in [Holder -> Steps] /\ job' \in [Holder -> Task \cup {None}]
    <3>1. ASSUME NEW h \in Holder, NEW s \in Steps, At(h, s) PROVE pc' \in [Holder -> Steps]
      BY <2>t, <3>1 DEF At
    <3>2. pc' \in [Holder -> Steps]
      <4>1. UNCHANGED pc \/ \E h \in Holder, s \in Steps : At(h, s)
        BY <1>2 DEF ClaimNext, Receive, Check, Claim, ClaimRefused, PersistIntent, Execute, GiveUp,
                    Observe, ClaimTick, Die, Steps
      <4> QED
        BY <2>t, <3>1, <4>1
    <3>3. UNCHANGED job \/ \E h \in Holder, t \in Task : job' = [job EXCEPT ![h] = t]
      BY <1>2 DEF ClaimNext, Receive, Check, Claim, ClaimRefused, PersistIntent, Execute, GiveUp,
                  Observe, ClaimTick, Die
    <3> QED
      BY <2>t, <3>2, <3>3
  <2>3. runs' \in [Task -> Seq(Run)]
    <3>1. CASE UNCHANGED runs
      BY <2>t, <3>1
    <3>2. ASSUME NEW h \in Holder, Execute(h),
                 runs' = [runs EXCEPT ![job[h]] = Append(runs[job[h]],
                            [holder |-> h, effect |-> ClaimEffect(h)])]
          PROVE  runs' \in [Task -> Seq(Run)]
      <4>1. ClaimEffect(h) \in Effect /\ job[h] \in Task
        BY <3>2 DEF Execute, ClaimTypes, Claiming, Tasks
      <4> DEFINE run == [holder |-> h, effect |-> ClaimEffect(h)]
      <4>a. run \in Run /\ runs[job[h]] \in Seq(Run)
        BY <2>t, <4>1 DEF Run
      <4>2. Append(runs[job[h]], run) \in Seq(Run)
        <5> HIDE DEF run
        <5> QED BY <4>a
      <4> QED
        BY <2>t, <3>2, <4>1, <4>2
    <3> QED
      BY <1>2, <3>1, <3>2, RunsGrow
  <2>4. ASSUME NEW h \in Holder, pc'[h] # "idle" PROVE job'[h] \in Tasks(tasks')
    <3>1. CASE \E t \in Task : Check(h, t) \/ \E ttl \in Ttl : Claim(h, t, ttl)
      <4>1. PICK t \in Task : Check(h, t) \/ \E ttl \in Ttl : Claim(h, t, ttl)
        BY <3>1
      <4>2. t \in Tasks(tasks) /\ job'[h] = t
        BY <2>t, <4>1 DEF Check, Claim
      <4> QED
        BY <2>1, <4>2
    <3>2. CASE ~\E t \in Task : Check(h, t) \/ \E ttl \in Ttl : Claim(h, t, ttl)
      <4>a. \/ UNCHANGED job
            \/ \E g \in Holder, t \in Task : Check(g, t) \/ \E ttl \in Ttl : Claim(g, t, ttl)
        BY <1>2 DEF ClaimNext, Receive, ClaimRefused, PersistIntent, Execute, GiveUp, Observe,
                    ClaimTick, Die
      <4>b. \A g \in Holder, t \in Task :
               (Check(g, t) \/ \E ttl \in Ttl : Claim(g, t, ttl)) => job' = [job EXCEPT ![g] = t]
        BY DEF Check, Claim
      <4>1. UNCHANGED job \/ \E g \in Holder \ {h}, t \in Task : job' = [job EXCEPT ![g] = t]
        BY <3>2, <4>a, <4>b
      <4>2. job'[h] = job[h]
        BY <2>t, <4>1
      <4>3. \/ UNCHANGED pc
            \/ \E g \in Holder, s \in Steps : At(g, s) /\ (g = h => pc[g] # "idle" \/ s = "idle")
        BY <1>2, <3>2 DEF ClaimNext, Receive, Check, Claim, ClaimRefused, PersistIntent, Execute,
                          GiveUp, Observe, ClaimTick, Die, Steps
      <4>4. pc[h] # "idle"
        BY <2>4, <2>t, <4>3 DEF At
      <4> QED
        BY <2>1, <4>2, <4>4 DEF ClaimTypes
    <3> QED
      BY <3>1, <3>2
  <2>5. ASSUME NEW h \in Holder, Claiming(h)'
        PROVE  ClaimEffect(h)' \in Effect
    <3>1. CASE Claiming(h) /\ job'[h] = job[h] /\ tickets'[h][job[h]] = tickets[h][job[h]]
      BY <3>1 DEF ClaimTypes, ClaimEffect
    <3>2. ASSUME NEW t \in Task, NEW ttl \in Ttl, Claim(h, t, ttl)
          PROVE  ClaimEffect(h)' \in Effect
      <4>1. job'[h] = t /\ NextFence(tasks, t) \in Effect
            /\ tickets'[h][t] = [fence |-> NextFence(tasks, t), expires_at |-> clock + ttl]
        BY <2>t, <3>2 DEF Claim, AcquireLease
      <4> QED
        BY <4>1 DEF ClaimEffect
    <3> QED
      BY <1>2, <2>5, <3>1, <3>2, TicketsKept
  <2>6. ASSUME NEW t \in Task, runs'[t] # <<>> PROVE t \in Tasks(tasks')
    <3>1. CASE runs'[t] = runs[t]
      BY <2>1, <2>6, <3>1 DEF ClaimTypes
    <3>2. CASE runs'[t] # runs[t]
      <4>1. PICK h \in Holder : Execute(h) /\ t = job[h]
        BY <1>2, <2>t, <3>2, RunsGrow
      <4> QED
        BY <2>1, <4>1 DEF Execute, ClaimTypes
    <3> QED
      BY <3>1, <3>2
  <2> QED
    BY <2>1, <2>2, <2>3, <2>4, <2>5, <2>6 DEF ClaimTypes
<1> QED
  BY <1>1, <1>2

-----------------------------------------------------------------------------
(* The intent is on record before the executor runs, and stays there.      *)
LEMMA IntentStep == ClaimTypes /\ IntentInv /\ [ClaimNext]_claim_vars => IntentInv'
<1> SUFFICES ASSUME ClaimTypes, IntentInv, [ClaimNext]_claim_vars PROVE IntentInv'
  OBVIOUS
<1>1. CASE UNCHANGED claim_vars
  BY <1>1 DEF claim_vars, IntentInv, IntentBeforeExecutor, ClaimEffect, vars
<1>2. CASE ClaimNext
  <2>t. pc \in [Holder -> Steps] /\ job \in [Holder -> Task \cup {None}]
        /\ runs \in [Task -> Seq(Run)] /\ tasks \in Ledger
        /\ tickets \in [Holder -> [Task -> Ticket \cup {None}]]
    BY DEF ClaimTypes, TypeOK
  <2>k. \A t \in Tasks(tasks), x \in Effect :
           tasks[t].external_effects[x] # None => tasks'[t].external_effects[x] # None
    BY <1>2, LedgerKeeps
  <2>1. ASSUME NEW h \in Holder, pc'[h] = "execute"
        PROVE  tasks'[job'[h]].external_effects[ClaimEffect(h)'] # None
    <3>1. Claiming(h) /\ job'[h] = job[h] /\ ClaimEffect(h)' = ClaimEffect(h)
      BY <1>2, <2>1, TicketsKept DEF Claiming, ClaimEffect
    <3>2. job[h] \in Tasks(tasks) /\ ClaimEffect(h) \in Effect
      BY <3>1 DEF ClaimTypes, Claiming
    <3>3. CASE pc[h] = "execute"
      BY <2>k, <3>1, <3>2, <3>3 DEF IntentInv
    <3>4. CASE pc[h] = "intent"
      <4>1. PICK digest \in Digest : PersistIntent(h, digest)
        <5>1. \/ UNCHANGED pc
              \/ \E g \in Holder, digest \in Digest : PersistIntent(g, digest)
              \/ \E g \in Holder, s \in {"idle", "claim", "intent"} : At(g, s)
          BY <1>2 DEF ClaimNext, Receive, Check, Claim, ClaimRefused, Execute, GiveUp, Observe,
                      ClaimTick, Die
        <5>2. \E g \in Holder, digest \in Digest : PersistIntent(g, digest)
          BY <2>t, <2>1, <3>4, <5>1 DEF At
        <5>3. ASSUME NEW g \in Holder, NEW digest \in Digest, PersistIntent(g, digest) PROVE g = h
          BY <2>t, <2>1, <3>4, <5>3 DEF PersistIntent, At
        <5> QED
          BY <5>2, <5>3
      <4>2. CASE RecordExternalEffect(job[h], ClaimEffect(h), digest)
        <5> DEFINE r == [intent |-> digest, status |-> "PENDING"]
        <5>1. tasks' = [tasks EXCEPT ![job[h]].external_effects[ClaimEffect(h)] = r]
          BY <4>2 DEF RecordExternalEffect, EffectRecorded
        <5>2. tasks[job[h]].external_effects \in [Effect -> EffectRecord \cup {None}]
              /\ tasks[job[h]] \in TaskRecord /\ job[h] \in Task
          BY <2>t, <3>2, StoredTask DEF TaskRecord
        <5>3. r # None
          BY NoneIsNoRecord DEF EffectRecord, EXTERNAL_EFFECT_STATES
        <5>4. tasks'[job[h]].external_effects[ClaimEffect(h)] = r
          <6> HIDE DEF r
          <6> QED BY <2>t, <3>2, <5>1, <5>2 DEF Ledger, TaskRecord
        <5> QED
          BY <3>1, <5>3, <5>4
      <4>3. CASE tasks[job[h]].external_effects[ClaimEffect(h)] # None
        BY <2>k, <3>1, <3>2, <4>3
      <4> QED
        BY <4>1, <4>2, <4>3 DEF PersistIntent
    <3> QED
      BY <3>1, <3>3, <3>4 DEF Claiming
  <2>2. ASSUME NEW t \in Task, NEW i \in DOMAIN runs'[t]
        PROVE  tasks'[t].external_effects[runs'[t][i].effect] # None
    <3>1. ASSUME i \in DOMAIN runs[t], runs'[t][i] = runs[t][i]
          PROVE  tasks'[t].external_effects[runs'[t][i].effect] # None
      <4>1. runs[t][i].effect \in Effect
        <5>1. runs[t] \in Seq(Run)
          BY <2>t
        <5>2. runs[t][i] \in Run
          BY <3>1, <5>1
        <5> QED
          BY <5>2 DEF Run
      <4>2. tasks[t].external_effects[runs[t][i].effect] # None
        BY <3>1 DEF IntentInv, IntentBeforeExecutor
      <4>3. t \in Tasks(tasks)
        BY <3>1 DEF ClaimTypes
      <4> QED
        BY <2>k, <3>1, <4>1, <4>2, <4>3
    <3>2. CASE UNCHANGED runs
      BY <2>2, <3>1, <3>2
    <3>3. ASSUME NEW h \in Holder, Execute(h),
                 runs' = [runs EXCEPT ![job[h]] = Append(runs[job[h]],
                            [holder |-> h, effect |-> ClaimEffect(h)])]
          PROVE  tasks'[t].external_effects[runs'[t][i].effect] # None
      <4>1. job[h] \in Tasks(tasks) /\ ClaimEffect(h) \in Effect /\ UNCHANGED tasks
            /\ tasks[job[h]].external_effects[ClaimEffect(h)] # None
        BY <3>3 DEF Execute, ClaimTypes, Claiming, IntentInv, vars
      <4>2. CASE t # job[h]
        BY <2>t, <2>2, <3>1, <3>3, <4>1, <4>2 DEF Tasks
      <4>3. CASE t = job[h]
        <5>1. runs[t] \in Seq(Run)
          BY <2>t
        <5>2. runs'[t] = Append(runs[t], [holder |-> h, effect |-> ClaimEffect(h)])
          BY <2>t, <3>3, <4>3
        <5>3. CASE i = Len(runs[t]) + 1
          BY <4>1, <4>3, <5>1, <5>2, <5>3
        <5>4. CASE i # Len(runs[t]) + 1
          <6>1. i \in DOMAIN runs[t] /\ runs'[t][i] = runs[t][i]
            BY <2>2, <5>1, <5>2, <5>4
          <6> QED
            BY <3>1, <6>1
        <5> QED
          BY <5>3, <5>4
      <4> QED
        BY <4>2, <4>3
    <3> QED
      BY <1>2, <3>2, <3>3, RunsGrow
  <2> QED
    BY <2>1, <2>2 DEF IntentInv, IntentBeforeExecutor
<1> QED
  BY <1>1, <1>2

-----------------------------------------------------------------------------
(* As long as a task's lease is not given up, only a claim changes it.     *)
LEMMA LeaseStays ==
    ASSUME ClaimTypes, ClaimNext, NEW t \in Tasks(tasks), t \notin released'
    PROVE  \/ tasks'[t].lease = tasks[t].lease
           \/ \E h \in Holder, ttl \in Ttl : Claim(h, t, ttl)
<1>t. tasks \in Ledger /\ clock \in Nat
  BY DEF ClaimTypes, TypeOK
<1>1. ASSUME NEW u \in Task, NEW key \in Key, NEW budget \in Budgets, Receive(u, key, budget)
      PROVE  tasks'[t].lease = tasks[t].lease
  BY <1>t, <1>1, CreateKeepsLeases DEF Receive, Create, LeasesKept
<1>2. ASSUME UNCHANGED vars PROVE tasks'[t].lease = tasks[t].lease
  BY <1>2 DEF vars
<1>3. ASSUME NEW u \in Task, NEW h \in Holder, NEW ttl \in Ttl, Claim(h, u, ttl), u # t
      PROVE  tasks'[t].lease = tasks[t].lease
  <2>1. u \in Tasks(tasks) /\ ttl \in Nat /\ tasks' = LeaseAcquired(tasks, u, h, ttl, clock)
    BY <1>3, TtlIsPositive DEF Claim, AcquireLease
  <2> DEFINE lease == [holder |-> h, fence |-> NextFence(tasks, u),
                       heartbeat_at |-> clock, expires_at |-> clock + ttl]
  <2>2. OneLease(tasks, tasks', u, lease)
    BY <1>t, <2>1, AcquireChangesLease
  <2> HIDE DEF lease
  <2> QED
    BY <1>3, <2>2 DEF OneLease
<1>4. ASSUME NEW u \in Task, NEW x \in Effect, NEW digest \in Digest, RecordExternalEffect(u, x, digest)
      PROVE  tasks'[t].lease = tasks[t].lease
  <2>1. u \in Tasks(tasks) /\ tasks' = EffectRecorded(tasks, u, x, digest)
    BY <1>4 DEF RecordExternalEffect, MayRecordEffect
  <2>2. LeasesKept(tasks, tasks')
    BY <1>t, <2>1, EffectsKeepLeases
  <2> QED
    BY <2>2 DEF LeasesKept
<1>5. ASSUME NEW h \in Holder, NEW digest \in Digest, PersistIntent(h, digest)
      PROVE  tasks'[t].lease = tasks[t].lease
  <2>1. job[h] \in Task /\ ClaimEffect(h) \in Effect
    BY <1>5 DEF PersistIntent, ClaimTypes, Claiming, Tasks
  <2>2. RecordExternalEffect(job[h], ClaimEffect(h), digest) \/ UNCHANGED vars
    BY <1>5 DEF PersistIntent
  <2> QED
    BY <1>2, <1>4, <2>1, <2>2
<1>6. ASSUME NEW u \in Task, NEW x \in Effect, NEW s \in ObservedState, Observe(u, x, s)
      PROVE  tasks'[t].lease = tasks[t].lease
  <2>1. u \in Tasks(tasks) /\ tasks[u].external_effects[x] # None
        /\ tasks' = EffectReconciled(tasks, u, x, s)
    BY <1>6 DEF Observe, ReconcileExternalEffect, MayReconcileEffect
  <2>2. LeasesKept(tasks, tasks')
    BY <1>t, <2>1, EffectsKeepLeases
  <2> QED
    BY <2>2 DEF LeasesKept
<1>7. ASSUME NEW h \in Holder, NEW u \in Task, GiveUp(h, u) PROVE tasks'[t].lease = tasks[t].lease
  <2>1. u # t /\ u \in Tasks(tasks) /\ tasks' = LeaseReleased(tasks, u)
    BY <1>7 DEF GiveUp, ReleaseLease, MayReleaseLease
  <2> QED
    BY <1>t, <2>1, ReleaseChangesLease DEF OneLease
<1>8. ClaimTick => UNCHANGED tasks
  BY DEF ClaimTick, Tick
<1>9. \A h \in Holder : Die(h) => UNCHANGED tasks
  BY DEF Die, Crash
<1>10. \A h \in Holder : ClaimRefused(h) \/ Execute(h) \/ (\E u \in Task : Check(h, u)) => UNCHANGED vars
  BY DEF ClaimRefused, Execute, Check
<1> QED
  BY <1>1, <1>2, <1>3, <1>5, <1>6, <1>7, <1>8, <1>9, <1>10 DEF ClaimNext

(* Claims of one task stay apart. *)
LEMMA ApartStep == ClaimTypes /\ ApartInv /\ [ClaimNext]_claim_vars => ApartInv'
<1> SUFFICES ASSUME ClaimTypes, ApartInv, [ClaimNext]_claim_vars PROVE ApartInv'
  OBVIOUS
<1>1. CASE UNCHANGED claim_vars
  BY <1>1 DEF claim_vars, ApartInv, Apart, Claiming, ClaimEffect
<1>2. ASSUME ClaimNext, NEW t \in Task, t \notin released' PROVE Apart(t)'
  <2>t. pc \in [Holder -> Steps] /\ job \in [Holder -> Task \cup {None}]
        /\ runs \in [Task -> Seq(Run)] /\ tasks \in Ledger
        /\ tickets \in [Holder -> [Task -> Ticket \cup {None}]]
    BY DEF ClaimTypes, TypeOK
  <2>n. /\ \A h \in Holder : Claiming(h) => ClaimEffect(h) \in Nat
        /\ \A i \in DOMAIN runs[t] : runs[t][i].effect \in Nat
    <3>1. \A h \in Holder : Claiming(h) => ClaimEffect(h) \in Nat
      BY EffectsAreFences DEF ClaimTypes
    <3>2. runs[t] \in Seq(Run)
      BY <2>t
    <3>3. \A i \in DOMAIN runs[t] : runs[t][i] \in Run
      BY <3>2
    <3> QED
      BY <3>1, <3>3, EffectsAreFences DEF Run
  <2>a. Apart(t)
    <3>1. released \subseteq released'
      BY <1>2 DEF ClaimNext, Receive, Check, Claim, ClaimRefused, PersistIntent, Execute, GiveUp,
                  Observe, ClaimTick, Die
    <3> QED
      BY <1>2, <3>1 DEF ApartInv
  <2>c. ASSUME NEW h \in Holder, Claiming(h)', job'[h] = t
        PROVE  \/ Claiming(h) /\ job[h] = t /\ ClaimEffect(h)' = ClaimEffect(h)
               \/ \E ttl \in Ttl : Claim(h, t, ttl)
    <3>1. CASE Claiming(h) /\ job'[h] = job[h] /\ tickets'[h][job[h]] = tickets[h][job[h]]
      BY <2>c, <3>1 DEF ClaimEffect
    <3>2. ASSUME NEW u \in Task, NEW ttl \in Ttl, Claim(h, u, ttl) PROVE u = t
      BY <2>t, <2>c, <3>2 DEF Claim
    <3> QED
      BY <1>2, <2>c, <3>1, <3>2, TicketsKept
  <2>1. ASSUME NEW h \in Holder, NEW ttl \in Ttl, Claim(h, t, ttl) PROVE Apart(t)'
    <3>1. t \in Tasks(tasks) /\ ttl \in Nat /\ UNCHANGED runs /\ NextFence(tasks, t) \in Nat
          /\ tasks' = LeaseAcquired(tasks, t, h, ttl, clock) /\ clock \in Nat
      BY <2>1, EffectsAreFences, TtlIsPositive DEF Claim, AcquireLease, ClaimTypes, TypeOK
    <3> DEFINE lease == [holder |-> h, fence |-> NextFence(tasks, t),
                         heartbeat_at |-> clock, expires_at |-> clock + ttl]
    <3>2. OneLease(tasks, tasks', t, lease)
      BY <2>t, <3>1, AcquireChangesLease
    <3>3. lease \in Lease
      BY <3>1 DEF Lease
    <3>4. tasks'[t] # None /\ tasks'[t].lease # None /\ tasks'[t].lease.fence = NextFence(tasks, t)
      BY <3>2, <3>3, NoneIsNoRecord DEF OneLease, Tasks
    <3>5. ClaimEffect(h)' = NextFence(tasks, t)
      BY <2>t, <2>1 DEF Claim, AcquireLease, ClaimEffect
    <3>6. \A g \in Holder : Claiming(g)' /\ job'[g] = t /\ g # h =>
             Claiming(g) /\ job[g] = t /\ ClaimEffect(g)' = ClaimEffect(g)
      <4>1. \A g \in Holder \ {h} : ~\E s \in Ttl : Claim(g, t, s)
        BY <2>t, <2>1 DEF Claim, At, Steps
      <4> QED
        BY <2>c, <4>1
    <3>7. tasks[t].lease # None => tasks[t].lease.fence \in Nat
                                   /\ NextFence(tasks, t) = tasks[t].lease.fence + 1
      BY <2>t, <3>1, StoredFields DEF NextFence, Lease
    <3>8. /\ \A g \in Holder : Claiming(g) /\ job[g] = t => ClaimEffect(g) < NextFence(tasks, t)
          /\ \A i \in DOMAIN runs[t] : runs[t][i].effect < NextFence(tasks, t)
      BY <2>a, <2>n, <3>7 DEF Apart
    <3>9. \A g \in Holder : Claiming(g)' /\ job'[g] = t => ClaimEffect(g)' <= NextFence(tasks, t)
      BY <2>n, <3>1, <3>5, <3>6, <3>8
    <3>10. \A f, g \in Holder : f # g /\ Claiming(f)' /\ Claiming(g)' /\ job'[f] = t /\ job'[g] = t =>
              ClaimEffect(f)' # ClaimEffect(g)'
      <4> SUFFICES ASSUME NEW f \in Holder, NEW g \in Holder, f # g, Claiming(f)', Claiming(g)',
                          job'[f] = t, job'[g] = t
                   PROVE  ClaimEffect(f)' # ClaimEffect(g)'
        OBVIOUS
      <4>1. CASE f = h
        BY <2>n, <3>1, <3>5, <3>6, <3>8, <4>1
      <4>2. CASE g = h
        BY <2>n, <3>1, <3>5, <3>6, <3>8, <4>2
      <4>3. CASE f # h /\ g # h
        BY <2>a, <3>6, <4>3 DEF Apart
      <4> QED
        BY <4>1, <4>2, <4>3
    <3>11. \A g \in Holder, i \in DOMAIN runs[t] : Claiming(g)' /\ job'[g] = t =>
              runs[t][i].effect # ClaimEffect(g)'
      <4> SUFFICES ASSUME NEW g \in Holder, NEW i \in DOMAIN runs[t], Claiming(g)', job'[g] = t
                   PROVE  runs[t][i].effect # ClaimEffect(g)'
        OBVIOUS
      <4>1. CASE g = h
        BY <2>n, <3>1, <3>5, <3>8, <4>1
      <4>2. CASE g # h
        BY <2>a, <3>6, <4>2 DEF Apart
      <4> QED
        BY <4>1, <4>2
    <3>12. \A i \in DOMAIN runs[t] : runs[t][i].effect <= NextFence(tasks, t)
      BY <2>n, <3>1, <3>8
    <3> QED
      BY <2>a, <3>1, <3>4, <3>9, <3>10, <3>11, <3>12 DEF Apart
  <2>2. ASSUME ~\E h \in Holder, ttl \in Ttl : Claim(h, t, ttl) PROVE Apart(t)'
    <3>1. \A h \in Holder : Claiming(h)' /\ job'[h] = t =>
             Claiming(h) /\ job[h] = t /\ ClaimEffect(h)' = ClaimEffect(h)
      BY <2>2, <2>c
    <3>2. t \in Tasks(tasks) => t \in Tasks(tasks') /\ tasks'[t].lease = tasks[t].lease
      BY <1>2, <2>2, LeaseStays, LedgerKeeps
    <3>3. CASE runs'[t] = runs[t]
      <4>1. \A i \in DOMAIN runs[t] : t \in Tasks(tasks)
        BY <2>a DEF Apart, Tasks
      <4>2. \A h \in Holder : Claiming(h) /\ job[h] = t => t \in Tasks(tasks)
        BY DEF ClaimTypes, Claiming
      <4> QED
        BY <2>a, <3>1, <3>2, <3>3, <4>1, <4>2 DEF Apart, Tasks
    <3>4. CASE runs'[t] # runs[t]
      <4>1. PICK h \in Holder : /\ Execute(h)
                                /\ runs' = [runs EXCEPT ![job[h]] = Append(runs[job[h]],
                                              [holder |-> h, effect |-> ClaimEffect(h)])]
        BY <1>2, <3>4, RunsGrow
      <4>2. t = job[h] /\ Claiming(h) /\ ~Claiming(h)' /\ UNCHANGED tasks
        BY <2>t, <3>4, <4>1 DEF Execute, Claiming, At, vars
      <4>3. runs[t] \in Seq(Run) /\ t \in Tasks(tasks)
            /\ runs'[t] = Append(runs[t], [holder |-> h, effect |-> ClaimEffect(h)])
        BY <2>t, <4>1, <4>2 DEF ClaimTypes, Claiming
      <4> DEFINE last == Len(runs[t]) + 1
      <4>4. /\ DOMAIN runs'[t] = DOMAIN runs[t] \cup {last} /\ last \notin DOMAIN runs[t]
            /\ runs'[t][last].effect = ClaimEffect(h)
            /\ \A i \in DOMAIN runs[t] : runs'[t][i] = runs[t][i]
        BY <4>3
      <4> HIDE DEF last
      <4>5. /\ tasks'[t] # None /\ tasks'[t].lease # None
            /\ \A i \in DOMAIN runs'[t] : runs'[t][i].effect <= tasks'[t].lease.fence
        BY <2>a, <4>2, <4>3, <4>4 DEF Apart, Tasks
      <4>6. \A g \in Holder, i \in DOMAIN runs'[t] : Claiming(g)' /\ job'[g] = t =>
               runs'[t][i].effect # ClaimEffect(g)'
        <5> SUFFICES ASSUME NEW g \in Holder, NEW i \in DOMAIN runs'[t], Claiming(g)', job'[g] = t
                     PROVE  runs'[t][i].effect # ClaimEffect(g)'
          OBVIOUS
        <5>1. g # h /\ Claiming(g) /\ job[g] = t /\ ClaimEffect(g)' = ClaimEffect(g)
          BY <3>1, <4>2
        <5> QED
          BY <2>a, <4>2, <4>4, <5>1 DEF Apart
      <4>7. \A i, j \in DOMAIN runs'[t] : i # j => runs'[t][i].effect # runs'[t][j].effect
        BY <2>a, <4>2, <4>4 DEF Apart
      <4>8. \A g \in Holder : Claiming(g)' /\ job'[g] = t =>
               tasks'[t].lease # None /\ ClaimEffect(g)' <= tasks'[t].lease.fence
        BY <2>a, <3>1, <4>2 DEF Apart
      <4>9. \A f, g \in Holder : f # g /\ Claiming(f)' /\ Claiming(g)' /\ job'[f] = t /\ job'[g] = t =>
               ClaimEffect(f)' # ClaimEffect(g)'
        BY <2>a, <3>1 DEF Apart
      <4> QED
        BY <4>5, <4>6, <4>7, <4>8, <4>9 DEF Apart
    <3> QED
      BY <3>3, <3>4
  <2> QED
    BY <2>1, <2>2
<1> QED
  BY <1>1, <1>2 DEF ApartInv

(* The types hold throughout. *)
LEMMA ClaimsWellTyped == ClaimSpec => []ClaimTypes
<1>1. ClaimInit => ClaimTypes
  BY DEF ClaimInit, Init, ClaimTypes, TypeOK, EmptyLedger, Ledger, Steps, Claiming
<1> QED
  BY <1>1, ClaimTypesStep, PTL DEF ClaimSpec

(* No executor ran without its claim intent on record.                     *)
THEOREM IntentComesFirst == ClaimSpec => []IntentBeforeExecutor
<1>1. ClaimInit => IntentInv
  BY DEF ClaimInit, IntentInv, IntentBeforeExecutor
<1>2. IntentInv => IntentBeforeExecutor
  BY DEF IntentInv
<1> QED
  BY <1>1, <1>2, ClaimsWellTyped, IntentStep, PTL DEF ClaimSpec

(* A worker that looks at the record is told to start only where no        *)
(* executor ever ran: the intent of a run is an effect on record.          *)
THEOREM ResumptionIsSafe == ClaimSpec => []ResumeIsSafe
<1>1. ClaimTypes /\ IntentBeforeExecutor => ResumeIsSafe
  <2> SUFFICES ASSUME ClaimTypes, IntentBeforeExecutor, NEW h \in Holder, NEW t \in Tasks(tasks),
                      MayStart(h, t), runs[t] # <<>>
               PROVE  FALSE
    BY DEF ResumeIsSafe
  <2>1. t \in Task /\ runs[t] \in Seq(Run)
    BY DEF ClaimTypes, Tasks
  <2>2. 1 \in DOMAIN runs[t] /\ runs[t][1] \in Run
    BY <2>1
  <2>3. runs[t][1].effect \in Effect
    BY <2>2 DEF Run
  <2> QED
    BY <2>1, <2>2, <2>3 DEF IntentBeforeExecutor, MayStart
<1> QED
  BY <1>1, ClaimsWellTyped, IntentComesFirst, PTL

(* No two runs under one claim effect while leases end by expiring.        *)
THEOREM EffectsTellRunsApart == ClaimSpec => []EffectPerRun
<1>1. ClaimInit => ApartInv
  BY DEF ClaimInit, ApartInv, Apart, Claiming
<1>2. ApartInv => EffectPerRun
  BY DEF ApartInv, Apart, EffectPerRun
<1> QED
  BY <1>1, <1>2, ClaimsWellTyped, ApartStep, PTL DEF ClaimSpec
=============================================================================
