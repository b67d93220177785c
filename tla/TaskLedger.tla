----------------------------- MODULE TaskLedger -----------------------------
(***************************************************************************)
(* The Task Ledger as its callers are meant to see it: every method of     *)
(* TaskLedger is one step on the stored value.  Workers hold leases and    *)
(* remember them as tickets; they present a ticket, possibly a stale one,  *)
(* or no credential at all (the command line and resume present none).     *)
(* Time is the shared wall clock in whole seconds; it is advanced by Tick. *)
(***************************************************************************)
EXTENDS LedgerData

CONSTANTS
    Budgets,        \* budgets a creator may ask for
    Amounts,        \* usage a worker may report in one call
    Ttl,            \* lease durations
    Reported,       \* kinds of error a worker may report
    MaxClock,       \* bound on the clock
    MaxCursor,      \* bound on cursor_version
    MaxUsage        \* bound on each usage counter

ASSUME BudgetsAreBudgets == Budgets \subseteq [Meter -> Nat \cup {None}]
ASSUME AmountsAreAmounts == Amounts \subseteq [Meter -> Nat]
ASSUME ReportedAreErrors == Reported \subseteq ErrorKind \ {"BUDGET_EXCEEDED"}
ASSUME TtlIsPositive == Ttl \subseteq Nat \ {0}

VARIABLES
    tasks,          \* the ledger's tasks
    clock,          \* seconds
    tickets         \* tickets[h][t]: the last lease h was given on t

vars == <<tasks, clock, tickets>>

Ticket == [fence : Nat, expires_at : Nat]

TypeOK ==
    /\ tasks \in Ledger
    /\ clock \in Nat
    /\ tickets \in [Holder -> [Task -> Ticket \cup {None}]]

Init ==
    /\ tasks = EmptyLedger
    /\ clock = 0
    /\ tickets = [h \in Holder |-> [t \in Task |-> None]]

(* None is a caller that is not a worker. *)
Caller == Holder \cup {None}

(* What a call on t carries: nothing, or the ticket the worker keeps. *)
Presented(c, t) ==
    IF c = None THEN None ELSE IF tickets[c][t] = None THEN None
    ELSE [holder |-> c, fence |-> tickets[c][t].fence]

-----------------------------------------------------------------------------
(* Structure: tasks, dependencies, children, external effects *)

Create(t, key, budget) ==
    /\ MayCreate(tasks, t)
    /\ tasks' = Created(tasks, t, key, budget)
    /\ UNCHANGED <<clock, tickets>>

SetDependencies(t, deps) ==
    /\ MaySetDependencies(tasks, t, deps)
    /\ tasks' = DependenciesSet(tasks, t, deps)
    /\ UNCHANGED <<clock, tickets>>

AttachChild(parent, child) ==
    /\ MayAttachChild(tasks, parent, child)
    /\ tasks' = ChildAttached(tasks, parent, child)
    /\ UNCHANGED <<clock, tickets>>

RecordExternalEffect(t, x, intent) ==
    /\ MayRecordEffect(tasks, t, x)
    /\ tasks' = EffectRecorded(tasks, t, x, intent)
    /\ UNCHANGED <<clock, tickets>>

ReconcileExternalEffect(t, x, observed) ==
    /\ MayReconcileEffect(tasks, t, x, observed)
    /\ tasks' = EffectReconciled(tasks, t, x, observed)
    /\ UNCHANGED <<clock, tickets>>

-----------------------------------------------------------------------------
(* Leases *)

AcquireLease(h, t, ttl) ==
    /\ MayAcquireLease(tasks, t, clock)
    /\ tasks' = LeaseAcquired(tasks, t, h, ttl, clock)
    /\ tickets' = [tickets EXCEPT ![h][t] =
                     [fence |-> NextFence(tasks, t), expires_at |-> clock + ttl]]
    /\ UNCHANGED clock

RenewLease(h, t, ttl) ==
    /\ OwnsLease(tasks, t, Presented(h, t), clock)
    /\ tasks' = LeaseRenewed(tasks, t, ttl, clock)
    /\ tickets' = [tickets EXCEPT ![h][t].expires_at = clock + ttl]
    /\ UNCHANGED clock

Heartbeat(h, t) ==
    /\ OwnsLease(tasks, t, Presented(h, t), clock)
    /\ tasks' = LeaseHeartbeat(tasks, t, clock)
    /\ UNCHANGED <<clock, tickets>>

(* A worker that has given its lease up keeps the fence but knows that the *)
(* lease has ended.                                                        *)
TicketEnded(h, t) == [tickets EXCEPT ![h][t].expires_at = 0]

ReleaseLease(h, t) ==
    /\ tickets[h][t] # None
    /\ MayReleaseLease(tasks, t, Presented(h, t), clock)
    /\ tasks' = LeaseReleased(tasks, t)
    /\ tickets' = TicketEnded(h, t)
    /\ UNCHANGED clock

-----------------------------------------------------------------------------
(* Status, cursor, waitpoint *)

Transition(t, status, cred) ==
    /\ MayTransition(tasks, t, status, cred, clock)
    /\ tasks' = Transitioned(tasks, t, status)
    /\ UNCHANGED <<clock, tickets>>

Checkpoint(t, cred) ==
    /\ MayCheckpoint(tasks, t, cred, clock)
    /\ tasks[t].cursor_version < MaxCursor
    /\ tasks' = Checkpointed(tasks, t)
    /\ UNCHANGED <<clock, tickets>>

SetWaitpoint(h, t) ==
    /\ tickets[h][t] # None
    /\ MaySetWaitpoint(tasks, t, Presented(h, t), clock)
    /\ tasks[t].cursor_version < MaxCursor
    /\ tasks' = WaitpointSet(tasks, t, Presented(h, t))
    /\ tickets' = TicketEnded(h, t)
    /\ UNCHANGED clock

ClearWaitpoint(h, t) ==
    /\ tickets[h][t] # None
    /\ MayClearWaitpoint(tasks, t, Presented(h, t))
    /\ tasks' = WaitpointCleared(tasks, t)
    /\ UNCHANGED <<clock, tickets>>

Resume(t) ==
    /\ MayResume(tasks, t, clock)
    /\ tasks' = Transitioned(tasks, t, "RUNNING")
    /\ UNCHANGED <<clock, tickets>>

-----------------------------------------------------------------------------
(* Usage, evidence, errors *)

RecordUsage(t, amount, cred) ==
    /\ MayRecordUsage(tasks, t, cred, clock)
    /\ \A m \in Meter : tasks[t].usage[m] + amount[m] <= MaxUsage
    /\ tasks' = UsageRecorded(tasks, t, amount)
    /\ UNCHANGED <<clock, tickets>>

RecordEvidence(t, verdict, cred) ==
    /\ MayRecordEvidence(tasks, t, cred, clock)
    /\ tasks' = EvidenceRecorded(tasks, t, verdict)
    /\ UNCHANGED <<clock, tickets>>

RecordError(t, kind, cred) ==
    /\ MayRecordError(tasks, t, cred, clock)
    /\ tasks' = ErrorRecorded(tasks, t, kind)
    /\ UNCHANGED <<clock, tickets>>

-----------------------------------------------------------------------------
(* The environment: time passes, a worker dies with its tickets *)

Tick ==
    /\ clock < MaxClock
    /\ clock' = clock + 1
    /\ UNCHANGED <<tasks, tickets>>

Crash(h) ==
    /\ tickets' = [tickets EXCEPT ![h] = [t \in Task |-> None]]
    /\ UNCHANGED <<tasks, clock>>

-----------------------------------------------------------------------------
Structure(t) ==
    \/ \E key \in Key, budget \in Budgets : Create(t, key, budget)
    \/ \E deps \in SUBSET Task : SetDependencies(t, deps)
    \/ \E child \in Task : AttachChild(t, child)
    \/ \E x \in Effect, intent \in Digest : RecordExternalEffect(t, x, intent)
    \/ \E x \in Effect, s \in ObservedState : ReconcileExternalEffect(t, x, s)

LeaseWork(h, t) ==
    \/ \E ttl \in Ttl : AcquireLease(h, t, ttl)
    \/ \E ttl \in Ttl : RenewLease(h, t, ttl)
    \/ Heartbeat(h, t)
    \/ ReleaseLease(h, t)
    \/ SetWaitpoint(h, t)
    \/ ClearWaitpoint(h, t)

StatusWork(t, cred) ==
    \/ \E s \in STATES : Transition(t, s, cred)
    \/ Checkpoint(t, cred)
    \/ \E amount \in Amounts : RecordUsage(t, amount, cred)
    \/ \E e \in EvidenceState : RecordEvidence(t, e, cred)
    \/ \E kind \in Reported : RecordError(t, kind, cred)

Next ==
    \/ \E t \in Task : Structure(t)
    \/ \E h \in Holder, t \in Task : LeaseWork(h, t)
    \/ \E c \in Caller, t \in Task : StatusWork(t, Presented(c, t))
    \/ \E t \in Task : Resume(t)
    \/ Tick
    \/ \E h \in Holder : Crash(h)

Spec == Init /\ [][Next]_vars

-----------------------------------------------------------------------------
(* Properties *)

(* h may go on believing that it holds t: its last lease has not run out.  *)
Believes(h, t) == tickets[h][t] # None /\ clock < tickets[h][t].expires_at

(* The ledger's lease on t is the one h remembers, and it is unexpired.    *)
HoldsLease(h, t) ==
    /\ tickets[h][t] # None
    /\ tasks[t].lease.holder = h
    /\ tasks[t].lease.fence = tickets[h][t].fence
    /\ clock < tasks[t].lease.expires_at

(* At most one worker believes it holds a task.  A worker cannot see that  *)
(* its lease was given to another, only that its own time ran out, so the  *)
(* ledger must never grant a lease while an earlier holder's time runs     *)
(* (acquire_lease, renew_lease, release_lease, set_waitpoint).             *)
LeaseMutualExclusion ==
    \A t \in Task : \A g, h \in Holder : Believes(g, t) /\ Believes(h, t) => g = h

(* What a worker believes is what the ledger says.                         *)
BeliefIsTrue ==
    \A h \in Holder, t \in Task :
        Believes(h, t) =>
            /\ tasks[t] # None
            /\ tasks[t].lease # None
            /\ tasks[t].lease.holder = h
            /\ tasks[t].lease.fence = tickets[h][t].fence
            /\ tasks[t].lease.expires_at = tickets[h][t].expires_at

(* A lease is never kept alive from outside its own period: its heartbeat  *)
(* is not in the future and comes before its expiry (acquire_lease,        *)
(* renew_lease, heartbeat).                                                *)
HeartbeatWithinLease ==
    \A t \in Tasks(tasks) :
        tasks[t].lease # None =>
            /\ tasks[t].lease.heartbeat_at <= clock
            /\ tasks[t].lease.heartbeat_at < tasks[t].lease.expires_at

(* Whatever the dependency edges, the ledger cannot wedge itself: when all *)
(* tasks that are not queued are completed, some queued task is ready      *)
(* (set_dependencies, ready_tasks).                                        *)
ReadyProgress ==
    LET queued == {t \in Tasks(tasks) : tasks[t].status = "QUEUED"}
    IN  queued # {} /\ Tasks(tasks) \ queued = Completed(tasks) => ReadyTasks(tasks) # {}

(* Overspending leaves a trace that no later call removes: a task whose    *)
(* usage exceeds its budget has a BUDGET_EXCEEDED error (record_usage).    *)
OverspendRecorded ==
    \A t \in Tasks(tasks) : Exceeded(tasks[t]) => "BUDGET_EXCEEDED" \in tasks[t].errors

(* The work a lease protects. *)
Work(t) == <<tasks[t].status, tasks[t].cursor_version, tasks[t].retry_count,
             tasks[t].usage, tasks[t].evidence, tasks[t].errors, tasks[t].waitpoint>>

(* While a task carries a lease that no living worker holds (its holder    *)
(* crashed, was replaced, or let it expire) nobody moves the task, except  *)
(* that a waitpoint may still be cleared: first somebody has to take the   *)
(* lease over (_assert_lease in every writing method).                     *)
OrphanedTaskIsFrozen ==
    [][\A t \in Task :
          /\ tasks[t] # None
          /\ tasks[t].lease # None
          /\ ~\E h \in Holder : HoldsLease(h, t)
          /\ tasks[t].waitpoint = None
          => Work(t)' = Work(t)]_vars

(* A recorded effect keeps its intent for ever, and a confirmed one stays  *)
(* confirmed (record_external_effect, reconcile_external_effect).          *)
EffectsNeverRegress ==
    [][\A t \in Tasks(tasks), x \in Effect :
          LET old == tasks[t].external_effects[x]
              new == tasks'[t].external_effects[x]
          IN  old # None => /\ new # None
                            /\ new.intent = old.intent
                            /\ old.status = "CONFIRMED" => new.status = "CONFIRMED"]_vars

(* Fences only grow from one lease to the next, and a lease passes to      *)
(* another worker only when it has expired (acquire_lease).                *)
TakeoverRaisesFence ==
    [][\A t \in Tasks(tasks) :
          LET old == tasks[t].lease
              new == tasks'[t].lease
          IN  old # None /\ new # None /\ old.holder # new.holder
                => new.fence > old.fence /\ ~Unexpired(old, clock)]_vars
=============================================================================
