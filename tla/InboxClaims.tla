---------------------------- MODULE InboxClaims -----------------------------
(***************************************************************************)
(* How workers claim tasks through DurableInbox (durable_inbox.py): look   *)
(* at the record (reconcile_or_resume), take the lease, persist the claim  *)
(* intent as an external effect named after the lease's fence, call the    *)
(* executor.  Each ledger call is one step of TaskLedger; between two of   *)
(* them time passes, other workers run and the worker may die.             *)
(***************************************************************************)
EXTENDS TaskLedger, Sequences

CONSTANTS
    MaxRuns         \* bound on executor runs per task

ASSUME EffectsAreFences == Effect \subseteq Nat \ {0}

VARIABLES
    pc,             \* pc[h]: where h is in claim
    job,            \* job[h]: the task h is claiming
    runs,           \* runs[t]: the executor runs of t, in order
    released        \* history: the tasks whose lease was ever given up

claim_vars == <<tasks, clock, tickets, pc, job, runs, released>>

ClaimInit ==
    /\ Init
    /\ pc = [h \in Holder |-> "idle"]
    /\ job = [h \in Holder |-> None]
    /\ runs = [t \in Task |-> <<>>]
    /\ released = {}

At(h, step) == pc' = [pc EXCEPT ![h] = step]

Confirmed(t) == {x \in Effect : tasks[t].external_effects[x] # None
                                /\ tasks[t].external_effects[x].status = "CONFIRMED"}

-----------------------------------------------------------------------------
(* reconcile_or_resume *)

(* Variant: only a confirmed effect keeps a task from being started. *)
MayStart_PendingIgnored(h, t) ==
    /\ tasks[t].lease # None => tasks[t].lease.holder = h
    /\ Confirmed(t) = {}

(* The record says that it is safe to start: no other worker is named in   *)
(* the lease, and no claim intent or other effect is on record.            *)
MayStart(h, t) ==
    /\ tasks[t].lease # None => tasks[t].lease.holder = h
    /\ \A x \in Effect : tasks[t].external_effects[x] = None

Check(h, t) ==
    /\ pc[h] = "idle"
    /\ t \in Tasks(tasks)
    /\ MayStart(h, t)
    /\ At(h, "claim")
    /\ job' = [job EXCEPT ![h] = t]
    /\ UNCHANGED <<vars, runs, released>>

-----------------------------------------------------------------------------
(* claim *)

Claim(h, t, ttl) ==
    /\ pc[h] = "idle" \/ (pc[h] = "claim" /\ job[h] = t)
    /\ t \in Tasks(tasks)
    /\ NextFence(tasks, t) \in Effect
    /\ AcquireLease(h, t, ttl)
    /\ At(h, "intent")
    /\ job' = [job EXCEPT ![h] = t]
    /\ UNCHANGED <<runs, released>>

(* acquire_lease raised: somebody else holds the lease. *)
ClaimRefused(h) ==
    /\ pc[h] = "claim"
    /\ ~MayAcquireLease(tasks, job[h], clock)
    /\ At(h, "idle")
    /\ UNCHANGED <<vars, job, runs, released>>

ClaimEffect(h) == tickets[h][job[h]].fence

(* Variant: the executor is called although the intent was not written. *)
PersistIntent_Lost(h, digest) ==
    /\ pc[h] = "intent"
    /\ At(h, "execute")
    /\ UNCHANGED <<vars, job, runs, released>>

(* record_external_effect keeps a record with the same digest and raises   *)
(* for another digest; then the lease stays with h, and nothing is run.    *)
PersistIntent(h, digest) ==
    /\ pc[h] = "intent"
    /\ LET old == tasks[job[h]].external_effects[ClaimEffect(h)]
       IN  \/ /\ RecordExternalEffect(job[h], ClaimEffect(h), digest)
              /\ At(h, "execute")
           \/ /\ old # None
              /\ At(h, IF old.intent = digest THEN "execute" ELSE "idle")
              /\ UNCHANGED vars
    /\ UNCHANGED <<job, runs, released>>

Execute(h) ==
    /\ pc[h] = "execute"
    /\ Len(runs[job[h]]) < MaxRuns
    /\ runs' = [runs EXCEPT ![job[h]] = Append(@, [holder |-> h, effect |-> ClaimEffect(h)])]
    /\ At(h, "idle")
    /\ UNCHANGED <<vars, job, released>>

-----------------------------------------------------------------------------
(* Around the claim: ingestion creates tasks, workers give leases up, the  *)
(* effects of an executor run are observed, time passes, workers die.      *)

Receive(t, key, budget) == Create(t, key, budget) /\ UNCHANGED <<pc, job, runs, released>>

GiveUp(h, t) ==
    /\ pc[h] = "idle"
    /\ ReleaseLease(h, t)
    /\ released' = released \cup {t}
    /\ UNCHANGED <<pc, job, runs>>

Observe(t, x, observed) ==
    /\ ReconcileExternalEffect(t, x, observed)
    /\ UNCHANGED <<pc, job, runs, released>>

ClaimTick == Tick /\ UNCHANGED <<pc, job, runs, released>>

Die(h) ==
    /\ Crash(h)
    /\ At(h, "idle")
    /\ UNCHANGED <<job, runs, released>>

ClaimNext ==
    \/ \E t \in Task, key \in Key, budget \in Budgets : Receive(t, key, budget)
    \/ \E h \in Holder, t \in Task : Check(h, t)
    \/ \E h \in Holder, t \in Task, ttl \in Ttl : Claim(h, t, ttl)
    \/ \E h \in Holder : ClaimRefused(h)
    \/ \E h \in Holder, digest \in Digest : PersistIntent(h, digest)
    \/ \E h \in Holder : Execute(h)
    \/ \E h \in Holder, t \in Task : GiveUp(h, t)
    \/ \E t \in Task, x \in Effect, s \in ObservedState : Observe(t, x, s)
    \/ ClaimTick
    \/ \E h \in Holder : Die(h)

ClaimSpec == ClaimInit /\ [][ClaimNext]_claim_vars

-----------------------------------------------------------------------------
(* Properties *)

(* Whatever dies and whenever, no executor ran without a claim intent on   *)
(* record under the effect it was started for (claim).                     *)
IntentBeforeExecutor ==
    \A t \in Task : \A i \in DOMAIN runs[t] :
        tasks[t].external_effects[runs[t][i].effect] # None

(* A worker that comes back to a task is told to start it only when no     *)
(* executor ever ran on it, whoever started that one and however it ended  *)
(* (reconcile_or_resume against claim).                                    *)
ResumeIsSafe == \A h \in Holder, t \in Tasks(tasks) : MayStart(h, t) => runs[t] = <<>>

(* "The effect id is scoped to the lease fence generation": as long as     *)
(* leases end by expiring, no two executor runs of a task share a claim    *)
(* effect.  (release_lease forgets the fence, so the next lease has fence  *)
(* 1 again and finds the first one's effect: hence the exception.)         *)
EffectPerRun ==
    \A t \in Task \ released : \A i, j \in DOMAIN runs[t] :
        i # j => runs[t][i].effect # runs[t][j].effect

=============================================================================
