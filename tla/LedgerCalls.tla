---------------------------- MODULE LedgerCalls -----------------------------
(***************************************************************************)
(* What one call of a TaskLedger method may do, as a set of outcomes: the  *)
(* ledger the method computes from the value it has read, with the tickets *)
(* the caller has afterwards.  A call that raises has no outcome.          *)
(***************************************************************************)
EXTENDS LedgerData

CONSTANTS
    Budgets,        \* budgets a creator may ask for
    Amounts,        \* usage a worker may report in one call
    Ttl,            \* lease durations
    Reported,       \* kinds of error a worker may report
    Moves,          \* the states transitions lead to
    MaxCursor,      \* bound on cursor_version
    MaxUsage        \* bound on each usage counter

ASSUME BudgetsAreBudgets == Budgets \subseteq [Meter -> Nat \cup {None}]
ASSUME AmountsAreAmounts == Amounts \subseteq [Meter -> Nat]
ASSUME ReportedAreErrors == Reported \subseteq ErrorKind
ASSUME TtlIsNatural == Ttl \subseteq Nat
ASSUME MovesAreStates == Moves \subseteq STATES

Ticket == [fence : Nat, expires_at : Nat]
NoTickets == [t \in Task |-> None]

(* What h presents on t: the fence of the last lease it was given. *)
Presented(h, mine, t) ==
    IF mine[t] = None THEN None ELSE [holder |-> h, fence |-> mine[t].fence]

Given(mine, t, fence, until) ==
    [mine EXCEPT ![t] = [fence |-> fence, expires_at |-> until]]

Ended(mine, t) == [mine EXCEPT ![t] = [@ EXCEPT !.expires_at = 0]]

StructureOutcomes(d, t) ==
    {Created(d, t, key, budget) : key \in Key,
                                  budget \in {b \in Budgets : MayCreate(d, t)}}
    \cup {DependenciesSet(d, t, deps) :
            deps \in {s \in SUBSET Task : MaySetDependencies(d, t, s)}}
    \cup {ChildAttached(d, t, child) : child \in {c \in Task : MayAttachChild(d, t, c)}}
    \cup (UNION {{EffectRecorded(d, t, x, intent) : intent \in Digest} :
                   x \in {y \in Effect : MayRecordEffect(d, t, y)}})
    \cup (UNION {{EffectReconciled(d, t, x, s) :
                    s \in {o \in ObservedState : MayReconcileEffect(d, t, x, o)}} : x \in Effect})

StatusOutcomes(d, t, cred, now) ==
    {Transitioned(d, t, s) : s \in {m \in Moves : MayTransition(d, t, m, cred, now)}}
    \cup {Checkpointed(d, u) :
            u \in {v \in {t} : MayCheckpoint(d, v, cred, now) /\ d[v].cursor_version < MaxCursor}}
    \cup {UsageRecorded(d, t, amount) :
            amount \in {a \in Amounts :
                          /\ MayRecordUsage(d, t, cred, now)
                          /\ \A m \in Meter : d[t].usage[m] + a[m] <= MaxUsage}}
    \cup {EvidenceRecorded(d, t, e) :
            e \in {v \in EvidenceState : MayRecordEvidence(d, t, cred, now)}}
    \cup {ErrorRecorded(d, t, kind) :
            kind \in {k \in Reported : MayRecordError(d, t, cred, now)}}

WaitpointOutcomes(d, t, cred) ==
    {WaitpointCleared(d, u) : u \in {v \in {t} : cred # None /\ MayClearWaitpoint(d, v, cred)}}

ResumeOutcomes(d, t, now) == {Transitioned(d, u, "RUNNING") : u \in {v \in {t} : MayResume(d, v, now)}}

Outcome(S, mine) == {[ledger |-> d, tickets |-> mine] : d \in S}

LeaseOutcomes(d, h, mine, t, now) ==
    LET cred == Presented(h, mine, t)
    IN  (UNION {Outcome({LeaseAcquired(d, t, h, ttl, now)},
                        Given(mine, t, NextFence(d, t), now + ttl)) :
                  ttl \in {x \in Ttl : MayAcquireLease(d, t, now)}})
        \cup (UNION {Outcome({LeaseRenewed(d, t, ttl, now)},
                             Given(mine, t, mine[t].fence, now + ttl)) :
                       ttl \in {x \in Ttl : OwnsLease(d, t, cred, now)}})
        \cup Outcome({LeaseHeartbeat(d, u, now) : u \in {v \in {t} : OwnsLease(d, v, cred, now)}}, mine)
        \cup (UNION {Outcome({LeaseReleased(d, u)}, Ended(mine, u)) :
                       u \in {v \in {t} : mine[v] # None /\ MayReleaseLease(d, v, cred, now)}})
        \cup (UNION {Outcome({WaitpointSet(d, u, cred)}, Ended(mine, u)) :
                       u \in {v \in {t} : /\ mine[v] # None
                                          /\ MaySetWaitpoint(d, v, cred, now)
                                          /\ d[v].cursor_version < MaxCursor}})

(* Everything a call by h can lead to when it reads d at time now. *)
Outcomes(d, h, mine, now) ==
    UNION {LeaseOutcomes(d, h, mine, t, now) \cup
           Outcome(StructureOutcomes(d, t)
                   \cup StatusOutcomes(d, t, None, now)
                   \cup StatusOutcomes(d, t, Presented(h, mine, t), now)
                   \cup WaitpointOutcomes(d, t, Presented(h, mine, t))
                   \cup ResumeOutcomes(d, t, now), mine) : t \in Task}
=============================================================================
