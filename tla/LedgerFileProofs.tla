-------------------------- MODULE LedgerFileProofs ---------------------------
(* The ledger file, for any tasks, workers, methods and crashes.  Under    *)
(* the lock of a session nobody's clean-up takes a file that is about to   *)
(* be renamed, and the file implements the atomic store.  With or without  *)
(* a lock, whoever reads the ledger finds a whole one.                     *)
EXTENDS LedgerFile, LedgerDataProofs

TicketMap == [Task -> Ticket \cup {None}]

-----------------------------------------------------------------------------
(* What calls lead to *)

(* The ledgers with the leases of d.                                       *)
SameLeases(d) == {e \in Ledger : LeasesKept(d, e)}

(* create, set_dependencies, attach_child, record_external_effect and      *)
(* reconcile_external_effect write ledgers and touch no lease.             *)
LEMMA StructureLedgers ==
    ASSUME NEW d \in Ledger, NEW t \in Task
    PROVE  StructureOutcomes(d, t) \subseteq SameLeases(d)
<1> DEFINE A == {Created(d, t, key, budget) : key \in Key, budget \in {b \in Budgets : MayCreate(d, t)}}
           B == {DependenciesSet(d, t, deps) :
                   deps \in {s \in SUBSET Task : MaySetDependencies(d, t, s)}}
           C == {ChildAttached(d, t, child) : child \in {c \in Task : MayAttachChild(d, t, c)}}
           D == UNION {{EffectRecorded(d, t, x, intent) : intent \in Digest} :
                         x \in {y \in Effect : MayRecordEffect(d, t, y)}}
           E == UNION {{EffectReconciled(d, t, x, s) :
                          s \in {o \in ObservedState : MayReconcileEffect(d, t, x, o)}} : x \in Effect}
<1> USE DEF SameLeases
<1>1. A \subseteq SameLeases(d)
  BY CreatedType, CreateKeepsLeases, BudgetsAreBudgets
<1>2. B \subseteq SameLeases(d)
  BY DependenciesSetType, DependenciesKeepLeases DEF MaySetDependencies
<1>3. C \subseteq SameLeases(d)
  BY ChildAttachedType, ChildrenKeepLeases DEF MayAttachChild
<1>4. D \subseteq SameLeases(d)
  <2>1. ASSUME NEW x \in Effect, MayRecordEffect(d, t, x), NEW intent \in Digest
        PROVE  EffectRecorded(d, t, x, intent) \in SameLeases(d)
    BY <2>1, EffectRecordedType, EffectsKeepLeases DEF MayRecordEffect
  <2> QED
    BY <2>1
<1>5. E \subseteq SameLeases(d)
  <2>1. ASSUME NEW x \in Effect, NEW s \in ObservedState, MayReconcileEffect(d, t, x, s)
        PROVE  EffectReconciled(d, t, x, s) \in SameLeases(d)
    BY <2>1, EffectReconciledType, EffectsKeepLeases DEF MayReconcileEffect
  <2> QED
    BY <2>1
<1>6. StructureOutcomes(d, t) = A \cup B \cup C \cup D \cup E
  BY DEF StructureOutcomes
<1> HIDE DEF A, B, C, D, E
<1> QED
  BY <1>1, <1>2, <1>3, <1>4, <1>5, <1>6

(* transition, checkpoint, record_usage, record_evidence and record_error  *)
(* write ledgers and touch no lease, whatever credential they are given.   *)
LEMMA StatusLedgers ==
    ASSUME NEW d \in Ledger, NEW t \in Task, NEW cred, NEW now
    PROVE  StatusOutcomes(d, t, cred, now) \subseteq SameLeases(d)
<1> USE DEF SameLeases
<1>0. "RUNNING" \in STATES
  BY DEF STATES
<1>1. {Transitioned(d, t, s) : s \in {m \in Moves : MayTransition(d, t, m, cred, now)}}
        \subseteq SameLeases(d)
  BY TransitionedType, StatusKeepsLeases, MovesAreStates DEF MayTransition
<1>2. {Checkpointed(d, u) :
         u \in {v \in {t} : MayCheckpoint(d, v, cred, now) /\ d[v].cursor_version < MaxCursor}}
        \subseteq SameLeases(d)
  BY <1>0, CheckpointedType, StatusKeepsLeases DEF MayCheckpoint
<1>3. {UsageRecorded(d, t, amount) :
         amount \in {a \in Amounts : /\ MayRecordUsage(d, t, cred, now)
                                     /\ \A m \in Meter : d[t].usage[m] + a[m] <= MaxUsage}}
        \subseteq SameLeases(d)
  <2>1. ASSUME NEW amount \in Amounts, MayRecordUsage(d, t, cred, now)
        PROVE  UsageRecorded(d, t, amount) \in SameLeases(d)
    BY <2>1, UsageRecordedType, ReportsKeepLeases, AmountsAreAmounts DEF MayRecordUsage
  <2> QED
    BY <2>1
<1>4. {EvidenceRecorded(d, t, e) : e \in {v \in EvidenceState : MayRecordEvidence(d, t, cred, now)}}
        \subseteq SameLeases(d)
  BY EvidenceRecordedType, ReportsKeepLeases DEF MayRecordEvidence
<1>5. {ErrorRecorded(d, t, kind) : kind \in {k \in Reported : MayRecordError(d, t, cred, now)}}
        \subseteq SameLeases(d)
  BY ErrorRecordedType, ReportsKeepLeases, ReportedAreErrors DEF MayRecordError
<1> QED
  BY <1>1, <1>2, <1>3, <1>4, <1>5 DEF StatusOutcomes

(* clear_waitpoint and resume write ledgers and touch no lease.            *)
LEMMA WaitingLedgers ==
    ASSUME NEW d \in Ledger, NEW t \in Task, NEW cred, NEW now
    PROVE  WaitpointOutcomes(d, t, cred) \cup ResumeOutcomes(d, t, now) \subseteq SameLeases(d)
<1> USE DEF SameLeases
<1>1. "RUNNING" \in STATES
  BY DEF STATES
<1>2. WaitpointOutcomes(d, t, cred) \subseteq SameLeases(d)
  BY <1>1, WaitpointClearedType, StatusKeepsLeases DEF WaitpointOutcomes, MayClearWaitpoint
<1>3. ResumeOutcomes(d, t, now) \subseteq SameLeases(d)
  BY <1>1, TransitionedType, StatusKeepsLeases DEF ResumeOutcomes, MayResume
<1> QED
  BY <1>2, <1>3

(* The tickets a worker keeps stay tickets.                                *)
LEMMA TicketsKept ==
    ASSUME NEW mine \in TicketMap, NEW t \in Task
    PROVE  /\ \A fence \in Nat, until \in Nat : Given(mine, t, fence, until) \in TicketMap
           /\ mine[t] # None => mine[t].fence \in Nat /\ Ended(mine, t) \in TicketMap
<1>1. ASSUME NEW fence \in Nat, NEW until \in Nat
      PROVE  Given(mine, t, fence, until) \in TicketMap
  BY DEF Given, TicketMap, Ticket
<1>2. ASSUME mine[t] # None
      PROVE  mine[t].fence \in Nat /\ Ended(mine, t) \in TicketMap
  <2>1. mine[t] \in Ticket
    BY <1>2 DEF TicketMap
  <2>2. [mine[t] EXCEPT !.expires_at = 0] \in Ticket /\ mine[t].fence \in Nat
    BY <2>1 DEF Ticket
  <2> QED
    BY <2>2 DEF Ended, TicketMap
<1> QED
  BY <1>1, <1>2

Good(o) == o.ledger \in Ledger /\ o.tickets \in TicketMap

(* Ledgers with tickets. *)
LEMMA GoodOutcomes ==
    ASSUME NEW S \in SUBSET Ledger, NEW mine \in TicketMap, NEW o \in Outcome(S, mine)
    PROVE  Good(o)
BY DEF Outcome, Good

(* acquire_lease, renew_lease, heartbeat, release_lease and set_waitpoint: *)
(* what is asked of the ledger, and what comes of it.                      *)
LEMMA LeaseCases ==
    ASSUME NEW d \in Ledger, NEW h \in Holder, NEW mine \in TicketMap, NEW t \in Task,
           NEW now \in Nat, NEW o \in LeaseOutcomes(d, h, mine, t, now)
    PROVE  LET cred == Presented(h, mine, t)
           IN  \/ /\ MayAcquireLease(d, t, now)
                  /\ \E ttl \in Ttl :
                        o = [ledger |-> LeaseAcquired(d, t, h, ttl, now),
                             tickets |-> Given(mine, t, NextFence(d, t), now + ttl)]
               \/ /\ OwnsLease(d, t, cred, now)
                  /\ \E ttl \in Ttl :
                        o = [ledger |-> LeaseRenewed(d, t, ttl, now),
                             tickets |-> Given(mine, t, mine[t].fence, now + ttl)]
               \/ /\ OwnsLease(d, t, cred, now)
                  /\ o = [ledger |-> LeaseHeartbeat(d, t, now), tickets |-> mine]
               \/ /\ mine[t] # None /\ MayReleaseLease(d, t, cred, now)
                  /\ o = [ledger |-> LeaseReleased(d, t), tickets |-> Ended(mine, t)]
               \/ /\ mine[t] # None /\ MaySetWaitpoint(d, t, cred, now)
                  /\ o = [ledger |-> WaitpointSet(d, t, cred), tickets |-> Ended(mine, t)]
<1> DEFINE cred == Presented(h, mine, t)
           A == UNION {Outcome({LeaseAcquired(d, t, h, ttl, now)},
                                Given(mine, t, NextFence(d, t), now + ttl)) :
                         ttl \in {x \in Ttl : MayAcquireLease(d, t, now)}}
           B == UNION {Outcome({LeaseRenewed(d, t, ttl, now)},
                               Given(mine, t, mine[t].fence, now + ttl)) :
                         ttl \in {x \in Ttl : OwnsLease(d, t, cred, now)}}
           C == Outcome({LeaseHeartbeat(d, u, now) : u \in {v \in {t} : OwnsLease(d, v, cred, now)}}, mine)
           D == UNION {Outcome({LeaseReleased(d, u)}, Ended(mine, u)) :
                         u \in {v \in {t} : mine[v] # None /\ MayReleaseLease(d, v, cred, now)}}
           E == UNION {Outcome({WaitpointSet(d, u, cred)}, Ended(mine, u)) :
                         u \in {v \in {t} : /\ mine[v] # None
                                            /\ MaySetWaitpoint(d, v, cred, now)
                                            /\ d[v].cursor_version < MaxCursor}}
<1>1. LeaseOutcomes(d, h, mine, t, now) = A \cup B \cup C \cup D \cup E
  BY DEF LeaseOutcomes
<1>2. o \in A => /\ MayAcquireLease(d, t, now)
                 /\ \E ttl \in Ttl :
                       o = [ledger |-> LeaseAcquired(d, t, h, ttl, now),
                            tickets |-> Given(mine, t, NextFence(d, t), now + ttl)]
  BY DEF Outcome
<1>3. o \in B => /\ OwnsLease(d, t, cred, now)
                 /\ \E ttl \in Ttl :
                       o = [ledger |-> LeaseRenewed(d, t, ttl, now),
                            tickets |-> Given(mine, t, mine[t].fence, now + ttl)]
  BY DEF Outcome
<1>4. o \in C => /\ OwnsLease(d, t, cred, now)
                 /\ o = [ledger |-> LeaseHeartbeat(d, t, now), tickets |-> mine]
  BY DEF Outcome
<1>5. o \in D => /\ mine[t] # None /\ MayReleaseLease(d, t, cred, now)
                 /\ o = [ledger |-> LeaseReleased(d, t), tickets |-> Ended(mine, t)]
  BY DEF Outcome
<1>6. o \in E => /\ mine[t] # None /\ MaySetWaitpoint(d, t, cred, now)
                 /\ o = [ledger |-> WaitpointSet(d, t, cred), tickets |-> Ended(mine, t)]
  BY DEF Outcome
<1> HIDE DEF A, B, C, D, E
<1> QED
  BY <1>1, <1>2, <1>3, <1>4, <1>5, <1>6

(* What h presents on a task is a credential, if it is anything, and it is *)
(* accepted on a leased task only if h holds the lease.                    *)
LEMMA PresentedOwns ==
    ASSUME NEW d \in Ledger, NEW h \in Holder, NEW mine \in TicketMap, NEW t \in Task, NEW now
    PROVE  /\ mine[t] # None => Presented(h, mine, t) \in Credential
           /\ d[t].lease # None /\ LeaseAccepts(d, t, Presented(h, mine, t), now) =>
                 /\ mine[t] # None
                 /\ d[t].lease.holder = h
                 /\ d[t].lease.fence = mine[t].fence
BY TicketsKept DEF Presented, Credential, LeaseAccepts

(* The methods that change a lease write ledgers, and the worker keeps     *)
(* tickets.                                                                *)
LEMMA LeaseLedgers ==
    ASSUME NEW d \in Ledger, NEW h \in Holder, NEW mine \in TicketMap, NEW t \in Task,
           NEW now \in Nat, NEW o \in LeaseOutcomes(d, h, mine, t, now)
    PROVE  Good(o)
<1> DEFINE cred == Presented(h, mine, t)
<1>1. ASSUME MayAcquireLease(d, t, now), NEW ttl \in Ttl,
             o = [ledger |-> LeaseAcquired(d, t, h, ttl, now),
                  tickets |-> Given(mine, t, NextFence(d, t), now + ttl)]
      PROVE  Good(o)
  <2>1. ttl \in Nat /\ now + ttl \in Nat /\ t \in Tasks(d)
    BY <1>1, TtlIsNatural DEF MayAcquireLease
  <2> QED
    BY <1>1, <2>1, LeaseAcquiredType, TicketsKept DEF Good
<1>2. ASSUME OwnsLease(d, t, cred, now), NEW ttl \in Ttl,
             o = [ledger |-> LeaseRenewed(d, t, ttl, now),
                  tickets |-> Given(mine, t, mine[t].fence, now + ttl)]
      PROVE  Good(o)
  <2>1. ttl \in Nat /\ now + ttl \in Nat /\ t \in Tasks(d) /\ d[t].lease # None
    BY <1>2, TtlIsNatural DEF OwnsLease
  <2>2. mine[t] # None
    BY <1>2, <2>1, PresentedOwns DEF OwnsLease
  <2> QED
    BY <1>2, <2>1, <2>2, LeaseRenewedType, TicketsKept DEF Good
<1>3. ASSUME OwnsLease(d, t, cred, now), o = [ledger |-> LeaseHeartbeat(d, t, now), tickets |-> mine]
      PROVE  Good(o)
  BY <1>3, LeaseHeartbeatType DEF OwnsLease, Good
<1>4. ASSUME mine[t] # None, MayReleaseLease(d, t, cred, now),
             o = [ledger |-> LeaseReleased(d, t), tickets |-> Ended(mine, t)]
      PROVE  Good(o)
  BY <1>4, LeaseReleasedType, TicketsKept DEF MayReleaseLease, Good
<1>5. ASSUME mine[t] # None, MaySetWaitpoint(d, t, cred, now),
             o = [ledger |-> WaitpointSet(d, t, cred), tickets |-> Ended(mine, t)]
      PROVE  Good(o)
  BY <1>5, PresentedOwns, WaitpointSetType, TicketsKept DEF MaySetWaitpoint, Good
<1> HIDE DEF cred
<1> QED
  BY <1>1, <1>2, <1>3, <1>4, <1>5, LeaseCases DEF cred

(* Whatever a call computes from a ledger is a ledger.                     *)
LEMMA OutcomesAreLedgers ==
    ASSUME NEW d \in Ledger, NEW h \in Holder, NEW mine \in TicketMap, NEW now \in Nat,
           NEW o \in Outcomes(d, h, mine, now)
    PROVE  Good(o)
<1>1. PICK t \in Task :
        \/ o \in LeaseOutcomes(d, h, mine, t, now)
        \/ o \in Outcome(StructureOutcomes(d, t)
                         \cup StatusOutcomes(d, t, None, now)
                         \cup StatusOutcomes(d, t, Presented(h, mine, t), now)
                         \cup WaitpointOutcomes(d, t, Presented(h, mine, t))
                         \cup ResumeOutcomes(d, t, now), mine)
  BY DEF Outcomes
<1>2. StructureOutcomes(d, t)
        \cup StatusOutcomes(d, t, None, now)
        \cup StatusOutcomes(d, t, Presented(h, mine, t), now)
        \cup WaitpointOutcomes(d, t, Presented(h, mine, t))
        \cup ResumeOutcomes(d, t, now) \in SUBSET Ledger
  BY StructureLedgers, StatusLedgers, WaitingLedgers DEF SameLeases
<1> QED
  BY <1>1, <1>2, LeaseLedgers, GoodOutcomes

-----------------------------------------------------------------------------
(***************************************************************************)
(* The state of the file between the steps of a call, under the lock of a  *)
(* session: one call at a time, so what a call has read is still there     *)
(* when it writes.                                                         *)
(***************************************************************************)
FileTypes ==
    /\ file \in Ledger \cup {None}
    /\ temp \in [Holder -> Ledger \cup {Torn, None}]
    /\ pc \in [Holder -> Step]
    /\ candidates \in [Holder -> SUBSET Holder]
    /\ promoted \in [Holder -> Holder \cup {None}]
    /\ pending = [h \in Holder |-> pending[h]]
    /\ tickets \in [Holder -> TicketMap]
    /\ clock \in Nat

OneCall == \A g, h \in Holder : pc[g] # "idle" /\ pc[h] # "idle" => g = h

(* Before there is a ledger nobody writes anything but the empty one.      *)
FirstFile == file = None => \A g \in Holder : temp[g] \in {None, Torn, EmptyLedger}

(* What h is about to write: the first ledger, or what a method computed   *)
(* from the ledger that is still in place.                                 *)
Promised(h) ==
    \/ /\ file = None
       /\ pending[h] = [ledger |-> EmptyLedger, tickets |-> tickets[h], then |-> "read"]
    \/ /\ file # None
       /\ \E now \in 0..clock : \E o \in Outcomes(file, h, tickets[h], now) :
             pending[h] = [ledger |-> o.ledger, tickets |-> o.tickets, then |-> "idle"]

AtStep(h) ==
    /\ pc[h] = "promote" => /\ file = None
                            /\ promoted[h] \in Holder
                            /\ temp[promoted[h]] = EmptyLedger
    /\ pc[h] = "read" => file # None
    /\ pc[h] \in {"open", "fill", "replace"} => Promised(h)
    /\ pc[h] = "fill" => temp[h] = Torn
    /\ pc[h] = "replace" => temp[h] = pending[h].ledger

SessionInv ==
    FileTypes /\ OneCall /\ FirstFile /\ \A h \in Holder : AtStep(h)

(* The invariant holds before there is a file.                             *)
LEMMA SessionInit == Init => SessionInv
<1> SUFFICES ASSUME Init PROVE SessionInv
  OBVIOUS
<1> USE DEF Init
<1>1. FileTypes
  <2>1. NoTickets \in TicketMap
    BY DEF NoTickets, TicketMap
  <2> QED
    BY <2>1 DEF FileTypes, Step
<1>2. OneCall /\ FirstFile /\ \A h \in Holder : AtStep(h)
  BY DEF OneCall, FirstFile, AtStep
<1> QED
  BY <1>1, <1>2 DEF SessionInv

(* What is about to be written is a ledger, the empty one if it is the     *)
(* first, and the worker's tickets are tickets.                            *)
LEMMA PromisedLedger ==
    ASSUME SessionInv, NEW h \in Holder, Promised(h)
    PROVE  /\ pending[h].ledger \in Ledger /\ pending[h].tickets \in TicketMap
           /\ file = None => pending[h].ledger = EmptyLedger
<1>1. EmptyLedger \in Ledger
  BY DEF EmptyLedger, Ledger
<1>2. file \in Ledger \cup {None} /\ tickets[h] \in TicketMap /\ clock \in Nat
  BY DEF SessionInv, FileTypes
<1>3. CASE file = None
  BY <1>1, <1>2, <1>3 DEF Promised
<1>4. CASE file # None
  <2>1. PICK now \in 0..clock : \E o \in Outcomes(file, h, tickets[h], now) :
          pending[h] = [ledger |-> o.ledger, tickets |-> o.tickets, then |-> "idle"]
    BY <1>4 DEF Promised
  <2>2. PICK o \in Outcomes(file, h, tickets[h], now) :
          pending[h] = [ledger |-> o.ledger, tickets |-> o.tickets, then |-> "idle"]
    BY <2>1
  <2>3. Good(o)
    BY <1>2, <1>4, OutcomesAreLedgers
  <2> QED
    BY <1>4, <2>2, <2>3 DEF Good
<1> QED
  BY <1>3, <1>4

(* While h is in a call, all others are between calls.                     *)
LEMMA OthersIdle ==
    ASSUME SessionInv, NEW h \in Holder, pc[h] # "idle"
    PROVE  \A g \in Holder \ {h} : pc[g] = "idle"
BY DEF SessionInv, OneCall

(* A step of a call in progress: only h's part of the invariant is at      *)
(* stake, because the others are between calls.                            *)
LEMMA OneMoves ==
    ASSUME SessionInv, NEW h \in Holder, pc[h] # "idle" \/ \A g \in Holder : pc[g] = "idle",
           \A g \in Holder \ {h} : pc'[g] = pc[g],
           FileTypes', FirstFile', AtStep(h)'
    PROVE  SessionInv'
<1>1. \A g \in Holder \ {h} : pc'[g] = "idle"
  BY OthersIdle
<1>2. OneCall'
  BY <1>1 DEF OneCall
<1>3. \A g \in Holder \ {h} : AtStep(g)'
  BY <1>1 DEF AtStep
<1> QED
  BY <1>2, <1>3 DEF SessionInv

(* The clean-up of a call.                                                 *)
LEMMA CleanUpSteps ==
    ASSUME ~Shared, SessionInv, NEW h \in Holder,
           ListTemps(h) \/ Recover(h) \/ Promote(h) \/ Sweep(h)
    PROVE  SessionInv' /\ Stored' = Stored /\ UNCHANGED <<clock, tickets>>
<1> USE DEF Goto
<1>1. CASE ListTemps(h)
  <2>1. \A g \in Holder : pc[g] = "idle"
    BY <1>1 DEF ListTemps, MayCall
  <2>2. pc' = [pc EXCEPT ![h] = "ensure"] \/ pc' = [pc EXCEPT ![h] = "recover"]
    BY <1>1 DEF ListTemps
  <2>3. FileTypes'
    BY <1>1, <2>2 DEF ListTemps, SessionInv, FileTypes, Step
  <2>4. FirstFile' /\ AtStep(h)' /\ \A g \in Holder \ {h} : pc'[g] = pc[g]
    BY <1>1, <2>2 DEF ListTemps, SessionInv, FileTypes, FirstFile, AtStep
  <2> QED
    BY <1>1, <2>1, <2>3, <2>4, OneMoves DEF ListTemps, Stored
<1>2. CASE Recover(h)
  <2>1. pc[h] = "recover" /\ UNCHANGED <<file, temp, candidates, pending, tickets, clock>>
    BY <1>2 DEF Recover
  <2>2. CASE pc' = [pc EXCEPT ![h] = "sweep"] /\ UNCHANGED promoted
    <3>1. FileTypes' /\ FirstFile' /\ AtStep(h)' /\ \A g \in Holder \ {h} : pc'[g] = pc[g]
      BY <2>1, <2>2 DEF SessionInv, FileTypes, Step, FirstFile, AtStep
    <3> QED
      BY <2>1, <3>1, OneMoves DEF Stored
  <2>3. ASSUME NEW g \in candidates[h], Valid(temp[g]), file = None,
               promoted' = [promoted EXCEPT ![h] = g], pc' = [pc EXCEPT ![h] = "promote"]
        PROVE  SessionInv' /\ Stored' = Stored /\ UNCHANGED <<clock, tickets>>
    <3>1. g \in Holder /\ temp[g] = EmptyLedger
      BY <2>3 DEF SessionInv, FileTypes, FirstFile, Valid
    <3>2. FileTypes' /\ FirstFile' /\ AtStep(h)' /\ \A k \in Holder \ {h} : pc'[k] = pc[k]
      BY <2>1, <2>3, <3>1 DEF SessionInv, FileTypes, Step, FirstFile, AtStep
    <3> QED
      BY <2>1, <3>2, OneMoves DEF Stored
  <2> QED
    BY <1>2, <2>2, <2>3 DEF Recover
<1>3. CASE Promote(h)
  <2>1. /\ pc[h] = "promote" /\ file = None /\ UNCHANGED <<pending, tickets, clock>>
        /\ promoted[h] \in Holder /\ promoted[h] # None /\ temp[promoted[h]] = EmptyLedger
    BY <1>3, NoneIsNoHolder DEF Promote, SessionInv, AtStep
  <2>2. file' = EmptyLedger /\ Removed(promoted[h]) /\ pc' = [pc EXCEPT ![h] = "sweep"]
    BY <1>3, <2>1 DEF Promote
  <2>3. EmptyLedger \in Ledger /\ EmptyLedger # None
    BY OthersAreNoLedgers DEF EmptyLedger, Ledger
  <2>4. FileTypes'
    BY <2>1, <2>2, <2>3 DEF SessionInv, FileTypes, Removed, Step
  <2>5. FirstFile' /\ AtStep(h)' /\ \A g \in Holder \ {h} : pc'[g] = pc[g]
    BY <2>1, <2>2, <2>3 DEF SessionInv, FileTypes, FirstFile, AtStep
  <2> QED
    BY <2>1, <2>2, <2>3, <2>4, <2>5, OneMoves DEF Stored
<1>4. CASE Sweep(h)
  <2>1. pc[h] = "sweep" /\ UNCHANGED <<file, pending, tickets, clock>>
    BY <1>4 DEF Sweep
  <2>2. CASE pc' = [pc EXCEPT ![h] = "ensure"] /\ UNCHANGED <<temp, candidates, promoted>>
    <3>1. FileTypes' /\ FirstFile' /\ AtStep(h)' /\ \A g \in Holder \ {h} : pc'[g] = pc[g]
      BY <2>1, <2>2 DEF SessionInv, FileTypes, Step, FirstFile, AtStep
    <3> QED
      BY <2>1, <3>1, OneMoves DEF Stored
  <2>3. ASSUME NEW g \in candidates[h], Removed(g), UNCHANGED pc
        PROVE  SessionInv' /\ Stored' = Stored /\ UNCHANGED <<clock, tickets>>
    <3>1. g \in Holder
      BY <2>3 DEF SessionInv, FileTypes
    <3>2. FileTypes' /\ FirstFile' /\ AtStep(h)'
      BY <2>1, <2>3, <3>1 DEF SessionInv, FileTypes, FirstFile, AtStep, Removed
    <3> QED
      BY <2>1, <2>3, <3>2, OneMoves DEF Stored
  <2> QED
    BY <1>4, <2>2, <2>3 DEF Sweep
<1> QED
  BY <1>1, <1>2, <1>3, <1>4

(* Looking for the ledger, reading it, and writing the temporary file.     *)
LEMMA WritingSteps ==
    ASSUME SessionInv, NEW h \in Holder,
           Ensure(h) \/ Read(h) \/ Open(h) \/ Fill(h)
    PROVE  SessionInv' /\ Stored' = Stored /\ UNCHANGED <<clock, tickets>>
<1> USE DEF Goto
<1>1. CASE Ensure(h)
  <2>1. pc[h] = "ensure" /\ UNCHANGED <<file, temp, candidates, promoted, tickets, clock>>
    BY <1>1 DEF Ensure
  <2>2. CASE file # None /\ pc' = [pc EXCEPT ![h] = "read"] /\ UNCHANGED pending
    <3>1. FileTypes' /\ FirstFile' /\ AtStep(h)' /\ \A g \in Holder \ {h} : pc'[g] = pc[g]
      BY <2>1, <2>2 DEF SessionInv, FileTypes, Step, FirstFile, AtStep
    <3> QED
      BY <2>1, <3>1, OneMoves DEF Stored
  <2>3. CASE file = None /\ Write(h, EmptyLedger, tickets[h], "read")
    <3>1. pc' = [pc EXCEPT ![h] = "open"] /\ pc'[h] = "open" /\ \A g \in Holder \ {h} : pc'[g] = pc[g]
      BY <2>3 DEF Write, SessionInv, FileTypes
    <3>2. FileTypes'
      BY <2>1, <2>3, <3>1 DEF SessionInv, FileTypes, Step, Write
    <3>3. Promised(h)'
      BY <2>1, <2>3 DEF Promised, Write, SessionInv, FileTypes
    <3>4. FirstFile' /\ AtStep(h)'
      BY <2>1, <3>1, <3>3 DEF SessionInv, FirstFile, AtStep
    <3> QED
      BY <2>1, <3>1, <3>2, <3>4, OneMoves DEF Stored
  <2> QED
    BY <1>1, <2>2, <2>3 DEF Ensure
<1>2. CASE Read(h)
  <2>1. /\ pc[h] = "read" /\ UNCHANGED <<file, temp, candidates, promoted, tickets, clock>>
        /\ file # None
    BY <1>2 DEF Read, SessionInv, AtStep
  <2>2. CASE pc' = [pc EXCEPT ![h] = "idle"] /\ UNCHANGED pending
    <3>1. FileTypes' /\ FirstFile' /\ AtStep(h)' /\ \A g \in Holder \ {h} : pc'[g] = pc[g]
      BY <2>1, <2>2 DEF SessionInv, FileTypes, Step, FirstFile, AtStep
    <3> QED
      BY <2>1, <3>1, OneMoves DEF Stored
  <2>3. ASSUME NEW o \in Outcomes(file, h, tickets[h], clock),
               Write(h, o.ledger, o.tickets, "idle")
        PROVE  SessionInv' /\ Stored' = Stored /\ UNCHANGED <<clock, tickets>>
    <3>1. pc' = [pc EXCEPT ![h] = "open"] /\ pc'[h] = "open" /\ \A g \in Holder \ {h} : pc'[g] = pc[g]
      BY <2>3 DEF Write, SessionInv, FileTypes
    <3>2. FileTypes'
      BY <2>1, <2>3, <3>1 DEF SessionInv, FileTypes, Step, Write
    <3>3. pending'[h] = [ledger |-> o.ledger, tickets |-> o.tickets, then |-> "idle"]
      BY <2>3 DEF Write, SessionInv, FileTypes
    <3>4. clock \in 0..clock
      BY DEF SessionInv, FileTypes
    <3>5. Promised(h)'
      BY <2>1, <3>3, <3>4 DEF Promised
    <3>6. FirstFile' /\ AtStep(h)'
      BY <2>1, <3>1, <3>5 DEF SessionInv, FirstFile, AtStep
    <3> QED
      BY <2>1, <3>1, <3>2, <3>6, OneMoves DEF Stored
  <2> QED
    BY <1>2, <2>2, <2>3 DEF Read
<1>3. CASE Open(h)
  <2>1. /\ pc[h] = "open" /\ pc' = [pc EXCEPT ![h] = "fill"] /\ temp' = [temp EXCEPT ![h] = Torn]
        /\ UNCHANGED <<file, candidates, promoted, pending, tickets, clock>>
    BY <1>3 DEF Open
  <2>2. FileTypes'
    BY <2>1 DEF SessionInv, FileTypes, Step
  <2>3. Promised(h)'
    BY <2>1 DEF SessionInv, AtStep, Promised
  <2>4. FirstFile' /\ AtStep(h)' /\ \A g \in Holder \ {h} : pc'[g] = pc[g]
    BY <2>1, <2>3 DEF SessionInv, FileTypes, FirstFile, AtStep
  <2> QED
    BY <2>1, <2>2, <2>4, OneMoves DEF Stored
<1>4. CASE Fill(h)
  <2>1. /\ pc[h] = "fill" /\ pc' = [pc EXCEPT ![h] = "replace"]
        /\ UNCHANGED <<file, candidates, promoted, pending, tickets, clock>>
        /\ temp[h] = Torn
    BY <1>4 DEF Fill, SessionInv, AtStep
  <2>2. temp' = [temp EXCEPT ![h] = pending[h].ledger]
    BY <1>4, <2>1, OthersAreNoLedgers DEF Fill
  <2>3. Promised(h)
    BY <2>1 DEF SessionInv, AtStep
  <2>4. pending[h].ledger \in Ledger /\ (file = None => pending[h].ledger = EmptyLedger)
    BY <2>3, PromisedLedger
  <2>5. FileTypes'
    BY <2>1, <2>2, <2>4 DEF SessionInv, FileTypes, Step
  <2>6. Promised(h)'
    BY <2>1, <2>3 DEF Promised
  <2>7. FirstFile' /\ AtStep(h)' /\ \A g \in Holder \ {h} : pc'[g] = pc[g]
    BY <2>1, <2>2, <2>4, <2>6 DEF SessionInv, FileTypes, FirstFile, AtStep
  <2> QED
    BY <2>1, <2>5, <2>7, OneMoves DEF Stored
<1> QED
  BY <1>1, <1>2, <1>3, <1>4

(* The rename: the call has its whole effect, on the ledger it has read.   *)
LEMMA ReplaceStep ==
    ASSUME SessionInv, NEW h \in Holder, Replace(h)
    PROVE  /\ SessionInv'
           /\ Store!Call(h) \/ UNCHANGED <<Stored, clock, tickets>>
<1>1. pc[h] = "replace" /\ Promised(h) /\ temp[h] = pending[h].ledger
  BY DEF Replace, SessionInv, AtStep
<1>2. /\ pending[h].ledger \in Ledger /\ pending[h].tickets \in TicketMap
      /\ file = None => pending[h].ledger = EmptyLedger
  BY <1>1, PromisedLedger
<1>3. /\ file' = pending[h].ledger /\ file' \in Ledger /\ file' # None
      /\ Removed(h)
      /\ pending' = [pending EXCEPT ![h] = None]
      /\ tickets' = [tickets EXCEPT ![h] = pending[h].tickets]
      /\ pc' = [pc EXCEPT ![h] = pending[h].then]
      /\ clock' = clock
  BY <1>1, <1>2, OthersAreNoLedgers DEF Replace, Goto
<1>4. pending[h].then \in {"read", "idle"}
  <2>1. CASE pending[h] = [ledger |-> EmptyLedger, tickets |-> tickets[h], then |-> "read"]
    BY <2>1
  <2>2. ASSUME NEW o, pending[h] = [ledger |-> o.ledger, tickets |-> o.tickets, then |-> "idle"]
        PROVE  pending[h].then \in {"read", "idle"}
    BY <2>2
  <2> QED
    BY <1>1, <2>1, <2>2 DEF Promised
<1>5. FileTypes'
  BY <1>2, <1>3, <1>4 DEF SessionInv, FileTypes, Step, Removed
<1>6. FirstFile' /\ AtStep(h)' /\ \A g \in Holder \ {h} : pc'[g] = pc[g]
  BY <1>3, <1>4 DEF SessionInv, FileTypes, FirstFile, AtStep
<1>7. SessionInv'
  BY <1>1, <1>5, <1>6, OneMoves
<1>8. CASE file = None
  <2>1. pending[h].tickets = tickets[h]
    BY <1>1, <1>8 DEF Promised
  <2>2. tickets' = tickets
    BY <1>3, <2>1 DEF SessionInv, FileTypes
  <2>3. Stored' = Stored
    BY <1>2, <1>3, <1>8 DEF Stored
  <2> QED
    BY <1>3, <1>7, <2>2, <2>3
<1>9. CASE file # None
  <2>1. PICK now \in 0..clock : \E o \in Outcomes(file, h, tickets[h], now) :
          pending[h] = [ledger |-> o.ledger, tickets |-> o.tickets, then |-> "idle"]
    BY <1>1, <1>9 DEF Promised
  <2>2. PICK o \in Outcomes(file, h, tickets[h], now) :
          pending[h] = [ledger |-> o.ledger, tickets |-> o.tickets, then |-> "idle"]
    BY <2>1
  <2>3. Stored = file /\ Stored' = o.ledger
    BY <1>3, <1>9, <2>2 DEF Stored
  <2>4. tickets' = [tickets EXCEPT ![h] = o.tickets] /\ clock' = clock
    BY <1>3, <2>2
  <2>5. Store!Call(h)
    BY <2>2, <2>3, <2>4 DEF Store!Call
  <2> QED
    BY <1>7, <2>5
<1> QED
  BY <1>8, <1>9

(* A worker that dies leaves its temporary file and forgets its tickets;   *)
(* a call of another goes on.                                              *)
LEMMA CrashStep ==
    ASSUME SessionInv, NEW h \in Holder, Crash(h)
    PROVE  SessionInv' /\ Store!Forget(h)
<1>1. /\ pc' = [pc EXCEPT ![h] = "idle"]
      /\ candidates' = [candidates EXCEPT ![h] = {}]
      /\ promoted' = [promoted EXCEPT ![h] = None]
      /\ pending' = [pending EXCEPT ![h] = None]
      /\ tickets' = [tickets EXCEPT ![h] = NoTickets]
      /\ UNCHANGED <<file, temp, clock>>
  BY DEF Crash
<1>2. NoTickets \in TicketMap
  BY DEF NoTickets, TicketMap
<1>3. FileTypes'
  BY <1>1, <1>2 DEF SessionInv, FileTypes, Step
<1>4. OneCall' /\ FirstFile'
  BY <1>1 DEF SessionInv, FileTypes, OneCall, FirstFile
<1>5. AtStep(h)'
  BY <1>1 DEF SessionInv, FileTypes, AtStep
<1>6. ASSUME NEW g \in Holder \ {h} PROVE AtStep(g)'
  <2>1. /\ pc'[g] = pc[g] /\ promoted'[g] = promoted[g] /\ pending'[g] = pending[g]
        /\ tickets'[g] = tickets[g]
    BY <1>1 DEF SessionInv, FileTypes
  <2>2. Promised(g) => Promised(g)'
    BY <1>1, <2>1 DEF Promised
  <2> QED
    BY <1>1, <2>1, <2>2 DEF SessionInv, AtStep
<1>7. Store!Forget(h)
  BY <1>1 DEF Store!Forget, Stored
<1> QED
  BY <1>3, <1>4, <1>5, <1>6, <1>7 DEF SessionInv

(* Time passes while a call is under way: the moment it looked at the      *)
(* clock is in the past then.                                              *)
LEMMA TickStep ==
    ASSUME SessionInv, Tick
    PROVE  SessionInv' /\ Store!Tick
<1>1. clock \in Nat /\ clock < MaxClock /\ clock' = clock + 1
      /\ UNCHANGED <<file, temp, pc, candidates, promoted, pending, tickets>>
  BY DEF Tick, SessionInv, FileTypes
<1>2. FileTypes' /\ OneCall' /\ FirstFile'
  BY <1>1 DEF SessionInv, FileTypes, OneCall, FirstFile
<1>3. ASSUME NEW h \in Holder PROVE AtStep(h)'
  <2>1. 0..clock \subseteq 0..clock'
    BY <1>1
  <2>2. Promised(h) => Promised(h)'
    BY <1>1, <2>1 DEF Promised
  <2> QED
    BY <1>1, <2>2 DEF SessionInv, AtStep
<1>4. Store!Tick
  BY <1>1 DEF Store!Tick, Stored
<1> QED
  BY <1>2, <1>3, <1>4 DEF SessionInv

(* SessionInv is inductive, and every step of the file is a step of the    *)
(* store or none.                                                          *)
LEMMA SessionStep ==
    ASSUME ~Shared, SessionInv, [Next]_vars
    PROVE  SessionInv' /\ [Store!Next]_(Store!vars)
<1> USE DEF Store!vars, Store!Next
<1>1. ASSUME NEW h \in Holder, ListTemps(h) \/ Recover(h) \/ Promote(h) \/ Sweep(h)
      PROVE  SessionInv' /\ [Store!Next]_(Store!vars)
  BY <1>1, CleanUpSteps
<1>2. ASSUME NEW h \in Holder, Ensure(h) \/ Read(h) \/ Open(h) \/ Fill(h)
      PROVE  SessionInv' /\ [Store!Next]_(Store!vars)
  BY <1>2, WritingSteps
<1>3. ASSUME NEW h \in Holder, Replace(h)
      PROVE  SessionInv' /\ [Store!Next]_(Store!vars)
  BY <1>3, ReplaceStep
<1>4. ASSUME NEW h \in Holder, Crash(h)
      PROVE  SessionInv' /\ [Store!Next]_(Store!vars)
  BY <1>4, CrashStep
<1>5. CASE Tick
  BY <1>5, TickStep
<1>6. CASE UNCHANGED vars
  <2>1. SessionInv'
    BY <1>6 DEF vars, SessionInv, FileTypes, OneCall, FirstFile, AtStep, Promised
  <2>2. UNCHANGED <<Stored, clock, tickets>>
    BY <1>6 DEF vars, Stored
  <2> QED
    BY <2>1, <2>2
<1> QED
  BY <1>1, <1>2, <1>3, <1>4, <1>5, <1>6 DEF Next, Work

-----------------------------------------------------------------------------
(***************************************************************************)
(* The state of the file between the steps of processes that may have no   *)
(* lock.  Anybody may have removed anybody's temporary file, but only its  *)
(* own writer fills one, and it does so after it has cleaned up: the file  *)
(* somebody is about to promote is not written again.                      *)
(***************************************************************************)
CleanBefore(h) ==
    /\ promoted[h] # None => Valid(temp[promoted[h]])
    /\ pc[h] \in {"recover", "promote", "sweep"} /\ temp[h] # None => h \in candidates[h]
    /\ pc[h] \in {"ensure", "read", "open"} => temp[h] = None

Writes(h) ==
    /\ pc[h] = "read" => file # None
    /\ pc[h] \in {"open", "fill", "replace"} =>
          /\ pending[h].ledger \in Ledger
          /\ pending[h].tickets \in TicketMap
          /\ pending[h].then \in {"idle", "read"}
    /\ pc[h] = "replace" => temp[h] # Torn

WholeInv == FileTypes /\ \A h \in Holder : CleanBefore(h) /\ Writes(h)

LEMMA WholeInit == Init => WholeInv
<1> SUFFICES ASSUME Init PROVE WholeInv
  OBVIOUS
<1> USE DEF Init
<1>1. NoTickets \in TicketMap
  BY DEF NoTickets, TicketMap
<1>2. FileTypes
  BY <1>1 DEF FileTypes, Step
<1>3. \A h \in Holder : CleanBefore(h) /\ Writes(h)
  BY DEF CleanBefore, Writes
<1> QED
  BY <1>2, <1>3 DEF WholeInv

(* A temporary file that is removed is nobody's to promote, list or rename *)
(* any more.                                                               *)
LEMMA RemovedIsGone ==
    ASSUME WholeInv, NEW k \in Holder, Removed(k)
    PROVE  /\ temp' \in [Holder -> Ledger \cup {Torn, None}]
           /\ candidates' \in [Holder -> SUBSET Holder]
           /\ promoted' \in [Holder -> Holder \cup {None}]
           /\ \A h \in Holder :
                /\ promoted'[h] # None => Valid(temp'[promoted'[h]])
                /\ temp'[h] # None => /\ temp'[h] = temp[h]
                                      /\ h \in candidates[h] => h \in candidates'[h]
<1> USE DEF WholeInv, FileTypes
<1>1. /\ temp' \in [Holder -> Ledger \cup {Torn, None}]
      /\ candidates' \in [Holder -> SUBSET Holder]
      /\ promoted' \in [Holder -> Holder \cup {None}]
  BY DEF Removed
<1>2. ASSUME NEW h \in Holder, promoted'[h] # None PROVE Valid(temp'[promoted'[h]])
  <2>1. promoted'[h] = promoted[h] /\ promoted[h] # k /\ promoted[h] \in Holder
    BY <1>2 DEF Removed
  <2>2. Valid(temp[promoted[h]])
    BY <1>2, <2>1 DEF CleanBefore
  <2> QED
    BY <2>1, <2>2 DEF Removed
<1>3. ASSUME NEW h \in Holder, temp'[h] # None
      PROVE  temp'[h] = temp[h] /\ (h \in candidates[h] => h \in candidates'[h])
  BY <1>3 DEF Removed
<1> QED
  BY <1>1, <1>2, <1>3

(* The clean-up with no lock: only a valid file takes the ledger's place.  *)
LEMMA CleanUpKeepsWhole ==
    ASSUME WholeInv, NEW h \in Holder, ListTemps(h) \/ Recover(h) \/ Promote(h) \/ Sweep(h)
    PROVE  WholeInv'
<1> USE DEF Goto
<1>1. CASE ListTemps(h)
  <2>1. /\ pc[h] = "idle" /\ UNCHANGED <<file, temp, promoted, pending, tickets, clock>>
        /\ candidates' = [candidates EXCEPT ![h] = {g \in Holder : temp[g] # None}]
        /\ pc' = [pc EXCEPT ![h] = IF candidates'[h] = {} THEN "ensure" ELSE "recover"]
    BY <1>1 DEF ListTemps
  <2>2. FileTypes'
    BY <2>1 DEF WholeInv, FileTypes, Step
  <2>3. ASSUME NEW g \in Holder PROVE CleanBefore(g)' /\ Writes(g)'
    BY <2>1 DEF WholeInv, FileTypes, CleanBefore, Writes, Valid
  <2> QED
    BY <2>2, <2>3 DEF WholeInv
<1>2. CASE Recover(h)
  <2>1. pc[h] = "recover" /\ UNCHANGED <<file, temp, candidates, pending, tickets, clock>>
    BY <1>2 DEF Recover
  <2>2. CASE pc' = [pc EXCEPT ![h] = "sweep"] /\ UNCHANGED promoted
    <3>1. FileTypes'
      BY <2>1, <2>2 DEF WholeInv, FileTypes, Step
    <3>2. ASSUME NEW g \in Holder PROVE CleanBefore(g)' /\ Writes(g)'
      BY <2>1, <2>2 DEF WholeInv, FileTypes, CleanBefore, Writes, Valid
    <3> QED
      BY <3>1, <3>2 DEF WholeInv
  <2>3. ASSUME NEW k \in candidates[h], Valid(temp[k]),
               promoted' = [promoted EXCEPT ![h] = k], pc' = [pc EXCEPT ![h] = "promote"]
        PROVE  WholeInv'
    <3>1. k \in Holder
      BY <2>3 DEF WholeInv, FileTypes
    <3>2. FileTypes'
      BY <2>1, <2>3, <3>1 DEF WholeInv, FileTypes, Step
    <3>3. ASSUME NEW g \in Holder PROVE CleanBefore(g)' /\ Writes(g)'
      BY <2>1, <2>3, <3>1 DEF WholeInv, FileTypes, CleanBefore, Writes, Valid
    <3> QED
      BY <3>2, <3>3 DEF WholeInv
  <2> QED
    BY <1>2, <2>2, <2>3 DEF Recover
<1>3. CASE Promote(h)
  <2>1. pc[h] = "promote" /\ UNCHANGED <<pending, tickets, clock>>
    BY <1>3 DEF Promote
  <2>2. CASE /\ candidates' = [candidates EXCEPT ![h] = {}]
             /\ pc' = [pc EXCEPT ![h] = "idle"]
             /\ UNCHANGED <<file, temp, promoted>>
    <3>1. FileTypes'
      BY <2>1, <2>2 DEF WholeInv, FileTypes, Step
    <3>2. ASSUME NEW g \in Holder PROVE CleanBefore(g)' /\ Writes(g)'
      BY <2>1, <2>2 DEF WholeInv, FileTypes, CleanBefore, Writes, Valid
    <3> QED
      BY <3>1, <3>2 DEF WholeInv
  <2>3. CASE /\ promoted[h] # None
             /\ file' = temp[promoted[h]]
             /\ Removed(promoted[h])
             /\ pc' = [pc EXCEPT ![h] = "sweep"]
    <3>1. promoted[h] \in Holder /\ file' \in Ledger
      BY <2>3 DEF WholeInv, FileTypes, CleanBefore, Valid
    <3>2. FileTypes'
      BY <2>1, <2>3, <3>1, RemovedIsGone DEF WholeInv, FileTypes, Step
    <3>3. ASSUME NEW g \in Holder PROVE CleanBefore(g)' /\ Writes(g)'
      <4>1. CleanBefore(g)'
        BY <2>1, <2>3, <3>1, RemovedIsGone DEF WholeInv, FileTypes, CleanBefore, Valid
      <4>2. Writes(g)'
        BY <2>1, <2>3, <3>1, RemovedIsGone, OthersAreNoLedgers DEF WholeInv, FileTypes, Writes
      <4> QED
        BY <4>1, <4>2
    <3> QED
      BY <3>2, <3>3 DEF WholeInv
  <2> QED
    BY <1>3, <2>2, <2>3 DEF Promote
<1>4. CASE Sweep(h)
  <2>1. pc[h] = "sweep" /\ UNCHANGED <<file, pending, tickets, clock>>
    BY <1>4 DEF Sweep
  <2>2. CASE /\ candidates[h] = {} /\ pc' = [pc EXCEPT ![h] = "ensure"]
             /\ UNCHANGED <<temp, candidates, promoted>>
    <3>1. FileTypes'
      BY <2>1, <2>2 DEF WholeInv, FileTypes, Step
    <3>2. ASSUME NEW g \in Holder PROVE CleanBefore(g)' /\ Writes(g)'
      BY <2>1, <2>2 DEF WholeInv, FileTypes, CleanBefore, Writes, Valid
    <3> QED
      BY <3>1, <3>2 DEF WholeInv
  <2>3. ASSUME NEW k \in candidates[h], Removed(k), UNCHANGED pc
        PROVE  WholeInv'
    <3>1. k \in Holder
      BY <2>3 DEF WholeInv, FileTypes
    <3>2. FileTypes'
      BY <2>1, <2>3, <3>1, RemovedIsGone DEF WholeInv, FileTypes
    <3>3. ASSUME NEW g \in Holder PROVE CleanBefore(g)' /\ Writes(g)'
      <4>1. CleanBefore(g)'
        BY <2>1, <2>3, <3>1, RemovedIsGone DEF WholeInv, FileTypes, CleanBefore, Valid
      <4>2. Writes(g)'
        BY <2>1, <2>3, <3>1, RemovedIsGone, OthersAreNoLedgers DEF WholeInv, FileTypes, Writes
      <4> QED
        BY <4>1, <4>2
    <3> QED
      BY <3>2, <3>3 DEF WholeInv
  <2> QED
    BY <1>4, <2>2, <2>3 DEF Sweep
<1> QED
  BY <1>1, <1>2, <1>3, <1>4

(* What a method prepares to write is a ledger, and the temporary file     *)
(* that is filled was created for it.                                      *)
LEMMA WritingKeepsWhole ==
    ASSUME WholeInv, NEW h \in Holder, Ensure(h) \/ Read(h) \/ Open(h) \/ Fill(h)
    PROVE  WholeInv'
<1> USE DEF Goto
<1>1. ASSUME pc[h] \in {"ensure", "read"}, NEW d \in Ledger, NEW mine \in TicketMap,
             NEW then \in {"idle", "read"}, Write(h, d, mine, then),
             UNCHANGED <<file, temp, candidates, promoted, tickets, clock>>
      PROVE  WholeInv'
  <2>1. /\ pending' = [pending EXCEPT ![h] = [ledger |-> d, tickets |-> mine, then |-> then]]
        /\ pc' = [pc EXCEPT ![h] = "open"]
    BY <1>1 DEF Write
  <2>2. FileTypes'
    BY <1>1, <2>1 DEF WholeInv, FileTypes, Step
  <2>3. ASSUME NEW g \in Holder PROVE CleanBefore(g)' /\ Writes(g)'
    <3>1. CleanBefore(g)'
      BY <1>1, <2>1 DEF WholeInv, FileTypes, CleanBefore, Valid
    <3>2. Writes(g)'
      BY <1>1, <2>1 DEF WholeInv, FileTypes, Writes
    <3> QED
      BY <3>1, <3>2
  <2> QED
    BY <2>2, <2>3 DEF WholeInv
<1>2. ASSUME pc[h] \in {"ensure", "read"}, NEW step \in {"idle", "read"},
             step = "read" => file # None, pc' = [pc EXCEPT ![h] = step],
             UNCHANGED <<file, temp, candidates, promoted, pending, tickets, clock>>
      PROVE  WholeInv'
  <2>1. FileTypes'
    BY <1>2 DEF WholeInv, FileTypes, Step
  <2>2. ASSUME NEW g \in Holder PROVE CleanBefore(g)' /\ Writes(g)'
    BY <1>2 DEF WholeInv, FileTypes, CleanBefore, Writes, Valid
  <2> QED
    BY <2>1, <2>2 DEF WholeInv
<1>3. CASE Ensure(h)
  <2>1. EmptyLedger \in Ledger /\ tickets[h] \in TicketMap
    BY DEF EmptyLedger, Ledger, WholeInv, FileTypes
  <2> QED
    BY <1>1, <1>2, <1>3, <2>1 DEF Ensure
<1>4. CASE Read(h)
  <2>1. pc[h] = "read" /\ UNCHANGED <<file, temp, candidates, promoted, tickets, clock>>
    BY <1>4 DEF Read
  <2>2. file \in Ledger /\ tickets[h] \in TicketMap /\ clock \in Nat
    BY <2>1 DEF WholeInv, FileTypes, Writes
  <2>3. ASSUME NEW o \in Outcomes(file, h, tickets[h], clock), Write(h, o.ledger, o.tickets, "idle")
        PROVE  WholeInv'
    <3>1. Good(o)
      BY <2>2, OutcomesAreLedgers
    <3> QED
      BY <1>1, <2>1, <2>3, <3>1 DEF Good
  <2> QED
    BY <1>2, <1>4, <2>1, <2>3 DEF Read
<1>5. CASE Open(h)
  <2>1. /\ pc[h] = "open" /\ temp' = [temp EXCEPT ![h] = Torn] /\ pc' = [pc EXCEPT ![h] = "fill"]
        /\ UNCHANGED <<file, candidates, promoted, pending, tickets, clock>>
    BY <1>5 DEF Open
  <2>2. temp[h] = None /\ \A g \in Holder : promoted[g] # h
    BY <2>1, NoneIsNoHolder DEF WholeInv, FileTypes, CleanBefore, Valid
  <2>3. FileTypes'
    BY <2>1 DEF WholeInv, FileTypes, Step
  <2>4. ASSUME NEW g \in Holder PROVE CleanBefore(g)' /\ Writes(g)'
    <3>1. CleanBefore(g)'
      BY <2>1, <2>2 DEF WholeInv, FileTypes, CleanBefore, Valid
    <3>2. Writes(g)'
      BY <2>1 DEF WholeInv, FileTypes, Writes
    <3> QED
      BY <3>1, <3>2
  <2> QED
    BY <2>3, <2>4 DEF WholeInv
<1>6. CASE Fill(h)
  <2>1. /\ pc[h] = "fill" /\ pc' = [pc EXCEPT ![h] = "replace"]
        /\ temp' = [temp EXCEPT ![h] = IF temp[h] = None THEN None ELSE pending[h].ledger]
        /\ UNCHANGED <<file, candidates, promoted, pending, tickets, clock>>
    BY <1>6 DEF Fill
  <2>2. pending[h].ledger \in Ledger /\ Valid(pending[h].ledger)
    BY <2>1, OthersAreNoLedgers DEF WholeInv, Writes, Valid
  <2>3. FileTypes'
    BY <2>1, <2>2 DEF WholeInv, FileTypes, Step
  <2>4. ASSUME NEW g \in Holder PROVE CleanBefore(g)' /\ Writes(g)'
    <3>1. CleanBefore(g)'
      BY <2>1, <2>2 DEF WholeInv, FileTypes, CleanBefore, Valid
    <3>2. Writes(g)'
      BY <2>1, <2>2, OthersAreNoLedgers DEF WholeInv, FileTypes, Writes, Valid
    <3> QED
      BY <3>1, <3>2
  <2> QED
    BY <2>3, <2>4 DEF WholeInv
<1> QED
  BY <1>3, <1>4, <1>5, <1>6

(* The rename puts a whole ledger in place, or fails.                      *)
LEMMA ReplaceKeepsWhole ==
    ASSUME WholeInv, NEW h \in Holder, Replace(h)
    PROVE  WholeInv'
<1> USE DEF Goto
<1>1. /\ pc[h] = "replace" /\ clock' = clock /\ pending' = [pending EXCEPT ![h] = None]
      /\ pending[h].tickets \in TicketMap /\ pending[h].then \in {"idle", "read"}
      /\ temp[h] # Torn
  BY DEF Replace, WholeInv, Writes
<1>2. CASE pc' = [pc EXCEPT ![h] = "idle"] /\ UNCHANGED <<file, temp, candidates, promoted, tickets>>
  <2>1. FileTypes'
    BY <1>1, <1>2 DEF WholeInv, FileTypes, Step
  <2>2. ASSUME NEW g \in Holder PROVE CleanBefore(g)' /\ Writes(g)'
    BY <1>1, <1>2 DEF WholeInv, FileTypes, CleanBefore, Writes, Valid
  <2> QED
    BY <2>1, <2>2 DEF WholeInv
<1>3. CASE /\ temp[h] # None /\ file' = temp[h] /\ Removed(h)
           /\ tickets' = [tickets EXCEPT ![h] = pending[h].tickets]
           /\ pc' = [pc EXCEPT ![h] = pending[h].then]
  <2>1. file' \in Ledger
    BY <1>1, <1>3 DEF WholeInv, FileTypes
  <2>2. temp'[h] = None
    BY <1>3 DEF Removed, WholeInv, FileTypes
  <2>3. FileTypes'
    BY <1>1, <1>3, <2>1, RemovedIsGone DEF WholeInv, FileTypes, Step
  <2>4. ASSUME NEW g \in Holder PROVE CleanBefore(g)' /\ Writes(g)'
    <3>1. CleanBefore(g)'
      BY <1>1, <1>3, <2>2, RemovedIsGone DEF WholeInv, FileTypes, CleanBefore, Valid
    <3>2. Writes(g)'
      BY <1>1, <1>3, <2>1, RemovedIsGone, OthersAreNoLedgers DEF WholeInv, FileTypes, Writes
    <3> QED
      BY <3>1, <3>2
  <2> QED
    BY <2>3, <2>4 DEF WholeInv
<1> QED
  BY <1>2, <1>3 DEF Replace

(* A worker dies and leaves its temporary file; time passes.               *)
LEMMA WholeStep == ASSUME WholeInv, [Next]_vars PROVE WholeInv'
<1>1. ASSUME NEW h \in Holder, Crash(h) PROVE WholeInv'
  <2>1. /\ pc' = [pc EXCEPT ![h] = "idle"]
        /\ candidates' = [candidates EXCEPT ![h] = {}]
        /\ promoted' = [promoted EXCEPT ![h] = None]
        /\ pending' = [pending EXCEPT ![h] = None]
        /\ tickets' = [tickets EXCEPT ![h] = NoTickets]
        /\ UNCHANGED <<file, temp, clock>>
    BY <1>1 DEF Crash
  <2>2. NoTickets \in TicketMap
    BY DEF NoTickets, TicketMap
  <2>3. FileTypes'
    BY <2>1, <2>2 DEF WholeInv, FileTypes, Step
  <2>4. ASSUME NEW g \in Holder PROVE CleanBefore(g)' /\ Writes(g)'
    BY <2>1 DEF WholeInv, FileTypes, CleanBefore, Writes, Valid
  <2> QED
    BY <2>3, <2>4 DEF WholeInv
<1>2. CASE Tick
  BY <1>2 DEF Tick, WholeInv, FileTypes, CleanBefore, Writes, Valid
<1>3. CASE UNCHANGED vars
  BY <1>3 DEF vars, WholeInv, FileTypes, CleanBefore, Writes, Valid
<1>4. ASSUME NEW h \in Holder, Work(h) PROVE WholeInv'
  BY <1>4, CleanUpKeepsWhole, WritingKeepsWhole, ReplaceKeepsWhole DEF Work
<1> QED
  BY <1>1, <1>2, <1>3, <1>4 DEF Next

-----------------------------------------------------------------------------
(* The theorems *)

(* Under the session lock nobody else's clean-up removes the file a worker *)
(* is about to rename (_recover_orphaned_writes, _write).                  *)
THEOREM SessionKeepsTemps == ~Shared => (Spec => []OwnTempSurvives)
<1> SUFFICES ASSUME ~Shared PROVE Spec => []OwnTempSurvives
  OBVIOUS
<1>1. SessionInv /\ [Next]_vars => SessionInv'
  BY SessionStep
<1>2. SessionInv => OwnTempSurvives
  <2> SUFFICES ASSUME SessionInv, NEW h \in Holder, pc[h] = "replace" PROVE temp[h] # None
    BY DEF OwnTempSurvives
  <2>1. Promised(h) /\ temp[h] = pending[h].ledger
    BY DEF SessionInv, AtStep
  <2> QED
    BY <2>1, PromisedLedger, OthersAreNoLedgers
<1> QED
  BY <1>1, <1>2, SessionInit, PTL DEF Spec

(* Under the session lock the file implements the atomic store: a call has *)
(* its whole effect on the value it replaces or none, wherever the worker  *)
(* dies (TaskLedger._ensure, _read, _write).                               *)
THEOREM SessionImplementsStore == ~Shared => (Spec => ImplementsStore)
<1> SUFFICES ASSUME ~Shared PROVE Spec => ImplementsStore
  OBVIOUS
<1>1. Init => Store!Init
  BY DEF Init, Store!Init, Stored
<1>2. SessionInv /\ [Next]_vars => SessionInv' /\ [Store!Next]_(Store!vars)
  BY SessionStep
<1> QED
  BY <1>1, <1>2, SessionInit, PTL DEF Spec, ImplementsStore, Store!Spec

(* With a lock or without one, whoever reads ledger.json after _ensure     *)
(* finds a whole ledger: no clean-up, promotion, rename or death of any    *)
(* process leaves the file half-written or takes it away                   *)
(* (_recover_orphaned_writes, _write, _read).                              *)
THEOREM ReadersAlwaysFindALedger == Spec => []ReadersFindALedger
<1>1. WholeInv /\ [Next]_vars => WholeInv'
  BY WholeStep
<1>2. WholeInv => ReadersFindALedger
  BY OthersAreNoLedgers DEF WholeInv, FileTypes, Writes, ReadersFindALedger, Valid
<1> QED
  BY <1>1, <1>2, WholeInit, PTL DEF Spec
=============================================================================
