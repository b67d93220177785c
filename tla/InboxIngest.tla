---------------------------- MODULE InboxIngest -----------------------------
(***************************************************************************)
(* Polling and ingestion by one DurableInbox (durable_inbox.py): ask       *)
(* whether a poll is due, read a batch of events from the cursor on, turn  *)
(* every event into a ledger task, remember its identity, advance the      *)
(* cursor; between these calls, pause and resume the subscription.  The    *)
(* ledger and the inbox state are two files, written one after the other.  *)
(*                                                                         *)
(* The process may die between two writes, or in the middle of one.  What  *)
(* a death in the middle of writing the ledger leaves is thrown away by    *)
(* the next call (LedgerFile).  What it leaves of inbox_state.json         *)
(* is put in the place of the good file: a part of the text, which no      *)
(* later call can parse, or all of it, which is as if the process had died *)
(* after the write (_recover_orphans, InboxFile).                          *)
(*                                                                         *)
(* The order poll, ingest, advance_cursor is the caller's; upstream is     *)
(* external: it numbers its events, may deliver earlier ones again and may *)
(* answer with Retry-After.                                                *)
(***************************************************************************)
EXTENDS Integers, Sequences, SequencesExt

CONSTANTS
    EventId,        \* upstream ids of events
    Payload,        \* payload digests
    Logs,           \* the logs upstream may have: sequences of <<id, payload>>
    BatchSize,      \* events per poll
    MaxClock,       \* bound on the clock
    MaxCrashes,     \* bound on crashes
    MaxThrottles,   \* bound on Retry-After answers
    Null            \* no time, no task

ASSUME LogsAreSequences == Logs \subseteq Seq(EventId \X Payload)
ASSUME NullIsNoEvent == Null \notin EventId \X Payload
ASSUME BoundsAreNatural == BatchSize \in Nat \ {0} /\ MaxCrashes \in Nat /\ MaxThrottles \in Nat

VARIABLES
    log,            \* upstream's events, in order; fixed
    readable,       \* whether inbox_state.json can be parsed
    subscription,   \* stored: "none", "active" or "paused"
    seen,           \* stored: identities of ingested events
    cursor,         \* stored: how far the log has been read
    retry_after,    \* stored: no poll before this time, or Null
    ledger,         \* stored in the ledger: the key of each event's task, or Null
    stage,
    batch,          \* events of this poll still to be ingested
    known,          \* the copy of seen that ingest works on
    target,         \* where the cursor goes when the batch is ingested
    clock,
    crashes,
    throttles

state == <<readable, subscription, seen, cursor, retry_after>>
call == <<stage, batch, known, target>>
ingest_vars == <<log, state, ledger, call, clock, crashes, throttles>>

identity(event) == event
task_id(event) == event[1]
idempotency_key(event) == event

IngestInit ==
    /\ log \in Logs
    /\ readable = TRUE /\ subscription = "none"
    /\ seen = {} /\ cursor = 0 /\ retry_after = Null
    /\ ledger = [e \in EventId |-> Null]
    /\ stage = "idle" /\ batch = <<>> /\ known = {} /\ target = 0
    /\ clock = 0 /\ crashes = 0 /\ throttles = 0

-----------------------------------------------------------------------------
(* Subscriptions: subscribe, pause_subscription, resume_subscription,      *)
(* note_retry_after.  They are called between the calls that ingest, and   *)
(* raise, like those, when the state cannot be read.                       *)

Between == readable /\ stage \in {"idle", "advance"}

SetSubscription(status) ==
    /\ subscription' = status
    /\ UNCHANGED <<log, readable, seen, cursor, retry_after, ledger, call, clock, crashes, throttles>>

(* One that exists already keeps what it holds. *)
Subscribed == Between /\ subscription = "none" /\ SetSubscription("active")

(* Pausing makes the entry if there is none; resuming then raises. *)
Paused == Between /\ SetSubscription("paused")

Resumed == Between /\ subscription # "none" /\ SetSubscription("active")

(* Variant: a recorded Retry-After blocks for ever. *)
PollDue_NeverAgain == readable /\ subscription = "active" /\ retry_after = Null

PollDue ==
    /\ readable
    /\ subscription = "active"
    /\ retry_after # Null => clock >= retry_after

(* note_retry_after: upstream answers that the next poll has to wait. *)
Throttled ==
    /\ stage = "idle" /\ PollDue
    /\ throttles < MaxThrottles /\ clock < MaxClock
    /\ retry_after' = clock + 1
    /\ throttles' = throttles + 1
    /\ UNCHANGED <<log, readable, subscription, seen, cursor, ledger, call, clock, crashes>>

(* conditional_request and the answer: events after the cursor, preceded   *)
(* by events that were delivered before.                                   *)
Poll(again, last) ==
    /\ stage = "idle" /\ PollDue
    /\ batch' = SubSeq(log, again, cursor) \o SubSeq(log, cursor + 1, last)
    /\ target' = last
    /\ known' = seen
    /\ stage' = "ingest"
    /\ UNCHANGED <<log, state, ledger, clock, crashes, throttles>>

PollAgain == \E again \in 1..cursor : Poll(again, cursor)

PollNew ==
    \E again \in 1..cursor + 1, last \in cursor + 1..Len(log) :
        last <= cursor + BatchSize /\ Poll(again, last)

-----------------------------------------------------------------------------
(* ingest *)

MayCreate(event) == ledger[task_id(event)] \in {Null, idempotency_key(event)}

(* One event: known ones are dropped, for others the ledger's create       *)
(* returns the task that has the same key, or makes it.                    *)
IngestEvent ==
    /\ stage = "ingest" /\ batch # <<>>
    /\ LET event == Head(batch)
       IN  IF identity(event) \in known
           THEN UNCHANGED <<known, ledger>>
           ELSE /\ MayCreate(event)
                /\ known' = known \cup {identity(event)}
                /\ ledger' = [ledger EXCEPT ![task_id(event)] = idempotency_key(event)]
    /\ batch' = Tail(batch)
    /\ UNCHANGED <<log, state, stage, target, clock, crashes, throttles>>

(* create raises "idempotency key conflict": the call is over, and what    *)
(* this batch made known is not stored.                                    *)
IngestFails ==
    /\ stage = "ingest" /\ batch # <<>>
    /\ identity(Head(batch)) \notin known
    /\ ~MayCreate(Head(batch))
    /\ stage' = "idle" /\ batch' = <<>>
    /\ UNCHANGED <<log, state, ledger, known, target, clock, crashes, throttles>>

(* Variant: the identities are stored before the tasks are made. *)
StoreSeen_Early ==
    /\ stage = "ingest"
    /\ seen' = known \cup Range(batch)
    /\ UNCHANGED <<log, readable, subscription, cursor, retry_after, ledger, call, clock, crashes, throttles>>

StoreSeen ==
    /\ stage = "ingest" /\ batch = <<>>
    /\ seen' = known
    /\ stage' = "advance"
    /\ UNCHANGED <<log, readable, subscription, cursor, retry_after, ledger, batch, known, target,
                   clock, crashes, throttles>>

AdvanceCursor ==
    /\ stage = "advance"
    /\ cursor' = target
    /\ stage' = "idle"
    /\ UNCHANGED <<log, readable, subscription, seen, retry_after, ledger, batch, known, target,
                   clock, crashes, throttles>>

-----------------------------------------------------------------------------
Tick ==
    /\ clock < MaxClock
    /\ clock' = clock + 1
    /\ UNCHANGED <<log, state, ledger, call, crashes, throttles>>

(* The process may be writing inbox_state.json: one of the methods between *)
(* the calls, the end of ingest, or advance_cursor.                        *)
MayTear == stage = "ingest" => batch = <<>>

IngestCrash(torn) ==
    /\ crashes < MaxCrashes
    /\ crashes' = crashes + 1
    /\ torn => MayTear
    /\ readable' = (readable /\ ~torn)
    /\ stage' = "idle" /\ batch' = <<>> /\ known' = {} /\ target' = 0
    /\ UNCHANGED <<log, subscription, seen, cursor, retry_after, ledger, clock, throttles>>

IngestNext ==
    \/ Subscribed \/ Paused \/ Resumed \/ Throttled \/ PollAgain \/ PollNew
    \/ IngestEvent \/ IngestFails \/ StoreSeen \/ AdvanceCursor
    \/ Tick \/ \E torn \in BOOLEAN : IngestCrash(torn)

IngestSpec == IngestInit /\ [][IngestNext]_ingest_vars

(* Time passes, a call that has begun goes on, and the caller keeps        *)
(* polling: an upstream that has new events does not for ever answer with  *)
(* old ones only.                                                          *)
IngestFairness ==
    /\ WF_ingest_vars(Tick)
    /\ WF_ingest_vars(IngestEvent \/ IngestFails \/ StoreSeen \/ AdvanceCursor)
    /\ SF_ingest_vars(PollNew)

IngestFairSpec == IngestSpec /\ IngestFairness

-----------------------------------------------------------------------------
(* Properties *)

HasTask(event) == ledger[task_id(event)] = idempotency_key(event)

(* An event that will be dropped as a duplicate has its task: no crash     *)
(* between the two files loses an event for good (ingest).                 *)
SeenHasTask == \A event \in seen : HasTask(event)

(* No event comes again with another payload digest. *)
IdsAreUnique == \A i, j \in DOMAIN log : log[i][1] = log[j][1] => log[i] = log[j]

(* A poller that asks again and again finds the state readable and the     *)
(* subscription there and not paused.                                      *)
KeepsPolling == []<>(readable /\ subscription = "active")

(* "New events create a ledger task": when no event comes again with       *)
(* another payload and the poller is let poll, every event's task exists   *)
(* in the end, through deaths between two writes, repeated deliveries,     *)
(* pauses and Retry-After (poll_due, ingest, advance_cursor).  With        *)
(* another payload, the default task id is the old one and create raises;  *)
(* the cursor then stays before that event for good.  After a death that   *)
(* leaves the state half-written nothing is polled any more.               *)
EveryEventArrives ==
    IdsAreUnique /\ KeepsPolling => <>[](\A i \in DOMAIN log : HasTask(log[i]))
=============================================================================
