-------------------------- MODULE ParallelDispatch --------------------------
(* ParallelDispatcher (execution-federation/parallel_dispatch.py): a fan-out *)
(* hands one route per executor to a pool of threads, collects them until a *)
(* deadline, and returns when the pool is empty. The routes and the         *)
(* collector share one _RunState; the fan-outs of one dispatcher share its  *)
(* cache. All calls here are for the same operation, executors and payload, *)
(* so that they have one key in the cache.                                  *)
EXTENDS Integers, Sequences, FiniteSets

CONSTANTS
    Batch,        \* calls of fanout
    Streams,      \* calls of fanout_stream
    NameLists,    \* executors, each list in the order of a caller
    Answers,      \* how an adapter answers: "OK", or the status of a failure
    MaxWorkers,   \* bound: pools are not larger
    MaxThreads,   \* bound: collectors and routes of all calls
    None

ASSUME NamesAreApart ==
    /\ NameLists \subseteq Seq(STRING)
    /\ \A list \in NameLists : \A j, k \in DOMAIN list : list[j] = list[k] => j = k
ASSUME AnswersAreStatuses == Answers \subseteq STRING /\ None \notin STRING
(* No adapter of execution-federation answers with one of these.            *)
ASSUME VerdictsAreTheDispatchers == {"TIMEOUT", "SKIPPED_FAILFAST"} \cap (Answers \cup {None}) = {}
ASSUME BoundsAreNat == MaxWorkers \in Nat /\ MaxThreads \in Nat

VARIABLES
    names,        \* the executors of the calls
    workers,      \* the size of each call's pool
    settings,     \* have the calls a deadline, do they fail fast?
    stage,        \* where its collector is
    step,         \* where each of its routes is
    answer,       \* what the route's adapter answered
    results,      \* _RunState.results, whose names are _RunState.settled
    events,       \* _RunState.events, and what a stream's queue is given
    abort,        \* _RunState.abort
    returned,     \* what the collector copied, then what the call returned
    cache,        \* what _dedup holds under the key: nothing or one return
    overlapped,   \* history: did two calls of fanout run at the same time?
    lateStarts    \* history: routes that began after the call's abort was set

vars == <<names, workers, settings, stage, step, answer, results, events, abort, returned, cache,
          overlapped, lateStarts>>

Calls == Batch \cup Streams
Executors == {names[k] : k \in DOMAIN names}
HARD_FAILURE_STATUSES == {"FAILED", "TIMEOUT", "UNKNOWN_EXECUTOR"}

Init ==
    /\ names \in NameLists
    /\ workers \in 1..MaxWorkers
    /\ settings \in [deadline : BOOLEAN, failFast : BOOLEAN]
    /\ stage = [c \in Calls |-> "new"]
    /\ step = [c \in Calls |-> [n \in Executors |-> "queued"]]
    /\ answer = [c \in Calls |-> [n \in Executors |-> None]]
    /\ results = [c \in Calls |-> [n \in Executors |-> None]]
    /\ events = [c \in Calls |-> <<>>]
    /\ abort = [c \in Calls |-> FALSE]
    /\ returned = [c \in Calls |-> None]
    /\ cache = {}
    /\ overlapped = FALSE
    /\ lateStarts = [c \in Calls |-> 0]

Event(n, phase) == [executor |-> n, phase |-> phase]
AppendEvent(c, n, phase) == events' = [events EXCEPT ![c] = Append(events[c], Event(n, phase))]
Settled(c, n) == results[c][n] # None
Settle(c, n, status) == results' = [results EXCEPT ![c][n] = status]
Move(c, n, to) == step' = [step EXCEPT ![c][n] = to]
Busy(c) == {n \in Executors : step[c][n] \notin {"queued", "done"}}
AllDone(c) == \A n \in Executors : step[c][n] = "done"

(* What a route changes and leaves alone.                                   *)
OfRoute == UNCHANGED <<names, workers, settings, stage, returned, cache, overlapped>>
-----------------------------------------------------------------------------
(* Variant: the flag is not looked at. *)
MayStart_Always(c) == TRUE

MayStart(c) == ~abort[c]

(* Variant: a route that was timed out while it waited is left in line. *)
FirstInLine_Unsettled(c, k) ==
    /\ step[c][names[k]] = "queued" /\ ~Settled(c, names[k])
    /\ \A j \in 1..(k - 1) : step[c][names[j]] # "queued"

FirstInLine(c, k) ==
    /\ step[c][names[k]] = "queued"
    /\ \A j \in 1..(k - 1) : step[c][names[j]] # "queued"

(* A thread of the pool takes the next route, which looks at the flag.      *)
Take(c, k) ==
    /\ stage[c] \notin {"new", "returned"}
    /\ FirstInLine(c, k)
    /\ Cardinality(Busy(c)) < workers
    /\ Move(c, names[k], IF MayStart(c) THEN "starting" ELSE "dropping")
    /\ UNCHANGED <<answer, results, events, abort, lateStarts>>

(* Variant: the verdict of the collector is overwritten. *)
Drop_Unchecked(c, n) ==
    /\ step[c][n] = "dropping"
    /\ Settle(c, n, "SKIPPED_FAILFAST")
    /\ Move(c, n, "done")
    /\ UNCHANGED <<answer, events, abort, lateStarts>>

Drop(c, n) ==
    /\ step[c][n] = "dropping"
    /\ IF Settled(c, n) THEN UNCHANGED results ELSE Settle(c, n, "SKIPPED_FAILFAST")
    /\ Move(c, n, "done")
    /\ UNCHANGED <<answer, events, abort, lateStarts>>

Begin(c, n) ==
    /\ step[c][n] = "starting"
    /\ AppendEvent(c, n, "STARTED")
    /\ lateStarts' = [lateStarts EXCEPT ![c] = @ + IF abort[c] THEN 1 ELSE 0]
    /\ Move(c, n, "calling")
    /\ UNCHANGED <<answer, results, abort>>

(* The adapter returns or raises, or there is none of that name.            *)
Answer(c, n) ==
    /\ step[c][n] = "calling"
    /\ \E status \in Answers : answer' = [answer EXCEPT ![c][n] = status]
    /\ Move(c, n, "answered")
    /\ UNCHANGED <<results, events, abort, lateStarts>>

(* Variant: a route that was timed out reports its end all the same. *)
Finish_Unchecked(c, n) ==
    /\ step[c][n] = "answered"
    /\ Settle(c, n, answer[c][n])
    /\ AppendEvent(c, n, IF answer[c][n] = "OK" THEN "DONE" ELSE "FAILED")
    /\ Move(c, n, "done")
    /\ UNCHANGED <<answer, abort, lateStarts>>

(* Under the lock; setting the flag comes after it is let go.               *)
Finish(c, n) ==
    /\ step[c][n] = "answered"
    /\ \/ /\ Settled(c, n)
          /\ Move(c, n, "done")
          /\ UNCHANGED <<results, events>>
       \/ /\ ~Settled(c, n)
          /\ Settle(c, n, answer[c][n])
          /\ AppendEvent(c, n, IF answer[c][n] = "OK" THEN "DONE" ELSE "FAILED")
          /\ Move(c, n, IF answer[c][n] \in HARD_FAILURE_STATUSES /\ settings.failFast
                        THEN "aborting" ELSE "done")
    /\ UNCHANGED <<answer, abort, lateStarts>>

Abort(c, n) ==
    /\ step[c][n] = "aborting"
    /\ abort' = [abort EXCEPT ![c] = TRUE]
    /\ Move(c, n, "done")
    /\ UNCHANGED <<answer, results, events, lateStarts>>

Route(c) == /\ \/ \E k \in DOMAIN names : Take(c, k)
               \/ \E n \in Executors : Drop(c, n) \/ Begin(c, n) \/ Answer(c, n) \/ Finish(c, n)
                                       \/ Abort(c, n)
            /\ OfRoute
-----------------------------------------------------------------------------
OfCollector == UNCHANGED <<names, workers, settings, step, answer, abort, lateStarts>>

Running(c) == stage[c] \notin {"new", "returned"}
Called(c) == \E n \in Executors : step[c][n] # "queued"
ThreadsOf(calls) == (Len(names) + 1) * Cardinality(calls)

(* fanout and fanout_stream, up to the submission of the routes. Only       *)
(* fanout looks at the cache.                                               *)
Submit(c) ==
    /\ stage[c] = "new"
    /\ \/ /\ c \in Batch
          /\ \E entry \in cache : returned' = [returned EXCEPT ![c] = entry]
          /\ stage' = [stage EXCEPT ![c] = "returned"]
          /\ UNCHANGED overlapped
       \/ /\ c \in Batch => cache = {}
          /\ ThreadsOf({c} \cup {d \in Calls : Running(d) \/ Called(d)}) <= MaxThreads
          /\ stage' = [stage EXCEPT ![c] = "running"]
          /\ overlapped' = (overlapped \/ (c \in Batch /\ \E d \in Batch : Running(d)))
          /\ UNCHANGED returned
    /\ UNCHANGED <<results, events, cache>>
    /\ OfCollector

(* The members of a set of numbers, in order.                               *)
InOrder(S) ==
    {list \in [1..Cardinality(S) -> S] :
        /\ \A k \in S : \E i \in DOMAIN list : list[i] = k
        /\ \A i, j \in DOMAIN list : i < j => list[i] < list[j]}

(* The deadline passes with routes that are pending: those that have not    *)
(* settled are given a verdict, in the order of the names.                  *)
Expire(c) ==
    /\ stage[c] = "running" /\ settings.deadline
    /\ ~AllDone(c)
    /\ \E late \in InOrder({k \in DOMAIN names : ~Settled(c, names[k])}) :
          events' = [events EXCEPT ![c] = events[c] \o
                        [i \in DOMAIN late |-> Event(names[late[i]], "TIMEOUT")]]
    /\ results' = [results EXCEPT ![c] = [n \in Executors |->
                        IF Settled(c, n) THEN results[c][n] ELSE "TIMEOUT"]]
    /\ stage' = [stage EXCEPT ![c] = "expired"]
    /\ UNCHANGED <<returned, cache, overlapped>>
    /\ OfCollector

(* The results and events of the return are copied.                         *)
Collect(c) ==
    /\ stage[c] = "expired" \/ (stage[c] = "running" /\ AllDone(c))
    /\ returned' = [returned EXCEPT ![c] = [results |-> results[c], events |-> events[c]]]
    /\ stage' = [stage EXCEPT ![c] = "collected"]
    /\ UNCHANGED <<results, events, cache, overlapped>>
    /\ OfCollector

(* Variant: only a success is remembered. *)
Remembered_Success(c) ==
    IF \A n \in Executors : returned[c].results[n] = "OK" THEN {returned[c]} ELSE cache

Remembered(c) == {returned[c]}

(* Leaving the pool waits for every route. A stream ends here, with all     *)
(* events; fanout returns the copy, and puts it into the cache.             *)
Return(c) ==
    /\ stage[c] = "collected" /\ AllDone(c)
    /\ stage' = [stage EXCEPT ![c] = "returned"]
    /\ cache' = IF c \in Batch THEN Remembered(c) ELSE cache
    /\ UNCHANGED <<results, events, returned, overlapped>>
    /\ OfCollector

Proceed(c) == Route(c) \/ Expire(c) \/ Collect(c) \/ Return(c)

Next == \E c \in Calls : Submit(c) \/ Proceed(c)

(* Threads run, and adapters answer in the end.                             *)
Spec == Init /\ [][Next]_vars /\ \A c \in Calls : WF_vars(Proceed(c))
-----------------------------------------------------------------------------
(* The verdict on a route is final: neither the late answer of an executor  *)
(* that was timed out nor the deadline replaces it (:150, :187, :364).      *)
VerdictStays ==
    [][\A c \in Calls, n \in Executors : Settled(c, n) => results'[c][n] = results[c][n]]_vars

(* What fanout returns is one story: every executor has a verdict, and its  *)
(* events end in the one that the verdict says, in none if it was dropped;  *)
(* threads, deadline and flag notwithstanding.                              *)
Terminal(n, trace) == {k \in DOMAIN trace : trace[k].executor = n /\ trace[k].phase # "STARTED"}
Phase(status) == CASE status = "OK" -> "DONE" [] status = "TIMEOUT" -> "TIMEOUT" [] OTHER -> "FAILED"
OneStory ==
    \A c \in Calls : returned[c] # None => \A n \in Executors :
        LET verdict == returned[c].results[n]
            ends == Terminal(n, returned[c].events)
        IN  /\ verdict # None
            /\ verdict = "SKIPPED_FAILFAST" <=> ends = {}
            /\ \A k \in ends : /\ ends = {k}
                               /\ returned[c].events[k].phase = Phase(verdict)

(* "Yielded event list == the payload['events'] of a batch" (:420), but for *)
(* executors that were timed out before their thread had begun: a stream    *)
(* also tells of their start, after the TIMEOUT.                            *)
StreamExtendsBatch ==
    \A c \in Calls : stage[c] = "returned" /\ events[c] # <<>> =>
        LET told == returned[c].events
            all == events[c]
        IN  /\ SubSeq(all, 1, Len(told)) = told
            /\ \A k \in (Len(told) + 1)..Len(all) :
                  /\ all[k].phase = "STARTED"
                  /\ returned[c].results[all[k].executor] = "TIMEOUT"

(* "fail_fast: routes that have not started are dropped": once the flag is  *)
(* set, at most the routes that had looked at it before still begin, one    *)
(* for every other thread of the pool.                                      *)
FailFastBound == \A c \in Calls : lateStarts[c] < workers

(* "A repeated identical fanout returns the cached aggregate": if no two of *)
(* them ran at the same time, only one has called the executors.            *)
NoRespawn == ~overlapped => \A b, d \in Batch : Called(b) /\ Called(d) => b = d

(* With executors that answer, every fan-out returns, and every stream ends. *)
EveryFanoutReturns == \A c \in Calls : stage[c] = "running" ~> stage[c] = "returned"
=============================================================================
