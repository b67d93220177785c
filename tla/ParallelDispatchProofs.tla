----------------------- MODULE ParallelDispatchProofs -----------------------
(* What holds of ParallelDispatch for every number of calls, executors and  *)
(* threads, and however adapters answer.                                    *)
EXTENDS ParallelDispatch, FiniteSetTheorems, TLAPS

Stages == {"new", "running", "expired", "collected", "returned"}
RouteSteps == {"queued", "starting", "dropping", "calling", "answered", "aborting", "done"}
Verdict == Answers \cup {None, "TIMEOUT", "SKIPPED_FAILFAST"}

TypeOK ==
    /\ names \in NameLists
    /\ workers \in 1..MaxWorkers
    /\ stage \in [Calls -> Stages]
    /\ step \in [Calls -> [Executors -> RouteSteps]]
    /\ answer \in [Calls -> [Executors -> Answers \cup {None}]]
    /\ results \in [Calls -> [Executors -> Verdict]]
    /\ abort \in [Calls -> BOOLEAN]
    /\ lateStarts \in [Calls -> Nat]
    /\ \A c \in Calls, n \in Executors : step[c][n] = "answered" => answer[c][n] \in Answers

(* The parts of the routes' steps that the invariants read.                 *)
RouteStep(c, n) ==
    \/ Drop(c, n) \/ Begin(c, n) \/ Answer(c, n) \/ Finish(c, n) \/ Abort(c, n)
-----------------------------------------------------------------------------
(* Moving one route moves no other.                                         *)
LEMMA Moved ==
    ASSUME TypeOK, NEW c \in Calls, NEW n \in Executors, NEW to \in RouteSteps,
           Move(c, n, to), OfRoute
    PROVE  /\ Executors' = Executors
           /\ step' \in [Calls -> [Executors -> RouteSteps]]
           /\ step'[c][n] = to
           /\ \A d \in Calls, m \in Executors : d # c \/ m # n => step'[d][m] = step[d][m]
<1>1. Executors' = Executors BY DEF OfRoute, Executors
<1>2. step \in [Calls -> [Executors -> RouteSteps]] BY DEF TypeOK
<1>3. step' = [step EXCEPT ![c] = [step[c] EXCEPT ![n] = to]] BY DEF Move
<1>4. step' \in [Calls -> [Executors -> RouteSteps]] BY <1>2, <1>3
<1>5. step'[c][n] = to BY <1>2, <1>3
<1>6. \A d \in Calls, m \in Executors : d # c \/ m # n => step'[d][m] = step[d][m]
  BY <1>2, <1>3
<1> QED BY <1>1, <1>4, <1>5, <1>6

(* Giving one route a verdict leaves the others theirs.                     *)
LEMMA SettledOne ==
    ASSUME TypeOK, NEW c \in Calls, NEW n \in Executors, NEW v \in Verdict, Settle(c, n, v)
    PROVE  /\ results' \in [Calls -> [Executors -> Verdict]]
           /\ \A d \in Calls, m \in Executors :
                 d # c \/ m # n => results'[d][m] = results[d][m]
<1>1. results \in [Calls -> [Executors -> Verdict]] BY DEF TypeOK
<1>2. results' = [results EXCEPT ![c] = [results[c] EXCEPT ![n] = v]] BY DEF Settle
<1> QED BY <1>1, <1>2

(* The steps that settle a route settle one that has not been settled.      *)
LEMMA RouteSettles ==
    ASSUME TypeOK, NEW c \in Calls, NEW n \in Executors, RouteStep(c, n)
    PROVE  /\ results' \in [Calls -> [Executors -> Verdict]]
           /\ \A d \in Calls, m \in Executors : Settled(d, m) => results'[d][m] = results[d][m]
<1>1. CASE UNCHANGED results BY <1>1 DEF TypeOK
<1>2. CASE ~Settled(c, n) /\ \E v \in Verdict : Settle(c, n, v)
  <2>1. PICK v \in Verdict : Settle(c, n, v) BY <1>2
  <2> QED BY <1>2, <2>1, SettledOne
<1>3. CASE Drop(c, n)
  BY <1>1, <1>2, <1>3 DEF Drop, Verdict
<1>4. CASE Finish(c, n)
  <2>1. step[c][n] = "answered" BY <1>4 DEF Finish
  <2>2. answer[c][n] \in Verdict BY <2>1 DEF TypeOK, Verdict
  <2> QED BY <1>1, <1>2, <1>4, <2>2 DEF Finish
<1>5. CASE Begin(c, n) \/ Answer(c, n) \/ Abort(c, n)
  BY <1>1, <1>5 DEF Begin, Answer, Abort
<1> QED BY <1>3, <1>4, <1>5 DEF RouteStep
-----------------------------------------------------------------------------
(* Each kind of step keeps the types.                                       *)
LEMMA InitTypes == Init => TypeOK
BY DEF Init, TypeOK, Stages, RouteSteps, Verdict

LEMMA StutterTypes == TypeOK /\ UNCHANGED vars => TypeOK'
<1> SUFFICES ASSUME TypeOK, UNCHANGED vars PROVE TypeOK' OBVIOUS
<1>1. Executors' = Executors BY DEF vars, Executors
<1> QED BY <1>1 DEF TypeOK, vars

LEMMA TakeTypes ==
    ASSUME TypeOK, NEW c \in Calls, NEW k \in DOMAIN names, Take(c, k), OfRoute
    PROVE  TypeOK'
<1>1. names[k] \in Executors BY DEF Executors
<1>2. Move(c, names[k], IF MayStart(c) THEN "starting" ELSE "dropping") BY DEF Take
<1>3. /\ Executors' = Executors
      /\ step' \in [Calls -> [Executors -> RouteSteps]]
      /\ step'[c][names[k]] # "answered"
      /\ \A d \in Calls, m \in Executors :
            d # c \/ m # names[k] => step'[d][m] = step[d][m]
  <2>1. CASE MayStart(c)
    <3>1. Move(c, names[k], "starting") /\ "starting" \in RouteSteps
      BY <1>2, <2>1 DEF RouteSteps
    <3> QED BY <1>1, <3>1, Moved
  <2>2. CASE ~MayStart(c)
    <3>1. Move(c, names[k], "dropping") /\ "dropping" \in RouteSteps
      BY <1>2, <2>2 DEF RouteSteps
    <3> QED BY <1>1, <3>1, Moved
  <2> QED BY <2>1, <2>2
<1>4. UNCHANGED <<names, workers, stage, answer, results, abort, lateStarts>>
  BY DEF Take, OfRoute
<1>5. \A d \in Calls, m \in Executors' : step'[d][m] = "answered" => answer'[d][m] \in Answers
  BY <1>3, <1>4 DEF TypeOK
<1> QED BY <1>3, <1>4, <1>5 DEF TypeOK

(* Where a route goes, and the answer it is given on the way.               *)
LEMMA RouteMoves ==
    ASSUME TypeOK, NEW c \in Calls, NEW n \in Executors, RouteStep(c, n)
    PROVE  \E to \in RouteSteps :
              /\ Move(c, n, to)
              /\ to \notin {"queued", "starting"}
              /\ to = "answered" => Answer(c, n)
<1>1. CASE Drop(c, n) \/ Begin(c, n) \/ Answer(c, n) \/ Abort(c, n)
  BY <1>1 DEF Drop, Begin, Answer, Abort, RouteSteps
<1>2. CASE Finish(c, n)
  <2>1. CASE Settled(c, n)
    BY <1>2, <2>1 DEF Finish, RouteSteps
  <2>2. CASE ~Settled(c, n) /\ answer[c][n] \in HARD_FAILURE_STATUSES /\ settings.failFast
    BY <1>2, <2>2 DEF Finish, RouteSteps
  <2>3. CASE ~Settled(c, n) /\ ~(answer[c][n] \in HARD_FAILURE_STATUSES /\ settings.failFast)
    BY <1>2, <2>3 DEF Finish, RouteSteps
  <2> QED BY <2>1, <2>2, <2>3
<1> QED BY <1>1, <1>2 DEF RouteStep

LEMMA RouteAnswers ==
    ASSUME TypeOK, NEW c \in Calls, NEW n \in Executors, RouteStep(c, n)
    PROVE  /\ answer' \in [Calls -> [Executors -> Answers \cup {None}]]
           /\ \A d \in Calls, m \in Executors :
                 d # c \/ m # n => answer'[d][m] = answer[d][m]
           /\ Answer(c, n) => answer'[c][n] \in Answers
<1>1. answer \in [Calls -> [Executors -> Answers \cup {None}]] BY DEF TypeOK
<1>2. CASE Answer(c, n)
  <2>1. PICK status \in Answers : answer' = [answer EXCEPT ![c] = [answer[c] EXCEPT ![n] = status]]
    BY <1>2 DEF Answer
  <2> QED BY <1>1, <2>1
<1>3. CASE ~Answer(c, n)
  BY <1>1, <1>3 DEF RouteStep, Drop, Begin, Finish, Abort
<1> QED BY <1>2, <1>3

LEMMA RouteFlags ==
    ASSUME TypeOK, NEW c \in Calls, NEW n \in Executors, RouteStep(c, n)
    PROVE  abort' \in [Calls -> BOOLEAN] /\ lateStarts' \in [Calls -> Nat]
<1>1. abort \in [Calls -> BOOLEAN] /\ lateStarts \in [Calls -> Nat] BY DEF TypeOK
<1>2. CASE Begin(c, n) BY <1>1, <1>2 DEF Begin
<1>3. CASE Abort(c, n) BY <1>1, <1>3 DEF Abort
<1>4. CASE Drop(c, n) \/ Answer(c, n) \/ Finish(c, n)
  BY <1>1, <1>4 DEF Drop, Answer, Finish
<1> QED BY <1>2, <1>3, <1>4 DEF RouteStep

LEMMA RouteTypes ==
    ASSUME TypeOK, NEW c \in Calls, NEW n \in Executors, RouteStep(c, n), OfRoute
    PROVE  TypeOK'
<1>1. PICK to \in RouteSteps : /\ Move(c, n, to)
                               /\ to = "answered" => Answer(c, n)
  BY RouteMoves
<1>2. /\ Executors' = Executors
      /\ step' \in [Calls -> [Executors -> RouteSteps]]
      /\ step'[c][n] = to
      /\ \A d \in Calls, m \in Executors : d # c \/ m # n => step'[d][m] = step[d][m]
  BY <1>1, Moved
<1>3. results' \in [Calls -> [Executors -> Verdict]] BY RouteSettles
<1>4. /\ answer' \in [Calls -> [Executors -> Answers \cup {None}]]
      /\ \A d \in Calls, m \in Executors : d # c \/ m # n => answer'[d][m] = answer[d][m]
      /\ Answer(c, n) => answer'[c][n] \in Answers
  BY RouteAnswers
<1>5. abort' \in [Calls -> BOOLEAN] /\ lateStarts' \in [Calls -> Nat] BY RouteFlags
<1>6. UNCHANGED <<names, workers, stage>> BY DEF OfRoute
<1>7. \A d \in Calls, m \in Executors' : step'[d][m] = "answered" => answer'[d][m] \in Answers
  <2> SUFFICES ASSUME NEW d \in Calls, NEW m \in Executors, step'[d][m] = "answered"
               PROVE  answer'[d][m] \in Answers
    BY <1>2
  <2>1. CASE d = c /\ m = n BY <1>1, <1>2, <1>4, <2>1
  <2>2. CASE d # c \/ m # n BY <1>2, <1>4, <2>2 DEF TypeOK
  <2> QED BY <2>1, <2>2
<1> QED BY <1>2, <1>3, <1>4, <1>5, <1>6, <1>7 DEF TypeOK

(* The collector moves its stage and nothing of the routes but verdicts.    *)
CollectorStep(c) == Submit(c) \/ Expire(c) \/ Collect(c) \/ Return(c)

LEMMA CollectorKeepsRoutes ==
    ASSUME NEW c \in Calls, CollectorStep(c)
    PROVE  /\ UNCHANGED <<names, workers, step, answer, abort, lateStarts>>
           /\ Executors' = Executors
<1>1. UNCHANGED <<names, workers, step, answer, abort, lateStarts>>
  BY DEF CollectorStep, Submit, Expire, Collect, Return, OfCollector
<1> QED BY <1>1 DEF Executors

LEMMA CollectorSettles ==
    ASSUME TypeOK, NEW c \in Calls, CollectorStep(c)
    PROVE  /\ results' \in [Calls -> [Executors -> Verdict]]
           /\ \A d \in Calls, m \in Executors : Settled(d, m) => results'[d][m] = results[d][m]
<1>1. results \in [Calls -> [Executors -> Verdict]] BY DEF TypeOK
<1>2. CASE Expire(c)
  <2>1. results' = [results EXCEPT ![c] = [n \in Executors |->
                        IF Settled(c, n) THEN results[c][n] ELSE "TIMEOUT"]]
    BY <1>2 DEF Expire
  <2> QED BY <1>1, <2>1 DEF Verdict
<1>3. CASE ~Expire(c)
  BY <1>1, <1>3 DEF CollectorStep, Submit, Collect, Return
<1> QED BY <1>2, <1>3

LEMMA CollectorTypes ==
    ASSUME TypeOK, NEW c \in Calls, CollectorStep(c)
    PROVE  TypeOK'
<1>1. /\ UNCHANGED <<names, workers, step, answer, abort, lateStarts>>
      /\ Executors' = Executors
  BY CollectorKeepsRoutes
<1>2. results' \in [Calls -> [Executors -> Verdict]] BY CollectorSettles
<1>3. stage' \in [Calls -> Stages]
  BY DEF TypeOK, Stages, CollectorStep, Submit, Expire, Collect, Return
<1> QED BY <1>1, <1>2, <1>3 DEF TypeOK

(* A step of the system is a step of one thread.                            *)
LEMMA StepKinds ==
    ASSUME Next
    PROVE  \E c \in Calls :
              \/ CollectorStep(c)
              \/ \E k \in DOMAIN names : Take(c, k) /\ OfRoute
              \/ \E n \in Executors : RouteStep(c, n) /\ OfRoute
BY DEF Next, Proceed, Route, CollectorStep, RouteStep

LEMMA StepTypes == TypeOK /\ [Next]_vars => TypeOK'
<1> SUFFICES ASSUME TypeOK, [Next]_vars PROVE TypeOK' OBVIOUS
<1>1. CASE UNCHANGED vars BY <1>1, StutterTypes
<1>2. CASE Next
  <2>1. PICK c \in Calls :
              \/ CollectorStep(c)
              \/ \E k \in DOMAIN names : Take(c, k) /\ OfRoute
              \/ \E n \in Executors : RouteStep(c, n) /\ OfRoute
    BY <1>2, StepKinds
  <2>2. CASE CollectorStep(c) BY <2>2, CollectorTypes
  <2>3. CASE \E k \in DOMAIN names : Take(c, k) /\ OfRoute BY <2>3, TakeTypes
  <2>4. CASE \E n \in Executors : RouteStep(c, n) /\ OfRoute BY <2>4, RouteTypes
  <2> QED BY <2>1, <2>2, <2>3, <2>4
<1> QED BY <1>1, <1>2

LEMMA TypesKept == Spec => []TypeOK
BY InitTypes, StepTypes, PTL DEF Spec
-----------------------------------------------------------------------------
(* A verdict is final, whichever of the late answer, the deadline and the   *)
(* flag comes after it: every thread asks, under the lock, whether the      *)
(* route is settled (parallel_dispatch.py:143, 190, 367).                   *)
LEMMA StepKeepsVerdicts ==
    ASSUME TypeOK, [Next]_vars
    PROVE  \A c \in Calls, n \in Executors : Settled(c, n) => results'[c][n] = results[c][n]
<1>1. CASE UNCHANGED vars BY <1>1 DEF vars
<1>2. CASE Next
  <2>1. PICK c \in Calls :
              \/ CollectorStep(c)
              \/ \E k \in DOMAIN names : Take(c, k) /\ OfRoute
              \/ \E n \in Executors : RouteStep(c, n) /\ OfRoute
    BY <1>2, StepKinds
  <2>2. CASE CollectorStep(c) BY <2>2, CollectorSettles
  <2>3. CASE \E k \in DOMAIN names : Take(c, k) /\ OfRoute BY <2>3 DEF Take
  <2>4. CASE \E n \in Executors : RouteStep(c, n) /\ OfRoute BY <2>4, RouteSettles
  <2> QED BY <2>1, <2>2, <2>3, <2>4
<1> QED BY <1>1, <1>2

(* The verdict on a route never changes, for any number of calls, routes    *)
(* and threads (parallel_dispatch.py: _route_task and _run_routes).         *)
THEOREM VerdictIsFinal == Spec => VerdictStays
<1>1. TypeOK /\ [Next]_vars =>
        [\A c \in Calls, n \in Executors : Settled(c, n) => results'[c][n] = results[c][n]]_vars
  BY StepKeepsVerdicts
<1> QED BY <1>1, TypesKept, PTL DEF Spec, VerdictStays
-----------------------------------------------------------------------------
(* Which calls of fanout have gone past the cache.                          *)
Past(c) == Running(c) \/ Called(c)

OnePast ==
    /\ \A c \in Calls : stage[c] = "new" => ~Called(c)
    /\ \A b \in Batch : stage[b] = "returned" => cache # {}
    /\ ~overlapped => \A b, d \in Batch : Past(b) /\ Past(d) => b = d

LEMMA InitPast == Init => OnePast
BY DEF Init, OnePast, Past, Running, Called, Calls

(* A route that moves belongs to a call that is running.                    *)
LEMMA RouteKeepsPast ==
    ASSUME TypeOK, OnePast, NEW c \in Calls, NEW n \in Executors, NEW to \in RouteSteps,
           Move(c, n, to), OfRoute, Past(c), stage[c] # "new"
    PROVE  OnePast'
<1>1. /\ Executors' = Executors
      /\ \A d \in Calls, m \in Executors : d # c \/ m # n => step'[d][m] = step[d][m]
  BY Moved
<1>2. UNCHANGED <<stage, cache, overlapped>> BY DEF OfRoute
<1>3. \A d \in Calls : d # c => (Called(d)' <=> Called(d)) BY <1>1 DEF Called
<1>4. \A d \in Calls : Past(d)' => Past(d)
  <2> SUFFICES ASSUME NEW d \in Calls, Past(d)' PROVE Past(d) OBVIOUS
  <2>1. CASE d = c BY <2>1
  <2>2. CASE d # c BY <1>2, <1>3, <2>2 DEF Past, Running
  <2> QED BY <2>1, <2>2
<1>5. Batch \subseteq Calls BY DEF Calls
<1>6. \A d \in Calls : stage'[d] = "new" => ~Called(d)'
  BY <1>2, <1>3 DEF OnePast
<1>7. \A b \in Batch : stage'[b] = "returned" => cache' # {} BY <1>2 DEF OnePast
<1>8. ~overlapped' => \A b, d \in Batch : Past(b)' /\ Past(d)' => b = d
  BY <1>2, <1>4, <1>5 DEF OnePast
<1> QED BY <1>6, <1>7, <1>8 DEF OnePast

LEMMA RouteIsPast ==
    ASSUME TypeOK, OnePast, NEW c \in Calls, NEW n \in Executors, RouteStep(c, n)
    PROVE  Past(c) /\ stage[c] # "new"
<1>1. step[c][n] # "queued" BY DEF RouteStep, Drop, Begin, Answer, Finish, Abort
<1>2. Called(c) BY <1>1 DEF Called
<1> QED BY <1>2 DEF Past, OnePast

LEMMA CollectorKeepsPast ==
    ASSUME TypeOK, OnePast, NEW c \in Calls, CollectorStep(c)
    PROVE  OnePast'
<1>1. Batch \subseteq Calls BY DEF Calls
<1>2. \A d \in Calls : Called(d)' <=> Called(d) BY CollectorKeepsRoutes DEF Called
<1>3. stage \in [Calls -> Stages] BY DEF TypeOK
<1>4. CASE Submit(c) /\ stage' = [stage EXCEPT ![c] = "returned"]
  <2>1. stage[c] = "new" /\ cache' = cache BY <1>4 DEF Submit
  <2>2. c \in Batch /\ overlapped' = overlapped /\ cache # {}
    <3>1. stage' # [stage EXCEPT ![c] = "running"] BY <1>3, <1>4
    <3> QED BY <1>4, <3>1 DEF Submit
  <2>3. \A d \in Calls : Past(d)' => Past(d) BY <1>2, <1>3, <1>4 DEF Past, Running
  <2>4. \A d \in Calls : stage'[d] = "new" => ~Called(d)' BY <1>2, <1>3, <1>4 DEF OnePast
  <2>5. \A b \in Batch : stage'[b] = "returned" => cache' # {} BY <2>1, <2>2
  <2>6. ~overlapped' => \A b, d \in Batch : Past(b)' /\ Past(d)' => b = d
    BY <1>1, <2>2, <2>3 DEF OnePast
  <2> QED BY <2>4, <2>5, <2>6 DEF OnePast
<1>5. CASE Submit(c) /\ stage' # [stage EXCEPT ![c] = "returned"]
  <2>1. /\ stage' = [stage EXCEPT ![c] = "running"]
        /\ c \in Batch => cache = {}
        /\ overlapped' = (overlapped \/ (c \in Batch /\ \E d \in Batch : Running(d)))
        /\ cache' = cache
    BY <1>5 DEF Submit
  <2>2. \A d \in Calls : d # c => stage'[d] = stage[d] BY <1>3, <2>1
  <2>3. stage'[c] = "running" BY <1>3, <2>1
  <2>4. \A d \in Calls : d # c => (Past(d)' <=> Past(d)) BY <1>2, <2>2 DEF Past, Running
  <2>5. \A d \in Calls : stage'[d] = "new" => ~Called(d)' BY <1>2, <2>2, <2>3 DEF OnePast
  <2>6. \A b \in Batch : stage'[b] = "returned" => cache' # {}
    BY <1>1, <2>1, <2>2, <2>3 DEF OnePast
  <2>7. ~overlapped' => \A b, d \in Batch : Past(b)' /\ Past(d)' => b = d
    <3> SUFFICES ASSUME ~overlapped', NEW b \in Batch, NEW d \in Batch, Past(b)', Past(d)'
                 PROVE  b = d
      OBVIOUS
    <3>1. ~overlapped BY <2>1
    <3>2. c \in Batch => \A e \in Batch : ~Past(e)
      <4> SUFFICES ASSUME c \in Batch, NEW e \in Batch, Past(e) PROVE FALSE OBVIOUS
      <4>1. ~Running(e) BY <2>1
      <4>2. Called(e) BY <4>1 DEF Past
      <4>3. stage[e] # "new" BY <1>1, <4>2 DEF OnePast
      <4>4. stage[e] = "returned" BY <4>1, <4>3 DEF Running
      <4> QED BY <2>1, <4>4 DEF OnePast
    <3>3. CASE c \in Batch
      <4>1. b = c BY <1>1, <2>4, <3>2, <3>3
      <4>2. d = c BY <1>1, <2>4, <3>2, <3>3
      <4> QED BY <4>1, <4>2
    <3>4. CASE c \notin Batch
      <4>1. Past(b) /\ Past(d) BY <1>1, <2>4, <3>4
      <4> QED BY <3>1, <4>1 DEF OnePast
    <3> QED BY <3>3, <3>4
  <2> QED BY <2>5, <2>6, <2>7 DEF OnePast
<1>6. CASE Return(c)
  <2>1. /\ stage[c] = "collected" /\ overlapped' = overlapped
        /\ stage' = [stage EXCEPT ![c] = "returned"]
        /\ cache' = IF c \in Batch THEN {returned[c]} ELSE cache
    BY <1>6 DEF Return, Remembered
  <2>2. \A d \in Calls : Past(d)' => Past(d) BY <1>2, <1>3, <2>1 DEF Past, Running
  <2>3. \A d \in Calls : stage'[d] = "new" => ~Called(d)' BY <1>2, <1>3, <2>1 DEF OnePast
  <2>4. \A b \in Batch : stage'[b] = "returned" => cache' # {}
    BY <1>1, <1>3, <2>1 DEF OnePast
  <2>5. ~overlapped' => \A b, d \in Batch : Past(b)' /\ Past(d)' => b = d
    BY <1>1, <2>1, <2>2 DEF OnePast
  <2> QED BY <2>3, <2>4, <2>5 DEF OnePast
<1>7. CASE Expire(c) \/ Collect(c)
  <2>1. PICK to \in {"expired", "collected"} : stage' = [stage EXCEPT ![c] = to]
    BY <1>7 DEF Expire, Collect
  <2>2. /\ stage[c] \in {"running", "expired"}
        /\ UNCHANGED <<cache, overlapped>>
    BY <1>7 DEF Expire, Collect
  <2>3. \A d \in Calls : Past(d)' => Past(d) BY <1>2, <1>3, <2>1, <2>2 DEF Past, Running
  <2>4. \A d \in Calls : stage'[d] = "new" => ~Called(d)' BY <1>2, <1>3, <2>1 DEF OnePast
  <2>5. \A b \in Batch : stage'[b] = "returned" => cache' # {}
    BY <1>1, <1>3, <2>1, <2>2 DEF OnePast
  <2>6. ~overlapped' => \A b, d \in Batch : Past(b)' /\ Past(d)' => b = d
    BY <1>1, <2>2, <2>3 DEF OnePast
  <2> QED BY <2>4, <2>5, <2>6 DEF OnePast
<1> QED BY <1>4, <1>5, <1>6, <1>7 DEF CollectorStep

LEMMA StepPast == TypeOK /\ OnePast /\ [Next]_vars => OnePast'
<1> SUFFICES ASSUME TypeOK, OnePast, [Next]_vars PROVE OnePast' OBVIOUS
<1>1. CASE UNCHANGED vars
  BY <1>1 DEF OnePast, Past, Running, Called, Executors, vars
<1>2. CASE Next
  <2>1. PICK c \in Calls :
              \/ CollectorStep(c)
              \/ \E k \in DOMAIN names : Take(c, k) /\ OfRoute
              \/ \E n \in Executors : RouteStep(c, n) /\ OfRoute
    BY <1>2, StepKinds
  <2>2. CASE CollectorStep(c) BY <2>2, CollectorKeepsPast
  <2>3. CASE \E k \in DOMAIN names : Take(c, k) /\ OfRoute
    <3>1. PICK k \in DOMAIN names : Take(c, k) /\ OfRoute BY <2>3
    <3>2. names[k] \in Executors BY DEF Executors
    <3>3. Past(c) /\ stage[c] # "new" BY <3>1 DEF Take, Past, Running
    <3>4. PICK to \in RouteSteps : Move(c, names[k], to)
      BY <3>1 DEF Take, RouteSteps
    <3> QED BY <3>1, <3>2, <3>3, <3>4, RouteKeepsPast
  <2>4. CASE \E n \in Executors : RouteStep(c, n) /\ OfRoute
    <3>1. PICK n \in Executors : RouteStep(c, n) /\ OfRoute BY <2>4
    <3>2. PICK to \in RouteSteps : Move(c, n, to) BY <3>1, RouteMoves
    <3>3. Past(c) /\ stage[c] # "new" BY <3>1, RouteIsPast
    <3> QED BY <3>1, <3>2, <3>3, RouteKeepsPast
  <2> QED BY <2>1, <2>2, <2>3, <2>4
<1> QED BY <1>1, <1>2

(* If no two identical calls of fanout ran at the same time, one of them    *)
(* alone has called executors, however many there were                      *)
(* (parallel_dispatch.py:303-306, 317).                                     *)
THEOREM CacheSparesCalls == Spec => []NoRespawn
<1>1. OnePast => NoRespawn BY DEF OnePast, NoRespawn, Past
<1> QED BY <1>1, InitPast, StepPast, TypesKept, PTL DEF Spec
-----------------------------------------------------------------------------
(* The routes that have looked at the flag and not yet begun are busy       *)
(* threads, and so is the one that sets the flag.                           *)
Starting(c) == {n \in Executors : step[c][n] = "starting"}

PoolIsBounded == \A c \in Calls : Cardinality(Busy(c)) <= workers
FewLateStarts ==
    \A c \in Calls : /\ ~abort[c] => lateStarts[c] = 0
                     /\ abort[c] => lateStarts[c] + Cardinality(Starting(c)) < workers

LEMMA FiniteThreads ==
    ASSUME TypeOK, NEW c \in Calls
    PROVE  /\ IsFiniteSet(Executors) /\ IsFiniteSet(Busy(c)) /\ IsFiniteSet(Starting(c))
           /\ Starting(c) \subseteq Busy(c)
           /\ Cardinality(Busy(c)) \in Nat
           /\ Cardinality(Starting(c)) \in Nat
           /\ workers \in Nat \ {0}
<1>1. names \in Seq(STRING) BY NamesAreApart DEF TypeOK
<1>2. PICK k \in Nat : DOMAIN names = 1..k BY <1>1
<1>3. IsFiniteSet(1..k) BY <1>2, FS_Interval
<1>4. names \in Surjection(1..k, Executors) BY <1>1, <1>2 DEF Surjection, Executors
<1>5. IsFiniteSet(Executors) BY <1>3, <1>4, FS_Surjection
<1>6. Busy(c) \subseteq Executors /\ Starting(c) \subseteq Busy(c) BY DEF Busy, Starting
<1>7. IsFiniteSet(Busy(c)) /\ IsFiniteSet(Starting(c)) BY <1>5, <1>6, FS_Subset
<1>8. Cardinality(Busy(c)) \in Nat /\ Cardinality(Starting(c)) \in Nat
  BY <1>7, FS_CardinalityType
<1>9. workers \in Nat \ {0} BY BoundsAreNat DEF TypeOK
<1> QED BY <1>5, <1>6, <1>7, <1>8, <1>9

LEMMA InitFewLateStarts == Init => PoolIsBounded /\ FewLateStarts
<1> SUFFICES ASSUME Init PROVE PoolIsBounded /\ FewLateStarts OBVIOUS
<1>1. TypeOK BY InitTypes
<1>2. \A c \in Calls : Busy(c) = {} /\ ~abort[c] /\ lateStarts[c] = 0 BY DEF Init, Busy
<1>3. Cardinality({}) = 0 BY FS_EmptySet
<1>4. \A c \in Calls : workers \in Nat BY <1>1, FiniteThreads
<1> QED BY <1>2, <1>3, <1>4 DEF PoolIsBounded, FewLateStarts

(* The other calls' threads stay where they are.                            *)
LEMMA OthersStay ==
    ASSUME TypeOK, NEW c \in Calls, NEW n \in Executors, NEW to \in RouteSteps,
           Move(c, n, to), OfRoute
    PROVE  \A d \in Calls : d # c => Busy(d)' = Busy(d) /\ Starting(d)' = Starting(d)
BY Moved DEF Busy, Starting

LEMMA TakeKeepsFew ==
    ASSUME TypeOK, PoolIsBounded, FewLateStarts,
           NEW c \in Calls, NEW k \in DOMAIN names, Take(c, k), OfRoute
    PROVE  PoolIsBounded' /\ FewLateStarts'
<1> DEFINE n == names[k]
<1>1. n \in Executors BY DEF Executors
<1>2. PICK to \in {"starting", "dropping"} :
         Move(c, n, to) /\ (abort[c] => to = "dropping")
  BY DEF Take, MayStart
<1>3. to \in RouteSteps BY DEF RouteSteps
<1>4. UNCHANGED <<workers, abort, lateStarts>> BY DEF Take, OfRoute
<1>5. /\ Executors' = Executors /\ step'[c][n] = to
      /\ \A m \in Executors : m # n => step'[c][m] = step[c][m]
  BY <1>1, <1>2, <1>3, Moved
<1>6. \A d \in Calls : d # c => Busy(d)' = Busy(d) /\ Starting(d)' = Starting(d)
  BY <1>1, <1>2, <1>3, OthersStay
<1>7. step[c][n] = "queued" /\ Cardinality(Busy(c)) < workers BY DEF Take, FirstInLine
<1>8. Busy(c)' = Busy(c) \cup {n} BY <1>1, <1>5 DEF Busy
<1>9. Cardinality(Busy(c)') <= workers'
  <2>1. n \notin Busy(c) BY <1>7 DEF Busy
  <2>2. IsFiniteSet(Busy(c)) /\ Cardinality(Busy(c)) \in Nat /\ workers \in Nat
    BY FiniteThreads
  <2>3. Cardinality(Busy(c) \cup {n}) = Cardinality(Busy(c)) + 1 BY <2>1, <2>2, FS_AddElement
  <2> QED BY <1>4, <1>7, <1>8, <2>2, <2>3
<1>10. abort[c] => Starting(c)' = Starting(c) BY <1>2, <1>5, <1>7 DEF Starting
<1>11. PoolIsBounded' BY <1>4, <1>6, <1>9 DEF PoolIsBounded
<1>12. FewLateStarts' BY <1>4, <1>6, <1>10 DEF FewLateStarts
<1> QED BY <1>11, <1>12

LEMMA RouteKeepsFew ==
    ASSUME TypeOK, PoolIsBounded, FewLateStarts,
           NEW c \in Calls, NEW n \in Executors, RouteStep(c, n), OfRoute
    PROVE  PoolIsBounded' /\ FewLateStarts'
<1>1. PICK to \in RouteSteps : Move(c, n, to) /\ to \notin {"queued", "starting"}
  BY RouteMoves
<1>2. /\ Executors' = Executors /\ step'[c][n] = to
      /\ \A m \in Executors : m # n => step'[c][m] = step[c][m]
  BY <1>1, Moved
<1>3. \A d \in Calls : d # c => Busy(d)' = Busy(d) /\ Starting(d)' = Starting(d)
  BY <1>1, OthersStay
<1>4. workers' = workers BY DEF OfRoute
<1>5. step[c][n] \notin {"queued", "done"} BY DEF RouteStep, Drop, Begin, Answer, Finish, Abort
<1>6. Busy(c)' \subseteq Busy(c) BY <1>2, <1>5 DEF Busy
<1>7. Starting(c)' = Starting(c) \ {n} BY <1>1, <1>2 DEF Starting
<1>8. /\ IsFiniteSet(Busy(c)) /\ Cardinality(Busy(c)) \in Nat /\ workers \in Nat \ {0}
      /\ IsFiniteSet(Starting(c)) /\ Cardinality(Starting(c)) \in Nat
      /\ Starting(c) \subseteq Busy(c)
  BY FiniteThreads
<1>9. Cardinality(Busy(c)') <= Cardinality(Busy(c)) /\ Cardinality(Busy(c)') \in Nat
  BY <1>6, <1>8, FS_Subset, FS_CardinalityType
<1>10. PoolIsBounded' BY <1>3, <1>4, <1>8, <1>9 DEF PoolIsBounded
<1>11. abort \in [Calls -> BOOLEAN] /\ lateStarts \in [Calls -> Nat] BY DEF TypeOK
<1>12. \A d \in Calls : d # c => abort'[d] = abort[d] /\ lateStarts'[d] = lateStarts[d]
  BY <1>11 DEF RouteStep, Drop, Begin, Answer, Finish, Abort
<1>13. /\ ~abort'[c] => lateStarts'[c] = 0
       /\ abort'[c] => lateStarts'[c] + Cardinality(Starting(c)') < workers
  <2>1. CASE Begin(c, n)
    <3>1. n \in Starting(c) /\ abort' = abort BY <2>1 DEF Begin, Starting
    <3>2. lateStarts'[c] = lateStarts[c] + IF abort[c] THEN 1 ELSE 0
      BY <1>11, <2>1 DEF Begin
    <3>3. Cardinality(Starting(c)') = Cardinality(Starting(c)) - 1
      BY <1>7, <1>8, <3>1, FS_RemoveElement
    <3>4. CASE abort[c]
      <4>1. lateStarts[c] + Cardinality(Starting(c)) < workers BY <3>4 DEF FewLateStarts
      <4>2. lateStarts[c] \in Nat BY <1>11
      <4> QED BY <1>8, <3>1, <3>2, <3>3, <3>4, <4>1, <4>2
    <3>5. CASE ~abort[c] BY <3>1, <3>2, <3>5 DEF FewLateStarts
    <3> QED BY <3>4, <3>5
  <2>2. CASE Abort(c, n)
    <3>1. n \in Busy(c) \ Starting(c) BY <2>2 DEF Abort, Busy, Starting
    <3>2. Starting(c)' = Starting(c) BY <1>7, <3>1
    <3>3. abort'[c] /\ lateStarts' = lateStarts BY <1>11, <2>2 DEF Abort
    <3>4. CASE abort[c] BY <3>2, <3>3, <3>4 DEF FewLateStarts
    <3>5. CASE ~abort[c]
      <4>1. lateStarts[c] = 0 BY <3>5 DEF FewLateStarts
      <4>2. IsFiniteSet(Busy(c) \ {n}) /\ Cardinality(Busy(c) \ {n}) = Cardinality(Busy(c)) - 1
        BY <1>8, <3>1, FS_RemoveElement
      <4>3. Starting(c) \subseteq Busy(c) \ {n} BY <1>8, <3>1
      <4>4. Cardinality(Starting(c)) <= Cardinality(Busy(c)) - 1 BY <4>2, <4>3, FS_Subset
      <4>5. Cardinality(Busy(c)) <= workers BY DEF PoolIsBounded
      <4> QED BY <1>8, <3>2, <3>3, <4>1, <4>4, <4>5
    <3> QED BY <3>4, <3>5
  <2>3. CASE Drop(c, n) \/ Answer(c, n) \/ Finish(c, n)
    <3>1. n \notin Starting(c) /\ UNCHANGED <<abort, lateStarts>>
      BY <2>3 DEF Drop, Answer, Finish, Starting
    <3>2. Starting(c)' = Starting(c) BY <1>7, <3>1
    <3> QED BY <3>1, <3>2 DEF FewLateStarts
  <2> QED BY <2>1, <2>2, <2>3 DEF RouteStep
<1>14. FewLateStarts' BY <1>3, <1>4, <1>12, <1>13 DEF FewLateStarts
<1> QED BY <1>10, <1>14

LEMMA StepKeepsFew ==
    TypeOK /\ PoolIsBounded /\ FewLateStarts /\ [Next]_vars => PoolIsBounded' /\ FewLateStarts'
<1> SUFFICES ASSUME TypeOK, PoolIsBounded, FewLateStarts, [Next]_vars
             PROVE  PoolIsBounded' /\ FewLateStarts'
  OBVIOUS
<1>1. ASSUME UNCHANGED <<names, workers, step, abort, lateStarts>>
      PROVE  PoolIsBounded' /\ FewLateStarts'
  <2>1. \A c \in Calls : Busy(c)' = Busy(c) /\ Starting(c)' = Starting(c)
    BY <1>1 DEF Busy, Starting, Executors
  <2> QED BY <1>1, <2>1 DEF PoolIsBounded, FewLateStarts
<1>2. CASE UNCHANGED vars BY <1>1, <1>2 DEF vars
<1>3. CASE Next
  <2>1. PICK c \in Calls :
              \/ CollectorStep(c)
              \/ \E k \in DOMAIN names : Take(c, k) /\ OfRoute
              \/ \E n \in Executors : RouteStep(c, n) /\ OfRoute
    BY <1>3, StepKinds
  <2>2. CASE CollectorStep(c) BY <1>1, <2>2, CollectorKeepsRoutes
  <2>3. CASE \E k \in DOMAIN names : Take(c, k) /\ OfRoute BY <2>3, TakeKeepsFew
  <2>4. CASE \E n \in Executors : RouteStep(c, n) /\ OfRoute BY <2>4, RouteKeepsFew
  <2> QED BY <2>1, <2>2, <2>3, <2>4
<1> QED BY <1>2, <1>3

(* However many executors and threads: after the flag is set, fewer routes  *)
(* begin than the pool has threads (parallel_dispatch.py:141, 200-201).     *)
THEOREM FailFastHolds == Spec => []FailFastBound
<1>1. TypeOK /\ PoolIsBounded /\ FewLateStarts => FailFastBound
  <2> SUFFICES ASSUME TypeOK, PoolIsBounded, FewLateStarts, NEW c \in Calls
               PROVE  lateStarts[c] < workers
    BY DEF FailFastBound
  <2>1. workers \in Nat \ {0} /\ Cardinality(Starting(c)) \in Nat BY FiniteThreads
  <2>2. lateStarts[c] \in Nat BY DEF TypeOK
  <2> QED BY <2>1, <2>2 DEF FewLateStarts
<1> QED BY <1>1, InitFewLateStarts, StepKeepsFew, TypesKept, PTL DEF Spec
-----------------------------------------------------------------------------
(* What the results and events of a call tell of one route.                 *)
Records == [executor : Executors, phase : {"STARTED", "DONE", "FAILED", "TIMEOUT"}]
Silent == {None, "SKIPPED_FAILFAST"}

Tells(n, verdict, trace) ==
    /\ verdict \in Silent <=> Terminal(n, trace) = {}
    /\ \A k \in Terminal(n, trace) : /\ Terminal(n, trace) = {k}
                                     /\ trace[k].phase = Phase(verdict)

Whole(r) ==
    /\ r.results \in [Executors -> Verdict \ {None}]
    /\ r.events \in Seq(Records)
    /\ \A n \in Executors : Tells(n, r.results[n], r.events)

(* The route has not come to the point where it asks if it is settled.      *)
Before == {"queued", "starting", "dropping", "calling", "answered"}
Unasked(c, n) == step[c][n] \in Before

(* What a stream has told more than the copy tells: starts of routes that   *)
(* were timed out before.                                                   *)
LateStart(c, k) ==
    /\ events[c][k].phase = "STARTED"
    /\ returned[c].results[events[c][k].executor] = "TIMEOUT"

Extends(c) ==
    /\ Len(returned[c].events) <= Len(events[c])
    /\ \A k \in 1..Len(returned[c].events) : returned[c].events[k] = events[c][k]
    /\ \A k \in (Len(returned[c].events) + 1)..Len(events[c]) : LateStart(c, k)

Telling(c) ==
    /\ events[c] \in Seq(Records)
    /\ \A n \in Executors : Tells(n, results[c][n], events[c])

Copied(c) ==
    /\ stage[c] \notin {"collected", "returned"} => returned[c] = None
    /\ stage[c] \in {"collected", "returned"} => Whole(returned[c])

IsTimedOut(c) ==
    \A n \in Executors : Settled(c, n) /\ (Unasked(c, n) => results[c][n] = "TIMEOUT")

AtStage(c) ==
    /\ stage[c] = "new" =>
          /\ events[c] = <<>>
          /\ \A n \in Executors : step[c][n] = "queued" /\ ~Settled(c, n)
    /\ stage[c] = "running" => \A n \in Executors : Unasked(c, n) <=> ~Settled(c, n)
    /\ stage[c] \in {"expired", "collected"} => IsTimedOut(c)
    /\ stage[c] = "collected" => returned[c].results = results[c] /\ Extends(c)
    /\ stage[c] = "returned" =>
          /\ \A n \in Executors : step[c][n] \in {"queued", "done"}
          /\ events[c] = <<>> \/ Extends(c)

StoryOf(c) == Telling(c) /\ Copied(c) /\ AtStage(c)

StoryInv ==
    /\ events = [c \in Calls |-> events[c]]
    /\ returned = [c \in Calls |-> returned[c]]
    /\ \A c \in Calls : StoryOf(c)
    /\ \A entry \in cache : Whole(entry)

LEMMA InitStory == Init => StoryInv
<1> SUFFICES ASSUME Init PROVE StoryInv OBVIOUS
<1>1. ASSUME NEW c \in Calls PROVE StoryOf(c)
  <2>1. /\ events[c] = <<>> /\ stage[c] = "new" /\ returned[c] = None
        /\ \A n \in Executors : step[c][n] = "queued" /\ results[c][n] = None
    BY DEF Init
  <2>2. \A n \in Executors : Terminal(n, <<>>) = {} BY DEF Terminal
  <2>3. Telling(c) BY <2>1, <2>2 DEF Telling, Tells, Silent
  <2>4. Copied(c) BY <2>1 DEF Copied
  <2>5. AtStage(c) BY <2>1 DEF AtStage, Settled
  <2> QED BY <2>3, <2>4, <2>5 DEF StoryOf
<1> QED BY <1>1 DEF Init, StoryInv

(* An event more, which does not end the route.                             *)
LEMMA TellsOnly ==
    ASSUME NEW n, NEW v, NEW trace \in Seq(Records), NEW e \in Records,
           e.executor # n \/ e.phase = "STARTED", Tells(n, v, trace)
    PROVE  Tells(n, v, Append(trace, e))
<1>1. /\ DOMAIN Append(trace, e) = (DOMAIN trace) \cup {Len(trace) + 1}
      /\ \A k \in DOMAIN trace : Append(trace, e)[k] = trace[k]
      /\ Append(trace, e)[Len(trace) + 1] = e
  OBVIOUS
<1>2. Terminal(n, Append(trace, e)) = Terminal(n, trace) BY <1>1 DEF Terminal
<1>3. \A k \in Terminal(n, trace) : Append(trace, e)[k] = trace[k] BY <1>1 DEF Terminal
<1> QED BY <1>2, <1>3 DEF Tells

(* The event that ends the route, with its verdict.                         *)
LEMMA TellsEnd ==
    ASSUME NEW n, NEW v, NEW trace \in Seq(Records), NEW e \in Records,
           e.executor = n, e.phase # "STARTED", v \notin Silent, e.phase = Phase(v),
           Tells(n, None, trace)
    PROVE  Tells(n, v, Append(trace, e))
<1>1. /\ DOMAIN Append(trace, e) = (DOMAIN trace) \cup {Len(trace) + 1}
      /\ \A k \in DOMAIN trace : Append(trace, e)[k] = trace[k]
      /\ Append(trace, e)[Len(trace) + 1] = e
  OBVIOUS
<1>2. Terminal(n, trace) = {} BY DEF Tells, Silent
<1>3. Terminal(n, Append(trace, e)) = {Len(trace) + 1} BY <1>1, <1>2 DEF Terminal
<1> QED BY <1>1, <1>3 DEF Tells

(* A call of which nothing changes keeps its story.                         *)
LEMMA StoryFrame ==
    ASSUME NEW c \in Calls, StoryOf(c), Executors' = Executors,
           events'[c] = events[c], results'[c] = results[c], stage'[c] = stage[c],
           returned'[c] = returned[c], step'[c] = step[c]
    PROVE  StoryOf(c)'
<1>1. Telling(c)' BY DEF StoryOf, Telling, Records
<1>2. Copied(c)' BY DEF StoryOf, Copied, Whole, Records
<1>3. AtStage(c)'
  BY DEF StoryOf, AtStage, Settled, Unasked, IsTimedOut, Extends, LateStart
<1> QED BY <1>1, <1>2, <1>3 DEF StoryOf
-----------------------------------------------------------------------------
(* Where a call is when one of its routes takes a step.                     *)
LEMMA RouteIsUnderWay ==
    ASSUME NEW c \in Calls, NEW n \in Executors, StoryOf(c), RouteStep(c, n)
    PROVE  stage[c] \notin {"new", "returned"}
<1>1. step[c][n] \notin {"queued", "done"} BY DEF RouteStep, Drop, Begin, Answer, Finish, Abort
<1> QED BY <1>1 DEF StoryOf, AtStage

(* A route goes on and nothing is told.                                     *)
LEMMA RouteWalks ==
    ASSUME TypeOK, NEW c \in Calls, NEW n \in Executors, NEW to \in RouteSteps, StoryOf(c),
           Move(c, n, to), OfRoute, UNCHANGED <<results, events>>,
           stage[c] \notin {"new", "returned"},
           IF to \in Before THEN Unasked(c, n) ELSE Settled(c, n)
    PROVE  StoryOf(c)'
<1>1. /\ Executors' = Executors /\ step'[c][n] = to
      /\ \A m \in Executors : m # n => step'[c][m] = step[c][m]
  BY Moved
<1>2. UNCHANGED <<stage, returned>> BY DEF OfRoute
<1>3. Telling(c)' BY <1>1 DEF StoryOf, Telling, Records
<1>4. Copied(c)' BY <1>1, <1>2 DEF StoryOf, Copied, Whole, Records
<1>5. \A m \in Executors : Settled(c, m)' <=> Settled(c, m) BY DEF Settled
<1>6. \A m \in Executors : Unasked(c, m)' => Unasked(c, m) BY <1>1 DEF Unasked
<1>7. stage[c] = "running" => \A m \in Executors : Unasked(c, m)' <=> ~Settled(c, m)
  BY <1>1 DEF StoryOf, AtStage, Unasked
<1>8. IsTimedOut(c) => IsTimedOut(c)' BY <1>1, <1>5, <1>6 DEF IsTimedOut
<1>9. Extends(c) => Extends(c)' BY <1>2 DEF Extends, LateStart
<1>10. AtStage(c)' BY <1>1, <1>2, <1>5, <1>7, <1>8, <1>9 DEF StoryOf, AtStage
<1> QED BY <1>3, <1>4, <1>10 DEF StoryOf

LEMMA RouteBegins ==
    ASSUME TypeOK, StoryInv, NEW c \in Calls, NEW n \in Executors, Begin(c, n), OfRoute
    PROVE  StoryOf(c)'
<1>1. step[c][n] = "starting" /\ Move(c, n, "calling") /\ results' = results BY DEF Begin
<1>2. /\ Executors' = Executors /\ step'[c][n] = "calling"
      /\ \A m \in Executors : m # n => step'[c][m] = step[c][m]
  BY <1>1, Moved DEF RouteSteps
<1>3. UNCHANGED <<stage, returned>> BY DEF OfRoute
<1> DEFINE e == Event(n, "STARTED")
<1>4. e \in Records /\ e.executor = n /\ e.phase = "STARTED" BY DEF Event, Records
<1>5. StoryOf(c) /\ events[c] \in Seq(Records) BY DEF StoryInv, StoryOf, Telling
<1>6. events'[c] = Append(events[c], e) BY DEF Begin, AppendEvent, StoryInv
<1> HIDE DEF e
<1>7. /\ events'[c] \in Seq(Records)
      /\ Len(events'[c]) = Len(events[c]) + 1
      /\ \A k \in 1..Len(events[c]) : events'[c][k] = events[c][k]
      /\ events'[c][Len(events[c]) + 1] = e
  BY <1>4, <1>5, <1>6
<1>8. Telling(c)'
  <2>1. \A m \in Executors : Tells(m, results[c][m], events[c])
    BY <1>5 DEF StoryOf, Telling
  <2>2. \A m \in Executors : Tells(m, results[c][m], Append(events[c], e))
    BY <1>4, <1>5, <2>1, TellsOnly
  <2> QED BY <1>1, <1>2, <1>6, <1>7, <2>2 DEF Telling, Records
<1>9. Copied(c)' BY <1>2, <1>3, <1>5 DEF StoryOf, Copied, Whole, Records
<1>10. \A m \in Executors : (Unasked(c, m)' <=> Unasked(c, m)) /\ (Settled(c, m)' <=> Settled(c, m))
  BY <1>1, <1>2 DEF Unasked, Before, Settled
<1>11. stage[c] \notin {"new", "returned"}
  BY <1>5, RouteIsUnderWay DEF RouteStep
<1>12. IsTimedOut(c) => IsTimedOut(c)' BY <1>1, <1>2, <1>10 DEF IsTimedOut
<1>13. stage[c] = "collected" => Extends(c)'
  <2> SUFFICES ASSUME stage[c] = "collected" PROVE Extends(c)' OBVIOUS
  <2>1. Extends(c) /\ IsTimedOut(c) /\ returned[c].results = results[c]
    BY <1>5 DEF StoryOf, AtStage
  <2>2. returned[c].results[n] = "TIMEOUT" BY <1>1, <2>1 DEF IsTimedOut, Unasked, Before
  <2>3. Len(returned[c].events) \in Nat /\ Len(events[c]) \in Nat
    BY <1>5 DEF StoryOf, Copied, Whole
  <2>4. \A k \in (Len(returned[c].events) + 1)..Len(events[c]) :
           events'[c][k].phase = "STARTED"
           /\ returned'[c].results[events'[c][k].executor] = "TIMEOUT"
    <3> SUFFICES ASSUME NEW k \in (Len(returned[c].events) + 1)..Len(events[c])
                 PROVE  events'[c][k].phase = "STARTED"
                        /\ returned'[c].results[events'[c][k].executor] = "TIMEOUT"
      OBVIOUS
    <3>1. k \in 1..Len(events[c]) BY <2>3
    <3>2. LateStart(c, k) BY <2>1 DEF Extends
    <3> QED BY <1>3, <1>7, <3>1, <3>2 DEF LateStart
  <2>5. \A k \in 1..Len(returned[c].events) : returned[c].events[k] = events'[c][k]
    BY <1>7, <2>1, <2>3 DEF Extends
  <2>6. Len(returned[c].events) <= Len(events'[c]) BY <1>7, <2>1, <2>3 DEF Extends
  <2>7. ASSUME NEW k \in (Len(returned[c].events) + 1)..Len(events'[c])
        PROVE  LateStart(c, k)'
    <3>1. CASE k = Len(events[c]) + 1
      BY <1>3, <1>4, <1>7, <2>2, <3>1 DEF LateStart
    <3>2. CASE k # Len(events[c]) + 1
      <4>1. k \in (Len(returned[c].events) + 1)..Len(events[c]) BY <1>7, <2>3, <3>2
      <4> QED BY <2>4, <4>1 DEF LateStart
    <3> QED BY <3>1, <3>2
  <2> QED BY <1>3, <2>5, <2>6, <2>7 DEF Extends
<1>14. AtStage(c)'
  BY <1>1, <1>2, <1>3, <1>5, <1>10, <1>11, <1>12, <1>13 DEF StoryOf, AtStage
<1> QED BY <1>8, <1>9, <1>14 DEF StoryOf

(* A route gets its verdict, with the event that the verdict says or, when  *)
(* it was dropped, with none.                                               *)
LEMMA RouteEnds ==
    ASSUME TypeOK, StoryInv, NEW c \in Calls, NEW n \in Executors, NEW v \in Verdict \ {None},
           NEW to \in {"aborting", "done"},
           stage[c] \notin {"new", "returned"}, ~Settled(c, n),
           Settle(c, n, v), Move(c, n, to), OfRoute,
           \/ v = "SKIPPED_FAILFAST" /\ events' = events
           \/ /\ v \notin Silent
              /\ Phase(v) \in {"DONE", "FAILED", "TIMEOUT"}
              /\ AppendEvent(c, n, Phase(v))
    PROVE  StoryOf(c)'
<1>1. /\ Executors' = Executors /\ step'[c][n] = to
      /\ \A m \in Executors : m # n => step'[c][m] = step[c][m]
  BY Moved DEF RouteSteps
<1>2. UNCHANGED <<stage, returned>> BY DEF OfRoute
<1>3. /\ results'[c][n] = v
      /\ \A m \in Executors : m # n => results'[c][m] = results[c][m]
  BY DEF Settle, TypeOK
<1>4. StoryOf(c) /\ events[c] \in Seq(Records) /\ results[c][n] = None
      /\ \A m \in Executors : Tells(m, results[c][m], events[c])
  BY DEF StoryInv, StoryOf, Telling, Settled
<1>5. stage[c] = "running"
  <2>1. stage[c] \notin {"expired", "collected"} BY <1>4 DEF StoryOf, AtStage, IsTimedOut
  <2> QED BY <2>1 DEF TypeOK, Stages
<1>6. Telling(c)'
  <2>1. CASE v = "SKIPPED_FAILFAST" /\ events' = events
    <3>1. Tells(n, v, events[c]) BY <1>4, <2>1 DEF Tells, Silent
    <3> QED BY <1>1, <1>3, <1>4, <2>1, <3>1 DEF Telling, Records
  <2>2. CASE v \notin Silent /\ Phase(v) \in {"DONE", "FAILED", "TIMEOUT"} /\ AppendEvent(c, n, Phase(v))
    <3> DEFINE e == Event(n, Phase(v))
    <3>1. e \in Records /\ e.executor = n /\ e.phase = Phase(v) /\ e.phase # "STARTED"
      BY <2>2 DEF Event, Records
    <3>2. events'[c] = Append(events[c], e) BY <2>2 DEF AppendEvent, StoryInv
    <3> HIDE DEF e
    <3>3. events'[c] \in Seq(Records) BY <1>4, <3>1, <3>2
    <3>4. Tells(n, v, Append(events[c], e)) BY <1>4, <2>2, <3>1, TellsEnd
    <3>5. \A m \in Executors : m # n => Tells(m, results[c][m], Append(events[c], e))
      BY <1>4, <3>1, TellsOnly
    <3> QED BY <1>1, <1>3, <3>2, <3>3, <3>4, <3>5 DEF Telling, Records
  <2> QED BY <2>1, <2>2
<1>7. Copied(c)' BY <1>1, <1>2, <1>4 DEF StoryOf, Copied, Whole, Records
<1>8. \A m \in Executors : Unasked(c, m)' <=> ~Settled(c, m)'
  BY <1>1, <1>3, <1>4, <1>5 DEF StoryOf, AtStage, Unasked, Settled, Before
<1>9. AtStage(c)' BY <1>1, <1>2, <1>5, <1>8 DEF AtStage
<1> QED BY <1>6, <1>7, <1>9 DEF StoryOf

LEMMA RouteKeepsStory ==
    ASSUME TypeOK, StoryInv, NEW c \in Calls, NEW n \in Executors, RouteStep(c, n), OfRoute
    PROVE  StoryOf(c)'
<1>1. StoryOf(c) BY DEF StoryInv
<1>2. stage[c] \notin {"new", "returned"} BY <1>1, RouteIsUnderWay
<1>3. stage[c] \in {"running", "expired", "collected"} BY <1>2 DEF TypeOK, Stages
<1>4. CASE Drop(c, n)
  <2>1. Move(c, n, "done") /\ events' = events /\ "done" \notin Before BY <1>4 DEF Drop, Before
  <2>2. CASE Settled(c, n)
    <3>1. results' = results BY <1>4, <2>2 DEF Drop
    <3> QED BY <1>1, <1>2, <2>1, <2>2, <3>1, RouteWalks DEF RouteSteps
  <2>3. CASE ~Settled(c, n)
    <3>1. Settle(c, n, "SKIPPED_FAILFAST") BY <1>4, <2>3 DEF Drop
    <3>2. "SKIPPED_FAILFAST" \in Verdict \ {None} BY VerdictsAreTheDispatchers DEF Verdict
    <3> QED BY <1>2, <2>1, <2>3, <3>1, <3>2, RouteEnds
  <2> QED BY <2>2, <2>3
<1>5. CASE Begin(c, n) BY <1>5, RouteBegins
<1>6. CASE Answer(c, n)
  <2>1. Move(c, n, "answered") /\ UNCHANGED <<results, events>> /\ Unasked(c, n)
    BY <1>6 DEF Answer, Unasked, Before
  <2> QED BY <1>1, <1>2, <2>1, RouteWalks DEF RouteSteps, Before
<1>7. CASE Finish(c, n) /\ Settled(c, n)
  <2>1. Move(c, n, "done") /\ UNCHANGED <<results, events>> BY <1>7 DEF Finish
  <2> QED BY <1>1, <1>2, <1>7, <2>1, RouteWalks DEF RouteSteps, Before
<1>8. CASE Finish(c, n) /\ ~Settled(c, n)
  <2>1. answer[c][n] \in Answers BY <1>8 DEF Finish, TypeOK
  <2>2. answer[c][n] \in Verdict \ {None} /\ answer[c][n] \notin Silent
    BY <2>1, AnswersAreStatuses, VerdictsAreTheDispatchers DEF Verdict, Silent
  <2>3. Phase(answer[c][n]) = IF answer[c][n] = "OK" THEN "DONE" ELSE "FAILED"
    BY <2>1, VerdictsAreTheDispatchers DEF Phase
  <2>4. Settle(c, n, answer[c][n]) /\ AppendEvent(c, n, Phase(answer[c][n]))
    BY <1>8, <2>3 DEF Finish
  <2>5. PICK to \in {"aborting", "done"} : Move(c, n, to) BY <1>8 DEF Finish
  <2> QED BY <1>2, <1>8, <2>2, <2>3, <2>4, <2>5, RouteEnds
<1>9. CASE Abort(c, n)
  <2>1. step[c][n] = "aborting" /\ Move(c, n, "done") /\ UNCHANGED <<results, events>>
    BY <1>9 DEF Abort
  <2>2. Settled(c, n) BY <1>1, <1>3, <2>1 DEF StoryOf, AtStage, IsTimedOut, Unasked, Before
  <2> QED BY <1>1, <1>2, <2>1, <2>2, RouteWalks DEF RouteSteps, Before
<1> QED BY <1>4, <1>5, <1>6, <1>7, <1>8, <1>9 DEF RouteStep

LEMMA TakeKeepsStory ==
    ASSUME TypeOK, StoryInv, NEW c \in Calls, NEW k \in DOMAIN names, Take(c, k), OfRoute
    PROVE  StoryOf(c)'
<1>1. names[k] \in Executors BY DEF Executors
<1>2. PICK to \in {"starting", "dropping"} : Move(c, names[k], to) BY DEF Take
<1>3. /\ stage[c] \notin {"new", "returned"} /\ UNCHANGED <<results, events>>
      /\ Unasked(c, names[k])
  BY DEF Take, FirstInLine, Unasked, Before
<1>4. to \in RouteSteps /\ to \in Before BY DEF RouteSteps, Before
<1>5. StoryOf(c) BY DEF StoryInv
<1> QED BY <1>1, <1>2, <1>3, <1>4, <1>5, RouteWalks

(* Two traces, one after the other.                                         *)
LEMMA Joined ==
    ASSUME NEW S, NEW s \in Seq(S), NEW t \in Seq(S)
    PROVE  /\ s \o t \in Seq(S)
           /\ DOMAIN (s \o t) = 1..(Len(s) + Len(t))
           /\ \A k \in 1..Len(s) : (s \o t)[k] = s[k]
           /\ \A i \in DOMAIN t : (s \o t)[Len(s) + i] = t[i]
           /\ \A k \in DOMAIN (s \o t) : k \in DOMAIN s \/ \E i \in DOMAIN t : k = Len(s) + i
<1>1. /\ Len(s) \in Nat /\ DOMAIN s = 1..Len(s)
      /\ Len(t) \in Nat /\ DOMAIN t = 1..Len(t)
  OBVIOUS
<1>2. s \o t \in Seq(S) /\ Len(s \o t) = Len(s) + Len(t)
  OBVIOUS
<1>3. DOMAIN (s \o t) = 1..(Len(s) + Len(t))
  BY <1>2
<1>4. \A k \in 1..Len(s) : (s \o t)[k] = s[k]
  OBVIOUS
<1>5. \A i \in DOMAIN t : (s \o t)[Len(s) + i] = t[i]
  BY <1>1
<1>6. ASSUME NEW k \in 1..(Len(s) + Len(t)), k \notin 1..Len(s)
      PROVE  \E i \in 1..Len(t) : k = Len(s) + i
  <2>1. k - Len(s) \in 1..Len(t) /\ k = Len(s) + (k - Len(s))
    BY <1>1, <1>6
  <2> QED BY <2>1
<1> QED BY <1>1, <1>2, <1>3, <1>4, <1>5, <1>6

LEMMA SameTrace ==
    ASSUME NEW S, NEW s \in Seq(S), NEW t \in Seq(S), Len(s) = Len(t),
           \A k \in 1..Len(s) : s[k] = t[k]
    PROVE  s = t
OBVIOUS

(* The deadline gives every route that has none the verdict TIMEOUT, and    *)
(* tells of it once.                                                        *)
LEMMA ExpireTells ==
    ASSUME TypeOK, StoryInv, NEW c \in Calls, Expire(c)
    PROVE  /\ events'[c] \in Seq(Records)
           /\ \A n \in Executors : Tells(n, results'[c][n], events'[c])
<1> DEFINE late == {k \in DOMAIN names : ~Settled(c, names[k])}
<1>1. PICK list \in InOrder(late) :
         events' = [events EXCEPT ![c] = events[c] \o
                      [i \in DOMAIN list |-> Event(names[list[i]], "TIMEOUT")]]
  BY DEF Expire
<1> DEFINE told == [i \in DOMAIN list |-> Event(names[list[i]], "TIMEOUT")]
<1>2. /\ list \in [1..Cardinality(late) -> late]
      /\ \A k \in late : \E i \in DOMAIN list : list[i] = k
      /\ \A i, j \in DOMAIN list : i < j => list[i] < list[j]
  BY DEF InOrder
<1>3. names \in Seq(STRING) /\ \A j, k \in DOMAIN names : names[j] = names[k] => j = k
  BY NamesAreApart DEF TypeOK
<1>4. IsFiniteSet(late) /\ Cardinality(late) \in Nat
  <2>1. PICK k \in Nat : DOMAIN names = 1..k BY <1>3
  <2>2. IsFiniteSet(1..k) BY FS_Interval
  <2>3. late \subseteq 1..k BY <2>1
  <2>4. IsFiniteSet(late) BY <2>2, <2>3, FS_Subset
  <2> QED BY <2>4, FS_CardinalityType
<1>5. /\ told \in Seq(Records)
      /\ DOMAIN told = DOMAIN list
      /\ Len(told) = Cardinality(late)
      /\ \A i \in DOMAIN list : told[i] = Event(names[list[i]], "TIMEOUT")
  <2>1. \A i \in DOMAIN list : Event(names[list[i]], "TIMEOUT") \in Records
    BY <1>2 DEF Event, Records, Executors
  <2> QED BY <1>2, <1>4, <2>1
<1>6. events[c] \in Seq(Records) /\ \A n \in Executors : Tells(n, results[c][n], events[c])
  BY DEF StoryInv, StoryOf, Telling
<1>7. events'[c] = events[c] \o told BY <1>1 DEF StoryInv
<1>8. /\ events'[c] \in Seq(Records)
      /\ DOMAIN events'[c] = 1..(Len(events[c]) + Len(told))
      /\ \A k \in 1..Len(events[c]) : events'[c][k] = events[c][k]
      /\ \A i \in DOMAIN told : events'[c][Len(events[c]) + i] = told[i]
      /\ \A k \in DOMAIN events'[c] :
            k \in DOMAIN events[c] \/ \E i \in DOMAIN told : k = Len(events[c]) + i
  <2> HIDE DEF told
  <2>1. told \in Seq(Records) /\ events[c] \in Seq(Records) BY <1>5, <1>6
  <2>2. /\ events[c] \o told \in Seq(Records)
        /\ DOMAIN (events[c] \o told) = 1..(Len(events[c]) + Len(told))
        /\ \A k \in 1..Len(events[c]) : (events[c] \o told)[k] = events[c][k]
        /\ \A i \in DOMAIN told : (events[c] \o told)[Len(events[c]) + i] = told[i]
        /\ \A k \in DOMAIN (events[c] \o told) :
              k \in DOMAIN events[c] \/ \E i \in DOMAIN told : k = Len(events[c]) + i
    BY <2>1, Joined
  <2> QED BY <1>7, <2>2
<1> HIDE DEF told
<1>9. ASSUME NEW n \in Executors PROVE Tells(n, results'[c][n], events'[c])
  <2>1. results'[c][n] = IF Settled(c, n) THEN results[c][n] ELSE "TIMEOUT"
    BY DEF Expire, TypeOK
  <2>2. PICK k \in DOMAIN names : names[k] = n BY DEF Executors
  <2>3. CASE Settled(c, n)
    <3>1. \A i \in DOMAIN told : told[i].executor # n
      <4> SUFFICES ASSUME NEW i \in DOMAIN told PROVE told[i].executor # n OBVIOUS
      <4>1. list[i] \in late /\ told[i].executor = names[list[i]]
        BY <1>2, <1>5 DEF Event
      <4> QED BY <2>3, <4>1
    <3>2. Terminal(n, events'[c]) = Terminal(n, events[c])
      BY <1>6, <1>8, <3>1 DEF Terminal
    <3>3. \A j \in Terminal(n, events[c]) : events'[c][j] = events[c][j]
      BY <1>6, <1>8 DEF Terminal
    <3> QED BY <1>6, <2>1, <2>3, <3>2, <3>3 DEF Tells
  <2>4. CASE ~Settled(c, n)
    <3>1. Terminal(n, events[c]) = {} BY <1>6, <2>4 DEF Tells, Settled, Silent
    <3>2. k \in late BY <2>2, <2>4
    <3>3. PICK i \in DOMAIN list : list[i] = k BY <1>2, <3>2
    <3>4. told[i] = Event(n, "TIMEOUT") BY <1>5, <2>2, <3>3
    <3>5. \A j \in DOMAIN told : told[j].executor = n => j = i
      <4> SUFFICES ASSUME NEW j \in DOMAIN told, told[j].executor = n PROVE j = i OBVIOUS
      <4>1. told[j].executor = names[list[j]] /\ list[j] \in DOMAIN names /\ j \in DOMAIN list
        BY <1>2, <1>5 DEF Event
      <4>2. list[j] = list[i] BY <1>3, <2>2, <3>3, <4>1
      <4>3. i \in Int /\ j \in Int BY <1>2, <1>4, <4>1
      <4>4. list[i] \in Int /\ list[j] \in Int BY <1>3, <4>1, <4>2
      <4> QED BY <1>2, <4>1, <4>2, <4>3, <4>4
    <3>6. Terminal(n, events'[c]) = {Len(events[c]) + i}
      <4>1. Len(events[c]) + i \in Terminal(n, events'[c])
        <5>1. i \in DOMAIN told /\ told[i].executor = n /\ told[i].phase # "STARTED"
          BY <1>5, <3>4 DEF Event
        <5>2. Len(events[c]) + i \in DOMAIN events'[c]
          BY <1>2, <1>4, <1>5, <1>6, <1>8, <5>1
        <5> QED BY <1>8, <5>1, <5>2 DEF Terminal
      <4>2. ASSUME NEW j \in Terminal(n, events'[c]) PROVE j = Len(events[c]) + i
        <5>1. j \notin DOMAIN events[c]
          <6>1. ASSUME j \in DOMAIN events[c] PROVE FALSE
            <7>1. events'[c][j] = events[c][j] BY <1>6, <1>8, <6>1
            <7>2. j \in Terminal(n, events[c]) BY <4>2, <6>1, <7>1 DEF Terminal
            <7> QED BY <3>1, <7>2
          <6> QED BY <6>1
        <5>2. PICK h \in DOMAIN told : j = Len(events[c]) + h
          BY <1>8, <4>2, <5>1 DEF Terminal
        <5>3. told[h].executor = n BY <1>8, <4>2, <5>2 DEF Terminal
        <5> QED BY <3>5, <5>2, <5>3
      <4> QED BY <4>1, <4>2
    <3>7. events'[c][Len(events[c]) + i].phase = Phase("TIMEOUT")
      BY <1>5, <1>8, <3>4 DEF Event, Phase
    <3>8. "TIMEOUT" \notin Silent BY VerdictsAreTheDispatchers DEF Silent
    <3> QED BY <2>1, <2>4, <3>6, <3>7, <3>8 DEF Tells
  <2> QED BY <2>3, <2>4
<1> QED BY <1>8, <1>9

LEMMA CollectorKeepsStory ==
    ASSUME TypeOK, StoryInv, NEW c \in Calls, CollectorStep(c)
    PROVE  StoryOf(c)' /\ \A entry \in cache' : Whole(entry)'
<1>1. UNCHANGED <<names, workers, step, answer, abort, lateStarts>> /\ Executors' = Executors
  BY CollectorKeepsRoutes
<1>2. StoryOf(c) /\ (\A entry \in cache : Whole(entry)) /\ stage \in [Calls -> Stages]
      /\ results \in [Calls -> [Executors -> Verdict]]
      /\ returned = [d \in Calls |-> returned[d]] /\ events = [d \in Calls |-> events[d]]
  BY DEF StoryInv, TypeOK
<1>3. \A r : Whole(r)' <=> Whole(r) BY <1>1 DEF Whole, Records
<1>4. \A n \in Executors : Unasked(c, n)' <=> Unasked(c, n) BY <1>1 DEF Unasked
<1>5. CASE Submit(c)
  <2>1. stage[c] = "new" /\ UNCHANGED <<results, events, cache>> BY <1>5 DEF Submit
  <2>2. Telling(c)' BY <1>1, <1>2, <2>1 DEF StoryOf, Telling, Records
  <2>3. /\ events[c] = <<>>
        /\ \A n \in Executors : step[c][n] = "queued" /\ ~Settled(c, n)
    BY <1>2, <2>1 DEF StoryOf, AtStage
  <2>4. \A n \in Executors : Settled(c, n)' <=> Settled(c, n) BY <2>1 DEF Settled
  <2>5. CASE stage'[c] = "returned"
    <3>1. \E entry \in cache : returned'[c] = entry
      BY <1>2, <1>5, <2>5 DEF Submit
    <3>2. Copied(c)' BY <1>2, <1>3, <2>5, <3>1 DEF Copied
    <3>3. AtStage(c)' BY <1>1, <2>1, <2>3, <2>5 DEF AtStage
    <3> QED BY <1>2, <1>3, <2>1, <2>2, <3>2, <3>3 DEF StoryOf
  <2>6. CASE stage'[c] # "returned"
    <3>1. stage'[c] = "running" /\ returned' = returned
      BY <1>2, <1>5, <2>6 DEF Submit
    <3>2. returned[c] = None BY <1>2, <2>1 DEF StoryOf, Copied
    <3>3. Copied(c)' BY <3>1, <3>2 DEF Copied
    <3>4. \A n \in Executors : Unasked(c, n) BY <2>3 DEF Unasked, Before
    <3>5. AtStage(c)' BY <1>1, <1>4, <2>3, <2>4, <3>1, <3>4 DEF AtStage
    <3> QED BY <1>2, <1>3, <2>1, <2>2, <3>3, <3>5 DEF StoryOf
  <2> QED BY <2>5, <2>6
<1>6. CASE Expire(c)
  <2>1. stage[c] = "running" /\ UNCHANGED <<returned, cache>> /\ stage'[c] = "expired"
    BY <1>2, <1>6 DEF Expire
  <2>2. Telling(c)' BY <1>1, <1>6, ExpireTells DEF Telling, Records
  <2>3. Copied(c)' BY <1>2, <2>1 DEF StoryOf, Copied
  <2>4. \A n \in Executors :
           results'[c][n] = IF Settled(c, n) THEN results[c][n] ELSE "TIMEOUT"
    BY <1>2, <1>6 DEF Expire
  <2>5. \A n \in Executors : Settled(c, n)'
    BY <1>1, <2>4, VerdictsAreTheDispatchers DEF Settled
  <2>6. \A n \in Executors : Unasked(c, n) <=> ~Settled(c, n)
    BY <1>2, <2>1 DEF StoryOf, AtStage
  <2>7. IsTimedOut(c)' BY <1>1, <1>4, <2>4, <2>5, <2>6 DEF IsTimedOut
  <2>8. AtStage(c)' BY <2>1, <2>7 DEF AtStage
  <2> QED BY <1>2, <1>3, <2>1, <2>2, <2>3, <2>8 DEF StoryOf
<1>7. CASE Collect(c)
  <2>1. /\ UNCHANGED <<results, events, cache>> /\ stage'[c] = "collected"
        /\ returned'[c] = [results |-> results[c], events |-> events[c]]
        /\ stage[c] = "expired" \/ (stage[c] = "running" /\ AllDone(c))
    BY <1>2, <1>7 DEF Collect
  <2>2. IsTimedOut(c)
    <3>1. CASE stage[c] = "expired" BY <1>2, <3>1 DEF StoryOf, AtStage
    <3>2. CASE stage[c] = "running" /\ AllDone(c)
      BY <1>2, <3>2 DEF StoryOf, AtStage, AllDone, IsTimedOut, Unasked, Before
    <3> QED BY <2>1, <3>1, <3>2
  <2>3. Telling(c) BY <1>2 DEF StoryOf
  <2>4. Telling(c)' BY <1>1, <2>1, <2>3 DEF Telling, Records
  <2>5. results[c] \in [Executors -> Verdict \ {None}] BY <1>2, <2>2 DEF IsTimedOut, Settled
  <2>6. Whole(returned'[c]) BY <2>1, <2>3, <2>5 DEF Whole, Telling
  <2>7. Copied(c)' BY <1>3, <2>1, <2>6 DEF Copied
  <2>8. IsTimedOut(c)' BY <1>1, <1>4, <2>1, <2>2 DEF IsTimedOut, Settled
  <2>9. Extends(c)'
    <3>1. events[c] \in Seq(Records) /\ Len(events[c]) \in Nat BY <2>3 DEF Telling
    <3> QED BY <2>1, <3>1 DEF Extends
  <2>10. AtStage(c)' BY <2>1, <2>8, <2>9 DEF AtStage
  <2> QED BY <1>2, <1>3, <2>1, <2>4, <2>7, <2>10 DEF StoryOf
<1>8. CASE Return(c)
  <2>1. /\ UNCHANGED <<results, events, returned>> /\ stage'[c] = "returned"
        /\ stage[c] = "collected" /\ AllDone(c)
        /\ cache' = IF c \in Batch THEN {returned[c]} ELSE cache
    BY <1>2, <1>8 DEF Return, Remembered
  <2>2. Telling(c)' BY <1>1, <1>2, <2>1 DEF StoryOf, Telling, Records
  <2>3. Whole(returned[c]) BY <1>2, <2>1 DEF StoryOf, Copied
  <2>4. Copied(c)' BY <1>3, <2>1, <2>3 DEF Copied
  <2>5. Extends(c)' BY <1>2, <2>1 DEF StoryOf, AtStage, Extends, LateStart
  <2>6. AtStage(c)' BY <1>1, <2>1, <2>5 DEF AtStage, AllDone
  <2>7. \A entry \in cache' : Whole(entry)' BY <1>2, <1>3, <2>1, <2>3
  <2> QED BY <2>2, <2>4, <2>6, <2>7 DEF StoryOf
<1> QED BY <1>5, <1>6, <1>7, <1>8 DEF CollectorStep

(* A step of one call leaves the stories of the others as they are.         *)
LEMMA OthersKeepStory ==
    ASSUME TypeOK, StoryInv, NEW c \in Calls,
           \/ CollectorStep(c)
           \/ \E k \in DOMAIN names : Take(c, k) /\ OfRoute
           \/ \E n \in Executors : RouteStep(c, n) /\ OfRoute
    PROVE  /\ \A d \in Calls : d # c => StoryOf(d)'
           /\ events' = [d \in Calls |-> events'[d]]
           /\ returned' = [d \in Calls |-> returned'[d]]
<1>1. names' = names BY DEF OfRoute, CollectorStep, Submit, Expire, Collect, Return, OfCollector
<1>2. /\ results = [d \in Calls |-> results[d]] /\ stage = [d \in Calls |-> stage[d]]
      /\ step = [d \in Calls |-> step[d]] /\ events = [d \in Calls |-> events[d]]
      /\ returned = [d \in Calls |-> returned[d]]
  BY DEF TypeOK, StoryInv
<1>3. events' = events \/ \E v : events' = [events EXCEPT ![c] = v]
  BY DEF CollectorStep, Submit, Expire, Collect, Return, Take, RouteStep, Drop, Begin, Answer,
         Finish, Abort, AppendEvent
<1>4. results' = results \/ \E v : results' = [results EXCEPT ![c] = v]
  BY DEF CollectorStep, Submit, Expire, Collect, Return, Take, RouteStep, Drop, Begin, Answer,
         Finish, Abort, Settle
<1>5. step' = step \/ \E v : step' = [step EXCEPT ![c] = v]
  BY DEF CollectorStep, Submit, Expire, Collect, Return, OfCollector, Take, RouteStep, Drop, Begin,
         Answer, Finish, Abort, Move
<1>6. stage' = stage \/ \E v : stage' = [stage EXCEPT ![c] = v]
  BY DEF CollectorStep, Submit, Expire, Collect, Return, OfRoute
<1>7. returned' = returned \/ \E v : returned' = [returned EXCEPT ![c] = v]
  BY DEF CollectorStep, Submit, Expire, Collect, Return, OfRoute
<1>8. ASSUME NEW d \in Calls, d # c
      PROVE  /\ events'[d] = events[d] /\ results'[d] = results[d] /\ step'[d] = step[d]
             /\ stage'[d] = stage[d] /\ returned'[d] = returned[d]
  <2>1. events'[d] = events[d] BY <1>2, <1>3, <1>8
  <2>2. results'[d] = results[d] BY <1>2, <1>4, <1>8
  <2>3. step'[d] = step[d] BY <1>2, <1>5, <1>8
  <2>4. stage'[d] = stage[d] BY <1>2, <1>6, <1>8
  <2>5. returned'[d] = returned[d] BY <1>2, <1>7, <1>8
  <2> QED BY <2>1, <2>2, <2>3, <2>4, <2>5
<1>9. \A d \in Calls : d # c => StoryOf(d)'
  <2>1. Executors' = Executors BY <1>1 DEF Executors
  <2> QED BY <1>8, <2>1, StoryFrame DEF StoryInv
<1>10. events' = [d \in Calls |-> events'[d]] BY <1>2, <1>3
<1>11. returned' = [d \in Calls |-> returned'[d]] BY <1>2, <1>7
<1> QED BY <1>9, <1>10, <1>11

LEMMA StepStory == TypeOK /\ StoryInv /\ [Next]_vars => StoryInv'
<1> SUFFICES ASSUME TypeOK, StoryInv, [Next]_vars PROVE StoryInv' OBVIOUS
<1>1. CASE UNCHANGED vars
  <2>1. Executors' = Executors BY <1>1 DEF vars, Executors
  <2>2. \A c \in Calls : StoryOf(c)' BY <1>1, <2>1, StoryFrame DEF vars, StoryInv
  <2>3. \A r : Whole(r)' <=> Whole(r) BY <2>1 DEF Whole, Records
  <2> QED BY <1>1, <2>2, <2>3 DEF vars, StoryInv
<1>2. CASE Next
  <2>1. PICK c \in Calls :
              \/ CollectorStep(c)
              \/ \E k \in DOMAIN names : Take(c, k) /\ OfRoute
              \/ \E n \in Executors : RouteStep(c, n) /\ OfRoute
    BY <1>2, StepKinds
  <2>2. StoryOf(c)' /\ \A entry \in cache' : Whole(entry)'
    <3>1. CASE CollectorStep(c) BY <3>1, CollectorKeepsStory
    <3>2. ASSUME OfRoute PROVE \A entry \in cache' : Whole(entry)'
      <4>1. Executors' = Executors /\ cache' = cache BY <3>2 DEF OfRoute, Executors
      <4> QED BY <4>1 DEF StoryInv, Whole, Records
    <3>3. CASE \E k \in DOMAIN names : Take(c, k) /\ OfRoute BY <3>2, <3>3, TakeKeepsStory
    <3>4. CASE \E n \in Executors : RouteStep(c, n) /\ OfRoute BY <3>2, <3>4, RouteKeepsStory
    <3> QED BY <2>1, <3>1, <3>3, <3>4
  <2>3. /\ \A d \in Calls : d # c => StoryOf(d)'
        /\ events' = [d \in Calls |-> events'[d]]
        /\ returned' = [d \in Calls |-> returned'[d]]
    BY <2>1, OthersKeepStory
  <2> QED BY <2>2, <2>3 DEF StoryInv
<1> QED BY <1>1, <1>2

(* What a fan-out returns, from its own routes or from the cache, is one    *)
(* story, for any number of executors, threads and calls, wherever the      *)
(* deadline and the flag fall (parallel_dispatch.py: _run_routes).          *)
THEOREM ReturnsOneStory == Spec => []OneStory
<1>1. TypeOK /\ StoryInv => OneStory
  <2> SUFFICES ASSUME TypeOK, StoryInv, NEW c \in Calls, returned[c] # None, NEW n \in Executors
               PROVE  LET verdict == returned[c].results[n]
                          ends == Terminal(n, returned[c].events)
                      IN  /\ verdict # None
                          /\ verdict = "SKIPPED_FAILFAST" <=> ends = {}
                          /\ \A k \in ends : /\ ends = {k}
                                             /\ returned[c].events[k].phase = Phase(verdict)
    BY DEF OneStory
  <2>1. Whole(returned[c]) BY DEF StoryInv, StoryOf, Copied
  <2> QED BY <2>1 DEF Whole, Tells, Silent
<1> QED BY <1>1, InitStory, StepStory, TypesKept, PTL DEF Spec

(* A stream tells what the batch's return would tell, in the same order,    *)
(* and then of nothing but late starts (parallel_dispatch.py:              *)
(* fanout_stream).                                                          *)
THEOREM StreamTellsTheBatch == Spec => []StreamExtendsBatch
<1>1. TypeOK /\ StoryInv => StreamExtendsBatch
  <2> SUFFICES ASSUME TypeOK, StoryInv, NEW c \in Calls, stage[c] = "returned", events[c] # <<>>
               PROVE  LET told == returned[c].events
                          all == events[c]
                      IN  /\ SubSeq(all, 1, Len(told)) = told
                          /\ \A k \in (Len(told) + 1)..Len(all) :
                                /\ all[k].phase = "STARTED"
                                /\ returned[c].results[all[k].executor] = "TIMEOUT"
    BY DEF StreamExtendsBatch
  <2>1. Extends(c) /\ events[c] \in Seq(Records) /\ returned[c].events \in Seq(Records)
    BY DEF StoryInv, StoryOf, AtStage, Telling, Copied, Whole
  <2>2. SubSeq(events[c], 1, Len(returned[c].events)) = returned[c].events
    <3>1. /\ Len(returned[c].events) \in Nat
          /\ SubSeq(events[c], 1, Len(returned[c].events)) \in Seq(Records)
          /\ Len(SubSeq(events[c], 1, Len(returned[c].events))) = Len(returned[c].events)
          /\ \A k \in 1..Len(returned[c].events) :
                SubSeq(events[c], 1, Len(returned[c].events))[k] = events[c][k]
      BY <2>1 DEF Extends
    <3>2. \A k \in 1..Len(returned[c].events) : returned[c].events[k] = events[c][k]
      BY <2>1 DEF Extends
    <3> QED BY <2>1, <3>1, <3>2, SameTrace
  <2> QED BY <2>1, <2>2 DEF Extends, LateStart
<1> QED BY <1>1, InitStory, StepStory, TypesKept, PTL DEF Spec
=============================================================================
