# WORK-LAB verification

TLA+ specifications of the parts of WORK-LAB that keep shared or durable state,
TLC configurations that model-check them on small instances, and proofs, checked
by TLAPS, of what matters most for every value of the constants. The
specifications are translated from the source; PROJECT.json lists, for every
definition, the lines it stands for, and for every property a plausible bug
(written as a `Name_Variant` operator beside the definition) that breaks it.

    tlc -config TaskLedgerLease.cfg MCTaskLedger     # a run; module and cfg in the table below
    tlapm TaskLedgerProofs.tla                       # a proof

## The system

WORK-LAB coordinates AI workers on one machine. Python programs keep small JSON
files and one SQLite database; worker processes, a sidecar server and command-line
tools read and rewrite them; a browser surface, the Observer, shows what they hold.

    upstream events --poll--> Durable Inbox --create--> Task Ledger <--lease, work-- agent sessions
                                    |                      (ledger.json)
                                    +--claim: lease, intent, executor
    collectors, tools --write--> Canonical store (SQLite) <--lease, work-- Durable worker --> Model task bridge --> executor
                                    |                                                             |
                                    | fingerprint every 250 ms                                    +-- Resource lease (JSON file)
                                 Sidecar watcher --publish--> Revision hub --event stream--> Observer
                                    +<------------------------- snapshot reads ------------------+

The parts, the state they keep and what can go wrong:

| Part | State | Operations | Interacts through | Hard behaviour | Correct when |
|---|---|---|---|---|---|
| Task Ledger (`task_ledger.py`) | `ledger.json`: tasks with status, lease and fence, waitpoint, cursor, usage and budget, errors, evidence, dependencies, children, external effects | create; acquire, renew, heartbeat, release lease; transition, checkpoint, resume; set and clear waitpoint; record usage, evidence, error, effect; reconcile effect; set dependencies, attach child | a file that every caller reads and rewrites as a whole, without a lock | leases expire, holders die, stale fences come back, a writer dies between temporary file and rename, two processes rewrite at once | one worker at a time may believe it holds a task, as far as calls are atomic; nobody moves a task whose holder is gone; effects and overspending are never forgotten; dependencies cannot wedge the queue; the file is never torn |
| Durable Inbox (`durable_inbox.py`) | `inbox_state.json`: seen identities, cursor, retry time, subscription, outbox, artifact digests | poll_due, note_retry_after, conditional_request, ingest, advance_cursor; claim, reconcile_or_resume; enqueue_outbox, mark_outbox_delivered; subscribe, pause, resume | the Task Ledger, an executor, upstream | two files written one after the other; repeated deliveries; death between intent and executor; left-over temporary files | no event is dropped without its task; no executor without its intent; no accepted receipt is lost |
| Canonical store, tasks (`canonical_store.py`) | rows of `tasks` with lease and checkpoint | insert_task_if_absent, upsert_task, acquire_lease, heartbeat, release_lease, claim_expired_tasks, list_tasks | SQLite | upsert_task replaces the columns of the lease too | the row names who drives it |
| Durable worker (`durable_worker.py`) | in memory: holder id, retry counts, the row and checkpoint being worked on | run_once, _drive_task, run_forever | canonical store, handler | dies between any two calls; store calls fail; order of tasks | every task settles, once |
| Model task bridge (`model_task_bridge.py`), Resource lease (`resource_lease.py`) | attempt numbers; a JSON lease of the machine resource | ModelTaskHandler; acquire, release | worker's checkpoint dict, executor, file | exceptions while the resource is held; pids that are used again | the resource is free again afterwards |
| Sidecar and revision stream (`sidecar.py`, `sse_revision.py`) | fingerprint, revision, hub's number and history, each client's cursor; `sse_state.last_revision` stored | watcher loop, publish_observed, frames_for, the handler of `/api/v1/events`, `/api/v1/snapshot` | canonical store, Observer | restart between publish and record; history cut or lost; cursor ahead, behind, zero or absent; broken connections; a fingerprint that not every write changes | a write that shows in the fingerprint reaches the browser in the end, or an error is shown |
| Observer surface (`api.ts`) | snapshot on screen, its revision and signature, read in flight, follow-up flag, EventSource's cursor | tick, apply, event handlers | sidecar | answers and frames overtake each other; bursts are coalesced | never shows old for new |
| Single-instance lock and server (`sidecar_lock.py`, `sidecar.py`) | `sidecar.lock` with pid and token; `sidecar-endpoint.json` with pid and port | acquire, release; bind, write the endpoint, server_close | file system, clients of the endpoint | death between creating and writing; read, compare, unlink in three calls; pids that are used again | one owner; the endpoint names the server there is |
| Repair records (`repair_state.py`, `repair_verification.py`, `save_action_plan` of `canonical_store.py`) | one row of `action_plans` per record: version, status, grant, handoffs, results, verdicts, history | record, approve, declare handoff, import result, record outcome, verify | SQLite, the issues in the store, command-line users | every operation reads, decides and writes later, under the version its user saw | no operation is lost; success is earned; a closed record stays as it is |
| Solutions (`solution_library.py`, `save_solution` and `recommend_solution` of `canonical_store.py`) | immutable revisions and a recommended one | solidify, import unverified, save, recommend | repair records, SQLite | save and recommend are two statements; the record moves on | VERIFIED is grounded, and only that is recommended |
| Execution federation (`parallel_dispatch.py`) | of a fan-out: results, events, abort flag, a pool of threads; of the dispatcher: a cache | fanout, fanout_stream, routes, the collector with its deadline | executor adapters | late answers, deadline and flag meet in any order; identical calls at one time | one final verdict and one story for each executor; every fan-out returns |
| Collector scheduler (`collector_scheduler.py`) | bounded queue; health and circuit breaker of each collector | push, drain, run_once | collectors' threads, canonical store | full queue; a collector that outlives its timeout | terminal events are not lost silently |
| Agent session (`run_taskpack_agent.py`) | lease of one taskpack run, heartbeat thread | start, checkpoint, complete, fail, close | Task Ledger | heartbeat thread against the main thread | no work without the lease |
| Work units (`work_unit.py`) | one JSON file of units with state and events | create, transition, attach_verification | file | read and rewrite without a lock | only allowed transitions |
| Result return (`result_return.py`) | sent and pending receipts in memory | enqueue, send_attempt, lost_ack_reconcile | sender | lost acknowledgements | a receipt counts once |

The remaining parts (session federation, control service, orchestration helpers, task
governance, policy, receipts, planning contracts, executor integrations, desktop
shells, CI scripts and others) are listed with the reason they are left out under
"components" in PROJECT.json: they decide or format one document at a time, wire
other parts together, or are plain I/O.

## Modules

### Task Ledger

* `LedgerData` is the value in `ledger.json`. Each method is a pair: `May...` is
  the conjunction of the conditions under which the method reaches `_write`, the
  past participle (`LeaseAcquired`, `Transitioned`, ...) the value it writes. A
  call that raises writes nothing and is no step. Text is left out; effects keep
  a digest that stands for action and intent; errors are sets of kinds.
* `TaskLedger` makes each method one step, with workers that keep a *ticket*
  (fence and expiry of the last lease they were given) and present it later, stale
  or not, or no credential at all. `Tick` is the wall clock, `Crash` loses a
  worker's tickets.
* `LedgerCalls` is the same set of calls as a set of outcomes for one read value,
  and `LedgerStore` the abstract store: a call reads, computes and replaces in one
  step (the clock a call looked at may be in the past by then). What a call may do is
  a parameter of the store, so that it promises atomicity of any such calls.
* `LedgerFile` is the file: list, promote or sweep the temporary files, create the
  ledger, read, open a temporary file, fill it, rename it (`_ensure`,
  `_recover_orphaned_writes`, `_read`, `_write`), each a step, with a crash between
  any two. `Shared = FALSE` is one process whose threads call under
  `LedgerSession`'s lock; `Shared = TRUE` is processes of their own, which share no
  lock. Files behave as on POSIX: a removed file can still be written in vain, and
  its rename fails. `LedgerFile` with `Shared = FALSE` implements `LedgerStore`
  under the mapping `ledger <- Stored` (an absent file is an empty ledger).

### Durable Inbox

* `InboxClaims` extends `TaskLedger`: `claim` as lease, intent, executor in three
  steps, with or without `reconcile_or_resume` first. The effect id is the fence
  of the lease (`claim:<task>:f<fence>` in the source), so `Effect` is a set of numbers.
* `InboxFile` is `_AtomicStateFile` and the methods that change the outbox and the
  subscription. Unlike the ledger it looks at left-over temporary files only in the
  constructor, where the newest one that is not empty becomes the state.
* `InboxIngest` is poll, ingest and cursor, with the subscription that `poll_due`
  looks at: absent, active or paused. Upstream is external: it has a fixed
  log, repeats earlier events, and may answer with Retry-After. An identity is an
  event id with a payload digest; the default task id is made of the event id alone.
  A call changes `inbox_state.json` in one step, because only one process has it; a
  death in the middle of that step is a case of `IngestCrash`: either it left nothing
  or the whole text, which is the state before or after the step, or it left a part,
  which the next constructor puts in the place of the good file. The state is then
  not `readable`, and every later call raises.
  Its specification is `IngestSpec`, so that one module can prove about both halves.

### Durable worker

* `CanonicalTasks` is the tasks table; each method is one transaction. Times are
  relative (`lease_left`) and saturate once no comparison can tell them apart;
  fencing tokens, which are only counted and compared with NULL, saturate at `MaxToken`.
  The order of `list_tasks` (newest write first) is kept as a relation, the pairs of
  tasks of which the first was written later.
* `DurableWorker` is the worker with its handler, one step per store call, file
  call or executor run. One worker runs at a time; each life has a new holder id
  and an empty memory, and may have an old pid. Retries are counted by task, exception type and message:
  a `Cause` is a failure whose message comes again, `Anew` one with a message that
  never came before, whose count is 1 and is looked up by nobody later. `SharesCheckpoint` is Python's
  `task.get("checkpoint") or {}`: only a checkpoint that is not empty is the object
  the handler sees.

### Sidecar and Observer

* `RevisionHub` is the value of `SseRevisionHub`. Events are numbered one after
  the other, so the bounded history is an interval. What an event says is left out:
  its reader goes back to the snapshot.
* `SidecarStream` is the watcher, the handler thread of one event stream and one
  browser. The store's contents are a version number. The fingerprint is made of
  numbers of rows, highest row numbers, newest timestamps and tallies, so a write
  leaves its trace in it (`Write`: then the fingerprint is the newest such version,
  `stamped`) or does not (`UpdateInPlace`: `update_project_status`, the update of
  `register_project`, `recommend_solution`). The watcher publishes,
  assigns the revision and records it in three steps; the handler asks the hub and
  sends in two, except that the watermark is taken as a cursor before the first
  snapshot is made; the browser reads one snapshot at a time. Reading the store for
  a snapshot is one step. A snapshot's `verdict` stands for what it says of
  transport, freshness, coverage and watermark.

### Lock and server

* `InstanceLock` is `acquire` call by call (create exclusively; or read, look for
  the pid, read again, unlink, and try once more), the writing of the contents into
  the handle that was created, and `release`. A process dies anywhere, and a pid that
  is used again is a process that starts again. `raced` remembers that a recovery
  unlinked another file than the one it had compared.
* `SidecarServer` extends it with the server that holds the lock: bind, write the
  endpoint file, fail, close. Its steps are uses of the lock that `LockSpec` allows;
  its specification is `ServerSpec`.

### Repair records and solutions

* `RepairData` is the row, and each operation as the *set of rows* it may write: no
  row when it refuses. The time of a handoff is the version of the row it was read
  from, which orders moments as the clock does while the row is only written at
  that version. A trusted grant is one that is valid and covers the plan.
* `RepairPromise` is the abstract specification: an operation happens at one moment
  on the row as it is, and a verdict may only say what a look at the fault, made
  after the result it answers was imported, would have said.
* `RepairRecords` is the processes: look (the version the user sees), read and
  prepare, for `verify_record` read the issues before the row, and save with the
  version that was seen. It implements `RepairPromise`.
* `SolutionLibrary` puts the authors of solution revisions beside the promise: a
  check of the record, `save_solution`, and `recommend_solution`, with a death
  between any two.

### Execution federation

* `ParallelDispatch` is the fan-outs of one dispatcher with the same key in its
  cache. A route is taken by a thread and looks at the abort flag, begins, calls its
  adapter, gets an answer, settles under the lock, and sets the flag after the lock
  is let go, each in a step; the collector expires what has not settled, copies,
  and leaves the pool when every route is done. A stream goes on telling until then.

`MC...` modules give the finite constants.

## Runs

| Run | Module, configuration | Question | Bounds |
|---|---|---|---|
| `ledger_lease` | MCTaskLedger, TaskLedgerLease | Can two workers believe they hold a task; can a task move when its holder is gone; do fences grow? | 1 task, 2 workers, leases of 1 and 2 s, clock to 3: a lease can run out while an older and a newer one are remembered |
| `ledger_structure` | MCTaskLedger, TaskLedgerStructure | Can dependencies wedge; do overspending and effects keep their record? | 2 tasks, fan-out 1, usage to 2 over a budget of 1; no workers, so calls carry no credential, and the system may stop |
| `file_session` | MCLedgerFile, LedgerFileSession | Is the file, under the session's lock, the atomic store, whoever dies when? | 2 threads, 1 task, every lease call |
| `claims` | MCInboxClaims, InboxClaims | Does the record tell who may start? | 1 task, 2 workers, 2 effects, 2 runs, clock to 3 |
| `inbox_restart` | InboxFile, InboxFileRestart | Are accepted receipts kept over crashes? | 1 process that dies and is started again, 2 tasks, 1 receipt each, 3 records: a receipt is enqueued again after its delivery |
| `ingest` | MCInboxIngest, InboxIngest | Does every event become a task, over deaths, repeats, pauses and throttling, while the poller is let poll? | logs of 3 events, one that repeats an event and one that changes it; batches of 2, 2 deaths, which may leave the state half-written, 1 throttle, pauses at any time |
| `worker` | MCDurableWorker, DurableWorker | Does every task settle, stay settled and leave nothing held? | 2 tasks, 2 lives, 2 pids, 1 failing store call, 1 retry, tokens alike from 2 on; any number of failures with a message of their own |
| `sidecar_stream` | SidecarStream, SidecarStream | Does every write that the fingerprint shows reach the browser, or an error the screen? | 2 writes, each with or without a trace in the fingerprint, 1 crash or failing call, history of 2, any number of broken connections |
| `sidecar_lock` | MCSidecarServer, SidecarServer | Is there one owner, is a lone start refused only for a reason, does the endpoint name the server? | 3 pids, 3 calls of acquire, 2 ports: two recoveries of one stale file and a third process between them |
| `repair` | MCRepairRecords, RepairRecords | Does read, decide, write under a version behave as one moment; is success earned; is closed closed? | 2 processes, 2 results, 1 target, 1 grant, versions to 5: a result that overtakes the verdict on another |
| `solutions` | MCSolutionLibrary, SolutionLibrary | Does what is VERIFIED keep its ground while record and numbers move on? | 2 authors, 2 texts, 2 revisions, 2 results, versions to 6 |
| `dispatch` | MCParallelDispatch, ParallelDispatch | Do late answers, deadline, fail_fast and cache leave one story, and does every fan-out return? | 2 batch calls and 1 stream, 1 to 3 executors, pools of 1 and 2, 4 threads at a time |

What the runs show, property by property, is in the comment before each
property. The bounds are chosen so that the hazard the property is about happens
within them: two workers are enough for every property that compares two of them,
the clock goes past the longest lease, two writes with a history of two let the
history be cut (a retried or repeated publication adds events of its own), and
every counter can reach its limit and be refused there. Workers, tasks, processes,
ports and results are symmetric where the specification does not name a member; no
run with a liveness property uses symmetry. Deadlock is checked except in
`ledger_structure`, where no worker and no clock keep the system going, in
`ingest`, where a poller that cannot read its state stops for good, in
`sidecar_lock`, where calls run out, and in `dispatch`, which ends when every call
has returned.

### Fairness

* `InboxIngest`: time passes (WF Tick), a call that has begun goes on (WF), and
  the caller keeps polling an upstream that does not for ever repeat old events
  (SF PollNew: polling is disabled again and again by calls, by Retry-After and by
  pauses). That a pause is ended and the state stays readable is no fairness: it is
  the premise `KeepsPolling` of EveryEventArrives, because no code promises it.
* `DurableWorker`: the worker's loop runs (WF Work), a dead worker is started
  again (WF Start), time passes (WF Tick). Crashes, failing calls and inserts are
  never forced. EveryTaskSettles has the premise `FailuresComeAgain`: from some time
  on no failure has a message that never came before. Without it TLC finds a task
  that fails anew for ever, keeps its place in front and starves the other.
* `SidecarStream`: the threads of the sidecar run, a dead sidecar is started again,
  EventSource reconnects by itself, frames arrive (WF each). The surface's timer
  is a safety net and is not counted on; writes and trouble are never forced.
* `ParallelDispatch`: the threads of a call that has begun run, and its adapters
  answer in the end (WF Proceed for each call). No call is ever forced to begin, and
  a deadline is never needed for a fan-out to return.
* The other runs check safety only. A worker or process that may die is never
  required to come back in them.

### Where the code does less than it says

The models have the following behaviour; no property above excludes it, and where
one could be read to, its comment says what it leaves out. Five definitions state a
sentence of the source that the code does not keep; they stand at the end of their
modules, no run checks them, and TLC finds them violated under the constants named here.

* `OnlyOneHolder` (LedgerFile, `Shared = TRUE`, 2 processes, 1 task). Processes of
  their own, without a common lock, both read the ledger, both acquire the lease and
  both believe they hold the task; the later rename wins. `LedgerSession`'s lock
  excludes this between the calls of one process only, and the threads of one session
  have one credential anyway. What such processes do keep is a whole ledger file
  (ReadersAlwaysFindALedger below).
* `StateIsReadable` (InboxFile, any instance). The inbox's recovery promotes a
  half-written temporary file over a good state; the ledger's validates it first.
  From then on nothing is polled, ingested or enqueued.
* `EvidencePersists` (DurableWorker, 1 task, no fault). On a first attempt the
  stored checkpoint is empty, so the handler writes its evidence into a dict that
  nobody stores.
* `NeverReplacedByOlder` (SidecarStream, 1 write, 2 verdicts). A snapshot answer that
  arrives after a newer frame with the same revision replaces it: only a strictly
  lower revision is refused.
* `EveryWriteIsShown` (SidecarStream, 1 write). `newest_changes` says that "the
  highest rowid still catches a mutation whose author forgot to bump a timestamp"; it
  catches none that changes a row in place. Such a change is announced by nobody until
  another write leaves a trace, and what the surface's own timer reads in between has
  the same revision, verdict and watermark, so `apply` does not show it. TLC finds this
  also when the timer is fair.

Others are seen in the actions:

* A task whose executor words every failure anew (a time, an address or an id in the
  message) is retried for ever and keeps the tasks behind it waiting (`DurableWorker`,
  `Counted`); so would new rows that never stop coming, of which the model has finitely
  many.
* What `reconcile_or_resume` read may be old when `claim` takes the lease, and a task
  that was run and confirmed in between is started once more (`InboxClaims`, Check and
  Claim are two steps), under an effect of its own.
* A worker whose lease has passed on still calls its executor (`InboxClaims`,
  Execute looks at no lease), and an executor is run again under the same attempt key
  after a crash (`DurableWorker`, nothing compares keys).
* Two processes that recover one stale lock file can remove the file of the owner
  that came first (`InstanceLock`, Unlink). A lock file whose writer died before its
  contents refuses every later start until somebody removes it, and a stale file
  whose pid is in use again looks alive.
* A fan-out returns only when its last adapter has answered, whatever its deadline;
  TIMEOUT is a hard failure but does not set the abort flag; a route that was timed
  out while it was queued still calls its adapter; a stream then tells of a start
  after the TIMEOUT, which no batch does; identical fan-outs that overlap both call
  their executors.
* `record_outcome` may close a record as a success while an imported result is still
  waiting for its verdict, and a handoff may be declared again after a result was
  imported.

## Proofs

TLAPS checks, for any tasks, workers, processes, executors, durations, limits and
bounds that satisfy the named assumptions of the modules:

* `LedgerDataProofs`: what each method of the ledger does to its type and to leases, one
  lemma for each method and question. The proofs about `TaskLedger`, `InboxClaims` and
  `LedgerFile` all rest on it.
* `TaskLedgerProofs`: **TypeCorrect**, **LeaseBeliefs** and **LeaseSafety**. Mutual
  exclusion is not inductive: it speaks of tickets only, and a step that grants a
  lease looks at the ledger. BeliefIsTrue ties the two together (an unexpired ticket
  is the ledger's own lease) and is inductive with TypeOK; exclusion follows because
  a task has one lease. The steps that do not touch leases are one lemma
  (`QuietStep`).
* `TaskLedgerProofs`, on single steps: **LeasesAreTimely**, **TakeoversAreFenced**,
  **OrphansAreFrozen**, **EffectsStand**, **OverspendingStands**,
  **QueueNeverWedges**. `StepMovesLeases` says all that one step may do to a lease
  (keep, drop, grant when it has expired, keep alive in time); the first two follow.
  `StepFollows` says it of effects, errors and accounts. Orphans refuse every
  credential, and the two fields that no credential protects are not work. That the
  queue cannot wedge needs `Untangled`: edges lead to stored tasks, and no non-empty
  set of tasks has all its members depend on members. A queue of which nothing is
  ready would be such a set.
* `TaskLedgerProofs`, on `InboxClaims`: **IntentComesFirst**, **ResumptionIsSafe**,
  **EffectsTellRunsApart**. The steps of a claim are ledger steps or leave the ledger
  alone, so the lemmas on the ledger carry over; the invariant adds that the intent of
  a worker about to execute is recorded. `Apart` is the strengthening of the third:
  while the lease of a task was never given up, the effects of its runs and of the
  claims under way are at most the lease's fence and differ from each other.
* `LedgerFileProofs`: the refinement **SessionImplementsStore** and
  **SessionKeepsTemps**, for the callers under one session's lock (`~Shared`;
  without it neither holds). Of the many small steps of a call only the rename shows in the
  store; creating the empty ledger and promoting a temporary file do not, because an
  absent file is an empty ledger. `SessionInv` says why: at most one caller is in a
  call; while there is no ledger file, every temporary file is torn or empty of
  tasks; and from the computation to the rename, what the caller is about to write is
  an outcome of the file as it is *now*, at a time that has passed (`Promised`). The
  mapping is shown from the initial state through every step, the death of a caller
  included.
  **ReadersAlwaysFindALedger** needs no lock: among any processes that die anywhere,
  list, remove and promote each other's temporary files and rename their own, whoever
  reads `ledger.json` after `_ensure` finds a whole ledger. `WholeInv` is about the
  temporary files: only its own writer fills one, and it opens one only after its
  clean-up has removed the last, so the file that somebody found valid and is about to
  promote is gone or still the same. No run checks this one; TLC was used to confirm
  the invariant with 2 processes (`Shared = TRUE`), which takes longer than a run may.
* `InboxProofs`, on `InboxFile`: **AcceptedStays** and **NoneIsPendingTwice**, where
  one process at a time has the file open (`~Shared`). Recovery promotes a file it has
  not read, so the invariant speaks of everything that can become the state: the file,
  each process's copy and each temporary file keep the accepted receipts and have none
  pending twice, and a process that has recovered finds no temporary file but its own.
  On `InboxIngest`: **DroppedEventsHaveTasks**. The copy that `ingest` works on is
  ahead of what is stored and behind the ledger, and a task that has a key keeps it.
  A death that leaves the state half-written is among its steps.
* `DurableWorkerProofs`: **WorkerTypes**, **DrivenIsHeld**, **ReclaimWorks**,
  **SettledForGood** and **ResourceComesBack**. DrivenIsHeld, ReclaimWorks and
  SettledForGood come from one inductive invariant, `WorkerInv`: types, the job is a
  row, the row names the worker while it is driven, its status is one that may be
  driven, the heartbeat finds a token, and a row with an expiry has a token. The parts
  need each other: `claim_expired_tasks` leaves the present worker's row alone only
  because it runs between two jobs, and `heartbeat` sets an expiry only where
  `acquire_lease` has set a token. ResourceComesBack is inductive with `TokensAreOld`
  (a token is the number of a life that has begun). TypeOK holds two things that are
  not types: the order of the rows is a strict total order of them (`Ordered`), and
  retries have an end. The latter is not inductive, because a failure that was counted
  and could not be written is counted again when the task comes back; `RetriesEnd`
  (for a cause that comes again) therefore lets the limit be passed by as many failures as there were such faults,
  and by one more only of a task that is settled.
* `SidecarProofs`: **LockExcludes** for the lock alone, **ServersAreAlone** for
  the lock as the server uses it (`ServerSpec => LockSpec`: the server's steps are steps
  of the lock or stutter), **ServerIsFound** for the endpoint. In `LockInv`, tokens are
  issued once and differ, every file names its maker, the file that a recovery is
  about to remove is nobody's, and a holder has the file unless a recovery raced.
  **LoneCallsSucceed** is inductive with `LoneInv`: what a call that nobody steps into
  has read is still the file, so its second turn finds the path free.
* `SidecarProofs`, on the stream: **QuietBrowserIsCurrent**, for any history, wire and
  number of failures. The property speaks of a stream that has nothing left to say, so
  the invariant (`StreamInv`) speaks of one that has: what was announced has arrived,
  or an error shows, or the stream owes it (the handler is behind the hub, or a frame
  that causes a read or a snapshot that is new enough is on its way) or the reads do
  (`Served`). Applying a snapshot clears the error, also when that snapshot is old, so
  that alone is not inductive; `StaleIsFollowed` adds that whatever is stale on its way
  is followed by something that is not.
* `RepairProofs`: **RepairLosesNothing**, **RepairSuccessIsEarned**,
  **RepairClosedIsFrozen** and the refinement **RepairImplementsPromise**. The
  invariant (`RecordInv`) says of every call under way that its version is at most
  the row's, and that when they are equal its draft is one that the promise allows
  for the row as it is now; a call with an older version is stale, and `Save` refuses
  it. What the row says is then an invariant of the promise (`ChangeIsSound`).
* `RepairProofs`, on `SolutionLibrary`: **VerifiedSolutionsStand**, beside any record
  that moves as the promise allows, hence beside RepairRecords. A verdict that says
  RESOLVED closes its record, so it is the last one and the row is frozen
  (`Settled`); what a process is about to save stands already, and what it is about
  to recommend was saved as VERIFIED under number 1 (`JobStands`), which nobody can
  overwrite.
* `ParallelDispatchProofs`: **VerdictIsFinal** (a verdict is written only where there
  is none, by route and collector alike), **CacheSparesCalls** (`OnePast`: of the
  batch calls that ran without overlap the one that called is running, or its answer
  is in the cache) and **FailFastHolds** (`FewLateStarts`: once the flag is set, the
  late starts and the routes that have looked at the flag and not begun are together
  fewer than the threads of the pool, one of which set it). **ReturnsOneStory** and
  **StreamTellsTheBatch** follow from `StoryInv`: at every moment the events of a call
  tell of each executor exactly what its results say, a route that has not come to the
  lock is unsettled or timed out, what is in the cache is whole, and what a stream
  tells after the copy was made are starts of routes that had timed out. They rest on
  the assumption that no adapter answers with a status of the dispatcher's own
  (`VerdictsAreTheDispatchers`), which none in the repository does.

Every safety invariant, action property and refinement that a run checks is stated by
one of these theorems. Only model-checked are the four liveness properties,
`EveryEventArrives`, `EveryTaskSettles`, `StampedWritesArrive` and `EveryFanoutReturns`.

Beyond the prover altogether are liveness under fairness, ENABLED, and what a
recursive definition computes for every input; no specification here that is proved
about has a recursive operator.

## Not modelled

Of the modelled parts: artifact digests of the inbox (no caller yet), collectors
inside the durable worker (they share nothing with its tasks), several processes
inside one SQLite transaction, the rules of the live verdict, more than one browser
(clients share only the hub's connection limit), grants that expire or are withdrawn
while an approval is being made, the status that a fan-out's aggregate is given, the
expiry of its cache (there is none), HTTP and rendering. Wall clocks are taken to be
one clock that does not go back, and files to behave as on POSIX.

Of the rest, PROJECT.json gives the reason for each part. Most of the repository by
size decides, formats or audits one document at a time (governance, policy, quality
gate, receipts, planning contracts, audit scripts), launches external programs or
draws screens: there is no state that two steps share. Four parts are protocols and
are left for later: the collector scheduler, the agent session, work units and
result return.

## Plan

The order was: ledger, leases and files, because everything else stands on them; the
inbox and the worker that use them; the way to the screen; then the lock and the
server, repair records with the solutions taken from them, and the fan-out. Next:

1. `CollectorScheduler`: bounded queue, circuit breaker, collectors that outlive
   their timeout in a thread.
2. `LedgerSession`: heartbeat thread and main thread over `TaskLedger`.
3. `ResourceLease` by several processes; `WorkUnits` and `ResultReturn` as small
   modules.
4. Proofs: the type invariants of the modules that state none in a run, and single
   steps of the liveness arguments (what each fair action brings nearer), which are
   facts about steps and within the prover's reach.
