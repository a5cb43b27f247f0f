# A verification model of the YeYuGamer Manager

YeYuGamer runs the daily tasks of several games on one Windows desktop. Its
Manager (`backend/yeyu_gamer_manager`) queues the runs of a batch, starts a
fixed Adapter Host for one run at a time, lets operators cancel, review and
resume, reports by mail, and survives restarts. This directory holds TLA+ models
of the parts whose correctness depends on the order in which threads, processes,
commits and crashes happen, the TLC configurations that check them, and TLAPS
proofs about them.

`manager.py` is `backend/yeyu_gamer_manager/services/manager.py`, other service
files are beside it, and `sqlite_store.py` is in `backend/yeyu_gamer_manager/store`.

## The system, and which module models which part

| Component | State | Operations | Hard behaviour | Modules |
|---|---|---|---|---|
| Batch queue (`manager.py`) | batch, membership, run, attempt, cancel and work-item rows; worker and delivery threads | create, cancel, resume, decide, seal; the steps of a worker; startup | threads interleave at every commit, late callbacks, crashes between commits | `QueueState`, `QueueWorker`, `QueueOutcome`, `QueueHost`, `QueueCommands`, composed in `BatchQueue` |
| Controller leases (`sqlite_store.py`) | `controller_leases` | grant, end, revoke at startup | decided on an unlocked read, ended twice, owner dies | `DesktopLease` (abstract), `ControllerLease` |
| Input recovery, parking, timeout budget, dispatch reservation | recovery and parking records, quarantine, drain capability | recover, park, expire, claim | a timeout races a late result | `QueueWorker`, `QueueOutcome` |
| Adapter protocol (`adapter_protocol.py`) | stream cursor | `consume_line`, `finish` | event order, exit without a terminal event | `TodoRun` (abstract), `AdapterStream` |
| Adapter Host owner (`adapter_host.py`) | process, plan, cancel flags, threads | execute, watch, cancel, drain, handoff; promote | reader, watcher, writer and cancellation race | `HostWatch`, `PackagePromotion` |
| Owned input (`owned_input_execution.py`, `owned_host_job.py`) | Job, gates, threads inside callbacks | bind, run, stop and drain, close | two stoppers, late callbacks | `OwnedInput` |
| Fixed Host (`YeYuGamerAdapterHost.cs`) | runner process, job, relay threads, files | relay events, cancel, end | the end of output, exit and deadlines in any order | `HostRelay` |
| Completion review and seal (`manager.py`, `completion_contract.py`) | reviews, work items, watch deadlines | adjudicate, open, submit, seal | worker, watchdog, Agent and cancellation all seal | `CompletionContract` (operators), `CompletionReview` |
| Work item claims (`sqlite_store.py`) | claims with an expiry, idempotency ledger | claim, renew, decide, invoke | expiry and retries race a decision | `WorkItemClaims` |
| Resume intents (`orphan_pending_execution.py`, `manager.py`) | intents, successors, reservations | create, dispatch, fail, reconcile | racing resumes, a crash between intent and successor | `ResumeRun` |
| Todo ledger (`manager_todos.py`, `todo_dispatch.py`, `current_completion.py`) | instances, attempts, blockers, seals | plan, start, end, block, release, reset, project | plans outlive the facts they were made from | `TodoDispatch` (operators), `TodoBatches` |
| Todo periods and reset scheduler (`todo_reset_scheduler.py`) | instances per period, one thread | boundary, reconcile, patch | clock steps, changed reset hours | `TodoLedger` |
| Execution control (`execution_control.py`, domain facts) | leases, bindings, screenshots, receipts, checkpoints, blockers | accept or refuse a fact | facts dated late | `ExecutionControl`, `TodoEvidence` |
| Game launch and close (`game_launcher.py`) | Windows processes, launch state | launch, drive the launcher, recycle, close | identifiers are used again, waits read stale listings | `GameLaunch`, `GameClose` |
| Notifications (`notifications/dispatcher.py`, `manager.py`) | deliveries, leases, holds | seed, render, arm, send, tick | ambiguous sends, holds decided on old rows | `NotificationOutbox` |
| Store (`sqlite_store.py`) | schema, tokens, cache, receipts | initialize, write scopes, commands | crash between migrations, foreign commits | `StoreGuards` |
| Start of the Manager (`process_control.py`, `lifecycle_lock.py`, `manager_host.py`) | mutexes, launch file, PID record | start, publish, remove, pair | late hosts, killed starters | `ManagerStart` |
| Artifacts (`adapter_artifacts.py`, `manager.py`) | staging files, files of the Manager, artifact rows, journal of events | capture, import, commit with the event, read again | files rewritten between look and read, files before rows, quotas at their limit | `ArtifactImport` |
| Uploads, accounts, legacy import, HTTP, clients, web interface, scripts, snapshot coalescer | files, requests, pages | | outside input and output | not modelled |

Every module begins with a comment that says what its variables stand for;
`PROJECT.json` names the source lines behind each definition. An action is a
stretch of code between two points at which somebody else can come in: the
commits of the store, the reads a later commit relies on, locks taken and given
back, waits. Where a check is made outside the transaction that acts on it,
check and act are two actions.

### Correspondence, module by module

* **ControllerLease.** A row of `controller_leases` is `lease`, `gen` and `owner`
  of its attempt; `proposal` and `ending` are what a thread has read and not yet
  committed. `Propose` is the unlocked part of `_prepare_run_attempt`,
  `CommitGrant`/`RejectGrant` its transaction, `ReadEnd`/`CommitEnd` are
  `_end_controller_lease`, `EndForAttempt` ends in one transaction, `Restart` and
  `RevokeStale` are the next process. Expiry is absent: the code treats
  `expires_at` as an observation.
* **BatchQueue.** The launch of a run is a chain of actions (`Begin`, `Pick`,
  `Dispatch`, `Prepare`, `Claim`, `Mark`, `MarkRun`, `Launch`, `TakeHandoff`,
  `Spawn`, `Record`, `Reread`, `SetRun`), an aborted launch four commits, a
  resolution two transactions (`Resolve`, then `ResolveCancelled` or
  `ResolveOpen`), a seal `AcknowledgeSeal` and `SealCommit`. A run is attempted
  at most once here, so attempt, lease, reservation and membership are functions
  of the run; later attempts are `ResumeRun`'s subject. `blocked` batches are
  `review_required`; `recoveryPhase` and `completionReviewPhase` are one variable.
  `ResumeBatch` requires that no worker of the batch runs (see `ReadyMeansIdle`
  below). The recovery of one batch at startup is one step; a Host that outlives
  its Manager is not followed.
* **AdapterStream.** `stream` is the `AdapterEventStream`, `Accept`/`Refuse` one
  line, `Exit` the end with `finish` or a failure. Of the failures of a Todo one
  stands for all, and a refused line is "bad" for whatever reason of its own.
* **HostWatch, OwnedInput.** One variable per thread says where it is; a deadline
  is a choice that may be taken at any time after it is armed. The lines are
  "event", "terminal", "bad".
* **HostRelay.** `Accepts` is `ValidateRunnerEvent` and `Note` what it leaves in
  the Host's sets. The status a terminal event says and the exit code it declares
  are two fields, as in the code: only the status `completed` is refused while
  something is unresolved, and a runner may declare exit 0 with open Todos
  (`czn-runner` does, as `review_required` or failed). `exit` is what the Host
  itself returns, 0 only when the declared code, the process and the relays agree.
* **ArtifactImport.** One event at a time is handled in steps: `Deliver` with the
  frame it asks for, `Look`, `Read`, `Check` of the staging file, `Place` of the
  Manager's own, `Commit` of rows, event and Todo attempts as one transaction.
  Between any two the runner may rewrite its file, the attempt may end or the
  process may die; only the store's lock keeps others out. A content stands for
  bytes, size and digest.
* **PackagePromotion.** The directory, the transaction of `promote_candidate`,
  the installer script (which takes no lock), `execute` and the Host's own load.
  A crash is taken only while no Host runs.
* **CompletionReview.** The facts of finished attempts are frozen in `ledger`;
  threads resume the review phase from their own local knowledge.
  `CompletionContract` holds the predicates as operators over a snapshot.
* **WorkItemClaims.** A command is one transaction: look the key up, compare the
  state version, run. A capability call checks its claim in a transaction before.
* **ResumeRun.** Commands, start threads, the Host's callback, the watchdog and
  the next startup, each commit by commit.
* **TodoBatches, TodoLedger.** Batches freeze a plan and run later; time counts
  hours. With `Prompt` the scheduler acts before the clock goes on.
* **ExecutionControl, TodoEvidence.** One action per acceptance function; a fact
  is known by the index at which it was accepted.
* **GameLaunch, GameClose.** Windows is the environment: processes appear, end
  and give their identifiers back between any two steps. Time is polls left.
* **NotificationOutbox.** `mail` is what the SMTP server accepted; the dispatcher,
  the watchdog tick, renders and operator requests are threads.
* **StoreGuards.** `db` is committed, `work` what the open write scope sees.
* **ManagerStart.** A host is one process birth. The Manager it starts is external.

## Runs

| Run | Module, configuration | Shows |
|---|---|---|
| `execution` | `MCExecution` | The parser implements `TodoRun` and believes nothing unproven; bytes are bounded and a truthful runner can always end; the owner of the Host, the drain of owned input, the fencing of input, the evidence of a Todo, and the import of its artifacts |
| `fixed_host` | `MCFixedHost` | The Host forwards one truthful terminal event and leaves nothing alive; only proven packages run, and no directory moves under a Host |
| `review` | `MCReview` | A batch is accepted on proof only, sealed once, and not before the reviews it asked for; claims are exclusive; over several batches done means a reviewed seal of what is selected, and completed facts and gates are kept |
| `desktop` | `MCDesktop` | The lease ledger implements `DesktopLease`; one live attempt under racing resumes; launches, recycles and closes touch only what they may |
| `services` | `MCServices` | One owner of the Manager; a clean store whose guards know the tokens; no second copy of a mail; no period's history is taken back |
| `queue_one` | `MCQueue`, `MCQueueOne.cfg` | One run under results, lost Hosts, cancellations of run and batch, repeated decisions and a crash |
| `queue_two` | `MCQueue`, `MCQueueTwo.cfg` | Two runs of one batch, and two batches: one controller, one run at a time, immutable seals, refinement of `DesktopLease` |
| `queue_ends` | `MCQueue`, `MCQueueEnds.cfg` | Every worker retires and a cancellation that meets one is answered |
| `begun_ends` | `MCLive` | Starts, stopped Hosts, drains and sends come to their ends |
| `queue_startup` | `MCQueue`, `MCQueueStartup.cfg` | finding `RestartSucceeds` |
| `mail_days` | `NotificationOutbox`, `OutboxDays.cfg` | finding `OneMailPerDay` |
| `artifact_empty` | `ArtifactImport`, `ArtifactEmpty.cfg` | finding `EmptyIsLegitimate` |

The runs whose module starts with MC and names several components combine parts
that share no variable: `subject` says which part moves in a behaviour and the
others rest. Interleaving such parts would multiply the states and show nothing,
since no property relates them.

In `MCFixedHost`, `MCDesktop` and `MCReview` the constants get their values in
the `.cfg` and each component has one instance, about which the properties, and
the theorems, are stated. What keeps a run small is a scenario: a value of
`subject` under which `MCNext` leaves out part of what the component may do.
`MCFixedHost` has `lines`, `cancelled` and `controlled` for the relay and
`package`, `module` and `alone` for the promotion; `MCDesktop` has `pair`,
`reused` and `started` for the close, `alone`, `crashed`, `member` and
`controlled` for the resume, `waited`, `replaced` and `others` for the launch;
`MCReview` has `one`, `two` and `crashed` for the review, `claims`, and `mixed`,
`reset`, `narrowed` and `marked` for the Todos. A few scenarios substitute other
deadlines, fewer resources or other ledgers (`Module`, `Waited`, `Replaced`,
`Two`, `Crashed`) and are instances for that reason only. `MCExecution` and
`MCServices` have one instance per set of bounds. Each is named, with its
purpose, where it is declared.

Beside some definitions stands a changed form of it (`AcceptUnresolved` beside
`Accepts`): a mistake a change of the code could make. Every property of a run is
refuted when one of these takes the place of the definition.

### Bounds, and why they are enough

The instances are the smallest in which the interesting thing happens.

* Leases: three attempts (two compete, a third shows that a generation skips an
  ended row) and three Manager processes.
* Queue: one run meets every handler at every step with a crash at any point;
  two runs show the succession of members and two batches the competition for
  desktop, Host and quarantine. `MaxDeliveries` is 1, or 2 for the liveness run
  (the code's 3 only delays). In `MCQueue`, `Apart` (`queue_one`) keeps three
  sources of disturbance from meeting all at once, and `Serial` (`queue_two`) a
  crash from meeting a cancellation; `queue_one` has those pairs with one run.
  Where two batches compete (`Competing`), the first stops before its second run,
  and nobody cancels or dies. `queue_ends` and `queue_startup` have neither.
* Stream: two Todos and two artifact ids, limits of one byte, exit codes of one
  bit: enough for an artifact of another Todo, a second terminal event, a limit
  exceeded by one, a code that is written with the other sign.
* Todos: a day of two hours and a week of two days; two Batches whose creation
  overlaps; one reset and one operator's mark (two with one Batch). Where two
  definitions meet (`Weeks`, `Hours`), the scheduler is `Prompt`.
* Review: one run with two Todos and every attribute of an artifact varied in at
  most two ways, or two runs with two threads, with and without a crash.
* Resume: two racing resumes with three attempts and a crash, or one with two
  control commands. Threads are interchangeable and begin in their order.
* Claims: two Agents, two leases, three keys committed in their order.
* Launch and close: two or three process births under one or two identifiers,
  one action and one recycle per wait, one to four polls per deadline.
* Relay: one Todo; three lines and no cancellation, or two lines and one
  cancellation, or one line, two cancellations and control lines; one fault. Three
  lines are the shortest run that says hello, completes a Todo and ends. A terminal
  event takes every status, every set of Todos and either exit code.
* Promotion: a module beside a promoted compatibility package with a fault and a
  crash, a module alone that is installed twice, or one whose promotion fails;
  two safe builds and a denied one.
* Artifacts: one staging file that is written twice and one change of a file of
  the Manager; frames of the Manager; two Todos with an edit of the profile. The
  limits are one or two artifacts per Todo, and one byte where the runner rewrites
  its file, so that each is met and would be exceeded by one.
* Input: two facts of each kind, facts late by one, a clock of two.
* Outbox: two rows over one or two days, each sent once; one row with all tries,
  all operators and a crash. Store: two tokens, one command, two old commits, and
  no foreign commit between the two reads of a reload.
* Start: two starters, two hosts in order of launch, one crash of each kind.

Deadlock is not checked: a queue whose batches are sealed, a stream that has
ended and an exhausted bound rightly stop. Every action and every disjunct of
the next-state relations is taken in a passing run.

### Fairness

* `BatchQueue`: weak fairness for the worker of a batch, its delivery thread, the
  pending seal and the startup; they are threads that run on their own and every
  wait of a worker has a timeout (`WaitExpired`). Nothing is assumed of the Host
  process, of operators or of crashes. `CancelAnswered` speaks of cancellations
  that meet a worker; when a Host owner is retained or the startup fails nobody
  answers, which the property says.
* `HostWatch`: the watcher, the reader and the writer run; a process that was
  killed dies.
* `OwnedInput`: the threads inside leave, the recovery goes on; its observations
  compete with helpers that come and go, hence strong fairness: the Job is asked
  again and again, and helpers cannot be started for ever once it is stopping.
* `NotificationOutbox`: the dispatcher and the watchdog run, a lease runs out.
* `ManagerStart`: the steps of a starter are bounded by timeouts.

## Findings

Three disagreements of the code with its own comments are runs that TLC refutes:

* `RestartSucceeds` (`manager.py:924`): a crash between the two commits of a seal
  makes every further startup fail, because the store refuses
  `acknowledged -> reconciliation_required`.
* `OneMailPerDay` (`manager.py:5210`): two batches sealed on a settled day are
  both mailed as reports of that day.
* `EmptyIsLegitimate` (`sqlite_store.py:7251`): an empty text artifact, which
  `adapter_artifacts.py:592` calls legitimate, is imported, and then its size
  counts as an invalid row, so that the next artifact of the run is refused and
  ends its event stream.

Modelling met others. Each is stated as a property in its module, above or below
the properties that hold, with the comment or document it quotes; TLC refutes it
on the module by itself under small bounds. They have no run of their own, which
keeps the project at one violation per independent cause of an outage or a
wrong report; the properties that do run are stated so that they hold beside
them, as the last column says.

| Property | Module | What the code does | Beside it holds |
|---|---|---|---|
| `WithdrawnNotHosted` | BatchQueue | a run cancelled while queued can be written running and handed to the Host (`manager.py:8136`) | the Host still runs only live attempts (`AttemptOwned`) |
| `CancelIsCarried` | BatchQueue | a rejected decision hides an undelivered cancellation from the next startup (`manager.py:718`) | `CancelAnswered` for those that meet a worker |
| `DeliveredIsPolled` | BatchQueue | a cancellation counts as delivered to a launch loop that has ended (`manager.py:10207`) | a delivered signal reached a running process |
| `ReadyMeansIdle` | BatchQueue | repeating an accepted decision offers a batch for resumption while its worker runs (`manager.py:11302`) | the second worker is not followed |
| `RetiredDayIsReported`, `DayReportNeedsNoScreenshot` | NotificationOutbox | a row never sent counts as the day's report; the dispatcher asks a day report for screenshots | `MailSafe` |
| `UpstreamDecides`, `CarriedCanBeAccepted` | CompletionReview | an upstream-only run is never reviewed and never accepted; a carried Todo's artifacts are refused in a review | `ReviewProven` |
| `NotReplayed`, `EligibleCanStart`, `ResetSupersedes`, `NewestDecides`, `GateNeedsRelease` | TodoBatches | a plan made too early executes completed actions again; an eligible Todo cannot start; a seal after a reset counts; a newer contract without review does not; a gate is lost when its attempt ends | facts and gates are kept (`TodosKept`) |
| `PeriodAppears`, `BoundaryCreatesPeriod`, `SchedulerAlive` | TodoLedger | a boundary between two looks is skipped; a later reset hour keeps yesterday's instance; a clock step back ends the thread | `PeriodsKept` |
| `InvocationReplayed`, `EffectUnderClaim` | WorkItemClaims | a capability call validates its claim before its key, and outside its transaction | `ClaimsExclusive` |
| `OldIntentQuiet`, `FailedStartRestores`, `TakeoverPreserves`, `ReleasedFirst`, `FinalKept`, `NoneSurvives` | ResumeRun | an old intent's failure ends a newer one's membership; a failed later start is not restored; a takeover does not stop a start, nor need a release; a cancelled run becomes running; a revoked lease hides a live attempt from the startup | `OneLive`, and the order of intents outside a batch |
| `LaunchedGone`, `ForcedOnlyKnown` | GameClose | a reused identifier is taken for a client of before; `taskkill` by identifier | the handle-verified path of the queue (`CloseSafe`) |
| `RecycleSparesLive` with `Existing`, `NoSecondLauncher` | GameLaunch | the listing to recycle is older than a wait; a process that cannot be opened counts as gone | `RecycleSparesLive` for a kind outside `Existing`, where no launcher was running before |
| `PromotedIsLedgered` after a fault or a crash, `ModuleExecutes` | PackagePromotion | a swapped directory survives its transaction; an execution between two renames runs the other package | `ProvenRuns`, and `PromotedIsLedgered` until a step fails or the Manager dies |
| `OwnEndKept` | HostRelay | a runner that has reported its end and closed its output, and is not seen to exit at once, is killed for an output "without terminal", and the Host answers 70 (`YeYuGamerAdapterHost.cs`) | `RelayHonest`: the terminal event it forwarded stands and is truthful |
| `CacheIsComplete` with `GapWrites` | StoreGuards | the version is read after the tokens | the guards without such a commit |
| `OneActivePerCode` | TodoEvidence | a reopened blocker doubles an active one | `EvidenceSound` |

## Proofs

TLAPS proves what follows for every value of the constants, under the
assumptions named in the modules that declare them. All are about the constants:
numbers are naturals, sets are finite, values that mean "nothing" are not rows, a
run belongs to a batch, results are states an attempt may end in. TLC evaluates
each for the values it uses. None of the theorems is about those values: where a
theorem names a component of `MCDesktop`, `MCReview` or `MCFixedHost` (`Resume`,
`Days`, `Relay`), that component's constants are the module's own. Each
invariant was first checked by TLC, the strengthenings in runs that are not kept,
since the proof supersedes them.

**`ControllerLease_proofs`**, for every set of attempts and every number of Manager
processes: `TypeCorrect`, `ExclusiveDesktop`, `FencingTokens`, `RestartFences`,
`LedgerSafety`, `FinalRows` and `Refinement`. None of the properties is
inductive: `LedgerInv` adds that a row exists exactly when it has a generation,
that an active row carries the highest one, that a serving process owns the
active rows and that a proposal belongs to an attempt without a row. One step
per action shows that it is preserved; the refinement uses it to know that a
committed grant finds no active row and an end at most one. The proofs use the
type of `MaxEpochs` only.

**`AdapterStream_proofs`**, for every set of Todos and artifacts, all byte limits
and every width of exit codes: `ResultsAreProven`, `BytesStayBounded`,
`ClosableAlways`, `ExitsAreRecognised`, `StreamIsSafe` and
`StreamRefinesTodoRun`. `IInv` is the shape of the stream, that only a started
Todo ends and a completed one is proven (`Rests`), that the run's status and the
result agree with the Todos (`Agrees`) and the byte bound. `Effect` says what an
accepted event does to the stream, once, so that each proof has one step per
kind of event instead of one per branch of the parser. `ExitsAreRecognised`
needs `ExitInv`, and one fact about powers of two that is an assumption of the
module for TLC to evaluate, because the provers do not interpret `^`.

**`ManagerStart_proofs`**, for all starters, hosts and crashes: `RecordOwned`,
`OwnerIsAlone`, `LaunchFileOwned` and `StartIsSafe`. The record names its owner
because the record lock is exclusive (`Mutex`), a host that was approved found no
record and nobody can write one before it (`Approved`), and only a host that was
born is on record (`Written`). For the launch file, `Held` says that the starters
between taking and releasing the lifecycle lock are its holder.

**The queue.** For every set of batches and runs, every assignment of runs to
batches and every bound on crashes and commands.

*`BatchQueue_proofs`*: `ExclusiveController`, `QuarantineHasNoController`,
`DesktopIsKept` and `QueueRefinesDesktop`. That a lease is never granted to an
attempt that already had one does not follow from the row lock: nothing in
`Prepare` looks at the attempt's own row, it rests on the lists of the workers.
The inductive invariant `QueueInv` therefore says that a run without an attempt
row never held the desktop (`LeaseNeedsAttempt`); that the list of a worker, and
the run it has taken from it, are members of its batch without an attempt
(`AheadUnstarted`, `PickedUnstarted`); that nothing of an absent batch has started
(`AbsentUntouched`); and that the callback finds a result of the process
(`HostResultKnown`), without which its commit could blank an attempt row. All but
four of the actions are shown to be `Calm`, one leaf per action: they create and
forget no attempt, end leases at most, and only shorten the lists.

Its second part begins with `QueueTypeCorrect`. The lemmas `AttemptWriters` to
`WorkerWriters` list, per group of variables, the actions that can change it, so
that every later proof has one leaf for each of those and one for all the rest.
Types are not inductive: an action writes to `cur[b]`, which may be nobody.
`TypeInv` adds what a worker is busy with at each place (`CurKnown`), what it has
decided to write (`IntentKnown`), whom the Host serves (`HostKnown`) and what a
startup may find (`RecoverOpen`). `WorkerMoves` says in how few ways a worker can
move at a step of anybody; most later proofs are a case split over it.

It goes on to `EndsHold`, `LateSuccessIsRefused`, `DecisionIsOwed`,
`CompletionsAgree` and `SealedBatchesStay`. A seal decides on rows other threads
are about to write. `RowInv` says why none of them comes later: a run ahead of a
worker is still startable or refused (`AheadStartable`), a live attempt has an
active or fenced membership (`LiveMember`), a batch that was not created is
fresh (`AbsentFresh`), a process that does not serve runs nobody (`DownIdle`), and
every seal on its way has its acknowledged cancellation (`SealingSettled`).
`DecisionIsOwed` assumes `Replays = Batches`: that a client may send any decision
again, which is true of the code and bounded only for TLC. `CompletionsAgree`
rests on `CompletedRows`, the three rows of one run written by different commits.

Its third part is `AttemptsAreOwned` and `RunsAreSerial`. Two things had to be
found. First, which attempts may be alive beside the one the worker executes:
`LiveIsCur` says only those whose claim was refused, which hold the desktop and
wait (`Waiting`), unless the batch was cancelled. It needs that a run without an
attempt was not asked to stop (`Unstarted`) and that a reported or committed
attempt has ended (`ReportedEnded`). Second, why a cancellation that counts as
delivered did reach the process: it left its list of attempts only by a signal
(`RunningSignal`), and between the handoff lock and the recorded pid no delivery
runs (`HandoffSignal`); a recovered attempt leaves nothing alive for a later
request to find. `RunsAreSerial` adds that only the attempt of the worker was ever
claimed (`ClaimedIsCur`) and that none executes while the next run is prepared
(`QuietWhilePreparing`). Its proof corrected the property: "at most one attempt of
a batch is alive" holds with two runs, and fails with three runs in two batches,
when a start whose claim was refused is cancelled by itself and the queue goes
on. `SerialQueue` now says that no other attempt is alive while one *executes*.

**`CompletionReview_proofs`**, for any number of runs, Todos, resuming threads and
crashes: `NoSealIsEarly`, `AwaitedRunsAreAsked` and `SealStands`. A thread reads
the barrier, looks at the reviews and seals in separate steps, between which
others review, seal and crash. `SealInv` says what a thread on its way to the seal
knows (`Justified`): it cancels, it read an elapsed barrier, or every run is
settled; and that this stays true, because upstream results are frozen
(`FrozenUpstream`) and no review is ever forgotten. The last needs that what an
Agent submits is a row and no row is None (`SubmissionIsRow`, `NoneAssumption`).

That what a seal accepts was proven (`AcceptanceIsProven`) has to follow the
whole adjudication of the contract: `ProofInv` says that every review, every contract a thread
carries to the seal and every contract of the sealed batch is sound against the
facts, which are frozen when the attempt ends, so that a review that was good
when it was written still counts (`ValidatedReviewsCount`). `FactsAssumption`
says that a batch has a run, that no attempt ends before its day begins and that
None is no run or time. `ReviewIsProven` is the conjunction the run checks.

As `Days`, its second part proves `DoneRestsOnAnAcceptedSeal` and `TodosAreKept`
for any number of Batches, Todos, attempts, selections and resets
(`TodoAssumption`). `DayInv` says that a Todo is completed exactly while it has
a time of completion (`Dated`), and that a Batch that was accepted found every
Todo of its scope completed (`Founded`). As `Claim`, its third part proves
`ClaimsAreExclusive` (`ClaimAssumption`): `Pointed` says that only the claim a
running item points to may be active, `ItemSettled` that an item has one
decision, by the claim it points to, and `Keyed` that every key that took effect
is in the ledger of commands, and once, so that a repeated command meets it.

**`OwnedInput_proofs`**, for any number of helper processes: `ReceiptsAreQuiet` and
`ReceiptSteps`. `Progress` says what a thread that stops the execution has brought
about at each of its places, and that nobody takes it back: the watcher and the
recovery stop at the same time, give up and begin again while the writer ends,
readers drain and callbacks leave. That nobody lives unnoted when the Job is ended
needs that a bound Host is a member of the Job or dead (`PinnedRoot`).

**`ExecutionControl_proofs`**, for every clock, lease and number of facts:
`InputIsFenced` and `ReplaysAreUndisturbed`, under `ExecutionControlAssumption`,
which `MCExecution` assumes of its instance. `IInv` says that only the last
controller and the last focus may live and a focus begins when those before it
have ended (`InTurn`), and that every screenshot was taken inside the hold of its
focus and its controller (`Taken`), which ends never undo because a lease ends no
earlier than it was last used. `Taken` follows from
the acceptance of the screenshots alone: that `record_action_receipt` checks their
context again adds that the hold still lives when the action is recorded, which
`Fenced` does not need. As `Evidence`, the module also proves `EvidenceIsSound`
(`TodoEvidenceAssumption`): no link of a chain of checkpoints goes
back and a valid one goes beyond all before it (`Climbs`), and every revision of a
blocker keeps the ambiguity of the first, which names an action that was recorded
by then (`Rooted`).

**`OwnedInput_proofs`**, second part: `HostIsSafe` for any number of attempts, one
after the other, with or without a Job (`HostConstants`). `HostInv` says that a
cancellation is the owner's and somebody asked for it (`Scoped`), and of each
attempt that only the owner's is not silent, and that what confirms an end keeps
being true of it (`Fine`).

**`ArtifactImport_proofs`**: `ArtifactsAreSafe`, for any Todos, files, limits,
frames, crashes and edits (`ImportAssumption`). `Handler` says what the handler of
an event has established at each of its steps: what is about to be placed is what
the event declared, what was placed is whole, and the quota it looked at still
holds, because nobody else commits meanwhile.

**`ControllerLease_proofs`**, second to fourth part. `ClosingIsSafe`
(`GameCloseAssumption`): a handle pins its process (`Pinned`), so what is
verified by it is what is ended (`OfTheBound`), and after a cancellation at most
one (`LateOnce`). `LaunchIsSafe` (`GameLaunchAssumption`): the clicks of a
launch are at most `(1 + recycles) * PressesPerWait`, by budgets that fall with
every press (`Pressed`); `SparesInv` says that a process only grows: what is no
client now was none at the gate (`Grown`), so that what a recycle ends was a
launcher or a shell there (`Doomed`). `ResumeIsSafe` (`ResumeAssumption`):
`RunInv` says that only the newest attempt may be live (`Newly`), that the
attempt a thread starts is its own and the one it replaces has ended
(`Carries`), and that no two threads carry the same (`Apart`). Outside a batch
`SoloInv` adds that a thread about to start the Host carries the newest intent
(`ReadyToSpawn`) and that the newest intent still has something to execute
(`Reserved`), and `UncancelledInv` that nothing is being cancelled before a
control command. The proof found the one step that takes a reservation back
while its thread carries it, a start that read its attempt as it was being
cancelled, and the property excludes exactly this step (`StaleTell`) once a
control command has come.

**`AdapterStream_proofs`**, second and third part. `RelayIsHonest`, for any
Todos, numbers of lines, cancellations and control lines, without an assumption:
`Reported` says that the Host's sets are what was written, that a terminal event
is the last line, names what was reported and has the status completed only of
all Todos; nothing is asked of the exit code it declares. `Told` says that a
cancellation is marked only after the runner was told, `Fenced` that the runner
works only inside the job, which is closed with the Host, `Proven0` that an exit
0 of the Host is a declared one. `PromotionIsSafe` (`PromotionAssumption`):
`PackageAll` says that only proven content is on its way (`Proof`), that a
promoted module or backup has its row until something fails (`Ledgered`), and
that what a failed promotion puts back is what was there, while nobody else
touches the directory (`Restorable`); "until" is expressed with the budgets of
faults and crashes, which only fall.

### What is only model-checked

* All liveness, and everything that mentions fairness: `QueueEnds`, `BegunEnds`.
* The sums of sizes in `ArtifactImport` (`BytesKept`, a fold, which needs an
  induction the provers cannot do): the part of the run's `ArtifactsSafe` that
  `ArtifactsAreSafe` lacks.
* `GuardsSafe`, `MailSafe` and `PeriodsKept`, and `FencedIsOwed` when decisions
  cannot be repeated. For these the run is the evidence.
* The bundles `TypesOK`; the proofs establish the types they need as parts of
  their invariants.

`MCExecution` states its properties about several instances at once. For
`EvidenceSound`, `InputFenced`, `InputSafe`, `HostSafe` and `ArtifactsSafe` the
theorem is about the same formulas of the component for all constants
(`EvidenceIsSound`, `InputIsFencedAndUndisturbed`, `InputIsSafe`, `HostIsSafe`,
`ArtifactsAreSafe`) and does not name the run's definition.

## Not modelled

Emulator binding, window capture and the input executors are dealings with
Windows whose outcome the models take as a choice (a launch succeeds, needs a
human or fails; a process is proven gone or not). The HTTP application, clients,
tray, web interface, the runners of the games and scripts sit outside the
Manager's state. Accounts, capabilities, uploads, access lists, recognition
sidecars of artifacts and the legacy import are sequential code over rows and
files. The snapshot coalescer shares a future between readers and keeps nothing.

Inside what is modelled, these are left out: the startup of a batch commit by
commit, a Host that outlives its Manager, and the manifest policy beyond its
limits. Four hazards are met by the models in a case that the checked
properties exclude, and listed as failing properties above: a live attempt whose
lease was revoked before the crash (`NoneSurvives`), the launch beside a launcher
that was already running (`Existing`), a foreign commit between the two reads of
the tokens (`GapWrites`), and the directory a crash leaves swapped
(`PromotedIsLedgered`).
