# A TLA+ model of the experiment job server

The repository (`src/`) is `jobserver`: a server that accepts jobs over TCP,
runs them on a pool of machines by spawning one local process per command,
copies their results with `rsync`, retries failures and reports to Slack; and a
command line client for it. This directory specifies the server, checks the
specification with TLC on small instances, and proves theorems about it with
TLAPS. Line numbers below are those of `src/src/bin/server/*.rs` unless a path is
given.

## 1. The system

### 1.1 Components

| component | source | state it keeps | operations |
|---|---|---|---|
| shared state | `main.rs` (`struct Server`) | `machines`, `variables`, `tasks`, `live_tasks`, `matrices`, `tags`, `next_jid`, one mutex each (`next_jid` is atomic); `client_ping` | none of its own |
| work thread | `main.rs` `work_thread` | `running_job_handles`, `to_remove`, `to_clone`, `updated`, the copy of `live_tasks` | loop: snapshot file, notifications, sleep, then under all locks drive / reap / clone |
| task state machine | `sm.rs` | the `TaskState` in each `Task`, processes, log files | `try_drive_sm` and its parts, one per state |
| request handlers | `request.rs` | none between requests | one handler per protobuf request, on the listener thread |
| copier thread | `copier.rs` | `incoming`, `ongoing`, attempt counters; `copying_flags` shared with the work thread | `copy` (called by the work thread), `copier_thread` |
| Slack notifications | `notify.rs` | `enqueued_immediate`, `enqueued_summarize`, time of the last summary | enqueue during drives, send from the work thread |
| snapshots | `snapshot.rs` | the file `server-snapshot` and its backup | `take_snapshot`, `load_snapshot` |
| templates | `src/src/lib.rs` | none | substitution of `{VAR}` and `{MACHINE}`, log file names, cartesian product |
| client | `src/src/bin/client/` | none | subcommands that send one or several requests |
| scripts, wrapper | `src/scripts`, `src/expjobserver_remote_wrapper.sh` | none in the server | outside the server |

### 1.2 Interaction

* *Listener and work thread* share the maps of `struct Server`. The work thread
  holds every mutex from the moment it starts to drive until it has reaped and
  cloned. A handler locks either all it needs at once (cancel, hold, tag, clone,
  remove machine) or one mutex after the other (`AddJob` without tag,
  `SetUpMachine`, `AddMatrix`, `ListJobs`), so that an iteration can fall in between.
* *Work thread and processes*: `spawn`, then `try_wait` on each drive; a process
  is killed only by `try_drive_sm_canceled`.
* *Work thread and copier thread*: `copier::copy` pushes a request on a queue
  behind its own mutex; the answer comes back as an entry of `copying_flags`.
* *Work thread and notifier*: transitions enqueue a jid or a machine; what is
  sent is looked up in `tasks` at the next round of the loop.
* *Work thread and file*: before each iteration the maps are copied, one after the
  other, and written over the old file; only a restart reads it.
* *Clients* see tasks only by polling; a listing is one request for the ids and one
  more for each thing listed.

### 1.3 What is hard, and what makes each component correct

* **live_tasks** is a cache of the tasks that need driving. It is correct when it
  misses none, across handlers that update it in a second step, short-circuited
  iterations, clones and restarts (`LiveCoversActive`; liveness: `CancelHandled`,
  `ExitNoticed`, `CopyNoticed`).
* **machines.running and Task.machine** name each other from two maps, while
  clients remove machines or add them again, setup tasks seize them and failures
  move them between classes (`NoLeakedMachine`, `MachineExclusive`,
  `FaultyMachineQuarantined`).
* **Cancellation** sets a flag in any state. Correct when the process is killed,
  nothing is started afterwards and process info stays consistent
  (`NoUnwantedStart`, `RunningIffProcess`).
* **Retries** clone tasks under new ids, into matrices and tags that may not exist
  (yet): `RetryBound`, `GroupsListMembers`, `MatrixHasNoGhost`,
  `OnlyOutsidePanics`.
* **Copies** are requested once and answered asynchronously, possibly twice, possibly
  late, by a thread that may stop: `NoLostCopy`, `CopyService`, `EveryCopyReported`.
* **unwrap, expect, unreachable!** in two threads with shared mutexes: one panic
  poisons the server (`OnlyOutsidePanics`, `StatusHasMachine`, and `LogWhereWritten`
  for the log file that is expected to exist).
* **Fairness of the loop**: an iteration drives tasks in jid order and stops at the
  first that changes (`StartsInOrder`, `ExitNoticed`).
* **Notifications** are queued by some transitions, by jid, and made from the state
  when they are sent (`OutcomeTold`, `BrokenTold`, `OnlyOutsidePanics`).
* **Snapshots** are taken map by map without a common lock and written in place, so
  that a file may be cut short and still be decoded: `FreshIds`, `TagsResolve`,
  `NoLeakAcrossRestarts`, `NoGhostAcrossRestarts`, `OutcomeSurvives`,
  `RequeuesAtMostOne`.
* **Locks** are taken in an order that only a comment fixes, and some guards live
  longer than they seem to: `OrderRespected`, `NoCircularWait`, `EveryRoundEnds`.
* **Variables** are merged when tasks are created and used again whenever a log is
  looked for: `MatrixJobsFit`, `MatrixCovered`, `LogWhereWritten`.
* **Listings** are put together from answers given in different states:
  `ListedOnce`, `ListingComplete`, `RunningShown`, `LastIsNewest`.

`PROJECT.json` lists these hazards at their lines, with the properties that cover
them.

## 2. The modules

```
ServerState <- StateMachine <- WorkThread <- Requests <- Server <- MCServer
                                                           |
   JobStatus, CopyService: instantiated by Server ---------+--- Notifier  <- MCNotifier
   CopyService: instantiated by Copier                     +--- Recovery  <- MCRecovery
                                                           +--- Client    <- MCClient
   Copier <- CopierProofs                                  +--- Templates <- MCTemplates
   LockOrder <- LockProofs                                 |
                                                           +--- ServerProofs <- TaskProofs

   TaskProofs, Notifier  <- NotifierProofs
   TaskProofs, Recovery  <- RecoveryProofs
   TaskProofs, Templates <- TemplateProofs
   TaskProofs, Client    <- ClientProofs
```
(`A <- B`: B extends A.)

| module | models | correspondence |
|---|---|---|
| `ServerState` | `struct Server`, `Task`, `MachineStatus`, `TaskState`, locals of the two threads | a map is a function on its keys, `None` is `Option::None`. `worker` is where the work thread is and its local sets; `listener` is the point a handler has reached between two critical sections, with its locals |
| `StateMachine` | `sm.rs` | one action per outcome of `try_drive_sm`: the guard `Driving(j)` says that the iteration has reached `j`, `StateOf` is the prologue that turns a cancelled task's state into `Canceled`. `Owns`/`AfterFree` are `free_machine`; `CheckPanics` is what outside of the thread panics it in a drive |
| `WorkThread` | `work_thread`, `clone_task`, immediate notifications | `ProcessNotifications`, `BeginIteration` (copy of `live_tasks`), the drives, `EndDriving`, `Reap`, `CloneFailed` once per clone, `EndIteration` |
| `Requests` | `request.rs` | one action per handler that holds its locks throughout; `Allocate`, `InsertTask`, `InsertLive`, `MatrixAllocate`, `PublishMatrix`, ... for the critical sections of the others |
| `Server` | the composition, and its properties | `Next` interleaves the two threads, processes and copier thread |
| `JobStatus` | abstract: what polling shows of a task | its transitions are those of the diagram in `docs/architecture.html`, plus those of copying and of cancelling a finished task |
| `CopyService` | abstract: what the copier thread promises | a request is held until it is reported on; a report may be repeated |
| `Copier` | `copier.rs` in detail | the queue with its lock, `ongoing`, retries, late copies; `StartFails` is a copy that cannot be started, after which the thread is `stuck` or `dead` |
| `Notifier` | `notify.rs`: summaries, and what was last told | `summary` is `enqueued_summarize`; each transition of `Server` is one that announces its new state, one that may announce a broken machine, or a quiet one; `Send` is `process_notifications` |
| `Recovery` | `snapshot.rs`, restarts | `saving` is the snapshot being made, one `SaveMap` per map; `file` is what the disk holds, which a write that stops in the middle leaves in any form that can be decoded (`CutFiles`) or in none; `Restart` may come at any point and is `Server::new` with `load_snapshot`; `cuts` remembers the cut files loaded |
| `LockOrder` | every lock of the server | a handler or a round of a loop is the sequence of the sets of locks it holds; `stuck` is a thread that waits for a lock it holds; data is left out |
| `Client` | `list_jobs` of the client, `ListJobs` | `client.at` is how far the listing got; each request is answered in the state of that moment |
| `Templates` | `SetVar`, variables of tasks and matrices, `cartesian_product`, log file names | `env` is `Task::variables`, `matrix_vars` is `Matrix::variables`; a log file is the jid, command, values and machine its name is made from |
| `MC...` | values for TLC | jobs, setup tasks and matrices of the instances |
| `...Proofs` | proofs | section 6 |

Data is abstracted where no property looks at it: the text of commands, paths, times
and messages is not represented. What the environment answers (does `spawn`
succeed, how does a process end, has the timeout passed, is there a `RESULTS` line,
what does the copier report, does a write to disk succeed) is a free choice.

`machines[m].failures` saturates at `MACHINE_FAILURES`, as only the comparison with
that threshold matters. `BrokenClass` stands for every class `<class>-broken`;
no job of the instances asks for such a class.

A *panic* of either thread is a variable: the thread stops and the mutexes are
poisoned, so nothing else happens in the model (in `Recovery`, until a restart). Two of its
causes are outside of the state of the server (`CheckPanics`): the log of a task that
was run cannot be opened (`sm.rs:412`), and the copier thread died with its queue locked
(`copier.rs:99`); both are taken to be possible at any drive that checks results.
`AddJob` and the like allocate their id with an atomic and are split at that point as
well.

A few operators are marked *wrong variant*: a mutation of the operator next to
them, as a bug in the code might be (a dropped guard, a missing reset, one too
many). They are not used by any specification; substituting one for the
operator it varies makes TLC report the property named in `PROJECT.json`
(`mutants`), which shows that the property would notice.

## 3. Runs

Each `.cfg` asks one question (distinct states in brackets).

| run | module | question | properties |
|---|---|---|---|
| `scheduling` (1 194 000) | `MCServer` | two machines of two classes; jobs alone, with a tag and of a matrix; holds, releases, cancellations, failures | `MachineExclusive`, `FaultyMachineQuarantined`, `StartsInOrder`, `NoUnwantedStart` |
| `progress` (219 000) | `MCServer` | jobs with every feature and setup tasks, holds and cancellations, on a machine that comes and goes; liveness | `TypeOK`, `RunningIffProcess`, `StatusHasMachine`, `NoLeakedMachine`, refinement of `JobStatus`, `CancelHandled`, `ExitNoticed`, `CopyNoticed` |
| `results` (1 213 000) | `MCNotifier` | results, timeouts, retries, messages, a copier that repeats itself | `NoLostCopy`, `OnlyOutsidePanics`, `RetryBound`, `OutcomeTold`, `BrokenTold`, refinement of `CopyService` |
| `groups` (1 475 000) | `MCTemplates` | tags and matrices with retries, clones, retagging, removal; variables change; matrices of 0 to 2 jobs are expanded meanwhile | `GroupsListMembers`, `LogWhereWritten`, `MatrixJobsFit`, `MatrixCovered` |
| `recovery` (2 857 000) | `MCRecovery` | snapshots interleaved with requests, failed writes, files cut short, a restart at any point | `FreshIds`, `TagsResolve`, `LiveCoversActive`, `NoLeakAcrossRestarts`, `NoGhostAcrossRestarts`, `OutcomeSurvives`, `RequeuesAtMostOne` |
| `client` (3 418 000) | `MCClient` | a listing while jobs are added, tagged, cancelled and run | `ListedOnce`, `ListingComplete`, `RunningShown`, `LastIsNewest` |
| `locks` (20 000) | `LockOrder` | every handler against the two loops | `OrderRespected`, `NoCircularWait`, `EveryRoundEnds` |
| `copier_service` (165 000) | `Copier` | everything goes wrong that can | `TypeOK`, `NoLostCopy`, refinement of `CopyService`, `EveryCopyReported` |

Deadlock is checked in `client`. The other runs stop where the code does: where the work
thread panics (the runs of `Server`, `Notifier`, `Templates`, and of `Recovery` after the
last restart; see `CheckPanics` and `matrix_panic`), and where the copier thread has
locked itself out or died (`copier_service`, `copier_stuck`, `locks`).

`MachineExclusive`, `FaultyMachineQuarantined` and `OnlyOutsidePanics` hold in some runs
and are violated in others. A passing run shows them where the ingredient of the violation
is absent: `scheduling` has no setup tasks, removes no machine and has no timeouts,
`results` has no matrix. So they do say something (a job never takes a busy
machine, whatever is held or cancelled), and precisely where they stop being true.
`NoLeakedMachine` is checked twice: in `progress` with setup tasks and with machines
that are removed, in `recovery` across restarts.

The properties about restarts name the file that breaks them: `IdsKept` says that the
server was never started from a file without its `next_jid`, `TagsResolve` speaks of
starts from files that were not cut after their tasks. What happens otherwise is in
section 5.

### Bounds

* `MaxRequests` (2 to 5) bounds the requests the listener accepts, hence jobs,
  machines and the like; `MaxFaults` (0 to 4) bounds failures of the environment,
  hence retries. Both are bounds of the *instance*, in the guards of `Accept` and
  `Fault`: nothing in the code corresponds to them, and the theorems hold for all
  their values. `client` has no faults: a retry adds a job like any other, and the
  requests of the other clients already do.
* One or two machines and two to four tasks suffice for the conflicts the
  properties are about: two tasks and a machine (ownership), two machines and two
  jobs (exclusiveness, order), a task and its clone (retries, groups), two jobs of a
  matrix (one is there when the other is not yet). Each violation run finds its
  counterexample within the same bounds.
* `MACHINE_FAILURES` is 2 instead of the constant in the code, so that two failures
  reach it. `MaxDuplicates` (`Copier`) bounds how often one retry of a late copy is queued.
* `MaxRestarts` is 1: nothing but the file survives a restart, so a second one starts
  from a state like the first. Two machines let two tasks be started between two
  snapshots if the code allowed it (it does not: `RequeuesAtMostOne`).
* Three guards of `Recovery` leave out what leads nowhere: a write does not fail once no
  restart is left to read its file, there is no restart before the first request, and
  once ids were taken back (a file without `next_jid`) no request is accepted, as next to
  nothing is claimed of what follows.
* A variable with two values, two repetitions and matrices of 0, 1 and 2 jobs
  (`groups`): the empty product, one combination twice, two combinations once.
* `SuffixLen` is 2, less than the number of ids there can be, so that the suffix of a
  listing cuts some off.
* Machines are symmetric in `scheduling`, `results` and `recovery`, values in
  `groups`; never in a run with liveness.

## 4. Fairness

`FairSpec` of `Server` assumes weak fairness of

* `WorkThreadStep`: the loop of `work_thread` never ends and each of its sleeps is
  finite (`main.rs`: 100 ms to 30 s); everything it waits for inside is a mutex.
* `FinishRequest`: a handler that began goes on to its next critical section. The
  mutexes it needs are released at the end of each iteration.

A panic ends the work thread, which its liveness properties say (`\/ panicked`). They
also take for granted that `copy()` returns, which it does not when the copier thread waits
for its own lock (`copier_stuck`; `EveryRoundEnds` shows what that does to the others).

No fairness is assumed of clients, processes or copies: a job may run for ever, a copy
may never be reported. For the copier thread, `Copier!FairSpec` assumes weak fairness
of its loop, and that an `rsync` that was started exits or is late in the end
(`ExitsOrLate`), which is that time passes. A late one may go on for ever: the
`--timeout=60` of its command line ends it only if it is idle.

`LockOrder!FairSpec` assumes *strong* fairness of a thread's next step: a lock that it
waits for is free again and again (the loops sleep without holding any, the listener
holds none between requests), not continuously. It is the assumption that a mutex
does not starve a waiter, and that what is done with the locks held ends, sending to
Slack (`notify.rs:534`) included. No thread is assumed to begin another round.
`EveryRoundEnds` leaves out what happens once the copier thread is stuck.

The liveness properties therefore speak of what the server does with events that
*have* happened: a cancellation that was accepted, a process that has exited, a copy
that was reported. They are not obvious: since an iteration drives at most one task that
changes, a task waits for all live tasks with a lower jid that keep changing.

## 5. Findings

Violation runs show behaviours of the code that contradict a sentence in the
repository; `PROJECT.json` quotes the sentences.

| run | behaviour |
|---|---|
| `exclusive_move` | a machine that is removed and added again (as moving it does) gets a new job before the old process is killed |
| `timeout_blame` | after a timeout the machine is freed before the failure is counted, and is never declared broken |
| `matrix_panic` | a matrix job that fails before its matrix is published panics the work thread |
| `copier_stuck` | the copier thread locks its queue twice when `rsync` cannot be started |

Other divergences follow directly from the definitions and have no run of their own.

In the loop and the handlers:

* `EndDriving`: `updated || try_drive_sm(..)` passes over the tasks after the first that
  changed (`main.rs:389`; `main.rs:341` says each state machine is driven).
* `Candidates`: a setup task takes its machine even when it is running a job
  (`sm.rs:232`). For this reason `MachineExclusive` is not checked with setup tasks.
* `Finalize`: a setup task whose machine was already in the pool leaves it in its
  old class (`sm.rs:510`).
* `Stopped`: `timedout` is never cleared, so a task that once timed out and is
  cancelled again goes to `Error` and not to `Killed` (`sm.rs:569`; `main.rs:121`).
* `TagJob`: a retagged task stays in the list of its first tag (`request.rs:899`).
* `MayRetry`: `maximum_failures = n` allows n + 1 failures (`sm.rs:193`; help text of
  the client).
* `DriveError`: a task that timed out is cloned again each time it is cancelled;
  `RetryBound` bounds the attempt that a clone is, not how many there are.

In the copier thread (`Copier`, `LockOrder`):

* `Wake`, `QueueEmpty`: the queue is emptied whatever `MAX_CONCURRENCY` says once there is
  room for one copy (`copier.rs:111`).
* `Clogged`: late copies keep their place until they are restarted, and are restarted only
  when there is a place: when all are late, and none exits, no copy is
  started any more (`copier.rs:110`; `copier.rs:141`: "If they are taking too long, restart
  them."). `EveryCopyReported` leaves this out by name; without that TLC finds it violated.
* `StartFails`: if the log of an `rsync` cannot be opened the copier thread panics
  (`copier.rs:322`), with the lock of its queue held. The next task with results
  then panics the work thread (`copier.rs:99`, `CheckPanics`). If `rsync` cannot be
  spawned the thread waits for itself (`copier_stuck`), and the work thread for it, with
  every lock of the server. `NoLostCopy`, `EveryCopyReported`, `OrderRespected` and
  `EveryRoundEnds` make an exception of these two.

In what is announced (`Notifier`):

* `Quiet`, `FreeMachine`: no event is queued when results have been copied, nor when
  a copy or a task fails by its timeout (`sm.rs:102`, `sm.rs:570`; `main.rs:616`,
  `main.rs:619`). This is why `OutcomeTold` leaves those out.
* `SummaryWithMachine`: a machine event that is sent immediately gets into a summary
  only if a task event is queued before it is sent (`notify.rs:112`).
* Slack is called with five locks held (`notify.rs:135-172`): the server answers nothing
  meanwhile.

In snapshots (`Recovery`):

* `ToTask`: the cancellation of a task is written to the file and not read back
  (`snapshot.rs:39`). A cancelled task that was waiting is run after a restart; one
  that was killed after the snapshot waits again, or is `Unknown`. This is why
  `OutcomeSurvives` speaks of the other outcomes only.
* `CutFiles`: the file is written in place (`snapshot.rs:306`), its fields in the order of
  their numbers (`state.proto`), and decoding does not insist on `required` ones
  (`snapshot.rs:331`). A file that was cut between two entries is loaded like a whole
  one, without `--allow_snap_fail`. If the cut is before `next_jid`, ids are handed
  out again from 0: a new job overwrites a task, and a task may name a matrix that is
  not there or another one (unwrapped at `main.rs:423` and `main.rs:454`). If it is before
  the end of the tags, tasks name tags that do not exist (`main.rs:430`, `main.rs:459`). The
  properties name these two kinds, `no_jid` and `no_tags`; without that TLC finds
  `FreshIds` and `TagsResolve` violated.
* `SnapshotTask`: the retry of a task that is in `Error` at the snapshot is lost.
* A matrix that is being added when the server stops leaves tasks that name no
  matrix; cancelling one with removal, or cloning one, unwraps it (`main.rs:423`, `main.rs:454`).
  `TagsResolve` holds of whole files because tags are copied after tasks, and are published before
  the tasks that name them; a matrix is published after its tasks.
* Ids that were acknowledged after the last snapshot are handed out again, and their log
  files overwritten. `FreshIds` says that ids the file knows of are not.
* The processes of `Unknown` tasks may still be running while their machines are free
  (`snapshot.rs:352`); the file that is kept as a backup is never read.

In the client (`Client`):

* A retagged job is in the lists of two tags and is listed twice; so is a running job
  that is given a tag newer than itself. A job that gets a tag that was already shown is
  skipped, and so is a running one whose tag changes after it was asked for. With `TagJob`
  TLC finds `ListedOnce`, `ListingComplete` and `RunningShown` violated; it is therefore
  not offered in `client`.
* `job restart last` looks `last` up once for the cancellation and again for the clone
  (`src/src/bin/client/main.rs:595` and `:604`): with another client in between it cancels
  one job and clones another (`src/src/bin/client/cli.rs:240`: "Cancel then clone a job.").
* `last` fails when the job disappears between the two requests (`str_to_jid`), or when
  there are no jobs. A matrix without jobs counts as job 0 (`main.rs:1071`): if there is
  nothing else, `last` stands for what has the id 0, which may be that matrix, and
  `str_to_jid` is at its `unreachable!()`. `LastIsNewest` is about listings that are asked
  for when there is a job.
* `machine mv` adds the machine to the new class also if removing it failed.

In templates (`Templates`):

* `Merged`: a variable of the server replaces the values a matrix gives it
  (`request.rs:792`), where the comment says that base variables "may be overridden by the
  matrix variables in the template" (`request.rs:790`).
* `Product`: without any variable there is no combination and no job; the empty
  matrix is dropped by the next `Reap`.
* `StatusIndex`: the status of a setup task that was killed names the log of its last
  command, which may not have run. `LogWhereWritten` leaves killed tasks out.
* Values that contain other variables are expanded in the order of a `HashMap`, which
  differs between tasks (`src/src/lib.rs:46`); log names are cut at 200 bytes
  (`src/src/lib.rs:66`), where two commands of one setup task may coincide, and a cut
  inside a character panics. Text is not modelled.

## 6. Proofs

The theorems hold for every value of the constants that satisfies the assumptions of the
modules: any number of machines, classes, jobs, requests, failures. For `Server` these are
`NoneAssumption`, `SpecAssumption`, `BoundAssumption` and `NameAssumption` (`ServerState`;
the last says that a jid is not the name of a machine, which are different types in the
code); `Notifier` adds `MessageAssumption` (`None` is not something a message says),
`Templates` adds `TemplateAssumption` (finitely many variables and values; an expansion
repeats a number of times), `Client` adds `ClientAssumption` (the modes it models, `-n` is
a number). `Copier` needs `CopierAssumption`, `LockOrder` nothing but
`MatrixAssumption`. Where a theorem has a hypothesis of its own it says so in its
statement, and its negation is a behaviour of the code that breaks the property: see below.

| module | invariant | theorems (property) |
|---|---|---|
| `ServerProofs` | `Typing` | `TypingInvariant`, `TypeCorrect` (`TypeOK`), `StatusNeverPanics` (`StatusHasMachine`) |
| | `Safe` | `SafetyInvariant`, `EveryActiveTaskIsLive` (`LiveCoversActive`), `ProcessesAreKnown` (`RunningIffProcess`), `RetriesAreBounded` (`RetryBound`), `NoCopyIsLost` (`NoLostCopy`) |
| | `Kept` | `MachinesAreFreed` (`NoLeakedMachine`) |
| | `Grouped` | `GroupsAreComplete` (`GroupsListMembers`), `MatricesAreExact` |
| `TaskProofs` | `Orderly` | `JobsStartInOrder` (`StartsInOrder`), `NoUnwantedStarts` (`NoUnwantedStart`) |
| | `Shown` | `ServerUsesCopyService` (`UsesCopyService`), `ServerImplementsJobStatus` (`ImplementsJobStatus`) |
| | `AsSubmitted` | `JobsAsSubmitted` |
| | `HolderOwns`, `RunnerOwns` | `MachinesRunOneCommand` (`MachineExclusive`), `FaultyMachinesLeave` (`FaultyMachineQuarantined`) |
| | `Sendable` | `OnlyUnpublishedMatricesPanic`, `ThreadsDoNotPanic` (`OnlyOutsidePanics`) |
| `NotifierProofs` | `BrokenTold`, `Telling` | `NotifierIsServer`, `BreakingIsTold` (`BrokenTold`), `OutcomesAreTold` (`OutcomeTold`) |
| `RecoveryProofs` | `Recoverable` | `RecoverableInvariant`, `IdsStayFresh` (`FreshIds`), `TagsAlwaysResolve` (`TagsResolve`), `RestartsAreSafe` (`NoLeakAcrossRestarts`, `NoGhostAcrossRestarts`) |
| | `Recorded` | `RecordedInvariant`, `OutcomesSurvive` (`OutcomeSurvives`), `RequeuesAreRare` (`RequeuesAtMostOne`) |
| `TemplateProofs` | `ServerHolds`, `Logged` | `ServerInvariants`, `LogsAreWhereWritten` (`LogWhereWritten`) |
| | `Fitting` | `MatrixJobsRunCombinations` (`MatrixJobsFit`), `MatricesAreCovered` (`MatrixCovered`) |
| `ClientProofs` | `InOrder`, `OneShown` | `ClientIsServer`, `ListingsShowOnce` (`ListedOnce`) |
| | `Covers` | `ListingsAreComplete` (`ListingComplete`), `RunningIsShown` (`RunningShown`) |
| | `LastJob` | `LastIsNewestJob` (`LastIsNewest`) |
| `CopierProofs` | `CopierInv` | `CopierInvariant`, `CopierTypes` (`TypeOK`), `CopierLosesNothing` (`NoLostCopy`), `CopierImplementsService` (`ImplementsService`) |
| `LockProofs` | `LockInv` | `LocksInOrder` (`OrderRespected`), `NoDeadlockOfLocks` (`NoCircularWait`) |

### `ServerProofs`

**Typing.** `TypeOK` alone is not inductive. A handler inserts, in a later
critical section, what it put in its locals in an earlier one, so those must be typed
(`ListenerTyped`); the work thread clones by jid at the end of the iteration, so the
jids in `to_clone` must still exist then, which needs that none of them is in `to_remove`
or driven again (`WorkerTyped`); and a machine is looked up through `Task.machine`, so a
task in a state after `Waiting`, or one that has timed out (a timed out task that is
cancelled fails again), has a machine (`Placed`). `Typing` is the conjunction. The
lemmas go action by action; `TypingInvariant`, `TypeCorrect` and
`StatusNeverPanics` (the `unwrap` in `Task::status`) follow.

**Four safety invariants.** `Safe`, relative to `Typing`, is
`LiveCoversActive /\ RunningIffProcess /\ RetryBound /\ NoLostCopy` with four parts
that make it inductive:

* `TodoLive`: what an iteration has yet to drive is live. Only the drive of a
  terminal task takes a jid out of `live_tasks`, and only its own.
* `HandlesOfTasks`: process info belongs to existing tasks, none of them to be reaped.
* `ListenerFresh`: the id the listener holds names no task yet, and its task has
  never been tried, so inserting it overwrites nothing.
* `ClonesAllowed`: what will be cloned may be retried, so that attempt + 1 is in bounds.

The argument is in three lemmas by the shape of a step (`SameTasks`: the tasks are
left alone; `OneTask`: one is replaced; `NewTaskStep`: one is added); every action is
then shown to be one of them. What follows is laid out in the same way, and is
relative to `Typing` and `Safe`.

**Machines.** `Kept` adds to `NoLeakedMachine` that what is about to be reaped is in
state `Canceled` (`RemovedAreCanceled`): a reaped task cannot be named by a machine,
because `DriveCanceled` freed its machine before.

**Groups.** `Grouped` adds that a matrix lists only its own tasks (`Members`), that
the matrix being added has an id of its own and every task made for it so far
(`Adding`: none of them can be reaped before it is published, as reaping one panics), and
what the listener knows of a single task or tag it is about to insert (`Single`).

### `TaskProofs`

**Order.** `PassedForWant`: while an iteration has updated nothing, a waiting job it
has passed had no free machine of its class. Machines are taken and freed only by a drive
that updates, so the next job of that class finds none either: jobs start in order. That no
command is spawned for a cancelled or held task needs only `Safe`.

**Two refinements.** The refinement mappings are those of `Server`: a task is
mapped to what `Task::status` makes of it, and the copier thread to its requests and
flags. Every step then is a step of the abstract specification or leaves it alone. That
needs `Shown`: a task that timed out has failed or is being stopped
(`TimedOutFails`, so that cancelling it again shows as a failure only where it already did),
one task at most is stopped to be removed in an iteration, and is so until it is reaped
(`OneRemoved`, so that tasks vanish one by one), and the copier thread knows only of
tasks past `CheckingResults` (`CopiedOnce`, so that no copy is requested twice). Both
theorems assume `Nat \subseteq WatchedIds`: the abstract specifications quantify over
the watched ids, of which TLC needs a finite set.

**What holds while some requests are left alone.** Three properties of section 3 are not
invariants of `Spec`, as the violation runs show. The theorems name what they need:

* `MachinesRunOneCommand`: `MachineExclusive` holds if no client sets up or removes a
  machine (`NoSetup`, `NoRemoval`). A setup task takes a machine that is busy; a removed
  machine that comes back is free while the old process is not yet killed
  (`exclusive_move`). Timeouts, cancellation of what runs, retries and clones do no harm.
  The invariant is `RunnerOwns`: a task past `Waiting` that is not in `Error` is the one
  its machine names, cancelled or not. One machine names one task.
* `FaultyMachinesLeave`: `FaultyMachineQuarantined` holds if no client sets up a machine and
  no timeout is set (`NoTimeouts`; `timeout_blame` shows why). A failure is then counted
  by the step that frees the machine, because the failing task still owns it
  (`HolderOwns`, which says less than `RunnerOwns`, so that machines may be removed).
  That no timeout is set must be known of every task and of the one in the hands of the
  listener (`Untimed`), which rests on `AsSubmitted`: retries and clones run what was
  submitted.
* `OnlyUnpublishedMatricesPanic` needs no hypothesis: a step in which a thread
  panics is one where a task of a matrix that is inserted and not yet published is
  cloned or reaped (`matrix_panic`), or one where a drive that checks results fails on
  what is outside of the server's state (`CheckPanics`). Every other `unwrap`, `expect` and
  `unreachable!()` of the two threads that the model has is shown to succeed, those of the
  notifications by `Sendable`: what was enqueued still exists when it is sent.
  `ThreadsDoNotPanic` (`OnlyOutsidePanics` where `AddMatrix` is not offered) is its
  corollary. Restarts are not part of `Server`: what a cut file adds is in section 5.

### The modules that extend `Server`

A step of `Notifier`, and a step of `Templates` other than `SetVar`, is a step of
`Server` with its own variables added; so every invariant of `Server` holds in them
(`NotifierIsServer`, `ServerInvariants`), and each adds an invariant of its own.

**`NotifierProofs`.** `BreakingIsTold`: only `free_machine` puts a machine in the broken
class, and enqueues it in the same step; a name stays enqueued until it is sent, and
is told as `broken` unless it left the class. The hypothesis `NoBrokenName` is that no
class is called what the code calls the broken one, `<class>-broken`: a client who
adds a machine to a class of that name is told nothing. `OutcomesAreTold`: the states a task
ends in announce nothing, so the invariant (`Heard`) follows a task from the last state
that did: from there on it is enqueued, or what was said of it is what will be said of its
outcome, or that results are being copied (`Says`). A task of one command cannot fail
without announcing it (`OneCommand`); the hypothesis `SingleSetups` is that setup tasks have
one command, as `try_drive_sm_running` enqueues nothing when a later one cannot be spawned.

**`RecoveryProofs`.** What must be true of a file for `load_snapshot` to restore a state the
server can go on from is true of each map when it is copied, but the maps are copied in
different states. `Snapshot(s, n)` types what was copied while the next id was at most
`n`, and it stays true as `n` grows: `next_jid` is copied last, after everything that may
name an id. What relates two maps is in the order of copying: tags after
the tasks that name them (`Resolved`), matrices and tasks so that a matrix lists only its
own (`Listed`). A file is `FileGood` for what its kind promises: one cut after
`next_jid` resolves all but tags, one cut before the tasks loads as no task at all, and of
one cut in between nothing is claimed (`CutIsGood`). `Recoverable` is, under
`IdsKept`, the server's own invariants, and these; a restart
preserves it, from which `FreshIds`, `TagsResolve` and the safety properties follow.
`Recorded` says how far the file is behind: nothing from the time it is written to
the next drive that changes a task, after that one task by one drive
(`Behind`), and a task in `Finalize` or `Error` is restored as what it then becomes. So an
outcome survives (`OutcomesSurvive`) and at most one started task is queued
again (`RequeuesAreRare`).

**`TemplateProofs`.** `Logged`: for each task that has run, what its log was named after
is what a client's question computes it from, although `variables` changes in
between: the values are the task's own, and the machine is kept until the task ends.
`Fitting`: the jobs of a matrix, those of the one being expanded and the clones of both run a
combination of its variables (`Fit`), and, by `Expanding`, while a matrix is expanded each
combination occurs among the jobs made so far and what is pending as often as was asked
for. `MatricesAreCovered` is then the case in which nothing is pending. It counts: lemmas
about `Having` and `Places` say how a job made, and an element taken off, changes the two
cardinalities, and that the repeated product has each combination `repeat` times.
`SubmitMatrix` has `AddMatrix`'s bound on the number of jobs in its guard
(`MatrixSizes`), so that a step of `Templates` is one of `Server`.

**`ClientProofs`.** What an answer says of a job is old when the next one is read, but it
stays true of that job. Ids keep their kind (`Apart`): one that named a task never names a
matrix or a tag, nor a later task. So a job that is still there has the matrix it had when
`ListJobs` was answered (`Knows`) and, if jobs are not retagged (`NoRetagging`: `TagJob`
is not offered), the tag (`KnowsTags`), and a tag lists its own jobs only (`TagsExact`).
`InOrder`: whatever is shown is filed under its one place (`Filed`), and no place is shown
twice, since ids are taken in increasing order, a tag is older than its jobs, and tags that
were shown are remembered (`Once`). `Covers`: each job that has to be shown is listed, or
being looked up, or its id, matrix or tag is left; and the jobs of a remembered tag are
shown, which is why a job may be skipped. When nothing is left, all are listed. The
hypothesis is needed: see section 5. `LastJob` needs none: the one id chosen is the newest
job of the answer. A matrix without jobs would stand for job 0, but (`JobsToName`) a `Reap`
drops all of those, and none is published while the listener answers `ListJobs`: if there
was a job when the listing began, then there is one in the answer, or there is nothing.

### `CopierProofs` and `LockProofs`

`CopierInv` adds to the types and `NoLostCopy` what the locals of the loop
mean at each point: what is left to check is under way and not yet finished. `NoLostCopy`
speaks of a thread that serves (`Serving`), so the copy that a stopped thread has in hand
does not count. The step simulation of `CopyService` takes the copies that are queued, under
way or in hand as those that the service holds, the service being free never to report.

`Leads(h, p, g)`: a thread that holds `h` and goes through the lock sets `p`
takes each lock after those it holds, and ends with `g`. Each program leads from `{}` to
`{}` (`AddMatrix` for any number of jobs, by the shape of its sequence), and a step
leaves a thread with the rest of its program. The thread that waits for the
highest lock is then waited for by none that it waits for. The one exception to the order,
a copier thread that asks for the queue it holds, is a wait for itself: no step
follows it, and it closes no circle among several threads.

### Only model-checked

Each invariant was first checked by TLC. Every safety and action property that a passing
run checks is stated by a theorem, some under a hypothesis that names the requests
which break them. Out of the prover's reach is liveness under fairness: `CancelHandled`,
`ExitNoticed`, `CopyNoticed`, `EveryCopyReported`, `EveryRoundEnds`.

## 7. Not modelled

* The text of commands, and what is put into it: section 5, templates.
* Of the client, the subcommands that send one request and print the answer, and the
  composite ones `machine mv`, `machine setup` and `job restart` beyond section 5; the
  statistics and tables it prints (`stat.rs`, `pretty.rs`), which keep no state.
* The wire format; one connection carries one request and its answer, and an answer
  that cannot be sent changes nothing in the server.
* The wrapper (`expjobserver_remote_wrapper.sh`) and the scripts: outside the server they
  are a process that exits with a status, and clients.
* Times: the length of sleeps, timeouts in minutes, the interval of summaries. That
  a timeout has passed, or a summary is due, is a free choice.
* `variables` in the snapshot: it is one map, copied and restored whole.
