# Verification of naiw-tasks

`naiw-tasks` runs a coding agent (Pi) for each task in a hardened Docker
container. There is no daemon: every subcommand is a short-lived process, and all
coordination between them goes through files under `~/naiw-data` and through the
Docker daemon. Two terminals, a script that calls `reap`, and Pi itself
act on the same task at the same time, and each may die between two steps. That
is what these modules are about.

Paths such as `lifecycle.py` are short for `src/naiw_tasks/naiw_tasks/lifecycle.py`
in the repository, and likewise for the `naiw_signal` package.

## 1. The system

### Components, state, operations

| component | code | state it keeps | operations | what makes it correct |
|---|---|---|---|---|
| store | `store.py`, `model.py` | `meta/task.json`, `meta/.task.lock` | `read_task` (shared flock; makes `meta/`), `update_task` (exclusive flock, read, mutate, temp file, fsync, replace) | one update is one atomic step; no torn file after power loss |
| id allocation | `ids.py` | `.counters/<alias>.txt`, `.locks/<alias>.lock` | `allocate_task_id` | an id never comes back, never names another task's directory |
| start | `lifecycle.start` | directory, task.json, worktree, container | skeleton, scaffold, worktree, meta, create, run, reload, running or failed | what it leaves behind can be reached by `finish` |
| finish, teardown | `lifecycle.finish`, `teardown_and_mark` | container, worktree, status | probe, stop, remove, verify, capture, worktree, mark | a terminal status means the container is gone; a failed attempt can be repeated |
| recover | `lifecycle.recover` | container, status, `recovery_count` | replace the container, commit by compare-and-set | only an interrupted task comes back, once per recovery; no stray container |
| list, reap | `list_cmd.py`, `reconcile.py` | status, `events_offset`, `terminal_log_max_size` | snapshot, tail, compare-and-set, inline teardown, offset advance | no event lost, none consumed twice, no fresh status overwritten |
| event journal | `naiw_signal`, `events_tail.py` | `io/.naiw/events.jsonl` | append one line; tail from an offset | first-in first-out delivery of well-formed lines |
| clean | `clean.py` | task directories, orphan containers | candidates, prompt, rmtree, prune | only settled tasks are removed; no container out of reach, none of a live task pruned |
| artifacts | `artifacts.py` | `meta/artifacts/` | best-effort capture in teardown | nothing the worktree takes with it is lost unnoticed; a repeated capture has what Pi left last |
| startup checks, command line | `startup_checks.py`, `disk.py`, `cli._client_for` | - | Docker reachable, disk below 95 percent of `max_data_size` | neither a full disk nor a daemon that is down locks the operator out |
| environment | Docker, git, the file system, Pi | containers, worktrees, files | fail, stop, signal, delete | - |

The remaining parts (configuration, project registry, path checks, Docker client,
attach, output, rendering, deployment) validate, read or print; they keep no state that two commands share. `PROJECT.json` lists
each with the reason.

### How they interact

- **Shared files.** Commands share `task.json` through `store.update_task`. Most
  mutators change the file unconditionally; only list's `_mutator` and
  recover's `_to_running` compare with what the command read before.
- **Calls.** `reap` calls `teardown_and_mark` inline, between its compare-and-set
  and its `_advance_offset`. `finish` calls the same function after its probe.
- **Docker.** A container is found by its unique name, and then addressed by the id
  it was resolved to. Errors of `stop` and `remove` are suppressed everywhere; what
  an error of `get` means differs from call to call.
- **Pi to controller.** `naiw-signal` appends to the journal, from inside the
  container; the controller polls.

### What is hard

Status is checked and written in different critical sections, with many Docker
calls in between. Events may arrive during a pass, in batches, after `done`, in
fragments, or not at all. Docker, git, rmtree and the process itself may fail between any
two steps, and the retry starts from whatever is left. The directory that holds
the lock may itself be removed. `PROJECT.json` ("hazards") lists each at its line.

## 2. The modules

| module | models | state and actions |
|---|---|---|
| `Reconcile` | `reconcile.py` | no state: `ComputeStatus` is `compute_status` |
| `TaskState` | what the commands share about one task | `rec` is task.json, `dir`, `io`, `wt` the directory, its `io/` and the worktree, `journal`, `log` what Pi writes, `ctr`, `made` the container; `pc`, `loc` the position and locals of each invocation; `PiSignals`, `PiWritesLog`, `ContainerStops`, `Crash` |
| `StartCmd` | `lifecycle.start` | one action per step between two side effects: `StartBegin` .. `StartFail` |
| `FinishCmd` | `lifecycle.finish`, `teardown_and_mark` | `FinishBegin`, `FinishRead`, `FinishProbe`, `TeardownRead` .. `TeardownMark` |
| `RecoverCmd` | `lifecycle.recover` | `RecoverBegin` .. `RecoverKillRemove` |
| `ListCmd` | `list_cmd.run`, `_reconcile_one` | `ListBegin` .. `ListReread`; `reap` enters `TeardownRead` from `ListCommit` |
| `CleanCmd` | `clean.run` | `CleanBegin` .. `CleanPrune` |
| `Controller` | all of them, for one task | `Init`, `InitStarted`, `Next`, fairness, the properties |
| `TaskLifecycle` | abstract: what task.json promises about a task | phase and recovery counter |
| `Artifacts` | `artifacts.capture_bundle` inside `teardown_and_mark` | `work` is what Pi has left in `io/` and in the worktree, `bundle` is `meta/artifacts`, `todo` the files a capture has yet to copy; `CopyIo` (two calls of `CopyIoFile`) .. `CaptureDone`, then `ChoosePolicy`, `GitRemove` |
| `Host` | `cli._client_for`, `startup_checks`, `disk.threshold`, the loops of `list_cmd.run` and `clean.run` | for every task its phase in task.json (`rec`), its directory, container and unread event; `docker` how the proxy answers; `Begin`, then the steps of each subcommand |
| `IdAllocator` | `ids.allocate_task_id` | counter file, directories, lock, ids handed out |
| `EventJournal` | `writer.append_event`, `tail_events`, the offset compare-and-set | the file as cells of lines, readers, `offset` |
| `EventStream` | abstract: a first-in first-out stream | what was sent and received |
| `TaskStore` | `store.update_task` step by step | the file, what is on the disk, lock, temporary files |
| `AtomicRecord` | abstract: an atomic read-modify-write record | the record and what was published |
| `ControllerProofs` | theorems: truth table, types, lifecycle, teardown, recover | |
| `EventProofs` | theorems: Pi's events and `events_offset` under `list` and `reap` | extends `ControllerProofs` |
| `StartProofs` | theorems from the empty state on, `start` included | extends `EventProofs` |
| `JournalProofs`, `IdAllocatorProofs`, `TaskStoreProofs`, `ArtifactsProofs`, `HostProofs` | theorems about the module of that name | |
| `MC*` | instances for TLC | model values and symmetry |

`Controller` composes the five command modules over the variables of `TaskState`.
It takes each store call as one step, which `TaskStore` justifies: `UpdatesAreAtomic`
and `NeverTorn` are what `Controller` relies on. In the same way it takes the journal as a
sequence that `ListTail` reads at once (`EventJournal` has the bytes), and a task id that
is allocated once (`IdAllocator`).

`Artifacts` looks into one step of `Controller`, the capture, and takes the Docker calls
of the teardown as a step. `Host` looks at `Controller` from outside: the teardown,
the row or the failed start of one task is a step there, and there are several tasks.

### Correspondence and abstraction

- **One task.** Directory, lock and container name of two tasks are disjoint, so in
  `Controller` a loop over tasks is a sequence of independent passes. What two tasks do
  share is the id counter (`IdAllocator`), the disk, Docker, and the loop itself (`Host`).
- **Phases.** In `Host`, task.json is reduced to `created`, `active` (running or
  waiting), `interrupted`, `refused` (failed by a teardown, `finish:`) and `settled`. `removed` is a
  task that `clean` has removed; the stub that a late write leaves in its place is a directory without a
  task.
- **Docker in `Host`.** `docker` is `up`, `refuses` (the proxy answers with errors, which are
  `DockerException`s) or `silent` (a proxy that is down or hangs: requests raises `ConnectionError` or
  `ReadTimeout`, which `docker-py` passes on and no handler names). A silent Docker ends any command at
  its next call (`Unanswered`, `TeardownDies`, `RowDies`); in `Controller` that is one of the things `Crash`
  stands for. The checks of one invocation are one step (`Admitted`), and Docker may change at any later point. `Host`
  has no other crashes.
- **Disk use** is counted in task directories. Stubs and what a halfway `rmtree` leaves
  count nothing.
- **Bundle.** In `Artifacts` an item is a file in a version: an edit is another item.
  `terminal.log` (`log`) and `summary.md` (`summary`) are copied one after the other, each for itself: one that is
  missing leaves the copy of an earlier capture. `git-status.txt`, `changed-files.txt`
  and `diff.patch` are one part (`patch`). Linking and copying are the same. The wipe of `output` may leave
  files, since it is `rmtree(ignore_errors=True)`. A failure is remembered
  (`cut`) and is, when an OSError leaves `replicate_output_tree`, the end of the capture.
- **A step** is one store call, Docker call, git call or file operation. `containers.run`
  is two steps, create and start, because a failure between them leaves a container.
- **task.json** keeps the fields on which a decision depends. `failure_reason` is the
  class of its text that some branch tests: `finish` (prefix `finish:`), `start`, `signal`,
  `missing`, none. A `stub` is the file that `update_task` writes when it found none.
- **Container state** is what `compute_status` tells apart. A handle keeps the id: stopping
  or removing through a handle whose container is gone is a suppressed NotFound.
- **Failures.** `Faults` says what may fail in a run: a Docker call (`docker`), a git
  call (`git`), `rmtree` after any part of its work (`rmtree`), recover's committing write
  (`write`), a step of the artifact capture (`capture`), the process at any control point (`crash`). An exception no handler names (a
  lost connection to the proxy, a full disk) ends the command where it is, which is
  what `Crash` does. Docker refusing because `MaxContainers` is reached is the same
  outcome as Docker failing.
- **Reads that write.** `read_task` makes `meta/`, and with it a removed task directory.
  `list` is the exception: it reads only directories it has just listed. That iteration is
  one step, so a directory that disappears between `iterdir` and `read_task` is not modelled.
- **Flags of `finish`.** `Flags` has those a run uses: none, `--keep-worktree`, `--delete-worktree`. The stored
  policy is in `Policies`.
- **Left out**: the recovery banner and the git-state probe of `recover`, labels, digests,
  timestamps, notes, logging. The age test of `clean` is a free choice, and so are the answers to prompts and `--force`.
- **Journal bytes.** A line is two cells, which is enough to have a fragment. An
  event that `_reconcile_one` holds back is the subject of `ListCmd`, not of `EventJournal`.
- **Power loss** in `TaskStore`: a synced file is whole, an unsynced one is cut
  off; a rename that has not been written back may be undone. `done` counts the updates
  that returned since the last loss.
- **Ids.** `glob("<alias>-*")` also sees directories of an alias that has this one
  as a prefix. That only raises the candidate; `InitialDirs` and `HandMade` have such numbers.

## 3. What TLC checks

Bounds are constants that stand in a guard (`MaxContainers`, `MaxEvents`, `MaxLog`, `MaxCounter`,
`MaxCount`, `MaxWrites`, `MaxTasks`) or the size of a set. Commands are never bounded: each slot in `Proc`
runs invocation after invocation. Deadlock checking is on in every run.

| run | instance | properties |
|---|---|---|
| `after_start` | 2 slots; list, reap, finish, recover, clean; 2 containers, 2 events, also after `done` or `fail`; recover's write fails | `TypeOK`, `FollowsLifecycle`, `SettlingEventNotLost`, `RecoverLeavesNoZombie` |
| `teardown` | 2 slots; reap; 2 events; the container vanishes; Docker fails; fair | `TornDownBeforeMarked`, `SettlingEventTornDown`, `OffsetNeverRewinds`, `InterruptedOnlyWhenDown`, `ReapSettles`, `LossNoticed` |
| `start_race` | 2 slots; start, list, finish of a project task; log grows; Docker and git fail | `StartLeavesRecord`, `WorktreeRecorded`, `LogHighWater` |
| `one_at_a_time` | 1 slot; start, list, reap (dry too), finish, clean; both kinds of task; Docker, git, crashes | `FollowsLifecycleFromStart`, `ContainerReachable` |
| `ids` | 2 starts; alias of 60; numbers around 999; one hand-made directory | `IssuedIncreasing`, `OwnDirectory` |
| `journal` | 2 readers, 3 appends, short writes, deletions; fair | `NoDuplicates`, `FollowsStream`, `AllReceived` |
| `artifacts` | 2 teardowns, 2 items, 4 changes by Pi; Docker, git, the capture and the process fail | `UntrackedSurvives`, `DiffSurvivesAlone`, `OutputFresh`, `BundleComplete` |
| `host` | 3 tasks on a disk for one; 2 slots, one for every subcommand, one for `start`; tasks 1 and 2 with a container and a directory that resist; Docker answers, refuses or is silent; fair | `PruneOnlyCleaned`, `SoftLimit`, `NotLockedOut`, `SettledReclaimed`, `OthersReaped`, `OrphanPruned` |
| `store` | 2 processes, 2 updates each, death and power loss | `NeverTorn`, `NoLostUpdate`, `UpdatesAreAtomic` |

**Why these bounds.** Every race here is between one command's check and its
write on one side and one other command on the other; two slots that start over and
over have all of them, since a finished invocation leaves nothing behind but the shared state.
Two containers are an old and a new one. Two events are a settling event and one before or
after it in the same batch or in the next, and two passes that read one and two of them. `teardown` has
`reap` alone, which is `list` with the inline teardown: with `finish` its liveness properties are out of TLC's reach, and its four
safety properties are proved for all commands but `recover` and `start` (section 4). One growth of the log is enough for two passes to measure different sizes. Three appends
put a short write before, between and after complete lines, or let a journal that was deleted after
the first outgrow the old offset. In `artifacts`, two items are a file that a capture has copied and one
it has not, and four changes let Pi edit, and after a recovery edit again, what an earlier
capture has bundled. In `host`, the tasks that resist come before the one that does not, so
that every loop meets the failing tasks first; a disk for one task is full
with one, and the second slot passes the disk check together with the first. The second slot only starts tasks because
the liveness properties are out of TLC's reach with two full slots; the two invariants are proved
for any slots. The id run starts below 999 so that both widths occur.

**What they show.** The compare-and-set of `list`, `reap` and `recover` does its
work: with any overlap of the commands that follow `start`, a settled task stays
settled, recoveries are counted once, and a done or fail of an `--auto-finish` task is consumed only when the task is settled, unless
a later event supersedes it. The bundle keeps what
`delete_worktree` destroys, unless the capture itself fails, through crashes and retries, and one resisting task
costs the others nothing. Several properties have limits, which the runs' instances state:

- `TornDownBeforeMarked` and `InterruptedOnlyWhenDown` hold without `start` and `recover`; the run
  `v_finish_recover` shows the first one failing with `recover`. Of the second, no
  comment promises more: the listing is older than the new container. A `start` that
  commits `running` between the listing and the read of its task.json is in this way recorded as
  interrupted (`list_cmd.py:430`).
- `SettlingEventNotLost` is about the last event of what was consumed, and a done or fail that only others of
  their kind follow, because the last event of a batch decides (`list_cmd.py:105-114`). A done with a wait behind it in the same batch is
  consumed, by `list` as well, and the task stays live. The docstring and a test (`tests/unit/test_list_cmd.py:691-704`)
  have it so; `task.md:315` says that "terminal `done` or `fail` events remain pending in `list` until the
  operator runs `naiw-tasks reap`". Nothing in the model forbids that batch.
- `SettlingEventTornDown` covers every done or fail behind the offset, but only for a Pi that is silent after it; one that signals
  again keeps its container.
- `OffsetNeverRewinds` holds while Pi stays silent after `done`. With a Pi that signals again
  (`ChattyPi = TRUE`) it fails: two reap passes read different lengths of the journal, both tear down
  successfully, and the slower one writes its older offset over the newer, because `_advance_offset`
  (`list_cmd.py:336`) has no comparison.
- `FollowsLifecycleFromStart` is for one command at a time. `start` writes
  `running` and `failed` without looking, so a `finish` or `list` that settles the task while
  `start` is still busy is overwritten.
- `WorktreeRecorded` is checked without crashes: a process that dies between `git worktree add`
  and the write that names the worktree leaves one `finish` does not know.
- `ContainerReachable` is for one command at a time, without `recover`. With overlap, a store
  call in a removed directory leaves a stub that neither `finish` can read nor `clean` takes
  for missing. `recover` does the same on its own: run on an id that `clean` has
  removed, its `read_task` makes the directory again, and a container that an
  earlier crash left is then no orphan for `clean`.
  An `rmtree` that stops halfway has the same effect: the directory remains, without a task.json.
- A halfway `rmtree` is in no run's `Faults`; the theorems of section 4 cover it, since they hold
  for all of them. `recover` is run with a failing write only; `LifecycleHolds` has it with every fault.
- `FollowsStream` says what becomes of well-formed lines. A short write leaves a fragment that no
  writer completes; the next event is appended to it, both are one malformed
  line for the tail, and that event is lost although its `naiw-signal` exits with 0.
- `NoDuplicates` does not say that a deleted journal loses nothing: once the new file
  is as long as the stored offset, the lines in front of the offset are never read. It excludes (`mixed`) a pass
  that began before the last deletion or move of the offset, later finds the offset where it was, and wins
  with what it read from another file; then an event may be consumed twice.
- `UntrackedSurvives` and `DiffSurvivesAlone` accept a capture that has failed (`lossy`), because
  that does not stop the removal, and so do `OutputFresh` and `BundleComplete`. Nearly every such failure is logged; an output file that
  `rmtree(ignore_errors=True)` leaves (`artifacts.py:38`) is not. Three things are worse than they look in the code: an OSError of
  `mkdir` or of the walk in `replicate_output_tree` skips the git captures too; an
  `ls-files` that exits with an error returns without a warning; the copies in `untracked/` are never wiped, so a later capture adds to
  those of an earlier one.
- `BundleComplete` promises the output as a whole and each of `terminal.log` and `summary.md` that is there. One of the two
  that Pi has deleted keeps the copy of an earlier capture beside the new files, since `copy_io_file` returns
  on a missing source (`artifacts.py:131-132`) and nothing wipes its target.
- `DiffSurvivesAlone` and `BundleComplete` are for teardowns that follow one another. With two that overlap
  the patch can be lost: the second has looked at the path, the first removes the
  worktree, and the second's `git diff` prints nothing and overwrites `diff.patch`. Untracked files survive
  this, because their copies are not overwritten.
- In `Artifacts` the removal of the worktree is whole or does not happen, and `recover`
  runs between teardowns only.
- `OthersReaped` accepts a cleaned task: `clean` without Docker may remove the directory of a
  failed task whose container still runs, and the event goes with the directory.
- `NotLockedOut`, `OthersReaped`, `OrphanPruned` assume that Docker answers for good in the end;
  `SettledReclaimed` only that the proxy does, if with errors. `CleanDegrades` is the same without that, which is what the docstring of
  `clean` promises; the code breaks it (below).
- Of an alias with 60 characters, the thousandth id has 65 and is refused (`Refuse`),
  and so is every later one.

### Disagreements found

| run | property | the code and its text |
|---|---|---|
| `v_finish_recover` | `TornDownBeforeMarked` | `finish` records completed over a container that `recover` has just started; `lifecycle.py:942-947` says only when verifiably gone |
| `v_retry` | `FailedFinishCanRetry` | a failed worktree removal makes the next `finish` short-circuit; `lifecycle.py:530-533` says it will not |
| `v_clean_silent` | `CleanDegrades` | a proxy that is down or hangs ends `clean` at its Docker check: `startup_checks.py:93` catches `DockerException`, which the `ConnectionError` of requests is not, and `cli.py:477` only `DockerCheckFailed`; `cli.py:462-464` says that disk-side cleanup still runs when Docker is unreachable |

### Fairness

- `FairSpecStarted` (run `teardown`): a running invocation goes on (weak fairness of its
  steps; it is a process the kernel schedules, and every lock it waits for is
  released by a process that exits). `reap` is called again and again (strong
  fairness: `list_cmd.py:318-319` leaves a failed teardown to "next reap", which
  says nothing unless there is one). A Docker call that reaps
  make over and over is answered in the end (strong fairness of the successful
  outcomes of list, get, remove and the verifying get); without that no retry can ever succeed. Nothing
  is assumed of Pi, of other commands, or of `stop`.
- `FairSpec` of `EventJournal`: each reader keeps making passes, for the same reason. Nothing is
  assumed of the writer, so an event that stays a fragment is not promised.
- `FairSpec` of `Host`: an invocation goes on (weak fairness). `reap` and
  `clean --older-than 0s --yes` are called again and again (the help text of `--yes` names cron), and `finish` on
  every task that is not waiting for `reap`; the disk message asks the operator for as
  much. Strong fairness, since they can only be called while a slot is free, and while Docker answers (`clean`: while it is not silent).
  The run `v_clean_silent` uses the same specification.
  Nothing is assumed of `start`, `recover`, Pi or Docker, except where a property says that Docker answers
  in the end.

## 4. What is proved

All theorems hold for every value of the constants that satisfies the
named assumptions (`CommandsAssumption`, `ArgsAssumption`, `BoundsAssumption`,
`NoneAssumption`, `NumbersAssumption`,
`BoundAssumption`, `JournalAssumption`, `WritesAssumption`, `HostAssumption`): any number of processes, events, containers, faults.

- **`TypeCorrect`, `TypeCorrectStarted`** (`ControllerProofs`). `TypeOK` is inductive. One
  lemma per command, one step per action; `TypeOK` is cut into the part of task.json,
  the tree, Docker and the processes, so that an action that leaves a part alone
  needs one citation for it.
- **`TransitionedIffChanged`, `SecondPassStays`** (`ControllerProofs`): the
  truth table flags a transition exactly when it changes the status, and a
  second pass over the same container with nothing unread changes nothing.
- **`LifecycleHolds`** (`ControllerProofs`): `SpecStarted => FollowsLifecycle`, with no
  assumption on commands or faults. `FollowsLifecycle` is a refinement, and a step
  of an invocation is right only because of what its locals remember. The
  inductive invariant `LifecycleInv` adds to `TypeOK`: no invocation is inside `start`
  (`NoStarter`: the id is allocated, so none begins); a readable task.json has one of the known statuses, and an unreadable one
  none or a settled one, and no recoveries (`StatusInv`); a task that some `clean` has among
  its candidates is settled or already removed (`DoomedInv`). With them each
  action is an abstract step or a stutter: what `list` publishes is computed from a status
  equal to the one on disk, by the compare-and-set.
- **`TornDownHolds`** (`ControllerProofs`): without `recover` a
  container is never created, so a container that was found missing stays missing. `TeardownInv`
  says that, together with the control points past the verification. Run
  `v_finish_recover` shows that the assumption is needed.
- **`NoZombieHolds`** (`ControllerProofs`): from both initial states. `HandleInv`: wherever `recover` still has to
  remove its new container it has the handle of one. Docker must answer and nothing may be killed: the clean-up
  is one remove whose errors are swallowed.
- **`SettlingEventKept`** (`EventProofs`), with no assumption. `PassInv` says what a pass knows: its offset
  lies in the journal, which only grows (`OffsetInv`); the `--auto-finish` it read is that on disk (`AutoInv`); the
  `latest` it will decide by is the event just before its new offset (`TailInv`); and `reap` is about to advance the offset
  only over a task that is settled (`AdvanceInv`). The induction speaks of the last consumed event (`LastWordKept`): when a done or fail
  is followed by others of its kind only, the last of them is one (`KeptIsSettled`).
- **`SettlingEventTaken`, `InterruptedIsDown`** (`EventProofs`), without `recover`, the first one also for a Pi that is silent after `done` or
  `fail` (`SilentInv`: only the last event of the journal may be one): a listing that shows the container
  down stays right (`DownInv`), so Pi says nothing more and such a pass has read all there is (`ReadAllInv`);
  once a settling event is behind the offset, of task.json or of a snapshot some pass still holds,
  nothing is left to tear down (`OverInv`). `recover` brings the container up between a listing and its commit, which breaks `DownInv`.
- **`OffsetAdvances`** (`EventProofs`): `_advance_offset` writes without comparing. With `ChattyPi = FALSE` the
  offset it holds is the end of the journal from the tail on (`FrozenInv`), so it cannot be behind. If Pi signals
  again after done or fail, another pass may have gone further.
- **`LogHighWaterHolds`** (`StartProofs`), with no assumption. `BirthInv`: the id belongs to one `start`; until that one has written
  task.json there is nothing of the task, and no other invocation is past its first read. It is the base of all theorems that begin
  with the empty state. From there on every write keeps or raises the recorded size.
- **`StartLeavesRecordHolds`** (`StartProofs`), while nothing is cleaned and whatever is killed: the steps after
  `scaffold`, and `recover`, find a readable task.json (`RecordInv`), and only `clean` takes one away.
- **`WorktreeRecordedHolds`** (`StartProofs`), without crashes and with an `rmtree` that completes: a worktree is
  in the task's directory, and up to its worktree step `start` has none (`TreeInv`); so what takes task.json away takes
  the worktree too. A crash between `git worktree add` and the update of task.json leaves one that is not named.
- **`ContainerReachableHolds`** (`StartProofs`), for invocations one at a time, which may all fail or be killed,
  without `recover` and with an `rmtree` that is whole or killed before it starts: `ReachInv` says at which control points the directory and a readable task.json are certain, so
  that no write revives a removed directory.
- **`LifecycleFromStartHolds`** (`StartProofs`), for invocations one at a time: `CreatedInv` adds to `StatusInv`
  and `DoomedInv` that a `start` past its scaffold finds task.json as it left it. Overlapping invocations break it: a `list`
  interrupts, or a `finish` settles, a task whose container is yet to start, between `start`'s last read and
  its unconditional final write, which makes a settled task running again.
- **`StreamFollowed`** (`JournalProofs`): the bytes and the overlapping passes implement `EventStream` until Pi deletes the file.
  `StreamInv`: every offset, on disk or in a pass, is the end of a line; what was
  received is what lies before the offset on disk; a batch is what lies between the offset its pass
  has read and the one it will write. `Split` is the fact about parsing it needs: from the end of a line on,
  the events of two pieces are those of the whole.
- **`NothingTwice`** (`JournalProofs`), deletions included. `FreshInv`: events have one line each, and nobody has
  received the one that is being written. `OnceInv`: as long as no stale pass has won, the lines of received events end before the offset, and if the
  file is shorter than the offset there are none; a pass since whose beginning nothing was deleted or moved (`Trusted`) holds only events that were not
  received.
- Induction in `JournalProofs`: what a parse collects is a recursive function of the number of cells.
  The library's induction theorems take an operator, which the provers cannot instantiate; `Least` and `Induct` state
  induction for a set of numbers, from the well-foundedness of `<`, and every such proof names the set.
- **`IdsNeverReturn`** (`IdAllocatorProofs`). `AllocatorInv` says: at most one
  process is in the critical section, and it holds the lock; what it read of the
  counter is still there; its candidate is above the counter until it is
  published; every id handed out is at most the counter, and below the candidate of
  the process about to return. Nothing is assumed of the directories.
- **`SkeletonIsOwn`** (`IdAllocatorProofs`) adds `ReservedInv`: an id on its way to a directory is covered by the counter, held by one start, and its directory
  was made by nobody but the operator.
- **`StoreIsAtomic`, `StoreNeverTorn`, `StoreLosesNothing`** (`TaskStoreProofs`).
  `StoreInv` says: mutual exclusion by the flock; the lock holder's copy is
  the current contents until it replaces them; its temporary file is that copy
  with one more update, and whole once synced; every version a power loss could leave is whole and
  published; returned updates are in the contents.
- **`UntrackedHolds`, `DiffHolds`, `OutputHolds`, `CompleteHolds`** (`ArtifactsProofs`), for any number of
  teardowns. `Inv` has a part for each property and one they share, `PiInv`: while the
  container runs, no teardown is past its verification, so Pi changes nothing that a
  capture is copying. `UntrackedInv` is right under overlap because it speaks of the worktree that is still
  there: what a capture has not yet copied is in its `todo`, whoever else copies.
  `AloneInv` and `CompleteInv` hold as long as at most one teardown is under way, of
  which they say what it has captured so far; of `terminal.log` and `summary.md` it is what was there to copy.
- **`PruneHolds`** (`HostProofs`): a listed container belongs to a task that was started, a
  task in the middle of its life has a directory (`TaskInv`), and `start` makes the directory before the
  container. So a listed container without a directory at any later moment is one of a cleaned task, and
  a cleaned task never comes back (`LocalInv`).
- **`SoftLimitHolds`** (`HostProofs`): `LimitInv` counts the starts that have passed the
  check with the tasks that are there.

Every safety invariant and every safety refinement or action property that a passing run checks is
stated by one of these theorems. Only model-checked: all liveness (`ReapSettles`, `LossNoticed`, `AllReceived`, `NotLockedOut`,
`SettledReclaimed`, `OthersReaped`, `OrphanPruned`), since liveness under fairness is outside the proof system, and the three
runs that refute something (`v_finish_recover`, `v_retry`, `v_clean_silent`).

## 5. Plan

Order of the work, the most important behaviour first. Done:

1. `Reconcile`, `TaskState`, the five command modules, `Controller`, `TaskLifecycle`
   and their runs.
2. `IdAllocator`, `EventJournal` over `EventStream`, `TaskStore` over `AtomicRecord`.
3. `Artifacts`: the capture of a retried teardown against the bundle of the one before it.
4. `Host`: several tasks, the disk and Docker gates, the loops of `reap` and `clean`.
5. The theorems of section 4.

Next, models:

6. The lock file itself under `clean`: a directory that is removed and made again has a new lock
   inode, so two holders exclude each other no longer. `TaskStore` with a removable
   directory.
7. The terminal log: banner, pipe-pane and the high-water mark across a recovery.
8. A worktree removal that stops halfway, in `Artifacts`.

Next, theorems: those of the models above. Of the present ones no assumption can simply be dropped: for each of
`recover`, `ChattyPi`, `clean`, crashes, Docker faults, partial `rmtree` and overlap, where a theorem excludes it, a
small instance that allows it has a counterexample that TLC finds.

### Not modelled

`projects.py`, `path_validation.py` and `config.py` parse and validate input; their
failure is among the reasons for which a step of `start` or `recover` fails. `docker_client.py` passes
constant arguments. `attach.py`, `output_cmd.py`, `render.py`, `format.py` and `disk.run` read and print. The local
file-system checks of `startup_checks.py` refuse every command alike. `image/` and
`deploy/` are packaging, apart from the growth of the terminal log and
`scripts/naiw-new-task.sh`, which are actions of `TaskState` and `IdAllocator`.

## 6. Running

    tlc -config after_start.cfg MCController     # any run: its cfg and the MC module
    tlapm ControllerProofs.tla                   # any of the proof modules

`PROJECT.json` names for every run its module, for every property a mutation of
the model that breaks it, and for every definition the lines of the code it stands for.
