# TLA+ models of sysmaster

sysmaster is a service manager written in Rust: process 1 (`exts/init`) keeps the
manager (`core/bin`) alive; the manager loads units, runs jobs on them and drives
their state machines, which are plugins (`coms/service`, `coms/socket`, ...), all
on one event loop (`libs/event`). `exts/devmaster` handles devices beside it.
This directory holds TLA+ models of these programs, the TLC configurations that
check them and TLAPS proofs about them. `PROJECT.json` maps every definition to
the lines it models and lists runs, mutants, findings, hazards and theorems.

## 1. Inventory

| Component | State | Operations | Hard because | Correct when |
|---|---|---|---|---|
| jobs of one unit (`job/junit.rs`) | suspended jobs by kind, queue, one trigger, flags interrupt / retrigger / pause | insert, merge, flush, reshuffle, trigger, finish, pause, resume | flags outlive the queue they were computed from | the queue is merged, the flags are about jobs that exist |
| job table (`job/table.rs`) | an entry per unit, ready queue | commit, isolate, trigger, finish, resume, remove | only changed entries are synced | ready queue = ready entries |
| transaction (`job/transaction.rs`, `notify.rs`) | a stage, thrown away or committed | expand, affect, verify, fall back | requests meet a table changed by others | irreversible jobs stay, a refused request changes nothing |
| job manager (`job/manager.rs`) | event source, up_ready, running, deferred report | exec, run, try_finish, remove | re-entrance: units report while they are called | every ready job gets its round, every report ends its job |
| job recovery (`ReStation for JobManager`) | trigger and suspends tables, last words | compensate, map, make consistent | crash between a change and its commit | the table rebuilt can run, recovery ends |
| reliability (`core/lib/rel`) | history, last words, pending fds | commit, import, recover | two databases written at different times | recovered state is one that was committed |
| unit entry (`unit/entry`) | config, load state, pids, conditions, start limit | start, stop, reload, notify | refusals before the sub-unit is called | no change is reported that did not happen |
| service (`coms/service`) | state, result, main and control process, commands, restart counters | start, stop, reload, sigchld, notify, timers | processes exit in any order | a stopped service stays stopped, every command is followed |
| socket (`coms/socket`) | state, ports, fds | start, stop, trigger, incoming | triggers a service it shares fds with | listening only while the service is not running |
| mount, target (`coms/mount`, `coms/target`) | state | start, stop, dispatch | mount table changes by others | state follows the mount table |
| unit loading (`unit/runtime.rs`, `uload.rs`) | load queue, target dependency queue | load, dispatch | recursion through dependencies | every queued unit is loaded once |
| unit dependencies (`unit/datastore/deps.rs`) | relation table with inverses | insert, remove, lookup | kept in both directions | a relation and its inverse come and go together |
| job statistics (`job/stat.rs`) | number of jobs by kind | count what was added and deleted | a job leaves the table on many paths | the numbers are those of the table |
| installation of unit files (`manager/pre_install.rs`, `unit_file.rs`) | links in the unit directories | enable, disable, mask, presets | a unit has several names and directories | a disabled unit is pulled in by nobody |
| processes (`unit/execute`, `unit/sigchld.rs`, `unit/notify.rs`, `unit/datastore/child.rs`, `libs/cgroup`) | watched pids and their records, SIGCHLD and notify sources | spawn, watch, report an exit, reap, notify, kill | exits and messages race with handlers and crashes; pids are reused | each exit reaches its unit once, also over a crash |
| manager process (`core/bin/manager`) | state of the manager | reload, reexec, commands | reload in the middle of work | nothing is lost over a reload |
| init (`exts/init`, `core/bin/keep_alive`) | pid of sysmaster, keep-alive counters | watch, restart, reexec | messages lost, timers | sysmaster that does not answer is restarted |
| event loop (`libs/event`) | sources, pending, timers | add, enable, dispatch, timeout | sources change while they are dispatched | enabled sources are dispatched by priority |
| devmaster (`exts/devmaster`) | workers, job queue | start, ack, kill timer | workers answer after they were killed | a device has one worker at a time |
| device enumerator (`libs/device`) | match rules, the devices found, the sorted list | add a rule, scan, iterate | the file system lists entries in any order; parents are added on the way | it yields what the rules select, parents first |

The components interact by direct calls in one thread. Commands call
`UnitManager`, which calls `JobManager::exec`; the engine's Defer source calls
`JobManagerData::run`, which calls `Unit::start`, `stop` or `reload`; a sub-unit
calls back `Unit::notify`, which ends in `JobManager::try_finish`, possibly
inside the very call of the engine. Processes reach the manager by SIGCHLD and
by the notify socket, time by timers. Programs outside reach
it over the keep-alive socket (`init`), the control socket (`sctl`) and files that
survive it: the records of the reliability framework and the links of the unit
files.

## 2. Modules

| Module | Models | State and actions |
|---|---|---|
| `JobEntry` | `job/entry.rs`, vocabulary of `rentry.rs` and of unit states | operators only: kinds, attributes, results, ordering of two jobs, merging by unit state, what a report means to a job |
| `JobUnit` | `job/junit.rs` | the entry of one unit as a record; every method of `JobUnitData` is a function from entry to entry |
| `UnitCalls` | `Unit::start/stop/reload/verify` and the sub-unit behind them | what a call returns and which states it reports before it returns; what a unit reports by itself |
| `JobTransaction` | `transaction.rs`, `notify.rs`, the table side of commits and fallbacks, dependency lookup | operators from a request and a table to a stage, and from a stage to a table |
| `JobManager` | `manager.rs` on `table.rs` | `jobs`, `ready`, `up_ready`, `armed`, `running`, `state`, `todo`; actions `Command`, `Dispatch`, `PauseEntry`, `TriggerEntry`, `EndRun`, `Work`, `UnitEvent`, `RestartTimer` |
| `JobStat` | `job/stat.rs`, and what the operations of the table report | adds `num`, `owed`, `overflow`: the actions of `JobManager`, each with its count (`CountSpec`) |
| `JobRecovery` | the `ReStation` call-backs of the engine, with history and last words | adds `stored`, `last`, `pending`, `target`; actions `Operate`, `Crash`, `TriggerUnit`, `Round`, `TriggerUnitEnd` |
| `Service` | `coms/service/src/mng.rs`, `pid.rs`, `monitor.rs` | the record `m` is `ServiceMng` with its pids and running data; one action per handler, and the environment: processes fork and exit, a Stop comes into the engine |
| `Socket` | `coms/socket` | the record `u`: state, commands, ports with descriptor and source; calls, exits, `Poll` and `Dispatch` of ready ports, a failed `accept`, the service it triggers, re-execution with the forced stop of its compensation |
| `EventLoop` | `libs/event` | the record `e` is `EventsData` (sources, pending heap, timer heaps, epoll set), `pc` the place in `run`; a call-back uses the loop like any program |
| `Scheduler` | what users of the loop rely on | the abstract specification that `EventLoop` implements |
| `Reliability` | `core/lib/rel`, with start-up and recovery of the manager | `mem` (caches, marks), `disk` (database, last words, pending descriptors), `kern` (descriptors over an exec); every persisted write is a step; a start recovers or clears the data |
| `Lifecycle` | `exts/init`, `core/bin/keep_alive`, `main.rs`, the commands that end the main loop | both processes, the backlog, what is in each connection, signals and the timer |
| `Install` | enable, disable, mask, presets | the set of links |
| `UnitLoad` | `unit/runtime.rs`, `uload.rs`, `deps.rs`, default dependencies | units, load queue, target-dependency queue, relations, their records; nested loads; crash and recovery. Extends `Install` |
| `Mount` | `coms/mount`: monitor and units | mount table, pending event, phase of the monitor, mount units. Extends `UnitLoad` |
| `Children` | `execute/spawn.rs`, `datastore/child.rs`, `sigchld.rs`, `notify.rs`, `cgroup.rs` | processes, SIGCHLD, Defer source, notify socket, watched pids in memory and on disk, the handler under way; restarts that recover or clear the records |
| `Devmaster` | `exts/devmaster/src/lib/framework` | job queue, workers, their channels and threads, answers, kill timer |
| `Enumerator` | `libs/device/src/device_enumerator.rs`, what it reads of `device.rs` | the record `e` is `DeviceEnumerator` with its rules, map and list |
| `MCJobManager`, `MCJobLiveness`, `MCJobRecovery`, `MCService`, `MCSocket`, `MCEventLoop`, `MCReliability`, `MCUnits`, `MCChildren`, `MCDevices` | - | instances for TLC |
| `JobManagerProofs`, `ServiceProofs`, `SocketProofs`, `DevmasterProofs` (`Devmaster`, `Enumerator`), `LibraryProofs` (`EventLoop`, `Reliability`), `ProcessProofs` (`Lifecycle`, `Children`), `UnitProofs` (`Install`, `UnitLoad`, `Mount`) | - | the proofs |
| `Induction` | - | lemmas about recursive functions over the naturals, for proofs |

`JobManager` extends `JobTransaction` (which extends `JobUnit`) and `UnitCalls`;
`JobRecovery` and `JobStat` extend `JobManager` and reuse its actions. `Service`
extends `UnitCalls` only: it is the detailed model whose calls and reports are
compared with the abstract unit of `UnitCalls` that the engine is composed with.
`Mount`, `UnitLoad` and `Install` are one system: links decide what a load pulls
in, and the mount monitor makes units that are loaded. `MCDevices` puts the
daemon beside the enumerating process; they share nothing but the kernel.

**Atomicity.** The manager has one thread, so a handler runs to its end. In
`JobManager` what a handler has still to do is the sequence of groups `todo`;
every commit to the table is a step of its own, so that the invariants are about
every intermediate table and a crash may come between two of them. A group is
unordered where the code iterates over a hash table. In `Service` and `Socket`
the table of the engine is not in sight, and a handler is one step: the `enter_*`
functions, which call one another in tail position, are operators from a unit to
the set of its outcomes. In `Reliability`, `UnitLoad`, `Mount` and `Children` a
handler is cut at every persisted write, and in `Children` also at every system
call that the processes can race with. Threads of `Devmaster` and the two
processes of `Lifecycle` interleave at their messages.

**Abstractions.** A job is a kind, a run kind and a set of attributes; its number
and the second index `t_id` are left out. The priorities inside the ready queue
are left out: any ready entry may be next. A service command is only counted. A
process of a service is absent, alive, or has exited with a result not delivered
yet; one Boolean says whether the cgroup holds others. A core dump counts as a
signal: `shall_restart` treats both alike. The PID file, and `MAINPID=`, name
processes of the service. `RestartPreventExitStatus=` is empty. A datagram with
several assignments is several datagrams. `Type=` is simple, forking, oneshot or
notify; exec and idle have a `todo!()` in `enter_start`. Time in the event loop
and in init is a counter of ticks. The bytes of the keep-alive socket are one
message, or several that match no word (`mixed`). Unit files are records of the
settings that loading and installing read. A path of sysfs is a sequence of names.

**Recovery is an option.** `main` looks for the file `switch.debug`. Without it, which is
how the manager is installed (only tests create the file), every start first calls
`debug_clear_restore`: enable flag, last words, history and marks are cleared, nothing is
recovered, and no crash handler is installed. `Reliability` and `Children` have both kinds
of start and are checked and proved with both. `JobRecovery`, the restarts of `UnitLoad`,
`Install` and `Mount`, and `Reexec` of `Socket` model a manager with `switch.debug`; what
they show of recovery is shown for that. Without the file a start of theirs is their
initial state (the links of `Install` stay). The other debug files (enable, clear, panic,
sleep) only serve tests and are not modelled.

## 3. Runs

Each passing run checks its properties in every reachable state of its instance,
and `PROJECT.json` names for each property a mutation of the code that breaks it.

* `engine` - units a and b, b requires a, comes after it and starts it when it
  fails, and when it has ended (irreversibly); all four commands; a restarts by itself; with the job
  statistics (`CountSpec`). `TableInSync` is
  the conjunction of `AllMerged` (what the asserts of the queue require),
  `InterrupterExists`, `StoredAsHeld` and `ReadyInSync`; further `NoLostWakeup`,
  `ReportMeetsItsJob`, `InterruptedByStop`, `IrreversibleKept`, and `CountsHeld`: jobs
  are cancelled, absorbed, interrupted, finished and failed here, and the numbers stay
  those of the table. Where the assertion of the counter fails (`stat_overflow`) the
  model notes it and goes on, so the property is about those paths too.
* `boot` - three units: c wants b, needs a to be there, b requires a, in this
  order; at most two start commands. `WaitsJustified`
  (`PauseJustified`, `NoOverdueTrigger`, `NothingLeftBehind`: every job of an idle
  engine has a reason to be there) and `JobsEnd`: every job ends.
* `recovery` - a and b ordered, one crash or daemon reload at any step, b may
  report late events. `TableInSync` after recovery, `RecoveredReady` (each
  recovered job can be triggered), `RecoveryEnds`.
* `service` - eleven services: simple with a command of each kind, bare, and with
  only an `ExecStartPost=`; notify; oneshot with two commands, and with none;
  forking with and without PID file; watchdog, and a message that triggers one that
  is not configured; none to start, and a message that it stops.
  `ProcessesFollowState` is
  `SigchldSafe` (the two `todo!()` of `do_sigchld_event` are out of reach) and
  `CommandRunning`; further `StopHonoured`, `InEnvelope` (the service does what
  `UnitCalls` says) and `StopEnds`.
* `socket` - a stream and a datagram port; units without commands, with one of
  each kind, with two `ExecStartPre=`, with two of `ExecStopPre=` and `ExecStopPost=`,
  with `Accept=`; every call may fail, `accept` included, one re-execution.
  `PortsFollowState`, `ClientsActivate`, and `SocketStops`: a stop ends, or is stranded
  by a second stop command that cannot be spawned (section 5).
* `eventloop` - a descriptor, a Defer source and two timers of one clock and one
  priority, as all timers of the repository are, whose call-backs add,
  enable, disable and delete one another. `SourcesKept` (`TimersKept`, which excepts the
  timers that a removal of an equal one took (`dropped`), and
  `WatchedWhileEnabled`), `Served`, and `IsScheduler`: the refinement, with
  `enabled` the state of each source, `running` the source being called and
  `ended` the end of the loop.
* `reliability` - two units, one descriptor, handlers nested three deep, two
  crashes at any point, those of the recovery included, and reloads; with and without
  `switch.debug`. `CacheIsStored`, `NoFalseTrigger`, and `FdAccounted`: with the file no
  descriptor is lost; without it, only those that were kept when a start cleared the data.
* `lifecycle` - init with a manager that crashes, hangs, dies or is told to
  execute itself anew at any point; any number of times. `ConnectionIsCurrent`,
  `NotKilledInBoot`, `Supervised`.
* `units` - eight unit names (targets, services, an alias, an invalid name, a
  mount), presets that disagree, two commands, two crashes, two mount points with
  one unit. `DisabledNotPulled`, `NoUnitForgotten`, `TargetOrdered`, `MountInSync`.
* `children` - two units, three pids, five forks, two crashes, one notification, with
  and without `switch.debug`: `ZombieNoticed` (which excepts the zombies that a start
  which cleared the records found), `ExitTold`, `MainIsOurs`, `ReadySeen`.
* `devices` - four uevents with three numbers, two workers, two kill commands:
  `AcksMeetTheirWorker`, `OneWorkerPerJob`, `JobsProcessed`; and an enumeration
  with every two rules on a small tree, in every order of its directories:
  `EnumeratesSelected`, `ParentsFirst`.

One run is expected to find a violation: `stat_overflow`, a disagreement between
the code and its own assertion, described with the others in section 5.

Deadlock is checked in `engine` and `recovery`. In the other runs a behaviour may
really stop: commands, crashes or clients are used up, or the manager has
panicked where the code does.

**Bounds.** Two units have every pair of roles (required, ordered, triggered on
failure), and the entry of a unit depends on others only through pairs; three
are needed for a chain of pauses and for `Requisite=` next to `Requires=`.
Nothing else is bounded in `engine`: the table is finite. `MaxCommands` bounds
the commands of liveness runs, since a user who never stops can keep jobs
coming; `MaxCrashes` = 1 suffices in `recovery` because recovery starts from
committed records only, and a second crash meets records of the same form; where
the recovery itself writes records (`reliability`, `units`, `children`) it is 2.
`StartPaths` is `OneReport` in the engine's runs (a call that reports one state);
`service` compares with all of them. `Strays`, the units with late events, is b in
`recovery`. In `Service` and `Socket` a kind has at most two commands: the first,
and one that is not the first. `MaxStarts` and `MaxReexecs` of `Socket` allow a
second life of the unit after each of the ways the first can end. In `EventLoop`
an entry is pending at most twice (`MaxPending`), once from before and once from
after it was enabled again. `MaxInc` of `Lifecycle` tells two managers apart, the
one that runs and the one before; `TimeOut` and `AcceptCount` are 2, one more than
the first miss. `MaxForks` of `Children` exceeds the number of pids, so that pids
are used again. `Seqnum` of `Devmaster` is smaller than `MaxUevents`, so that a
number comes twice.

**Fairness.** The event loop dispatches the engine's source, which has the
highest priority, whenever it is enabled often enough (strong fairness), and a
handler continues (weak fairness). `Settles` and `RestartTimer` assume that a
unit which starts, stops or reloads does so some day: the code has no timeout
for it, so the liveness results depend on the programs it runs. `StopEnds`
assumes that the commands of a service exit and that the loop delivers the
exits; it excepts a service that is called or sends messages for ever.
`SocketStops` and `ClientsActivate` assume that the loop polls and dispatches,
that commands end, that `accept` does not fail for ever (strong fairness of `Dispatch`)
and that the engine makes the call it has a job for. `Served`
assumes that the thread runs and that call-backs return. `Supervised` assumes
that both processes are scheduled and that init's periodic timer fires.
`JobsProcessed` assumes that the threads run and that the main loop takes up
answers and the kill timer even when other sources are ready again and again
(strong fairness for these two).

## 4. Proofs

For every set of units, dependency relation, mode and start behaviour that meets
the assumptions of the modules, TLAPS proves of `JobManager`:

* `TypeCorrect`: `TypeOK`;
* `TableConsistent`: `AllMerged` and `StoredAsHeld`; `OnlyNopsLeft`: an entry that has
  nothing triggered and nothing queued has no suspended job but a Nop;
* `ReadyQueueInSync`: `ReadyInSync`;
* `WakeupKept`: `NoLostWakeup`;
* `InterruptJustified`: `InterrupterExists`, when no mode in use is Isolate or
  Flush (`SafeModes`); `flush_interrupt.cfg` shows that this is needed;
* `TableAgrees`: `TableInSync`, the four together, under the same condition;
* `InterruptsAreStops` and `IrreversibleStays`: the two action properties.

The inductive invariant `IInv` is `TInv` and `WakePart`, and `TInv` is `TablePart` and
`RestPart`. `TablePart` says
that each entry is well formed (`EntryOK`: types, merged queue, records equal to
what is held, flags about jobs that exist), that `ready` is the set of ready
entries and, with `SafeModes`, that no interrupt mark is stale. `RestPart` types
the other variables. Without `WakePart` `NoLostWakeup` is not inductive: outside a
dispatch `up_ready` implies `armed`, an idle loop has reported what is ready, and a
handler under way ends with `try_enable`.

`JobManagerProofs` proves first, per method of `JobUnitData`, that it preserves
`EntryOK`, what it does to the mark and to irreversible jobs. It lifts this to the
table (`TableStep`), then has one lemma per action and combines them in
`NextStep`. The action properties follow from `TableStep`.

Of `JobRecovery`, for any number of crashes between any two steps:

* `RecoveryTyped`: `RTypeOK`; `RecoveredTable`: `AllMerged`, `StoredAsHeld` and
  `ReadyInSync`; `RecoveredAgrees`: `TableInSync`, with `SafeModes`;
* `RecoveredAreReady`: `RecoveredReady`, what `trigger_unit` asserts.

A crash loses the event source (`NoLostWakeup` fails, see section 5), so the
invariant `RInv` is `TInv` without `WakePart`. It adds that what is stored can be put in
a table again (`History`), that an entry whose job is still to be triggered again has
its trigger and is not paused (`Waiting`), and that the work under way ends no trigger
of such a unit (`Safe`): without the last part a round for one recovered job might take
away the job of the next.

Of `Service`, for every configuration that `service_verify` accepts (types, exit
types, number of commands, restart settings, messages):

* `ServiceTyped`: `STypeOK`;
* `ProcessesFit`: `ProcessesFollowState`, when commands can be spawned (`~ Faults`);
* `StopsAreHonoured`: `StopHonoured`, whether or not commands can be spawned;
* `ReportsExpected`: `InEnvelope`, when commands can be spawned and the engine's unit
  may do all a start can do (`StartPaths` is `AllStartPaths`).

Every `enter_*` function ends in `set_state` or in another `enter_*` function, so what
it promises of its outcomes (`Enters`: the type, `Fits`, `Calm`) does not depend on
the state it was called in. `ServiceProofs` has one lemma per function, from the
leaves upwards, and one per handler. The invariant `SvcInv` adds to `STypeOK` and `Fits`
that an undisturbed service has no watchdog and no watch on a PID file (`Calm`), and
that once stopped it is either ended with no process left or stopping with
`forbid_restart` set (`Halted`); without the second part `StopHonoured` is not
inductive, since a start command that exits late would look like any other.

For `ReportsExpected` each `enter_*` function has a second lemma with the words it may
report (`Adds`). The invariant grows by `Tidy`: control commands are left over only in a
state that runs them, in `Start` only those of a forking service, and `StartPost` is
entered only with commands of its own or with a PID file. That a failed
`ExecStartPost=` makes its handler report at most twice needs that no process is lost
on the way (`Kept`). The proof showed three places where the unit of the engine's
model did less than a service does, and TLC has confirmed each: a service without
`ExecStart=` that has said `STOPPING=1` reports starting and stopping in one start;
`WATCHDOG=trigger` and `WATCHDOG_USEC=1` act on a service that configures no watchdog;
and a left-over `ExecStopPost=` makes a service with a PID file enter `StartPost`
from stopping. `UnitCalls` and the services of the run now include them, and the runs
and proofs of the engine hold with the wider unit.

Of `Socket`, for any ports and unit files, whether or not operations fail:

* `PortsFit`: `PortsFollowState`; `SocketTyped`: `KTypeOK`.

As in `Service`, every `enter_*` function ends in `set_state`, which lets go of what the
new state does not call for; what may go wrong is a unit that is to listen without
its ports. `Follows` therefore adds to `PortsFollowState` that a unit in StartPost or
Listening holds a descriptor of each port, and `RecOK` says the same of the record,
from which `db_map` builds the unit of the next incarnation, before the forced stop of a
compensation and `entry_coldplug`.

Of `EventLoop`, for any sources, types, priorities and delays of which one is longest:

* `LoopIsScheduler`: `IsScheduler`, every step is a step of `Scheduler` or a stutter;
* `SourcesAreKept`: `SourcesKept`, whatever the priorities; that no timer is ever taken
  out by the removal of an equal one (`NoTimerDropped`) is false, see `timers_dropped.cfg`;
* `LoopTyped` and `EnabledAreWatched`: the types, that no method fails on a registered
  source, and that epoll watches exactly the enabled descriptors.

The invariant `LoopInv` is the type of `EventsData`, the place of the loop and
`Watched`: without it `set_enabled` could return an error that the code unwraps, and a
OneShot source could still be watched while its call-back runs. `TimersInv` adds that
an enabled timer is pending or in its heap unless it is in `dropped`.

Of `Reliability`, for any units, descriptors and number of crashes:

* `CacheStored`: `CacheIsStored`; `DescriptorsAccounted`: `FdAccounted`;
* `OnlyInterruptedRetriggered`: `NoFalseTrigger`; `ReliabilityTyped`: `LTypeOK`.

`FdAccounted` needs what the records of ports say in the cache, in the buffer and on
disk (`PortRecs`), and that a mark is lost only in a recovery which closes what is
still marked first, or in a start without `switch.debug`, after which no descriptor is
`kept` any more but `lost`. `NoFalseTrigger` needs `FrameInv`, how frames nest: the frames of the
process are the last ones on disk, on top of what earlier crashes left; the last unit
is that of the innermost frame that has one; inside it only the queues are dispatched.
It assumes that `None` is neither a frame, a unit nor a mark.

Of `Lifecycle`, for any number of incarnations (at least 2, counted in a ring):

* `CurrentConnection`: `ConnectionIsCurrent`; `BootSurvives`: `NotKilledInBoot`;
  `LifecycleTyped`: the types.

The state of init does not say whether it still recovers the manager: a batch of
events taken before the unrecoverable mode is handled by the old loop and may bring it
back. `FInv` speaks of `Recovering`, which includes that: init then either listens to the
manager that runs, with nothing queued, or waits for the one it told to execute itself
anew, and for nobody else; the connections made or coming are bounded (`Queue`).

Of `Devmaster`, for any number of workers, uevents and kills:

* `AcksAreMet`: `AcksMeetTheirWorker`; `OneWorker`: `OneWorkerPerJob`;
  `DevmasterTyped`: the types.

`DInv` follows a job on its way: it is a message in the channel, in the hands of the
thread, or an answer that waits, in at most one of the three and only while its worker
is bound to it. The first job of the queue is a least number, from `WFMin` and
`NatLessThanWellFounded` of the library.

Of `Enumerator` (`ENSpec`), for any tree of `/sys`, any patterns and any number of calls:

* `EnumerationSelected`: `EnumeratesSelected`; `EnumerationOrdered`: `ParentsFirst`;
  `EnumerationState`: the invariant `StateInv` on which both rest.

They assume of the tree what the kernel promises (`SysfsAssumption`): it is finite, the
directories above a directory exist, what a bus or class links is a device of that
subsystem, and for the order only, a control device is directly below its card, has no
device below it, and no disk is below a card. `Scanned` says what a scan does between
any two of its states: the map grows, only by devices that the rules select, the rules
stay, and the list is never marked sorted. It is transitive, so it passes from an
entry to the entries in any order, to the directories in any order and to the whole scan.
`ListOf` says what `sort_devices` returns. Where `device_compare` is an order, the number
of devices before a device is its place (`Ranked`), so the list has each device once; the
parts are disjoint and a part has no device whose directory above is in a later one
(`PartsDivide`), because `prioritized` takes the ancestors along. A device never comes
before the directory above it (`ParentNotAfter`), for sound devices too although their
comparison is cut short. `StateInv` adds that what was yielded is the beginning of that
list, and that the first scan starts with a list that is not marked sorted: the second one
may not, and then the list is empty (section 5).

Of `Children`, for any finite, disjoint sets of units and pids and any bounds:

* `ZombiesAreNoticed`: `ZombieNoticed`; `ChildrenTyped`: `CTypeOK`;
* `ExitsAreTold`: the action property `ExitTold`;
* `MainsAreOurs`: `MainIsOurs`; `ReadyIsSeen`: `ReadySeen`.

`ZombieNoticed` is inductive once the type is known: a zombie appears only together
with SIGCHLD, the signal is taken only by turning the source on, and the source is
turned off only after a look that found no zombie, or with a signal that came
after that look; a recovery turns the source on again, and a start that clears the
records leaves it off and excepts the zombies it finds (`old`). The type needs `Placed`, what
a handler has in hand at each of its steps. `ExitTold` needs `ToldInv`: a process
whose watch was committed is watched, in memory and in the records, until its unit was
told. The last two need `OwnInv`: a table owns processes that exist, each for one unit
and in its cgroup, and has heard what they sent; said of memory and of the records,
it outlives a crash, and it is said also of the process that the handler under way
has just forked or is about to forget.

Of `Install`, `UnitLoad` and `Mount` together (`MSpec`), for any unit files, links,
presets, mount points and any number of commands, crashes and reloads:

* `DisabledStaysOut`: `DisabledNotPulled`; `NoneForgotten`: `NoUnitForgotten`;
* `TargetsOrdered`: `TargetOrdered`; `MountsFollowTable`: `MountInSync`.

All four rest on `BaseInv`. Its part `LinkInv` says that no link points at the file of
a disabled unit, which is enough because following links never ends in a file that no
link points at. Its part `UInv` ties four things together: the records hold at most
what memory will hold (`Behind`), a call of `dispatch_load_queue` has its unit at the
head of the queue or is a recovery's (`Calls`), and the last unit and frames on disk
are those of the calls under way (`LastOK`), so that a crash compensates a unit that was
really in hand. Each result adds its own part, said of memory and of the records so that
it outlives a crash. `HeldInv`: a unit that is still a stub is queued, in hand, lost, or
has refused its section. `OrderInv`: a loaded unit that is not in the target queue has
the edges of every target that pulls it in, and an edge exists only if a file was read.
`MountsInv` and `MonInv`: a mount unit that is created is loaded before the monitor goes
on, and while the monitor works its `dead` set is what is active and was not seen again.
What is still to be started (`todo`) is part of it: only a point that is in `dead` and
not in `todo` is really unmounted.

The recursive definitions here (`Canon`, `Reach`, the loops of `insert_udconf`) are
functions of a number of rounds. `Induction` proves that such a function exists and is
its definition (`Recursion`), and that a set of naturals that holds 0 and every successor
holds all (`NatSet`): with a set in place of the library's predicate the provers can use it.

Only model-checked:

* `CountsHeld`, which TLC also finds true with the modes Flush and Isolate: its proof
  would follow sums over the units through every operation of the table;
* liveness under fairness, out of the prover's reach: `JobsEnd`, `RecoveryEnds`,
  `StopEnds`, `ClientsActivate`, `SocketStops`, `Served`, `Supervised`, `JobsProcessed`;
* what does not hold for every value of the constants, only in instances like those
  of the runs: `WaitsJustified` (`swallowed_report.cfg`; and the Nop of section 5, past which
  `OnlyNopsLeft` cannot go), and `ReportMeetsItsJob`, which needs
  configurations without `Requisite=` (section 5) and, from that, that
  `job_trans_expand` puts no Verify job in a stage.

## 5. Where the code and its promises part

The run `stat_overflow` checks `NoOverflow`, the assertion of `JobKindNum::update`.
The function counts the deleted jobs of a commit before the added ones. A job that
the commit adds and `reshuffle` absorbs at once is in both lists, and with no other
job of its kind its counter is 0: the assertion fails and the manager panics. It
takes a Start of b that waits for a, and then a Reload of b.

The following configurations are kept beside the runs. Each checks one property
that a document, comment or assertion states and the code does not keep; TLC shows
the behaviour.

| Configuration | Module | Property | What happens |
|---|---|---|---|
| `restart_deadlock.cfg` | `MCJobLiveness` | `JobsEnd` | the stop half of a Restart does not resume the ordered neighbours; restarting two ordered units never ends |
| `flush_interrupt.cfg` | `MCJobManager` | `InterrupterExists` | a Flush commit empties a queue and leaves the interrupt mark, which the next assertion refuses |
| `swallowed_report.cfg` | `MCJobManager` | `NoOverdueTrigger` | the report that ends a paused job is taken for a resume |
| `isolate.cfg` | `MCJobManager` | `IsolateSparesAssigned` | `is_unit_empty` is inverted: Isolate stops what it starts |
| `lost_wakeup.cfg` | `MCJobRecovery` | `NoLostWakeup` | after a crash, ready entries without a trigger wait for some other event |
| `restart_timer.cfg` | `MCService` | `TimerExpected` | the restart timer is not cancelled when AutoRestart is left; in most other states its handler aborts the manager |
| `record_assert.cfg` | `MCService` | `RecordLoads` | a service saved between two commands of a kind cannot be loaded again |
| `watchdog_restart.cfg` | `MCService` | `WatchdogRestarts` | `Restart=on-watchdog` does not restart after a watchdog timeout: `enter_signal` drops the result |
| `timers_dropped.cfg` | `MCEventLoop` | `NoTimerDropped` | sources compare by priority, so a timer that fires or is disabled takes the other timers of its clock and priority out of the heap |

Three more definitions state what a comment says and do not hold: `KilledGetsNoJob`
of `Devmaster` (a job may be handed to a worker that was told to end, and is lost
behind the kill), `ExitsExpected` of `Socket` (a start command left behind by
`enter_signal` exits in a state where that is `unreachable!()`), and
`SystemReboots` of `Lifecycle` (the manager kills every process of `/proc`, itself
included, before it calls `reboot`).

Other behaviour met while modelling, which the models have unless noted:

*Job engine and service*
* A unit that reports twice during one call is seen by the engine in its first
  new state only.
* `sq_order` queues a Stop without the Nop that may be suspended beside it, and nothing
  orders the queue again when the Stop has ended: the Nop stays suspended, and stored,
  until another job of the unit comes. TLC shows `NothingLeftBehind` violated when
  `DepsRequires` meets a Stop of a and then a Restart, which asks b for a TryRestart;
  the instance of `WaitsJustified` has no such request.
* With `Requisite=` on a service that restarts itself and has a watchdog or a PID
  file, a Verify job that found the unit in auto-restart is paused. A late event makes
  `enter_dead` report dead and then auto-restart: the first report resumes the job,
  the second meets it unpaused, and `do_try_finish` reaches
  `unreachable!("Invalid job run-kind.")` of `job_process_unit`. TLC shows it with two
  units, `Deps = {<<c, "Requisite", a>>}` and `Restarts = Strays = {a}`; the runs of
  `ReportMeetsItsJob` have no such unit.
* `control_command_fill` leaves the old queue when the new kind has no commands:
  a stop during the first of two `ExecStartPre=` runs the second one as
  `ExecStopPost=`.
* After a failed `ExecStartPost=`, the handler signals the service and then goes
  on to `guess_main_pid` and `enter_running`: the service may be shown as active
  again. With a PID file that can be loaded, `enter_start_post` runs twice.
* A failing `ExecStartPre=`, or start command of a forking service, ends in Dead
  with result Success: `enter_signal` ignores its result.
* The watchdog and the inotify of the PID file outlive a stop. With
  `Restart=always` a late watchdog timeout restarts a service that was stopped;
  `StopHonoured` and `StopEnds` therefore speak of services without them.
* When a command cannot be spawned (`Faults`), `enter_start_post` and
  `run_next_*` only log it: `ProcessesFollowState` holds without such faults only.
* A main process that exits while a child is left in the cgroup leaves the state as
  it is, and nothing watches the child: a oneshot service stays in Start.
* `process_util::alive` reads the parent's pid where it means the state, so zombies
  count as alive; `my_child` compares with `getppid`, so `guess_main_pid` never
  finds a main process.
* The state `Stopping` of `notify_state` is never reset: a service that has sent
  `STOPPING=1` and is started again goes from start straight to StopSigterm.
* Timers, watchdog and PID-file watch are not set up again after a recovery; a
  service in AutoRestart stays there (not modelled: recovery of a service).

*Event loop*
* All timers of the repository have the default priority 0 (`source.rs`), and
  `TimerInner::remove` removes every entry of that priority: a job timer, restart timer,
  watchdog or keep-alive timer that fires or is disabled takes the others of its clock
  with it, and they never fire.
* A source that is deleted while it is pending is met by an `unwrap` when it is
  popped. A timer that is enabled again while an old entry of it is pending fires
  early.

*Socket*
* `flush_accept` closes the listening descriptor instead of the accepted one.
* `entry_coldplug` watches the ports whatever the state, and the changes made by
  `start_check` and `stop_check` are not stored.
* When two ports are ready in one round, the first handler may delete the source
  of the second, which then panics. `result` is never set back to Success.
* `run_next` only logs a command that cannot be spawned. The second of two
  `ExecStopPre=` or `ExecStopPost=` then leaves the unit stopping for ever, and with it the
  Stop job; the second start command leaves it activating until it is stopped. In the
  model it is `stranded`, and `SocketStops` excepts that stop only.
* A failed `accept` leaves the unit listening and the client waiting.

*Reliability*
* A start without `switch.debug` clears the marks and the records of descriptors that
  the exec kept open: nobody closes them, they are `lost`. It also leaves the old notify
  socket open, and the source of SIGCHLD off: zombies whose signal was taken before stay
  until the next exit.
* A first boot that crashes before the enable flag is set leaves records, and a
  last unit, that the next boot neither reads nor clears: both are excepted in
  `CacheIsStored` and `NoFalseTrigger`.
* The last frame is a stack, the last unit a single value: a nested load clears it
  and commits the half-done history of the outer handler.
* A crash between the close of a descriptor and the commit leaves a record with a
  number that is closed.

*Init and manager*
* Keep-alive messages that arrive together are dropped; only the timer notices.
  The unrecoverable mode is never left. `sctl reboot` and `halt` send the
  shutdown command. SIGTERM and SIGINT reach a `todo!()` of the manager (the last
  not modelled).

*Units*
* `dispatch_target_dep_unit` returns where its log message says that it continues.
  A unit whose load was interrupted by a crash is loaded again without the
  target-dependency queue, and one interrupted by a nested load stays a stub: both
  are excepted in `TargetOrdered` and `NoUnitForgotten`. One dependency of an
  invalid name drops the rest of the list. `remove_one_way` has its test the wrong
  way round; nothing calls it.
* Masking has no effect on loading, and `disable` removes the mask. Presets are
  applied at every start, so a disabled unit with an enabling preset is enabled
  again; with `Also=` the outcome depends on the order of the directory.
* Mount points `/a-b` and `/a/b` have the same unit. `sctl stop` of a mount unit
  only marks it dead until the next event of the table.

*Processes*
* `cg_attach` that fails makes the call fail while the child runs on, owned by
  nobody; a process forked before the attach escapes the cgroup.
* `cg_kill_process` stops at the first pid that is gone, although its comment
  promises all of them; sub-cgroups are not killed.
* `child_watch_all_pids` watches grandchildren that their own parents reap; the pid
  stays in the record, and after a crash and reuse of the pid it may be taken for
  another unit's main process (`leaked` excepts it).
* A notification is popped before its effect is committed: a crash in between
  loses it (`popped` excepts it). A crash inside `sigchld_events` after a spawn
  repeats the handler and spawns again.

*Devices*
* A `killed` answer does not start the queue again: jobs that found the table full
  wait for the next event (`JobsProcessed` excepts kills).
* `add_device` returns the inverse of what its comment says. The list is not marked
  unsorted after a second scan, so a rule added after an enumeration makes `next`
  yield nothing, and the walk to the parents stops at the first new one. With a
  parent rule, a directory without `uevent` file makes the whole scan fail.
* `sound_device_compare` is no order for every pair of paths (the instance has
  only devices for which it is one where `ParentsFirst` speaks); a rule on
  subsystem "drivers" lists no driver; `uevent` is not read, so property rules see
  only two properties; sysattr and tag rules are `todo!()`.

## 6. Not modelled, and what could follow

Left out of modules that otherwise follow the code: the `Sockets=` of a service and the
units of other types in `UnitLoad`; a glob that does not compile, whose error ends a scan of
the enumerator early; a worker thread of devmaster that panics because the broadcast or its
connection fails, and leaves its job running for ever; a crash in the middle of a handler
of a socket (only its compensation is there); the error of a timerfd that is read.

Not modelled, with the reasons in `PROJECT.json`: system calls and sequential work
on files (mount setup, plugin loading, hardware watchdog, fstab, random seed,
rc-local, sysmonitor), parsing, encoding and printing (`sctl`, `cmdproto`,
configuration), the evaluation of conditions and the start limit (an arbitrary
refusal in `UnitCalls`), the job timer, the counters since the start, the numbering
of jobs, and the preparation of a child between fork and exec.

Next, in this order:

1. `ServiceRecovery`: the record of a service (`db_map`), crash and reload; then
   `Service` composed with `JobManager` in place of `UnitCalls` for one unit.
2. The start limit and unit conditions; the job timer.
3. `Socket` composed with the service and the engine, in place of its abstract
   service.

Theorems worth proving next: under which modes and dependencies the other two parts of
`WaitsJustified` hold; for `JobStat`, `CountsHeld`.
