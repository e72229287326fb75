# Process manager: a TLA+ verification project

The repository holds a process manager (`manager/`, C++20: a daemon that starts,
supervises and stops the services of a configuration file, and a command line
client) and a monitor for it (`gui/`, Python). This directory holds TLA+ models
of the manager's logic, TLC runs that check them on small instances, and proofs
that TLAPS checks for every value of the constants.

Run `tlc -config X.cfg M` for a run of the tables below and `tlapm M.tla` for a
module with proofs. `PROJECT.json` lists for every definition the lines it
models (`map`), for every property a mutation of the model that breaks it
(`mutants`; the mutated operators stand in the modules beside the originals,
marked "Mutant"), and the hazards the properties are aimed at.

## 1. The system

### Components, their state and their operations

| component | source (`manager/src` unless said) | state | operations |
|---|---|---|---|
| Supervised service | `Service.cpp`, `ServiceState.cpp` | state machine of eight states, process handle, deadlines, restart history, three flags for what follows a stop | start, stop, restart, kill, heartbeat, abandon, tick, replace |
| Service manager | `ServiceManager.cpp` | the services in order, their configurations, those a reload dropped, the shutdown flag | load, autostart, commands to one or all, apply a reload, tick, begin shutdown, kill all |
| Daemon loop | `Daemon.cpp` | stop and reload flags, deadline, configuration, names whose groups are to be removed | run, reload, command rounds, publish, shutdown |
| Posix launcher and handle | `posix/NativeLauncher.cpp` | process ID, exit status, drain deadline, cgroup | launch, poll, terminate, kill, sample |
| Process table | `posix/ProcessTable.cpp`, `ProcessTable.cpp` | a snapshot of /proc | capture, members of a session |
| Cgroup tree | `CgroupTree.cpp` | the delegated subtree | prepare, create, limit, kill, remove, list groups |
| Signal watcher | `posix/SignalWatcher.cpp` | two flags | handler, take |
| Configuration parser | `ConfigParser.cpp`, `ServiceConfig.cpp` | the section being read | parse lines, apply keys, validate, find cycles |
| Command channel | `CommandServer.cpp`, `CommandMessage.cpp`, `ManagerClient.cpp`, `main.cpp` | sockets, one command at a time | bind, receive, reply; send with a timeout |
| Reports and wire format | `ReportBuilder.cpp`, `DetailedReport.cpp`, `HealthRecord.cpp`, `Wire*.cpp`, `ReportPublisher.cpp` | sequence number | build, encode, decode, publish |
| Sockets | `ZmqSocket.cpp` | one libzmq socket | send, receive, poll |
| Resource sampling | `ProcFs.cpp`, `posix/SystemMonitor.cpp`, `GpuMonitor.cpp` | previous counters, the GPU's sampling window | sample |
| Windows launcher | `windows/*.cpp` | job object, process handle | launch, poll, kill |
| Command line, status table | `CommandLine.cpp`, `StatusTable.cpp` | none | parse, print |
| Logging, console, systemd | `Logger.cpp`, `posix/Console.cpp`, `posix/SystemdNotifier.cpp` | none that is read back | print, notify |
| GUI workers | `gui/process_monitor_gui.py` | command queue, sockets of a thread | connect, send, receive |
| GUI feed and views | `gui/process_monitor_gui.py`, `process_views.py`, `usage_graphs.py`, `journal_view.py` | time and sequence number of the last report, histories | note a report, tell whether it is stale, draw |
| GUI wire structures | `gui/health_structs.py` | none | pack and unpack |
| GUI system sources | `gui/systemd_logs.py`, `gpu_sampler.py` | caches | run a tool and parse what it prints |
| Mock publisher | `gui/mock_publisher.py` | - | development aid |

### How they interact

One thread runs the daemon: `Daemon::Run` reads the flags that the signal
handler (or `RequestStop` from another thread) sets, handles at most a hundred
commands, ticks the service manager, clears away the groups of removed services,
publishes a report, and begins again. The manager calls its services one after
the other; a service calls its process handle, which makes system calls. No lock
is held anywhere: what interleaves are **processes** (they fork, move and die
between any two system calls and, seen from above, between any two iterations
of the manager's loops), **signals** (between any two instructions), **other
threads' requests**, **commands** on the socket, and **time**.

### What is hard, and what makes each component correct

- *Service.* Five calls and the tick set and clear three flags that decide
  what an exit means. Correct when a stop sticks, one process at most is held,
  restarts are counted once, kept within their budget and spaced by the doubled
  delay, silence is found when and only when it lasts, and a shutdown launches
  nothing.
- *Service manager.* Services wait for dependencies that die, are dropped and
  come back. Correct when nothing starts before what it needs or stops before
  what needs it, whoever asked; when what was dropped stays down and leaves; and
  when nobody waits for ever.
- *Daemon.* Flags are set at any moment, commands flood, deadlines pass.
  Correct when one request to stop stays graceful, when supervision never
  starves, when groups that are cleared away are dead, and when it returns.
- *Shutdown timing.* The budget is a sum; the time needed is the longest path of
  stops. Correct when no service is killed before its own timeout.
- *Process handle.* The host reuses IDs. Correct when no signal to the group
  reaches a stranger, and when an exit is reported only once nothing of the
  service is left to meet its successor, and then in the end.
- *Launch.* A fork runs the manager's code and handlers in the child. Correct
  when the answer is true, no signal is swallowed, and no service survives the
  manager unaware.
- *Cycle search.* Correct when it refuses exactly the files with a cycle.
- *Command channel and GUI worker.* Commands and replies wait in queues while
  both ends come and go. Correct when an answer is its own command's, nothing is
  executed twice or out of a worker's order, and the operator hears of it.
- *Cgroup tree.* Any call may fail half way, other processes come and go, and
  what an earlier run left forks while it is killed. Correct when a service runs
  under its own limits and among its own processes, or a warning says it does not.
- *Parser.* What a line does depends on those before it, and two scanners look at
  each value. Correct when what it accepts can be run, when each setting is what
  the file's author wrote, and when it refuses a file for a reason only.
- *Wire format.* Two programs, several versions, cut and padded payloads. Correct
  when each reader takes just what was sent, or nothing.
- *Reports and their readers.* Reports are lost, late, and come from a manager
  whose interval changes. Correct when `--status` answers while there is a
  manager, and when the GUI says "live" of what is live and of that alone.

The full list of hazards, each with its line and the properties aimed at it, is
in `PROJECT.json`.

## 2. The modules

```
 ServiceControl ---- AbstractService        Service ---- ServiceProofs
      |                  ^       ^             |
 ServiceManager          |       '------- MCService    (timed => abstract)
      |    |             |
      | MCServiceManager-'                             (managed => abstract)
    Daemon --- MCDaemon
      |
 ServiceManagerProofs   (of both)

 ShutdownTiming --- MCShutdownTiming     CommandChannel --- CommandChannelProofs
      |
 ShutdownTimingProofs                    PosixChild --- PosixChildProofs

 ProcessLaunch --- CgroupTree --- CgroupTreeProofs

 WireRecord --- ReportFeed --- MCReports  (of both)
      |                           |
      '-------- Wire -------------'
                  |
           ReportFeedProofs       (of both)

 DependencyCycles --- ConfigReader --- MCConfig
                       |      |
              ConfigText      ConfigReaderProofs      (of the search and the reader)
```

**Service** is the class `Service` with its clock. The object is one record,
each method an operator from the record before to the record after, composed as
the code composes them: `Tick` is `Supervise` after `Reap`, and `Reap` may
launch. The caller's methods, the process and the clock are the actions. Its
history fields (`wanted`, `attempts`, `switchedOn`, `scheduled`) are read by no
operator and exist for the properties.

**ServiceControl** is the same object without times, counters and
configuration: each operator maps a record to the *set* of records a call may
leave, whatever the timers say. It is small enough for two or three services to
be composed. **AbstractService** closes it to a specification, what one service
may ever do, and two properties show it is implemented: by the timed service
(`ImplementsAbstractService`, under the mapping `ControlOf`, which forgets the
clock) and by each service of the manager (`EachIsSupervised`, for every name,
from the load that adds it to the sweep that removes it and when it is added
again). So what is checked and proved of the manager over the untimed services
holds with the timed ones. Both are proved as well as checked.

**ServiceManager** is the class of that name. A method that walks over the
services becomes a sequence `work` of steps, one per iteration, put there by the
call and consumed by `Step` actions; processes end between the steps. Where the
code's walk sees states that an earlier iteration left, so does the model. The
loads it is given satisfy `Valid`, what `ConfigParser::Validate` accepts; that
the third conjunct, no cycle, is what the parser's search decides is
`DependencyCycles!AnswerIsRight`, proved for every file.

**Daemon** extends ServiceManager with the loop: `pc` is the place in
`Daemon::Run`, and the surroundings (`StopRequested`, `ReloadRequested`,
`CommandArrives`, `DeadlinePasses`, `ProcessEnds`) may step at any of them and
within every call of the manager. The signal handler and `RequestStop` set
separate flags, as in the code, and the loop reads them one after the other
(`ReadSignal`, `ReadStop`). `leftOver` remembers a signal that came between the two
reads of the round in which the shutdown begins.

**ShutdownTiming** has just what decides how long a shutdown takes: for each
service up, stopping or gone, its deadline, and what it and the configuration
say of dependencies and timeouts. Kills are instantaneous, which favours the
code: what slows real services is what `kill_grace` and the margin are for.

**PosixChild** is the process handle over the processes of the host, one system
call a step: `waitpid` with WNOWAIT, the signal to the group, the reading of the
members, a signal to each, the cgroup's kill, the collecting `waitpid`. The members
of a cgroup are read at once; without one /proc is listed, a name a step in any
order, and then read, a name a step (`ListPid`, `ReadStat`), and the members are
found in the table that comes of it (`MembersOf`). Between
any two of them processes fork, lead new groups or sessions, end, are reaped by
their parents, and strangers take free IDs. `cgroup`, chosen once, decides
between the two ways of finding leftovers.

**ProcessLaunch** is one launch from the fork on, the manager and the
forked child side by side, with the signal masks, handlers, the close-on-exec
pipe and the parent-death signal. **CgroupTree** extends it with what comes
before the fork: the daemon's start finds the tree, makes room and switches the
controllers on, kills and removes the group an earlier run has left; then the
launch creates the group anew, writes the limits and opens the file through which
the child joins. The kernel's rules are part of the model (only the root may
both hold processes and give controllers), other processes come and go, the old
ones fork between any two signals, and every call that changes something may fail.

**CommandChannel** is the way of a command and of its reply: calls of the
command line, each with a socket and an identity of its own; the GUI's worker
with its queue, the command first in line and a socket under the fixed identity;
the ROUTER's table of identities; and the manager, which handles one command at a
time, ends and starts again. What libzmq does is modelled from how the code sets
its sockets up (linger 0, the handover, the limit on what is queued): unsent
messages outlive a manager that is down but not their socket, a reply to a peer
that is gone is dropped, and the last peer of an identity has it. The malformed
request is left out, as no client here sends one.

**ConfigText** reads values: comments, quotes, lists, words, numbers and sizes.
It has the code's two scanners, the one that finds where a comment begins and the
one that splits arguments. **ConfigReader** reads a file a line a step, as
`ParseLine` does, with the state that lines leave behind, then validates each
service and runs the search. Beside each value a file carries what its author
meant (`means`), which the reader never looks at. A file has headers of at most
`Services` services (`IsFile`), which only bounds it: `MCSpec` of MCConfig takes
the files to check from families of them. **DependencyCycles** is
the depth-first search, one look at a dependency a step, its recursion an
explicit path; ConfigReader gives it the dependencies it has read.

**WireRecord** writes and reads payloads by offset and width, as `WireWriter` and
`WireReader` do, with the layouts of both programs; a read that is not just what
was written gives garbage. **Wire** is one payload on its way: what a daemon's
`Publish` makes of its statuses, a command or a reply, with what is meant by it
(`Meant`: each number as it is, of a text all the characters that fit), perhaps
damaged, and in one step what each of its readers takes. **ReportFeed** is when the manager publishes and
what a subscriber makes of it: the waiting of `--status`, and the GUI's worker,
the messages it posts to the window, and `FeedMonitor`. Whether a report can be
read is WireRecord's decision, so a manager of another version is refused
here as it is there. **MCReports** follows either a subscriber or one payload,
and lists the payloads.

## 3. The runs

| run | bounds | shows |
|---|---|---|
| `Service` | three configurations a reload may switch between: heartbeats watched and restarted, with delays and a budget; heartbeats only reported, one restart, stopped by SIGKILL; not watched, restarted at once for ever. Clock to 3, 3 launches | `TypeOK`, `ChildIffAlive`, `StopSticks`, `RestartsCounted`; `RestartBudget`, `BackoffDoubles`, `NoFalseAlarm`, `ImplementsAbstractService` |
| `Service_reload_unhealthy` | the first two, clock to 3, 1 launch | *violated*: finding 1 |
| `Manager` | three services; a chain, the chain without its middle, and that turned round | `DroppedStaysDown`; `LaunchNeedsDependencies`, `DependentsStopFirst`, `AllReachedOnce`, `EachIsSupervised` |
| `Manager_liveness` | two services; three files that have, reverse and drop their dependency | `ShutdownCompletes`, `DroppedDisappears`, `WaitingIsDecided` |
| `Daemon` | one service, started by the daemon, or not, or not listed; one command a round, two in the queue | `GracefulStop`, `OnlyDeadGroupsRemoved`; `SupervisionGoesOn`, `RunReturns` |
| `Shutdown_timeouts` | three services in a chain, timeouts 1 to 3; stop commands, crashes and a reload that turns the chain round before the shutdown, crashes and a second request to stop during it; clock to 10 | `TimeoutsHonoured` |
| `Shutdown_dropped` | the same chain, a reload that drops its end | *violated*: finding 2 |
| `PosixChild` | three process IDs, every fork, move, death and reuse; with and without a cgroup | `GroupKillIsOurs`; `ExitMeansGone`, `ExitReported` |
| `Launch` | one controller, two processes of an earlier run, two passes and two attempts to remove; the tree the root or not, with or without other processes, the group there or not | `AnswerIsTrue`, `LimitsHoldOrTold`, `OldCopiesGoneOrTold`; `NoHandlerInChild`; `DiesWithManager`, `ManagerGetsOn` |
| `CommandChannel` | one call of the command line, two workers of the GUI, three commands given in it, a socket that takes one at a time | `AnswerIsOwn`, `OnceAndInOrder`; `OperatorTold` |
| `Config` | some 20,000 files: every graph of four services, every order of a few lines, defaults against own values, each value a key takes, arguments in every way to quote them, every size | `AcceptedIsUsable`, `ReadAsWritten`, `RefusedForAReason`, `AnswerIsRight` |
| `Reports` | `--status` with and without `--watch`, or two connections of the GUI; intervals of 1 and 3 seconds, two edits or stops, a late round; three versions of the manager. Payloads: texts around every width, damaged headers, counts and sizes, layouts of later versions | `ReadAsSent`, `StatusAnswered`, `FeedHonest` |

Why the bounds are enough to meet the interesting cases. *Service:* three launches
that fail, the first ones under the configuration that restarts at once, schedule the
third restart in a window of two units, with a budget of three; its second doubling passes the
ceiling of three; and the clock runs past every timeout, grace and window, all of
one or two units. *Manager:* a dependency needs two services, being a
dependency and a dependent at once needs three; whatever needs more is a longer
chain of the same steps. `SettleOne`, `TickOne` and the rest look at one service
and its neighbours. *Daemon:* one command a round with one more waiting is
enough for a round to be full; the loop looks at services only through the
manager's methods and the set of those removed, and one service is enough to be
there, dropped, gone and back. *PosixChild:* the main process, one child and
one more, which the child forks while /proc is read or a stranger that takes an ID. *CommandChannel:* three commands are one in the
socket, one first in line and one behind it; a second worker meets the identity
of the first; one call can be mistaken for the GUI, and for a call that gave up
it is the socket that counts, which each call has its own of. *Launch:* two old processes
are one that forks and one it forks, so that a pass misses one; two passes end
before it is dead. Controllers do not touch each other: one may be offered, on,
refused or missing. *Config:* four services have every shape
of cycle of lengths two to four, two cycles, and a cycle behind an acyclic part,
and the proof covers the rest; arguments of two characters have a quote inside
quotes, an escape before a quote, and a mark after either; sizes run through
every number up to and past a signed byte with every suffix, overflow at each
included. *Reports:* an interval of 3 is above the time after which data counts as
stale and above the default timeout when a round is late; two workers are an old
connection and a new one; the version decides in one step whether a report is read.

The bounds are `MaxTime` and `MaxLaunches` (Service), `MaxTime`
(ShutdownTiming), `MaxQueue` (Daemon), `MaxWorkers` and `MaxClicks`
(CommandChannel), and `MaxChanges` and `MaxWorkers` (ReportFeed). `KillAttempts`, `RemovalAttempts` (CgroupTree),
`GapsKept`, `Queue` and the times (ReportFeed) are the code's own constants, given
smaller values in the same order. The other modules are finite as they
stand. Deadlock is checked except where the system ends: after the reading of a
file, a launch, a call of `--status`, and the daemon's shutdown in ShutdownTiming.

### Fairness

No run assumes that a process obeys a signal, that anybody sends a command, or
that a launch succeeds.

- *Daemon* (`DaemonFairness`): the loop goes on, since every call in it returns
  (it polls with a timeout; the blocking ones are in ProcessLaunch), and the
  deadline passes, since time does. No process has to die, not even a killed one.
- *ServiceManager* (`Fairness`): a method's steps are taken; ticks come again
  however many commands arrive. The latter is strong fairness, as a command may
  always be executed first, and `SupervisionGoesOn`, in the run `Daemon`, shows it is
  what the loop provides. Some tick finds a stop timeout past; a process
  that was sent SIGKILL disappears, except in the properties of the daemon.
- *Service* (`FairSpec`): ticks and time.
- *PosixChild* (`FairSpec`): a call returns; every tick polls, however many
  kills come between (strong, as a kill may be under way when the poll is due);
  the drain deadline passes.
- *CommandChannel* (`FairSpec`): the worker's loop goes on (it polls with a
  timeout), messages travel, and the manager empties its socket, which it reads
  every round. Nobody has to reconnect, and no manager has to start.
- *CgroupTree* (`TreeSpec`): the manager gets on from its start through the
  launch, and the child unless one of
  its calls blocks for ever (`ChildHangs`). The manager reads the pipe without a
  timeout, so the first half of `ManagerGetsOn`, that the launch returns, excepts
  a child that hangs before exec: it stops supervision until it is killed. The
  second half, that a stop signal is noted, holds even then. Nothing is assumed
  of the old processes; neither pass nor removal waits for them.

`Config` and `Reports` check safety alone. In ReportFeed time stands still
while somebody has something to do at once (`NothingAtOnce`), which is how "a
round is at most `Late` behind" enters `StatusAnswered`.

## 4. The proofs

| module | theorems | from |
|---|---|---|
| ServiceProofs | `TypeCorrect`, `ProcessAgreesWithState`, `OneQueuedStart`, `StoppedStaysStopped`, `EveryRestartCountedOnce`, `ServiceIsAbstract`, `AlarmsAreDue`, `RestartsWithinBudget`, `DelaysDouble` | configurations within `Config`, the bounds natural numbers; the last two: no reload widens the restart window |
| ServiceManagerProofs | of the manager: `DroppedStay`, `LaunchesNeedDependencies`, `DependentsStopBefore`, `AllAreReachedOnce`, `EveryServiceIsSupervised`; of the daemon: `StopIsGraceful`, `ClearedGroupsAreDead`, `DroppedStayInTheLoop`, `LaunchesInTheLoop` | finitely many names, loads the parser accepts |
| ShutdownTimingProofs | `SumIsTimeEnough`, `SameServicesHaveTime` | finitely many names, loads the parser accepts; the sum is below `max_shutdown`; no reload drops a service that runs or shortens the timeout of one that stops |
| PosixChildProofs | `GroupSignalsHitOurs`, `ReportedExitsAreOver`, `TypeCorrect` | the manager and init are not IDs the host gives out |
| CgroupTreeProofs | `AnswerHoldsAlways`, `ServiceIsLimitedOrTold`, `NoCopySharesUnnoticed`, `HandlersStayInManager` | the numbers of attempts natural |
| CommandChannelProofs | `AnswersAreOwn`, `ExecutedOnceAndInOrder` | None, calls and identities told apart |
| ReportFeedProofs | `PayloadsAreReadAsSent`; `CallsAreAnswered`, `LiveByItsOwnReports`, `SteadyIsLive` | of payloads: texts in UTF-8, at most `max_report_records` records, a later version only appends, states, modes and results are the enumerators (`WireAssumption`); of the rest: finitely many intervals, as the parser bounds them; a queue holds a report; for `CallsAreAnswered`: a round is late by less than the margin; for `SteadyIsLive`: by half its interval at most, or its reports stay younger than `STALE_AFTER_SEC` |
| ConfigReaderProofs | of the search: `SearchIsRight`, `ShownCycleIsReal`; of the reader: `AcceptedFilesAreUsable`, `ReaderAnswersRight`, `FilesAreReadAsWritten`, `RefusalsHaveReasons` | a natural number of services; every file of at most so many; the last two: the text of each single value comes out as meant (`ValuesAsMeant`) |

Every safety property that a run checks is proved for all values of the
constants: of the payloads too, of any size and with any texts.

**ServiceProofs.** None of the invariants is inductive alone: that a stop
sticks needs that nothing is queued outside `Stopping`, that needs the process
handle to agree with the state, and the count of restarts needs all of it. The
inductive invariant is `Sound`, the types with those facts (`Coherent`), and
`Sticks`. As the object's methods are operators, so are the lemmas: each
operator takes a coherent record to a coherent one (`LaunchCoherent`,
`BeginStopCoherent`, ..., `HandleExitSound`, `TickSound`), cited by the lemmas
of the operators that call it, and `StepSound` goes through the actions.
`ServiceIsAbstract` follows the same order, operator by operator: what is seen
of a call's result is among the results of the untimed operator of that name.
`AlarmsAreDue` needs that the launch or beat the code measures from is when the
service was last seen, as long as it watches heartbeats that no reload has
switched on since (`SeenByItsBeats`): a tick that asks for none moves the one and
not the other. It also needs that the first half of a tick leaves a process it
launches fresh (`Fresh`), so that the second half finds no silence in it.
`RestartsWithinBudget` relates the pruned history to every restart scheduled
(`Remembers`: the history is the latest part of them, and what is forgotten is
older than the window), so that the code's count of what it remembers is the
count of what there was. It needs `NeverWidened`: a reload to a wider
`restart_window_ms` counts from the history that the narrower one has pruned.
The configurations of the run have one window. `DelaysDouble` needs besides that
the history is in order (`InOrder`): the pruning stops at the first restart inside
the window, so what it leaves is exactly what lies within
(`RecentIsWithin`), and its length is the number of doublings. That the loop of
`BackoffDelay`, which stops at the ceiling, gives the doubled delay cut at the ceiling
(`DelayIsDoubled`) follows the two recursive functions side by side: their values
agree until both have passed the ceiling. There is no induction theorem for
it; a first place where it fails would have a predecessor (`LeastNatural`).

**ServiceManagerProofs.** The invariant of the manager (`IInv`) says of the
services that their parts agree and that those dropped are on their way out
with nothing queued (`Controlled`); of the configuration that what stays needs
only what stays (`Closed`), which a reload changes in one step though it drops
the services one by one: until its turn a service counts as gone while its
"drop" is among the steps left (`Gone`); and of the work left which steps may
be in it (`StepsOK`: only what stays is started, and only before the shutdown,
when nothing of a command to stop is left either).
`Closed` needs `Valid`, `StepsOK` needs `Closed`, and that dropped services stay
down needs both, as a start reaches everything its target needs.
`AllAreReachedOnce` needs besides that before a target come only services it
needs, and that those whose turn has been are reached (`Chained`), with that the
breadth-first closure `Needed` holds what a needed service needs, however deep.
`EveryServiceIsSupervised` takes each step of the manager to one call of the
abstract service, or none, for every name at once. For `DependentsStopBefore` all
steps of a shutdown are gone through: only its own steps and the heartbeat check of
a tick bring a service to stop (`TickStops`). The daemon's invariant
`DInv` adds three facts about the loop: a stop asked for after the shutdown has
begun is noted as such, or as left over between the two reads (`AskedAgain`), services are swept only between a tick and
the task groups (`SweptBeforeGroups`), and what was removed stays absent until its
group is cleared (`RemovedAreGone`). The surroundings act within the
manager's calls, so all theorems about the manager had to be, and are, proved
of steps and not of whole calls.

**ShutdownTimingProofs.** While services remain in a shutdown there is time for
all that are still up to stop one after the other, even if they begin only when
one that stops now has used all of its own (`TimeIsLeft`). When a service's turn
comes its timeout leaves the sum and enters its deadline. That somebody's turn
always has come when nobody is stopping is the absence of cycles (`Valid`). The
sum is a fold over a set; its recursion is brought to a function on the subsets of
the listed services, whose existence is proved by a least counterexample on the
cardinality (`LeastNatural`), as no induction over data is at hand. `SumIsTimeEnough`
says that finding 2 is the only way to fail: if no reload drops a service that is
there (or shortens the timeout of one that stops, whose deadline was set by the old
one), and `max_shutdown` does not cut the sum, each service has its timeout.
`SameServicesHaveTime` is the case in which reloads only turn dependencies
round.

**PosixChildProofs.** While the status is not collected the main process is
there, running or zombie (`MainIsThere`), so its ID is not free; and everything
in its group is the service's own (`GroupIsOurs`): a fork inherits, a stranger
starts in a group with its own free ID, `setpgid` moves only within a session.
`CallInv` ties the step that collects to the poll it belongs to.
For `ReportedExitsAreOver` the collecting step is reached only with nothing of the
service left running or the drain deadline past (`CollectInv`). While /proc is
listed and read, whatever runs in the session was forked since the listing began,
or is still to be listed or read, or an entry of the session is in the table
(`SeenOrLate`), and with such an entry the members are not empty
(`MembersAreFound`). Nobody outside the session enters it but by a fork of one
inside (`HostIsApart`, `GoneStays`).

**CgroupTreeProofs.** Two invariants, one on each side of the fork. In the launch
the pipe is open just while the child prepares, a report means that the
child has ended, only a refused launch has reaped one (`Agreed`), and until the child
has reset the handlers the signals stay blocked (`HandlersBlocked`). Before it, a
limit that an earlier run has left is only where a controller is on and the
manager knows of it (`LimitsKnown`), so that writing the limits of the enabled
controllers settles all of them (`LimitsSettled`), and the manager can be past
the clearing of a group only when nothing of it is left or a warning was given.
The run `Launch` has one controller and two old processes; the theorems hold for any.

**CommandChannelProofs.** A call's command is at one place at most: unsent, on
its way, or executed (`OneCall`). A worker's commands lie in the order of their
numbers through four places: executed, to be read, to be sent, and in the window
(`OneWorker`, `Waiting`); a new worker's come behind those of the last. A reply
goes by the identity its request came with, which for the command line is the
call's own (`Addressed`). The socket's table may have changed between request
and reply; that no call takes another's answer is because identities are never
shared between a call and anything else.

**ReportFeedProofs.** For `--status`: while the promise it was given holds, either
a report is in its socket or the next one is due so much before the wait ends as
the margin says (`Promise`), where a socket that has not joined yet may lose the
first report but no time passes meanwhile. `MarginSuffices`, a round late by
less than `report_wait_margin`, is what the code's constant of two
seconds is for. For the GUI: every report posted, waiting to be handled, follows its own
worker's "connected", whatever older workers have posted before (`PostsFollow`,
`SocketFollows`); so what counts as received has come over the connection that is
shown (`LiveIsOwn`, the first half of `FeedHonest`). That a steady feed is shown
live, the other half, comes from how the age of the last report and the time
until the next one add up (`Timed`): together they are an interval, less a
round's lateness at most, and a tick takes from one what it gives to the other.
So the gaps are no shorter than an interval less the lateness, the median of any
of them likewise (`MedianIs`, for any number of gaps), and the last report is no
older than an interval with the lateness. `SlackSuffices` is what makes one and a
half medians, or `STALE_AFTER_SEC`, enough for that.

For payloads (`WireInv`: it is one of those sent, or was read as meant) the
readers were gone through one by one. Every layout keeps its fields apart and
within its record (`ServiceLaid` and its like), so do records of any size one
behind the other (`RecordPlace`), and the header, the services and the GPUs
(`PartsAre`); so what is written at a place is read there, since nothing else
reaches into it (`ReadBack`, `FieldsBack`, `RecordsBack`). A later version's
records are longer and only their beginning is read. The struct layouts of the
GUI are computed by C's rules and shown to be the manager's (`GuiLayouts`). Both
programs cut a text where its definition says (`FitIs`, `GuiFitIs`), though one
looks for the end of the last whole character and the other for its beginning.
The size of a payload follows from what its header states, so one of another
length is refused (`ResizedReportRefused`), and so is one whose header states
another count or size of what is there (`RestatedReportRefused`); of records that
are not there the size may be anything, which the reader ignores (`Tells`).

**ConfigReaderProofs.** The search is right because of four facts: the path
is a chain of dependencies whose services are exactly those marked 1 (`Chain`);
behind the place a visit looks at, every dependency is finished (`Explored`);
among any finished services one needs none of the others
(`FinishedWellFounded`); and every root passed is finished (`RootsVisited`).
The delicate step is `ReturnIInv`: adding the service that returns to the
finished ones keeps them well-founded, as its dependencies were all finished
before it. `CycleFoundIInv` turns the mark 1 into a place on the path, and the
path from there into the cycle shown. The reader's invariant `ReaderInv` carries
this through its own steps. Every line that is taken leaves services of different
valid names whose numbers are in range (`Parsed`, `IsState`), one for each header
so far: so no more than the search has places for. While lines are read the
search is in its initial state (`Resting`), so that the step which hands it the
dependencies begins it; from there on no service has a fault, and what is
searched is what the services name (`Checked`). `AcceptedLemma` then turns an
order of the places into one of the names.

What was read needs more: `Reads(n, s)` says of a state `s` before line `n` what
the lines so far have settled. Every field of the manager, of the defaults and of
each service has what its own lines before `n` mean, else what those of
[defaults] mean, else what is built in (`ValuesRead`); the services have their
headers in the order of the file (`ServicesRead`); `seenKeys` are exactly the keys
of the section the next line is in (`SectionRead`); and the headers of [defaults]
all come before those of the services (`HeadersRead`). The last two carry the
proof: without them a later line could change what an earlier section has
settled, a service opened before [defaults] would lack its values, and the first
of two lines with a key would not be the only one. That a repeated or unknown
key, section or dependency is refused with a reason at its line comes from the same
facts (`SectionRepeated`, `FaultHasReason`). The order of lines is a `CHOOSE`, so
that one exists and only one had to be proved (`OrderExists`, `OneOrder`), by a
smallest set of lines that has none, as there is no induction. What is supposed is
`ValuesAsMeant`: that a value that is read comes out as its author meant it, and
that one that is refused means nothing. It speaks of the text of one value at a
time, which ConfigText takes apart by recursion; every file of the run `Config`
has it.

**Only model-checked.** Liveness under fairness, which is beyond the prover.
What the texts of single values come out as (`ValuesAsMeant`), which ConfigText
computes by recursion over texts of any length.

## 5. What was found

1. *Unhealthy services and reloads* (`Service_reload_unhealthy`).
   `Service::CheckHeartbeat` returns when the service is already unhealthy
   (`Service.cpp:516`), so `unhealthy_action` is consulted only on the step into
   that state. A service that fell silent under `none` and is given `restart`
   by a reload is never restarted, though `Service.hpp` says of `Replace` that
   heartbeat checks follow the new configuration at once.
2. *Shutdown after a reload* (`Shutdown_dropped`). `BeginShutdown` sums the stop
   timeouts of the services in the configuration (`Daemon.cpp:450`). A service
   that a reload dropped and that is still stopping is not among them, but those
   it depends on wait for it: the deadline may pass before they had their
   `stop_timeout_ms`, which the unit file promises each.

Four properties hold but for one case each, in which the code does not do what a
document or a comment says. The property's comment names the case, and TLC finds
the property violated when it is left out; the theorems state the properties with
it, and so show that there is no other case.

3. *Heartbeats that a reload switches on* (`NoFalseAlarm`). `CheckHeartbeat`
   measures the silence from `lastBeat`, which launches and beats set
   (`Service.cpp:214`, `386`, `514`). A tick without heartbeats sets `lastSeen` only
   (`244-265`). So when a reload sets `heartbeat_interval_ms`, a service that has run
   for longer than the tolerance is unhealthy at the very next tick, and restarted
   with `unhealthy_action = restart`, before it could send a beat.
   `docs/protocol.md:174` says "After `heartbeat_tolerance` intervals without one it
   is unhealthy". Excepted: from such a reload to the next launch or beat.
4. *Failed heartbeats in a shutdown* (`DependentsStopFirst`). With
   `unhealthy_action = restart` a service whose heartbeats fail is stopped by its own
   tick (`Service.cpp:516-529`), while those that need it still run.
   `ServiceManager.hpp:83` says "every service is stopped, dependents before the
   services they depend on", and `manager/README.md:184` "services stop in reverse
   dependency order". Excepted: that stop; so are the kills at the deadline or after a
   second request, which are meant.
5. *A stop request that arrives both ways* (`GracefulStop`). The signal's flag and
   `stopRequested` are read one after the other (`Daemon.cpp:160-161`). One that
   sets both between the reads is taken by the second read, and its signal by the next
   round, as a second request, which kills all. The comment above says "so one request
   is never left over as a second one". Excepted: a signal between the two reads of the
   round that begins the shutdown.
6. *Forks while /proc is read* (`ExitMeansGone`). `ProcessTable::Capture` lists the
   names and then reads each (`posix/ProcessTable.cpp:20-25`). Without a cgroup, a
   member in a group of its own that forks after the listing and ends before its turn
   leaves a child of which nothing is in the table: the exit is reported while that
   runs. `manager/README.md:181` says "the exit only counts once those processes are
   gone". Excepted: processes forked between the beginning of the listing and the
   collection of the status, without a cgroup.

Where the code's behaviour may surprise but nothing says otherwise, a hazard's
note in `PROJECT.json` tells it (for instance that without cgroups a member's ID
may be reused between the reading and its signal).

## 6. Not modelled, and why

Sockets are a wrapper without state of its own. The command line, the status
table, logging, the console and systemd notifications are sequential or output
only, and unit tests cover them. The figures of resource sampling feed reports
and decide nothing. Widgets, histories, layout and the running of system tools in
the GUI are left out. The Windows launcher is in the plan.

Within modelled parts:

- *Service, manager, daemon.* Wall-clock times, exit codes, messages and
  samples, which nothing reads back.
- *Process handle and launch.* The search for the binary and the building of
  arguments and environment (one step that may fail); `LostTrack`, for a child
  some other code reaped, which nothing in the daemon does.
- *CgroupTree.* `ReadStats`; IDs given to strangers between the reading of the
  old members and their signals; old processes after the fork, which stay as they
  are. A restart after a crash is one of the initial states: a group left with its
  limits and processes.
- *Configuration.* The name of a section comes trimmed, as the parser hands it on
  (`ConfigParser.cpp:614`). One character stands for each class the code tells apart,
  so which blanks, digits and letters these are is left out, and so are line
  endings and the reading of the file. Numbers are scaled: a name has at most 3
  characters for 31, a suffix multiplies by 4 for 1024, and the integers have 8
  bits for 64.
- *Wire format.* A number is one value whatever its bytes; texts are UTF-8, as
  the parser's files are taken to be.
- *Reports.* One subscriber a behaviour. The rounds between two reports matter
  only in how late they make one. What an old worker posted may or may not still
  be handled after a reconnection, as Qt delivers it. Readings of the clock all
  differ.

After a reload that shortens `publish_interval_ms` the report already scheduled
stays where it was, so a `--status` then may time out once; `StatusAnswered`
speaks of a manager that keeps the interval the call went by. No document
promises more.

## 7. The plan

Done, in this order: Service with ServiceControl and AbstractService,
ServiceManager, Daemon, ShutdownTiming, PosixChild, ProcessLaunch,
DependencyCycles, CommandChannel; ConfigText and ConfigReader, CgroupTree,
WireRecord and ReportFeed; the proofs of Service, DependencyCycles, PosixChild and
CgroupTree; those of ServiceManager and Daemon, CommandChannel, ReportFeed,
ShutdownTiming, and that Service implements AbstractService; those of the reader,
of what it makes of every line, of the GUI's feed, and of the payloads with Wire.

Next the modules: *WindowsChild*, where a job object takes the place of the
session and the cgroup, as a third way of PosixChild to find leftovers; the
sampling window of the GPU and the CPU rates, whose counters go back when a
process is replaced.
