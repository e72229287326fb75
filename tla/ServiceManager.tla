--------------------------- MODULE ServiceManager ---------------------------
(***************************************************************************)
(* The services of the process manager and their dependencies: the class   *)
(* ServiceManager of manager/src/ServiceManager.cpp over the services of   *)
(* ServiceControl.                                                         *)
(*                                                                         *)
(* The manager runs on one thread.  A method that goes through the         *)
(* services one by one is the sequence "work" of the steps it has left; an *)
(* idle manager has none.  A step is one iteration of the method's loop,   *)
(* and processes end between steps as they please.                         *)
(***************************************************************************)
EXTENDS ServiceControl, Sequences, SequencesExt, FiniteSets

CONSTANTS
  Names,     \* service names
  Loads      \* the configurations the file may hold, as the parser accepts them

\* A load lists services in the order of the file.
Entry == [name : Names, dependsOn : SUBSET Names, autostart : BOOLEAN]

Listed(load) == {load[i].name : i \in DOMAIN load}
EntryOf(load, n) == load[CHOOSE i \in DOMAIN load : load[i].name = n]

\* What the parser lets through: names once, dependencies listed, no cycle among them.
Valid(load) ==
  /\ \A i, j \in DOMAIN load : load[i].name = load[j].name => i = j
  /\ \A i \in DOMAIN load : load[i].dependsOn \subseteq Listed(load)
  /\ \A S \in SUBSET Listed(load) :
       S # {} => \E n \in S : EntryOf(load, n).dependsOn \cap S = {}

ASSUME NamesAssumption == IsFiniteSet(Names)
ASSUME LoadsAssumption == \A load \in Loads : load \in Seq(Entry) /\ Valid(load)

VARIABLES
  order,         \* the names of the services, in the order the manager keeps them
  control,       \* the control of every service
  config,        \* the entry every service was last given
  removing,      \* the services a reload dropped
  shuttingDown,
  work,          \* the steps left of the method that runs
  started        \* the dependencies the command that runs has started

vars == <<order, control, config, removing, shuttingDown, work, started>>

Present == ToSet(order)
StateOf(n) == control[n].state

NoEntry(n) == [name |-> n, dependsOn |-> {}, autostart |-> FALSE]

\* The elements of a sequence that are in S, in their order.
Only(s, S) ==
  LET only[i \in 0..Len(s)] ==
        IF i = 0 THEN <<>>
        ELSE IF s[i] \in S THEN Append(only[i - 1], s[i]) ELSE only[i - 1]
  IN  only[Len(s)]

Task(step, n) == [step |-> step, name |-> n]
ForAll(step, names) == [i \in DOMAIN names |-> Task(step, names[i])]

----------------------------------------------------------------------------
(* Dependencies *)

\* Mutant: a service counts as running from its launch on.
DependenciesUp(n) == \A d \in config[n].dependsOn : d \in Present /\ StateOf(d) \in Up

DependenciesRunning(n) ==
  \A d \in config[n].dependsOn : d \in Present /\ StateOf(d) = "Running"

\* Mutant: a stopped service still counts as one to wait for.
DependencyFailed(n) ==
  \E d \in config[n].dependsOn : d \notin Present \/ StateOf(d) = "Failed"

DependencyBlocked(n) ==
  \E d \in config[n].dependsOn : d \notin Present \/ StateOf(d) \in {"Failed", "Stopped"}

\* Mutant: a service that was asked to stop counts as stopped.
DependentsStopping(n) ==
  \A other \in Present : n \in config[other].dependsOn => StateOf(other) \notin Up

DependentsStopped(n) ==
  \A other \in Present : n \in config[other].dependsOn => StateOf(other) \notin Alive

\* Mutant: only what it needs directly.
NeededDirectly(n) == config[n].dependsOn \cap Present

\* The services n needs, directly or not, among those present.
Needed(n) ==
  LET reach[k \in 0..Cardinality(Names)] ==
        IF k = 0 THEN {n}
        ELSE reach[k - 1] \cup ((UNION {config[m].dependsOn : m \in reach[k - 1]}) \cap Present)
  IN  reach[Cardinality(Names)] \ {n}

\* The orders in which StartDependencies may visit them: every service after those it needs.
DependencyOrders(n) ==
  {s \in SetToSeqs(Needed(n)) :
     \A i, j \in DOMAIN s : s[j] \in config[s[i]].dependsOn => j < i}

----------------------------------------------------------------------------
(* Calls: each puts its steps before an idle manager *)

Init ==
  \E load \in Loads :
    /\ order = [i \in DOMAIN load |-> load[i].name]
    /\ config = [n \in Names |-> IF n \in Listed(load) THEN EntryOf(load, n) ELSE NoEntry(n)]
    /\ control = [n \in Names |-> NewControl]
    /\ removing = {}
    /\ shuttingDown = FALSE
    /\ work = ForAll("autostart", order)
    /\ started = {}

Run(steps) ==
  /\ work = <<>>
  /\ work' = steps
  /\ started' = {}

\* Execute, for one service.
ExecuteOne ==
  \E n \in Present \ removing, step \in {"start", "restart", "stop", "heartbeat"} :
    /\ shuttingDown => step = "heartbeat"
    /\ Run(<<Task(step, n)>>)
    /\ UNCHANGED <<order, control, config, removing, shuttingDown>>

\* Execute, for all of them.
ExecuteAll ==
  \E step \in {"startAll", "restartAll", "stopAll"} :
    /\ ~shuttingDown
    /\ Run(ForAll(step, order))
    /\ UNCHANGED <<order, control, config, removing, shuttingDown>>

New == Names \ Present

Settings(load) ==
  [n \in Names |-> IF n \in Listed(load) THEN EntryOf(load, n) ELSE config[n]]

\* Apply: new settings first, then the dropped services, then the added ones.
Apply ==
  /\ ~shuttingDown
  /\ \E load \in Loads :
       LET names == [i \in DOMAIN load |-> load[i].name]
           added == Only(names, New \cup removing)
           dropped == Only(order, Present \ (Listed(load) \cup removing))
       IN  /\ order' = order \o Only(names, New)
           /\ config' = Settings(load)
           /\ removing' = removing \ Listed(load)
           /\ Run(ForAll("drop", dropped) \o ForAll("added", added))
  /\ UNCHANGED <<control, shuttingDown>>

\* Mutant: dropped services are not ticked.
TickListed ==
  /\ Run(ForAll("tick", Only(order, Present \ removing))
          \o ForAll("settle", order) \o ForAll("sweep", order))
  /\ UNCHANGED <<order, control, config, removing, shuttingDown>>

TickAll ==
  /\ Run(ForAll("tick", order) \o ForAll("settle", order) \o ForAll("sweep", order))
  /\ UNCHANGED <<order, control, config, removing, shuttingDown>>

StopAll ==
  /\ ~shuttingDown
  /\ shuttingDown' = TRUE
  /\ Run(ForAll("shutdown", order))
  /\ UNCHANGED <<order, control, config, removing>>

\* The second request to stop, or the end of the shutdown's time.
KillAll ==
  /\ shuttingDown
  /\ Run(ForAll("kill", order))
  /\ UNCHANGED <<order, control, config, removing, shuttingDown>>

----------------------------------------------------------------------------
(* Steps: one iteration of a loop of the method that runs *)

Current(step) == work # <<>> /\ Head(work).step = step
This == Head(work).name

\* The step calls the service and leaves the manager alone.
Calls(results) ==
  /\ \E r \in results : control' = [control EXCEPT ![This] = r]
  /\ work' = Tail(work)
  /\ UNCHANGED <<order, config, shuttingDown>>

Skip ==
  /\ work' = Tail(work)
  /\ UNCHANGED <<order, control, config, removing, shuttingDown, started>>

\* StartWithDependencies: what the service needs is started before it is.
WithDependencies(target) ==
  /\ \E needed \in DependencyOrders(This) :
       work' = ForAll("dependency", needed) \o <<Task(target, This)>> \o Tail(work)
  /\ UNCHANGED <<order, control, config, removing, shuttingDown, started>>

StartAutostart ==
  /\ Current("autostart")
  /\ IF config[This].autostart /\ StateOf(This) = "Stopped"
     THEN WithDependencies("startTarget") ELSE Skip

StartAdded ==
  /\ Current("added")
  /\ IF config[This].autostart THEN WithDependencies("startTarget") ELSE Skip

StartOne ==
  \/ Current("start") /\ WithDependencies("startTarget")
  \/ Current("restart") /\ WithDependencies("restartTarget")

\* Mutants: the dropped services are not left out; what the command started is not.
SkippedStarted == started
SkippedDropped == removing

\* Of all services, those dropped are left out, and those this command started already.
Skipped == removing \cup started

StartNext ==
  /\ Current("startAll") \/ Current("restartAll")
  /\ IF This \in Skipped THEN Skip
     ELSE WithDependencies(IF Current("startAll") THEN "startTarget" ELSE "restartTarget")

StartDependency ==
  /\ Current("dependency")
  /\ Calls(Start(control[This], DependenciesRunning(This)))
  /\ started' = IF StateOf(This) \in Up THEN started ELSE started \cup {This}
  /\ UNCHANGED removing

StartTarget ==
  /\ \/ Current("startTarget") /\ Calls(Start(control[This], DependenciesRunning(This)))
     \/ Current("restartTarget") /\ Calls(Restart(control[This], DependenciesRunning(This)))
  /\ UNCHANGED <<removing, started>>

StopOne ==
  /\ \/ Current("stop") /\ Calls(Stop(control[This]))
     \/ Current("stopAll") /\ Calls(IF This \in removing THEN {control[This]}
                                    ELSE Stop(control[This]))
     \/ Current("heartbeat") /\ Calls(Heartbeat(control[This]))
  /\ UNCHANGED <<removing, started>>

Drop ==
  /\ Current("drop")
  /\ Calls(Stop(control[This]))
  /\ removing' = removing \cup {This}
  /\ UNCHANGED started

\* Mutant: only what runs is stopped.
ShutDownUp(n) ==
  IF StateOf(n) \in Up /\ DependentsStopped(n) THEN Stop(control[n]) ELSE {control[n]}

\* A service is stopped once nothing alive needs it.
ShutDown(n) ==
  IF StateOf(n) \notin {"Stopping", "Stopped"} /\ DependentsStopped(n)
  THEN Stop(control[n]) ELSE {control[n]}

ShutDownOne ==
  /\ Current("shutdown")
  /\ Calls(ShutDown(This))
  /\ UNCHANGED <<removing, started>>

KillOne ==
  /\ Current("kill")
  /\ Calls(Kill(control[This]))
  /\ UNCHANGED <<removing, started>>

TickOne ==
  /\ Current("tick")
  /\ Calls(Tick(control[This], ~shuttingDown, DependenciesRunning(This)))
  /\ UNCHANGED <<removing, started>>

\* What waits is started or given up; in a shutdown, what may stop stops.
Settle(n) ==
  IF shuttingDown THEN ShutDown(n)
  ELSE CASE StateOf(n) = "Waiting" /\ DependenciesRunning(n) -> Start(control[n], TRUE)
         [] StateOf(n) = "Waiting" /\ ~DependenciesRunning(n) /\ DependencyBlocked(n) ->
              Abandon(control[n])
         [] OTHER -> {control[n]}

SettleOne ==
  /\ Current("settle")
  /\ Calls(Settle(This))
  /\ UNCHANGED <<removing, started>>

\* Mutant: a dropped service leaves at once.
IsDropped(n) == n \in removing

\* A dropped service leaves once it no longer runs.
IsFinished(n) == n \in removing /\ StateOf(n) \notin Alive

Sweep ==
  /\ Current("sweep")
  /\ IF IsFinished(This)
     THEN /\ order' = Only(order, Present \ {This})
          /\ removing' = removing \ {This}
          /\ control' = [control EXCEPT ![This] = NewControl]
          /\ config' = [config EXCEPT ![This] = NoEntry(This)]
          /\ work' = Tail(work)
          /\ UNCHANGED <<shuttingDown, started>>
     ELSE Skip

\* A process ends whenever it likes, also between two steps.
ProcessEnds ==
  /\ \E n \in Present : \E r \in ProcessExits(control[n]) :
        control' = [control EXCEPT ![n] = r]
  /\ UNCHANGED <<order, config, removing, shuttingDown, work, started>>

Step ==
  \/ StartAutostart
  \/ StartAdded
  \/ StartOne
  \/ StartNext
  \/ StartDependency
  \/ StartTarget
  \/ StopOne
  \/ Drop
  \/ ShutDownOne
  \/ KillOne
  \/ TickOne
  \/ SettleOne
  \/ Sweep

Next ==
  \/ ExecuteOne
  \/ ExecuteAll
  \/ Apply
  \/ TickAll
  \/ StopAll
  \/ KillAll
  \/ Step
  \/ ProcessEnds

Spec == Init /\ [][Next]_vars

\* A tick that finds the stop timeout of a stopping service past kills it.
TimeOut(n) ==
  /\ TickOne
  /\ This = n
  /\ StateOf(n) = "Stopping"
  /\ control'[n].killSent \/ control'[n].state # "Stopping"

\* A killed process disappears.
KilledDies(n) == ProcessEnds /\ control[n].killSent /\ control'[n].child = "exited"
                   /\ control[n].child = "running"

\* The methods return; the daemon ticks between commands, however many arrive; time passes, so
\* that some tick finds the stop timeout past; what is killed dies.
Fairness ==
  /\ WF_vars(Step)
  /\ SF_vars(TickAll)
  /\ \A n \in Names : SF_vars(TimeOut(n)) /\ WF_vars(KilledDies(n))

FairSpec == Spec /\ Fairness

----------------------------------------------------------------------------
(* Properties *)

Launched(n) == control[n].child # "running" /\ control'[n].child = "running"

\* Whatever starts a service, a command, its own restart, a queued start, the pass over the
\* waiting ones, it starts only while every service it needs is running, and never in a shutdown.
LaunchNeedsDependencies ==
  [][ \A n \in Names : Launched(n) =>
        /\ ~shuttingDown
        /\ n \in Present
        /\ \A d \in config[n].dependsOn : d \in Present /\ StateOf(d) = "Running" ]_vars

\* A dropped service is on its way out: nothing that goes on until it is gone, a command to all
\* services, the start of a service that needs one of its name, a restart it had queued, starts
\* it again.
DroppedStaysDown ==
  \A n \in removing :
    /\ n \in Present
    /\ StateOf(n) \in {"Stopping", "Stopped"}
    /\ ~control[n].pendingStart
    /\ ~control[n].restartAfterStop

\* In a shutdown a service that runs is brought to stop only once nothing that needs it has a
\* process left, whichever step of the loop does it; the kills of a shutdown whose time is up are
\* left out.  The code keeps one exception: a service whose heartbeats fail and whose unhealthy
\* action is restart is stopped by its own tick (Service.cpp:516-529), while those that need it
\* may still run.
DependentsStopFirst ==
  [][ \A n \in Names :
        /\ shuttingDown /\ ~Current("kill")
        /\ StateOf(n) \in Up /\ control'[n].state = "Stopping"
        => \/ control'[n].restartAfterStop
           \/ \A m \in Present : n \in config[m].dependsOn => control[m].child = "none" ]_vars

\* A command to restart or start all services leaves alone what it started itself: no service it
\* launched as someone's dependency is stopped again by the same command.
StartedOnce ==
  [][ (Current("restartTarget") \/ Current("startTarget")) /\ This \in started
        => control'[This].state # "Stopping" \/ StateOf(This) = "Stopping" ]_vars

\* The least set that holds what n needs and what its members need, by its definition.
NeedsOf(n) ==
  {d \in Names \ {n} :
     \A S \in SUBSET Names :
       n \in S /\ (\A m \in S : config[m].dependsOn \subseteq S) => d \in S}

\* When a start or restart comes to its target, every service the target needs, however far down
\* the chain, is up or will be: none is left stopped, or stopping with no start queued.
StartReachesAll ==
  [][ Current("startTarget") \/ Current("restartTarget")
        => \A d \in NeedsOf(This) :
             /\ StateOf(d) # "Stopped"
             /\ StateOf(d) = "Stopping" => control[d].pendingStart ]_vars

\* A command to all services reaches every one they need, and none twice.
AllReachedOnce == StartedOnce /\ StartReachesAll

\* Seen on its own each service of the manager is a supervised service, from the load that adds
\* it to the sweep that removes it and through the reload that adds it again.
Supervised(n) == INSTANCE AbstractService WITH control <- control[n], launchAllowed <- ~shuttingDown

EachIsSupervised ==
  /\ \A n \in Names : Supervised(n)!AbstractInit
  /\ [][ \A n \in Names : [Supervised(n)!AbstractNext]_(Supervised(n)!abstractVars) ]_vars

\* A shutdown ends: every service is stopped in the end, those that ignore the stop signal, those
\* that were about to restart and those that waited included.
ShutdownCompletes == shuttingDown ~> \A n \in Present : StateOf(n) = "Stopped"

\* A dropped service disappears, or a later reload lists it again.
DroppedDisappears == \A n \in Names : n \in removing ~> n \notin removing

\* No service waits for ever when the services it needs all run, or when one of them is failed,
\* stopped or gone.
WaitingIsDecided ==
  \A n \in Names :
    <>[](StateOf(n) = "Waiting") =>
      []<>(\E d \in config[n].dependsOn :
             /\ StateOf(d) # "Running"
             /\ \A e \in config[n].dependsOn : e \in Present /\ StateOf(e) \notin {"Failed", "Stopped"})

=============================================================================
