------------------------------- MODULE Daemon -------------------------------
(***************************************************************************)
(* The run mode of the process manager: the loop of Daemon::Run in         *)
(* manager/src/Daemon.cpp over the services of ServiceManager.             *)
(*                                                                         *)
(* pc is where in its loop the daemon is.  A call of the manager puts its  *)
(* steps in work, and the loop goes on when they are done.  Around the     *)
(* loop are signals and requests from other threads, commands that arrive, *)
(* the clock that reaches the shutdown deadline, and the processes.        *)
(***************************************************************************)
EXTENDS ServiceManager

CONSTANTS
  MaxCommands,   \* max_commands_per_round
  MaxQueue       \* bound: commands the socket holds

ASSUME LimitsAssumption == MaxCommands \in Nat \ {0} /\ MaxQueue \in Nat

VARIABLES
  pc,
  signalled,     \* the stop flag of the signal handler
  requested,     \* the stop flag of RequestStop
  taken,         \* signalledStop: what the round read of the first flag
  reloadAsked,   \* the reload flags of both
  stopping,
  expired,       \* the clock has passed shutdownDeadline
  queue,         \* commands received and not yet handled
  handled,       \* commands handled in this round
  removed,       \* names of removed services whose task group is still there
  askedAgain,    \* history: a stop was asked for after the shutdown had begun
  leftOver       \* history: a signal came between the two reads of the round that began it

flags == <<signalled, requested, taken, reloadAsked, askedAgain, leftOver>>
commands == <<queue, handled>>
shutdown == <<stopping, expired>>
daemonVars == <<vars, pc, flags, commands, shutdown, removed>>

DaemonInit ==
  /\ Init
  /\ pc = "signals"
  /\ signalled = FALSE /\ requested = FALSE /\ taken = FALSE /\ reloadAsked = FALSE
  /\ askedAgain = FALSE /\ leftOver = FALSE
  /\ stopping = FALSE /\ expired = FALSE
  /\ queue = 0 /\ handled = 0
  /\ removed = {}

----------------------------------------------------------------------------
(* The loop *)

\* The loop is at a place of its own, not within a call of the manager.
At(place) == pc = place /\ work = <<>>

Goto(place) == pc' = place

\* The first flag is read and cleared, then the second: a request can come between the two.
ReadSignal ==
  /\ At("signals")
  /\ Goto("requests")
  /\ taken' = signalled
  /\ signalled' = FALSE
  /\ UNCHANGED <<vars, requested, reloadAsked, askedAgain, leftOver, commands, shutdown, removed>>

\* Mutant: the second flag is read only if the first was not set.
ClearRequestOnce == requested' = (taken /\ requested)

ClearRequest == requested' = FALSE

StopAsked == taken \/ requested

ReadStop ==
  /\ At("requests")
  /\ Goto("reload")
  /\ ClearRequest
  /\ taken' = FALSE
  /\ leftOver' = IF StopAsked /\ ~stopping THEN signalled ELSE leftOver
  /\ CASE StopAsked /\ ~stopping -> StopAll /\ stopping' = TRUE
       [] StopAsked /\ stopping -> KillAll /\ UNCHANGED stopping
       [] OTHER -> UNCHANGED <<vars, stopping>>
  /\ UNCHANGED <<signalled, reloadAsked, askedAgain, commands, expired, removed>>

\* Reload: refused in a shutdown; a file that does not parse changes nothing.
Reload == (~stopping /\ Apply) \/ UNCHANGED vars

ReadReload ==
  /\ At("reload")
  /\ Goto("commands")
  /\ reloadAsked' = FALSE
  /\ IF reloadAsked THEN Reload ELSE UNCHANGED vars
  /\ handled' = 0
  /\ UNCHANGED <<signalled, requested, taken, askedAgain, leftOver, queue, shutdown, removed>>

\* Mutant: every command waiting is handled before the services are looked after.
MoreCommandsAlways == queue > 0

MoreCommands == queue > 0 /\ handled < MaxCommands

\* One command is executed, or refused: malformed, unknown, no such service, shutting down.
HandleCommand ==
  /\ At("commands")
  /\ MoreCommands
  /\ queue' = queue - 1
  /\ handled' = IF handled < MaxCommands THEN handled + 1 ELSE handled
  /\ ExecuteOne \/ ExecuteAll \/ Reload
  /\ UNCHANGED <<pc, flags, shutdown, removed>>

CommandsDone ==
  /\ At("commands")
  /\ ~MoreCommands
  /\ Goto("tick")
  /\ UNCHANGED <<vars, flags, commands, shutdown, removed>>

Tick1 ==
  /\ At("tick")
  /\ TickAll
  /\ Goto("groups")
  /\ UNCHANGED <<flags, commands, shutdown, removed>>

\* Mutant: the groups of dropped services are removed, stopped or not.
DroppedNames == removing

TakeRemoved == removed

ForgetRemoved == removed' = {}

\* Every process left in the groups of S is killed; whoever is in one loses it.
KillGroups(S) ==
  control' = [n \in Names |->
                IF n \in S /\ control[n].child = "running"
                THEN [control[n] EXCEPT !.child = "exited"] ELSE control[n]]

RemoveTaskGroups ==
  /\ At("groups")
  /\ KillGroups(TakeRemoved)
  /\ ForgetRemoved
  /\ Goto("publish")
  /\ UNCHANGED <<order, config, removing, shuttingDown, work, started, flags, commands, shutdown>>

\* A report may be due.  It changes nothing here.
PublishReport ==
  /\ At("publish")
  /\ Goto("deadline")
  /\ UNCHANGED <<vars, flags, commands, shutdown, removed>>

AllStopped == \A n \in Present : StateOf(n) \notin Alive

\* Mutant: the loop waits for the services whatever the time.
ShutdownOverWhenStopped == stopping /\ AllStopped

ShutdownOver == stopping /\ (AllStopped \/ expired)

CheckDeadline ==
  /\ At("deadline")
  /\ CASE ~ShutdownOver -> Goto("signals") /\ UNCHANGED vars
       [] ShutdownOver /\ AllStopped -> Goto("lastReport") /\ UNCHANGED vars
       [] ShutdownOver /\ ~AllStopped -> Goto("lastTick") /\ KillAll
  /\ UNCHANGED <<flags, commands, shutdown, removed>>

LastTick ==
  /\ At("lastTick")
  /\ TickAll
  /\ Goto("lastReport")
  /\ UNCHANGED <<flags, commands, shutdown, removed>>

\* What is left in any group is killed, where there are groups.
LastReport ==
  /\ At("lastReport")
  /\ Goto("done")
  /\ KillGroups(Names) \/ UNCHANGED control
  /\ UNCHANGED <<order, config, removing, shuttingDown, work, started, flags, commands, shutdown, removed>>

\* A step of the manager's method the loop is in.
ManagerStep ==
  /\ Step
  /\ removed' = removed \cup (Present \ ToSet(order'))
  /\ UNCHANGED <<pc, flags, commands, shutdown>>

Loop ==
  \/ ReadSignal
  \/ ReadStop
  \/ ReadReload
  \/ HandleCommand
  \/ CommandsDone
  \/ Tick1
  \/ RemoveTaskGroups
  \/ PublishReport
  \/ CheckDeadline
  \/ LastTick
  \/ LastReport
  \/ ManagerStep

----------------------------------------------------------------------------
(* The surroundings: at any moment, also within a call *)

\* A stop is asked for by a signal, by another thread, or by both for one reason.
StopRequested ==
  /\ pc # "done"
  /\ \/ signalled' = TRUE /\ requested' \in {requested, TRUE}
     \/ signalled' = signalled /\ requested' = TRUE
  /\ askedAgain' = (askedAgain \/ stopping)
  /\ UNCHANGED <<vars, pc, taken, reloadAsked, leftOver, commands, shutdown, removed>>

ReloadRequested ==
  /\ pc # "done"
  /\ reloadAsked' = TRUE
  /\ UNCHANGED <<vars, pc, signalled, requested, taken, askedAgain, leftOver, commands, shutdown, removed>>

CommandArrives ==
  /\ pc # "done"
  /\ queue < MaxQueue
  /\ queue' = queue + 1
  /\ UNCHANGED <<vars, pc, flags, handled, shutdown, removed>>

DeadlinePasses ==
  /\ stopping
  /\ expired' = TRUE
  /\ UNCHANGED <<vars, pc, flags, commands, stopping, removed>>

Surroundings ==
  \/ StopRequested
  \/ ReloadRequested
  \/ CommandArrives
  \/ DeadlinePasses
  \/ ProcessEnds /\ UNCHANGED <<pc, flags, commands, shutdown, removed>>

DaemonNext == Loop \/ Surroundings

DaemonSpec == DaemonInit /\ [][DaemonNext]_daemonVars

\* The loop goes on, and time passes.  No process has to die.
DaemonFairness == WF_daemonVars(Loop) /\ WF_daemonVars(DeadlinePasses)

FairDaemonSpec == DaemonSpec /\ DaemonFairness

----------------------------------------------------------------------------
(* Properties *)

\* One request to stop is graceful, also one that reached the daemon both ways: the services are
\* killed only if a stop was asked for again once the shutdown had begun, or the deadline passed.
\* The code keeps one exception: a signal between the two reads of the round that begins the
\* shutdown (Daemon.cpp:160-161) is left for the next round and is taken for a second request,
\* though it may be the other half of the one just read.
GracefulStop ==
  [][ work = <<>> /\ work' # <<>> /\ Head(work').step = "kill"
        => askedAgain \/ expired \/ leftOver ]_daemonVars

\* Clearing away the group of a removed service ends no process of a service that is there.
OnlyDeadGroupsRemoved == [][ At("groups") /\ pc' # "groups" => UNCHANGED control ]_daemonVars

\* Supervision goes on: however many commands keep arriving, the services are ticked again.
SupervisionGoesOn == []<>(pc \in {"tick", "done"})

\* A shutdown returns by its deadline, even with processes that outlive being killed.
RunReturns == stopping ~> pc = "done"

=============================================================================
