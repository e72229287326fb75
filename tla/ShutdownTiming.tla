--------------------------- MODULE ShutdownTiming ---------------------------
(***************************************************************************)
(* The time a shutdown takes: the budget of Daemon::BeginShutdown against  *)
(* the stop timeouts of the services, which stop one after the other when  *)
(* they need each other.                                                   *)
(*                                                                         *)
(* A service is up, stopping until its deadline, or gone.  A process that  *)
(* is killed is gone at once, and the loop of the daemon looks at every    *)
(* service within one unit of time: what slows real services down further  *)
(* is what kill_grace and shutdown_margin, here Slack, are for.            *)
(***************************************************************************)
EXTENDS Integers, FiniteSets, Folds

CONSTANTS
  Names,         \* service names
  Loads,         \* the configurations the file may hold
  Slack,         \* kill_grace + shutdown_margin
  MaxShutdown,   \* max_shutdown
  MaxTime        \* bound: the clock stops here

\* Those listed, what they need and how long each may take to stop.
Load == [listed : SUBSET Names, dependsOn : [Names -> SUBSET Names], stopTimeout : [Names -> Nat]]

\* What the parser lets through: dependencies listed, no cycle among them.
Valid(l) ==
  /\ \A n \in l.listed : l.dependsOn[n] \subseteq l.listed
  /\ \A S \in SUBSET l.listed : S # {} => \E n \in S : l.dependsOn[n] \cap S = {}

ASSUME NamesAssumption == IsFiniteSet(Names)
ASSUME LoadsAssumption == \A l \in Loads : l \in Load /\ Valid(l)
ASSUME TimesAssumption == Slack \in Nat /\ MaxShutdown \in Nat /\ MaxTime \in Nat

VARIABLES
  load,           \* the configuration the daemon holds
  settings,       \* dependsOn and stopTimeout every service was last given
  phase,          \* "up", "stopping" or "gone"
  stopDeadline,   \* for a stopping service
  shuttingDown,
  shutdownDeadline,
  now

vars == <<load, settings, phase, stopDeadline, shuttingDown, shutdownDeadline, now>>

AliveNames == {n \in Names : phase[n] # "gone"}

DependentsStopped(n) == \A m \in AliveNames : n \notin settings[m].dependsOn

SettingsIn(l, n) == [dependsOn |-> l.dependsOn[n], stopTimeout |-> l.stopTimeout[n]]

Init ==
  \E l \in Loads :
    /\ load = l
    /\ settings = [n \in Names |-> SettingsIn(l, n)]
    /\ phase = [n \in Names |-> IF n \in l.listed THEN "up" ELSE "gone"]
    /\ stopDeadline = [n \in Names |-> 0]
    /\ shuttingDown = FALSE
    /\ shutdownDeadline = 0
    /\ now = 0

----------------------------------------------------------------------------

\* Mutant: as long as the slowest service takes.
BudgetOfSlowest(l) ==
  MapThenFoldSet(LAMBDA x, y : IF x < y THEN y ELSE x, 0, LAMBDA n : l.stopTimeout[n],
                 LAMBDA S : CHOOSE n \in S : TRUE, l.listed) + Slack

\* The sum of the stop timeouts and some more, up to a limit.
ShutdownBudget(l) ==
  LET total == MapThenFoldSet(+, Slack, LAMBDA n : l.stopTimeout[n],
                              LAMBDA S : CHOOSE n \in S : TRUE, l.listed)
  IN  IF total < MaxShutdown THEN total ELSE MaxShutdown

\* The services of S are asked to stop now.
StopsOf(S) ==
  /\ phase' = [n \in Names |-> IF n \in S THEN "stopping" ELSE phase[n]]
  /\ stopDeadline' = [n \in Names |-> IF n \in S THEN now + settings'[n].stopTimeout
                                       ELSE stopDeadline[n]]

\* A reload gives new settings at once and stops the services it dropped.
Reload ==
  /\ ~shuttingDown
  /\ \E l \in Loads :
       /\ load' = l
       /\ settings' = [n \in Names |-> IF n \in l.listed THEN SettingsIn(l, n) ELSE settings[n]]
       /\ StopsOf({n \in Names \ l.listed : phase[n] = "up"})
  /\ UNCHANGED <<shuttingDown, shutdownDeadline, now>>

\* A command stops a service.
StopCommand ==
  /\ ~shuttingDown
  /\ \E n \in Names : phase[n] = "up" /\ UNCHANGED settings /\ StopsOf({n})
  /\ UNCHANGED <<load, shuttingDown, shutdownDeadline, now>>

\* A service that is listed starts, by command, by reload or after a crash; one that was still
\* stopping starts after it.
Starts ==
  /\ ~shuttingDown
  /\ \E n \in load.listed :
       /\ phase[n] = "gone"
       /\ phase' = [phase EXCEPT ![n] = "up"]
  /\ UNCHANGED <<load, settings, stopDeadline, shuttingDown, shutdownDeadline, now>>

BeginShutdown ==
  /\ ~shuttingDown
  /\ shuttingDown' = TRUE
  /\ shutdownDeadline' = now + ShutdownBudget(load)
  /\ UNCHANGED <<load, settings, phase, stopDeadline, now>>

\* In a shutdown, what nothing alive needs any more stops.
StopDue(n) == shuttingDown /\ phase[n] = "up" /\ DependentsStopped(n)

KillDue(n) == phase[n] = "stopping" /\ now >= stopDeadline[n]

StopNext ==
  /\ \E n \in Names : StopDue(n) /\ UNCHANGED settings /\ StopsOf({n})
  /\ UNCHANGED <<load, shuttingDown, shutdownDeadline, now>>

KillNext ==
  /\ \E n \in Names : KillDue(n) /\ phase' = [phase EXCEPT ![n] = "gone"]
  /\ UNCHANGED <<load, settings, stopDeadline, shuttingDown, shutdownDeadline, now>>

\* A process ends at any time, asked to or not.
ProcessEnds ==
  /\ \E n \in AliveNames : phase' = [phase EXCEPT ![n] = "gone"]
  /\ UNCHANGED <<load, settings, stopDeadline, shuttingDown, shutdownDeadline, now>>

NothingDue == \A n \in Names : ~StopDue(n) /\ ~KillDue(n)

AtDeadline == shuttingDown /\ now >= shutdownDeadline /\ NothingDue

\* The shutdown's time is up, or a stop is asked for again: what is left is killed.
KillAll ==
  /\ shuttingDown
  /\ AliveNames # {}
  /\ phase' = [n \in Names |-> "gone"]
  /\ UNCHANGED <<load, settings, stopDeadline, shuttingDown, shutdownDeadline, now>>

\* Time passes only once everything due has happened, and until the daemon has ended.
PassTime ==
  /\ now < MaxTime
  /\ NothingDue
  /\ ~AtDeadline
  /\ shuttingDown => AliveNames # {}
  /\ now' = now + 1
  /\ UNCHANGED <<load, settings, phase, stopDeadline, shuttingDown, shutdownDeadline>>

Next ==
  \/ Reload
  \/ StopCommand
  \/ Starts
  \/ BeginShutdown
  \/ StopNext
  \/ KillNext
  \/ ProcessEnds
  \/ KillAll
  \/ PassTime

Spec == Init /\ [][Next]_vars

----------------------------------------------------------------------------
(* Properties *)

\* Each service has its stop_timeout: when the shutdown's time is up, nothing is left that was
\* not asked to stop yet or that was asked and has time left.
TimeoutsHonoured == AtDeadline => AliveNames = {}

=============================================================================
