------------------------------ MODULE Service ------------------------------
(***************************************************************************)
(* One supervised service of the process manager, with its clock: the      *)
(* class Service of manager/src/Service.cpp.                               *)
(*                                                                         *)
(* The object is the record svc, and every method is an operator that      *)
(* maps the record before the call to the record after it, so that a Tick, *)
(* which reaps the process and then acts on the state the reaping left, is *)
(* a composition of operators as it is in the code.  Times are points of   *)
(* the steady clock, in an abstract unit.  What only feeds the reports     *)
(* (exit codes, wall clock times, samples, messages) is left out.          *)
(*                                                                         *)
(* Around the object are its caller, the manager, whose every call is an   *)
(* action; the process itself, which may exit at any moment; the clock.    *)
(***************************************************************************)
EXTENDS Integers, Sequences, FiniteSets

CONSTANTS
  Configs,      \* the service configurations a load or a reload may give
  KillGrace,    \* kill_grace: how long a killed process is given to disappear
  MaxTime,      \* bound: the clock stops here
  MaxLaunches   \* bound: attempts to launch the process

RestartModes == {"never", "on-failure", "always"}

Config == [restart : RestartModes, maxRestarts : Nat, restartWindow : Nat,
           restartDelay : Nat, restartDelayMax : Nat, startGrace : Nat,
           stopTimeout : Nat, stopSignal : {"terminate", "kill"},
           heartbeatInterval : Nat, heartbeatTolerance : Nat \ {0},
           unhealthyAction : {"none", "restart"}]

ASSUME ConfigsAssumption == Configs \subseteq Config
ASSUME KillGraceAssumption == KillGrace \in Nat
ASSUME BoundsAssumption == MaxTime \in Nat /\ MaxLaunches \in Nat

VARIABLES
  svc,             \* the object
  now,             \* the steady clock
  launchAllowed    \* FALSE once the manager shuts down, and for good

vars == <<svc, now, launchAllowed>>

Up == {"Starting", "Running", "Unhealthy"}
Alive == Up \cup {"Stopping"}
States == Alive \cup {"Stopped", "Waiting", "Backoff", "Failed"}

\* The process: none, still running, or gone with an exit status nobody has polled.
Children == {"none", "running", "clean", "unclean"}

----------------------------------------------------------------------------
(* Restart policy *)

Least(a, b) == IF a < b THEN a ELSE b

\* Mutant: the ceiling is forgotten.
BackoffDelayUncapped(config, previousRestarts) == config.restartDelay * 2^previousRestarts

\* The delay before the next restart: it doubles with every earlier one, up to a ceiling.
BackoffDelay(config, previousRestarts) ==
  LET delay[i \in 0..previousRestarts] ==
        IF i = 0 THEN config.restartDelay
        ELSE IF delay[i - 1] < config.restartDelayMax THEN 2 * delay[i - 1]
        ELSE delay[i - 1]
      ceiling == config.restartDelayMax
  IN  IF delay[previousRestarts] \in 0..ceiling THEN delay[previousRestarts] ELSE ceiling

\* Restarts leave the front of the history once they are older than the window.
Recent(history, window, t) ==
  LET old == {i \in DOMAIN history : \A j \in 1..i : t - history[j] > window}
  IN  SubSeq(history, Cardinality(old) + 1, Len(history))

\* Mutant: the budget allows one restart too many.
ScheduleRestartOneMore(s, t) ==
  LET history == Recent(s.restartHistory, s.config.restartWindow, t)
      max == s.config.maxRestarts
  IN  IF max > 0 /\ Len(history) > max
      THEN [s EXCEPT !.restartHistory = history, !.state = "Failed"]
      ELSE [s EXCEPT !.restartHistory = Append(history, t),
                     !.restartAt = t + BackoffDelay(s.config, Len(history)),
                     !.state = "Backoff",
                     !.scheduled = Append(@, t)]

ScheduleRestart(s, t) ==
  LET history == Recent(s.restartHistory, s.config.restartWindow, t)
      max == s.config.maxRestarts
  IN  IF max > 0 /\ Len(history) >= max
      THEN [s EXCEPT !.restartHistory = history, !.state = "Failed"]
      ELSE [s EXCEPT !.restartHistory = Append(history, t),
                     !.restartAt = t + BackoffDelay(s.config, Len(history)),
                     !.state = "Backoff",
                     !.scheduled = Append(@, t)]

ApplyRestartPolicy(s, t, cleanExit) ==
  IF s.config.restart = "always" \/ (s.config.restart = "on-failure" /\ ~cleanExit)
  THEN ScheduleRestart(s, t)
  ELSE [s EXCEPT !.state = IF cleanExit THEN "Stopped" ELSE "Failed"]

----------------------------------------------------------------------------
(* Launching and stopping the process.  "ok" is whether the launcher succeeds. *)

Launch(s, t, ok) ==
  IF ok
  THEN [s EXCEPT !.attempts = @ + 1, !.lastSeen = t, !.switchedOn = FALSE,
                 !.child = "running", !.state = "Starting", !.launchedAt = t,
                 !.lastBeat = t, !.killSent = FALSE, !.stuckReported = FALSE]
  ELSE ApplyRestartPolicy([s EXCEPT !.attempts = @ + 1], t, FALSE)

\* Mutant: the restart is counted here too.
RelaunchCounting(s, t, ready, ok) ==
  IF ready THEN Launch([s EXCEPT !.restartCount = @ + 1], t, ok) ELSE [s EXCEPT !.state = "Waiting"]

Relaunch(s, t, ready, ok) ==
  IF ready THEN Launch(s, t, ok) ELSE [s EXCEPT !.state = "Waiting"]

\* Mutant: the stop timeout is taken off the clock instead of added to it.
BeginStopInThePast(s, t) ==
  [s EXCEPT !.state = "Stopping", !.pendingStart = FALSE, !.restartAfterStop = FALSE,
            !.stopDeadline = t - s.config.stopTimeout]

BeginStop(s, t) ==
  [s EXCEPT !.state = "Stopping", !.pendingStart = FALSE, !.restartAfterStop = FALSE,
            !.stopDeadline = t + s.config.stopTimeout,
            !.killSent = (s.config.stopSignal = "kill"),
            !.killDeadline = t + KillGrace, !.stuckReported = FALSE]

----------------------------------------------------------------------------
(* Commands *)

Start(s, t, ready, ok) ==
  LET fresh == IF s.state \in {"Stopped", "Failed", "Backoff"}
               THEN [s EXCEPT !.restartHistory = <<>>, !.scheduled = <<>>]
               ELSE s
  IN  CASE s.state \in Up -> s
        [] s.state = "Stopping" ->
             [s EXCEPT !.pendingStart = TRUE, !.pendingStartIsRestart = FALSE,
                       !.restartAfterStop = FALSE]
        [] OTHER -> Relaunch(fresh, t, ready, ok)

\* Mutant: a second stop leaves what is queued behind the first.
StopKeepingQueue(s, t) ==
  CASE s.state \in Up -> BeginStop(s, t)
    [] s.state = "Stopping" -> s
    [] OTHER -> [s EXCEPT !.state = "Stopped"]

Stop(s, t) ==
  CASE s.state \in Up -> BeginStop(s, t)
    [] s.state = "Stopping" -> [s EXCEPT !.pendingStart = FALSE, !.restartAfterStop = FALSE]
    [] OTHER -> [s EXCEPT !.state = "Stopped"]

Restart(s, t, ready, ok) ==
  CASE s.state \in Up ->
         [BeginStop(s, t) EXCEPT !.pendingStart = TRUE, !.pendingStartIsRestart = TRUE]
    [] s.state = "Stopping" ->
         [s EXCEPT !.pendingStart = TRUE, !.pendingStartIsRestart = TRUE,
                   !.restartAfterStop = FALSE]
    [] OTHER -> Start(s, t, ready, ok)

\* Mutant: a killed process is forgotten at once.
KillAndForget(s, t) ==
  [s EXCEPT !.pendingStart = FALSE, !.restartAfterStop = FALSE, !.state = "Stopped"]

Kill(s, t) ==
  LET quiet == [s EXCEPT !.pendingStart = FALSE, !.restartAfterStop = FALSE]
  IN  IF s.child = "none"
      THEN [quiet EXCEPT !.state = "Stopped"]
      ELSE [quiet EXCEPT !.state = "Stopping", !.stopDeadline = t, !.killSent = TRUE,
                         !.killDeadline = t + KillGrace]

\* Mutant: a heartbeat heals the state and leaves the time of the last beat.
HeartbeatForgotten(s, t) ==
  IF s.state \in Up THEN [s EXCEPT !.lastSeen = t, !.switchedOn = FALSE, !.state = "Running"] ELSE s

Heartbeat(s, t) ==
  IF s.state \in Up
  THEN [s EXCEPT !.lastBeat = t, !.lastSeen = t, !.switchedOn = FALSE, !.state = "Running"]
  ELSE s

Abandon(s) == IF s.state = "Waiting" THEN [s EXCEPT !.state = "Failed"] ELSE s

HeartbeatEnabled(s) == s.config.heartbeatInterval > 0

\* The heartbeat checks follow the new configuration at once; the time of the last beat stays.
Replace(s, config) ==
  LET replaced == [s EXCEPT !.config = config]
  IN  [replaced EXCEPT !.switchedOn =
         @ \/ (~HeartbeatEnabled(s) /\ HeartbeatEnabled(replaced))]

----------------------------------------------------------------------------
(* One round of supervision *)

HandleExit(s, t, allowed, ready, ok) ==
  LET gone == [s EXCEPT !.child = "none"]
      stopped == [gone EXCEPT !.state = "Stopped", !.pendingStart = FALSE,
                              !.restartAfterStop = FALSE]
      counted == [stopped EXCEPT !.restartCount = @ + (IF s.pendingStartIsRestart THEN 1 ELSE 0)]
  IN  CASE s.state # "Stopping" -> ApplyRestartPolicy(gone, t, s.child = "clean")
        [] s.state = "Stopping" /\ ~allowed -> stopped
        [] s.state = "Stopping" /\ allowed /\ s.restartAfterStop -> ScheduleRestart(stopped, t)
        [] s.state = "Stopping" /\ allowed /\ ~s.restartAfterStop ->
             IF s.pendingStart THEN Relaunch(counted, t, ready, ok) ELSE stopped

\* Poll, and what follows when it reports an exit.
Reap(s, t, allowed, ready, ok) ==
  IF s.child \in {"clean", "unclean"} THEN HandleExit(s, t, allowed, ready, ok) ELSE s

CheckHeartbeat(s, t) ==
  LET missedBeats == (t - s.lastBeat) \div s.config.heartbeatInterval
      unhealthy == [s EXCEPT !.state = "Unhealthy"]
  IN  CASE missedBeats < s.config.heartbeatTolerance \/ s.state = "Unhealthy" -> s
        [] OTHER -> IF s.config.unhealthyAction = "restart"
                    THEN [BeginStop(unhealthy, t) EXCEPT !.restartAfterStop = TRUE]
                    ELSE unhealthy

\* Without heartbeats a service counts as seen in every round it is there.
CheckGrace(s, t) ==
  IF s.state = "Starting" /\ t - s.launchedAt < s.config.startGrace
  THEN [s EXCEPT !.lastSeen = t] ELSE [s EXCEPT !.lastSeen = t, !.state = "Running"]

CheckStop(s, t) ==
  CASE ~s.killSent /\ t >= s.stopDeadline ->
         [s EXCEPT !.killSent = TRUE, !.killDeadline = t + KillGrace]
    [] s.killSent /\ ~s.stuckReported /\ t >= s.killDeadline ->
         [s EXCEPT !.stuckReported = TRUE]
    [] OTHER -> s

\* Mutant: a service in backoff restarts although the manager shuts down.
SuperviseAlways(s, t, allowed, ready, ok) ==
  CASE s.state \in Up -> IF HeartbeatEnabled(s) THEN CheckHeartbeat(s, t) ELSE CheckGrace(s, t)
    [] s.state = "Stopping" -> CheckStop(s, t)
    [] s.state = "Backoff" /\ t >= s.restartAt ->
         Relaunch([s EXCEPT !.restartCount = @ + 1], t, ready, ok)
    [] OTHER -> s

Supervise(s, t, allowed, ready, ok) ==
  CASE s.state \in Up -> IF HeartbeatEnabled(s) THEN CheckHeartbeat(s, t) ELSE CheckGrace(s, t)
    [] s.state = "Stopping" -> CheckStop(s, t)
    [] s.state = "Backoff" /\ allowed /\ t >= s.restartAt ->
         Relaunch([s EXCEPT !.restartCount = @ + 1], t, ready, ok)
    [] OTHER -> s

\* Tick: up to two launches happen in it, one queued behind a stop, and, should that one
\* fail with no delay before the next, the restart of it.
Tick(s, t, allowed, ready, ok1, ok2) ==
  Supervise(Reap(s, t, allowed, ready, ok1), t, allowed, ready, ok2)

----------------------------------------------------------------------------
(* The object and its surroundings *)

NewService(config) ==
  [config |-> config, child |-> "none", state |-> "Stopped",
   pendingStart |-> FALSE, pendingStartIsRestart |-> FALSE, restartAfterStop |-> FALSE,
   killSent |-> FALSE, stuckReported |-> FALSE, restartCount |-> 0,
   launchedAt |-> 0, lastBeat |-> 0, lastSeen |-> 0, stopDeadline |-> 0, killDeadline |-> 0,
   restartAt |-> 0, restartHistory |-> <<>>,
   \* History, which decides nothing: whether the last order was to run, the attempts to launch,
   \* whether a reload has switched heartbeats on since the last of them or the last beat, and
   \* every restart scheduled since the last fresh start.
   wanted |-> FALSE, attempts |-> 0, switchedOn |-> FALSE, scheduled |-> <<>>]

Init ==
  /\ \E config \in Configs : svc = NewService(config)
  /\ now = 0
  /\ launchAllowed = TRUE

\* A call leaves the clock alone.  The guard is the bound on launches.
Call(result) ==
  /\ result.attempts <= MaxLaunches
  /\ svc' = result
  /\ UNCHANGED <<now, launchAllowed>>

StartCommand ==
  /\ launchAllowed
  /\ \E ready, ok \in BOOLEAN : Call([Start(svc, now, ready, ok) EXCEPT !.wanted = TRUE])

RestartCommand ==
  /\ launchAllowed
  /\ \E ready, ok \in BOOLEAN : Call([Restart(svc, now, ready, ok) EXCEPT !.wanted = TRUE])

\* By command, by the reload that drops the service, or by the shutdown.
StopCommand == Call([Stop(svc, now) EXCEPT !.wanted = FALSE])

\* Only a shutdown kills.
KillCommand ==
  /\ ~launchAllowed
  /\ Call([Kill(svc, now) EXCEPT !.wanted = FALSE])

HeartbeatCommand == Call(Heartbeat(svc, now))

\* The manager starts a waiting service when its dependencies run, or gives it up.
ResumeWaiting ==
  /\ launchAllowed
  /\ svc.state = "Waiting"
  /\ \E ok \in BOOLEAN : Call(Start(svc, now, TRUE, ok))

AbandonWaiting ==
  /\ launchAllowed
  /\ Call(Abandon(svc))

Reload ==
  /\ launchAllowed
  /\ \E config \in Configs : Call(Replace(svc, config))

TickService ==
  \E ready, ok1, ok2 \in BOOLEAN : Call(Tick(svc, now, launchAllowed, ready, ok1, ok2))

\* The process ends, of itself or because it was asked to or killed.
ProcessExits ==
  /\ svc.child = "running"
  /\ \E how \in {"clean", "unclean"} : svc' = [svc EXCEPT !.child = how]
  /\ UNCHANGED <<now, launchAllowed>>

BeginShutdown ==
  /\ launchAllowed
  /\ launchAllowed' = FALSE
  /\ UNCHANGED <<svc, now>>

PassTime ==
  /\ now < MaxTime
  /\ now' = now + 1
  /\ UNCHANGED <<svc, launchAllowed>>

Next ==
  \/ StartCommand
  \/ RestartCommand
  \/ StopCommand
  \/ KillCommand
  \/ HeartbeatCommand
  \/ ResumeWaiting
  \/ AbandonWaiting
  \/ Reload
  \/ TickService
  \/ ProcessExits
  \/ BeginShutdown
  \/ PassTime

Spec == Init /\ [][Next]_vars

\* The daemon ticks on, and time passes.
FairSpec == Spec /\ WF_vars(TickService) /\ WF_vars(PassTime)

----------------------------------------------------------------------------
(* Properties *)

Service ==
  [config : Configs, child : Children, state : States,
   pendingStart : BOOLEAN, pendingStartIsRestart : BOOLEAN, restartAfterStop : BOOLEAN,
   killSent : BOOLEAN, stuckReported : BOOLEAN, restartCount : Nat,
   launchedAt : Nat, lastBeat : Nat, lastSeen : Nat, stopDeadline : Nat, killDeadline : Nat,
   restartAt : Nat, restartHistory : Seq(Nat),
   wanted : BOOLEAN, attempts : Nat, switchedOn : BOOLEAN, scheduled : Seq(Nat)]

\* Type correctness: the object, the clock and the shutdown flag keep their types.
TypeOK ==
  /\ svc \in Service
  /\ now \in 0..MaxTime
  /\ launchAllowed \in BOOLEAN

\* The state machine and the process handle agree: the service owns a process handle exactly
\* in the states the rest of the manager takes for alive, so none is lost and none is started
\* while another is still held.
ChildIffAlive == svc.child # "none" <=> svc.state \in Alive

\* A start queued behind a stop and a restart due after a heartbeat failure exist only while
\* the service is stopping, and never both: the exit that consumes one finds no other.
QueuedOnlyWhileStopping ==
  /\ svc.pendingStart \/ svc.restartAfterStop => svc.state = "Stopping"
  /\ ~(svc.pendingStart /\ svc.restartAfterStop)

\* A stop sticks.  Once the last order was to stop, the service is stopped or on its way there
\* with nothing queued behind the exit: no backoff, no late heartbeat failure, no earlier
\* restart and no reload brings it back.
StopSticks ==
  ~svc.wanted =>
    /\ svc.state \in {"Stopping", "Stopped"}
    /\ ~svc.pendingStart
    /\ ~svc.restartAfterStop

\* A restart is counted at most once per launch it follows: whatever sequence of stops, queued
\* starts and heartbeat failures ends a process, its end is counted once.
RestartsCounted ==
  svc.restartCount + (IF svc.child # "none" \/ svc.state = "Backoff" THEN 1 ELSE 0)
    <= svc.attempts

\* The restarts scheduled since the last fresh start that lie within window of time t.
ScheduledWithin(s, window, t) == {i \in DOMAIN s.scheduled : t - s.scheduled[i] <= window}

\* Within any restart window the service schedules at most max_restarts restarts of its own,
\* however launches fail, processes crash and heartbeats stop in between, as long as nobody
\* starts it afresh and no reload widens the window; the count is over every restart, not over
\* the pruned history.
RestartBudget ==
  [][ Len(svc'.scheduled) > Len(svc.scheduled) /\ svc'.config.maxRestarts > 0
        => Cardinality(ScheduledWithin(svc', svc'.config.restartWindow, now))
             <= svc'.config.maxRestarts ]_vars

\* 2^k, written as doublings since the provers know no powers.
PowerOfTwo(k) ==
  LET power[i \in 0..k] == IF i = 0 THEN 1 ELSE 2 * power[i - 1]
  IN  power[k]

\* A restart is due restart_delay_ms * 2^k later, at most restart_delay_max_ms, where k is the
\* number of other restarts within the window: the delay neither resets early nor overshoots,
\* as long as no reload widens the window.
BackoffDoubles ==
  [][ Len(svc'.scheduled) > Len(svc.scheduled) /\ svc'.state = "Backoff"
        => LET c == svc'.config
               k == Cardinality(ScheduledWithin(svc', c.restartWindow, now)) - 1
           IN  svc'.restartAt = now + Least(c.restartDelay * PowerOfTwo(k), c.restartDelayMax) ]_vars

\* A service is held unhealthy, or is stopped for its silence.
Alarm ==
  \/ svc.state # "Unhealthy" /\ svc'.state = "Unhealthy"
  \/ ~svc.restartAfterStop /\ svc'.restartAfterStop

\* No false alarm: a service is held unhealthy, or stopped for its silence, only after
\* heartbeat_tolerance whole intervals, by the configuration it has then, in which it was not
\* seen, as it is by its launch, by its heartbeats, and in every round of supervision that asks
\* for none.  From a reload that switches heartbeats on until the first beat nothing is promised:
\* CheckHeartbeat goes back to the launch or the last beat before, not to the last round that
\* asked for none, and so the next tick takes a service that was healthy all along for silent.
NoFalseAlarm ==
  [][ Alarm /\ ~svc.switchedOn
        => now - svc.lastSeen >= svc.config.heartbeatInterval * svc.config.heartbeatTolerance ]_vars

\* Service.hpp says of Replace that heartbeat checks follow the new configuration at once, and
\* manager/README.md that with unhealthy_action = restart an unhealthy service is restarted: a
\* service found unhealthy under that action does not stay so while the ticks go on.
UnhealthyIsRestarted ==
  LET ToRestart == HeartbeatEnabled(svc) /\ svc.config.unhealthyAction = "restart"
  IN  svc.state = "Unhealthy" /\ ToRestart 
        ~> svc.state # "Unhealthy" \/ ~ToRestart \/ ~launchAllowed

----------------------------------------------------------------------------
(* Refinement *)

\* The timed service seen without its clock: an exit status nobody has polled is an exit.
ControlOf(s) ==
  [state |-> s.state,
   child |-> IF s.child \in {"clean", "unclean"} THEN "exited" ELSE s.child,
   pendingStart |-> s.pendingStart, restartAfterStop |-> s.restartAfterStop,
   killSent |-> s.killSent /\ s.child # "none"]

Abstract == INSTANCE AbstractService WITH control <- ControlOf(svc)

\* The timed service does nothing the abstract service may not do: the manager, which is
\* modelled over the abstract one, sees no other behaviour of its services.
ImplementsAbstractService == Abstract!AbstractSpec

============================================================================
