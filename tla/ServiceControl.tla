--------------------------- MODULE ServiceControl ---------------------------
(***************************************************************************)
(* The control of one service without its clock: what each method of the   *)
(* class Service may do to the state, the process handle and the queued    *)
(* starts, for any timers, configuration and launch result.                *)
(*                                                                         *)
(* An operator maps the record before a call to the SET of records the     *)
(* call may leave.  ServiceManager composes these operators; MCService     *)
(* checks that the timed Service stays within them.                        *)
(***************************************************************************)

Up == {"Starting", "Running", "Unhealthy"}
Alive == Up \cup {"Stopping"}
States == Alive \cup {"Stopped", "Waiting", "Backoff", "Failed"}

\* killSent is about the process there is: it means nothing, and is FALSE, when there is none.
Control ==
  [state : States, child : {"none", "running", "exited"},
   pendingStart : BOOLEAN, restartAfterStop : BOOLEAN, killSent : BOOLEAN]

NewControl ==
  [state |-> "Stopped", child |-> "none",
   pendingStart |-> FALSE, restartAfterStop |-> FALSE, killSent |-> FALSE]

\* A restart is scheduled, or the budget is spent.
ScheduleRestart(s) == {[s EXCEPT !.state = x] : x \in {"Backoff", "Failed"}}

ApplyRestartPolicy(s, cleanExit) ==
  ScheduleRestart(s) \cup (IF cleanExit THEN {[s EXCEPT !.state = "Stopped"]} ELSE {})

Launch(s) ==
  {[s EXCEPT !.child = "running", !.state = "Starting", !.killSent = FALSE]}
    \cup ApplyRestartPolicy(s, FALSE)

Relaunch(s, ready) == IF ready THEN Launch(s) ELSE {[s EXCEPT !.state = "Waiting"]}

\* The stop signal is KILL, or it is another.
BeginStop(s) ==
  {[s EXCEPT !.state = "Stopping", !.pendingStart = FALSE, !.restartAfterStop = FALSE,
             !.killSent = byKill] : byKill \in BOOLEAN}

Start(s, ready) ==
  CASE s.state \in Up -> {s}
    [] s.state = "Stopping" -> {[s EXCEPT !.pendingStart = TRUE, !.restartAfterStop = FALSE]}
    [] OTHER -> Relaunch(s, ready)

Stop(s) ==
  CASE s.state \in Up -> BeginStop(s)
    [] s.state = "Stopping" -> {[s EXCEPT !.pendingStart = FALSE, !.restartAfterStop = FALSE]}
    [] OTHER -> {[s EXCEPT !.state = "Stopped"]}

Restart(s, ready) ==
  IF s.state \in Up
  THEN {[r EXCEPT !.pendingStart = TRUE] : r \in BeginStop(s)}
  ELSE Start(s, ready)

Kill(s) ==
  LET quiet == [s EXCEPT !.pendingStart = FALSE, !.restartAfterStop = FALSE]
  IN  IF s.child = "none"
      THEN {[quiet EXCEPT !.state = "Stopped"]}
      ELSE {[quiet EXCEPT !.state = "Stopping", !.killSent = TRUE]}

Heartbeat(s) == {IF s.state \in Up THEN [s EXCEPT !.state = "Running"] ELSE s}

Abandon(s) == {IF s.state = "Waiting" THEN [s EXCEPT !.state = "Failed"] ELSE s}

HandleExit(s, allowed, ready) ==
  LET gone == [s EXCEPT !.child = "none", !.killSent = FALSE]
      stopped == [gone EXCEPT !.state = "Stopped", !.pendingStart = FALSE,
                              !.restartAfterStop = FALSE]
  IN  CASE s.state # "Stopping" -> ApplyRestartPolicy(gone, TRUE)
        [] s.state = "Stopping" /\ allowed /\ s.restartAfterStop -> ScheduleRestart(stopped)
        [] s.state = "Stopping" /\ allowed /\ ~s.restartAfterStop /\ s.pendingStart ->
             Relaunch(stopped, ready)
        [] OTHER -> {stopped}

Reap(s, allowed, ready) == IF s.child = "exited" THEN HandleExit(s, allowed, ready) ELSE {s}

\* The start grace and the heartbeats: nothing yet, it runs, or it fell silent, which may
\* end it.  Silence is noticed once.
CheckGrace(s) == {s, [s EXCEPT !.state = "Running"]}

CheckUp(s) ==
  CheckGrace(s)
    \cup (IF s.state = "Unhealthy" THEN {}
          ELSE {[s EXCEPT !.state = "Unhealthy"]}
                 \cup {[r EXCEPT !.restartAfterStop = TRUE] : r \in BeginStop(s)})

Supervise(s, allowed, ready) ==
  CASE s.state \in Up -> CheckUp(s)
    [] s.state = "Stopping" -> {s, [s EXCEPT !.killSent = TRUE]}
    [] s.state = "Backoff" /\ allowed -> {s} \cup Relaunch(s, ready)
    [] OTHER -> {s}

\* A process launched in this very tick is not silent yet.
Tick(s, allowed, ready) ==
  UNION {IF s.child = "exited" /\ r.child = "running" THEN CheckGrace(r)
         ELSE Supervise(r, allowed, ready) : r \in Reap(s, allowed, ready)}

\* The process ends, of itself or because it was asked to or killed.
ProcessExits(s) == IF s.child = "running" THEN {[s EXCEPT !.child = "exited"]} ELSE {}

=============================================================================
