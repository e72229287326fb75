----------------------------- MODULE MCService -----------------------------
(***************************************************************************)
(* Service configurations for model checking Service.  One unit of time    *)
(* stands for one restart delay, one heartbeat interval, one timeout.      *)
(***************************************************************************)
EXTENDS Service

Base ==
  [restart |-> "on-failure", maxRestarts |-> 3, restartWindow |-> 2,
   restartDelay |-> 1, restartDelayMax |-> 3, startGrace |-> 1,
   stopTimeout |-> 1, stopSignal |-> "terminate",
   heartbeatInterval |-> 0, heartbeatTolerance |-> 1, unhealthyAction |-> "none"]

\* A service watched and restarted; the same one only reported, with one restart; one that is
\* not watched and restarts at once, as often as it likes.
Watched == [Base EXCEPT !.heartbeatInterval = 1, !.heartbeatTolerance = 2,
                        !.unhealthyAction = "restart"]
Reported == [Watched EXCEPT !.unhealthyAction = "none", !.stopSignal = "kill",
                            !.maxRestarts = 1]
Eager == [Base EXCEPT !.restart = "always", !.restartDelay = 0, !.startGrace = 0,
                      !.maxRestarts = 0]
ServiceConfigs == {Watched, Reported, Eager}
HeartbeatConfigs == {Watched, Reported}

============================================================================
