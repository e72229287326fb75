-------------------------- MODULE AbstractService --------------------------
(***************************************************************************)
(* What one supervised service may do, seen from outside: a service of the *)
(* manager (ServiceManager) and the timed service (Service) implement it.  *)
(***************************************************************************)
EXTENDS ServiceControl

VARIABLES
  control,         \* a record of ServiceControl
  launchAllowed    \* FALSE once the manager shuts down, and for good

abstractVars == <<control, launchAllowed>>

AbstractInit == control = NewControl /\ launchAllowed = TRUE

\* A call of the object, or the process ending.
AbstractCall ==
  /\ \/ launchAllowed /\ \E ready \in BOOLEAN :
          control' \in Start(control, ready) \cup Restart(control, ready)
     \/ control' \in Stop(control) \cup Heartbeat(control) \cup ProcessExits(control)
     \/ ~launchAllowed /\ control' \in Kill(control)
     \/ launchAllowed /\ control' \in Abandon(control)
     \/ \E ready \in BOOLEAN : control' \in Tick(control, launchAllowed, ready)
  /\ UNCHANGED launchAllowed

AbstractShutdown ==
  /\ launchAllowed
  /\ launchAllowed' = FALSE
  /\ UNCHANGED control

AbstractNext == AbstractCall \/ AbstractShutdown

AbstractSpec == AbstractInit /\ [][AbstractNext]_abstractVars

=============================================================================
