---------------------------- MODULE ProcessLaunch ----------------------------
(***************************************************************************)
(* One launch of the posix launcher: NativeLauncher::Launch and RunChild   *)
(* of manager/src/posix/NativeLauncher.cpp, from the fork to its answer.   *)
(*                                                                         *)
(* The child and the manager run side by side, a system call a step.  Stop *)
(* signals may reach the manager, its process group, or the child alone at *)
(* any moment, and either may be killed.  A pipe that only exec or death   *)
(* closes tells the manager how it went.                                   *)
(***************************************************************************)
EXTENDS Naturals, Sequences

VARIABLES
  manager,   \* at: where in Launch it is; blocked, pending: a stop signal; noticed: the flag is set
  child,     \* the same, and handler: whose code a signal runs; session, armed, told, hangs
  pipe       \* message: a failed stage was reported; open: the child has its end

vars == <<manager, child, pipe>>

\* RunChild.
ChildSteps == <<"handlers", "session", "deathSignal", "parent", "cgroup", "output", "directory",
                "unblock", "exec">>

\* Mutants: the parent is looked at before its death is signalled; signals are let in first.
ParentFirst == <<"handlers", "session", "parent", "deathSignal", "cgroup", "output", "directory",
                 "unblock", "exec">>
UnblockFirst == <<"unblock", "handlers", "session", "deathSignal", "parent", "cgroup", "output",
                  "directory", "exec">>

ChildPath == ChildSteps

InLaunch == {"mask", "fork", "unmask", "read", "reap"}
Unborn == [at |-> "none", blocked |-> FALSE, pending |-> FALSE, handler |-> "default",
           session |-> FALSE, armed |-> FALSE, told |-> FALSE, hangs |-> FALSE]

Init ==
  /\ manager = [at |-> "mask", blocked |-> FALSE, pending |-> FALSE, noticed |-> FALSE]
  /\ child = Unborn
  /\ pipe = [message |-> FALSE, open |-> FALSE]

\* The child still runs code of the manager; it runs at all.
Preparing == child.at \in {ChildSteps[i] : i \in DOMAIN ChildSteps}
ChildRuns == Preparing \/ child.at = "service"
ManagerRuns == manager.at # "dead"

\* What becomes of the child's process when it ends: without the manager it is reaped at once.
Ended == [child EXCEPT !.at = IF ManagerRuns THEN "zombie" ELSE "gone"]
ChildEnds == child' = Ended /\ pipe' = [pipe EXCEPT !.open = FALSE]

----------------------------------------------------------------------------
(* The manager *)

ManagerAt(place) == manager.at = place

MaskSignals ==
  /\ ManagerAt("mask")
  /\ manager' = [manager EXCEPT !.at = "fork", !.blocked = TRUE]
  /\ UNCHANGED <<child, pipe>>

\* The child inherits what is blocked, and the handlers; what is pending it does not.  Fork may fail.
Fork ==
  /\ ManagerAt("fork")
  /\ manager' = [manager EXCEPT !.at = "unmask"]
  /\ \/ /\ child' = [Unborn EXCEPT !.at = ChildPath[1], !.blocked = manager.blocked,
                                   !.handler = "manager"]
        /\ pipe' = [pipe EXCEPT !.open = TRUE]
     \/ UNCHANGED <<child, pipe>>

\* The mask is restored, and the manager's own end of the pipe is closed.
UnmaskSignals ==
  /\ ManagerAt("unmask")
  /\ manager' = [manager EXCEPT !.at = IF child.at = "none" THEN "refused" ELSE "read",
                                !.blocked = FALSE]
  /\ UNCHANGED <<child, pipe>>

\* Mutant: the write end is not close-on-exec.
KeptOnExec == pipe.open

OpenAfterExec == FALSE

\* Reading returns a report, or the end of the file.
ReadPipe ==
  /\ ManagerAt("read")
  /\ pipe.message \/ ~pipe.open
  /\ manager' = [manager EXCEPT !.at = IF pipe.message THEN "reap" ELSE "ok"]
  /\ UNCHANGED <<child, pipe>>

\* Mutant: the failed child is not waited for.
LeaveFailed == UNCHANGED child

ReapFailed == child.at = "zombie" /\ child' = [child EXCEPT !.at = "gone"]

WaitForChild ==
  /\ ManagerAt("reap")
  /\ ReapFailed
  /\ manager' = [manager EXCEPT !.at = "refused"]
  /\ UNCHANGED pipe

ManagerStep == MaskSignals \/ Fork \/ UnmaskSignals \/ ReadPipe \/ WaitForChild

\* The handler of the manager sets its flag.
ManagerHandles ==
  /\ ManagerRuns
  /\ manager.pending /\ ~manager.blocked
  /\ manager' = [manager EXCEPT !.pending = FALSE, !.noticed = TRUE]
  /\ UNCHANGED <<child, pipe>>

----------------------------------------------------------------------------
(* The child *)

ChildAt(place) == child.at = place

\* The step after this one of the child's.
Following(place) == ChildPath[1 + CHOOSE i \in DOMAIN ChildPath : ChildPath[i] = place]

Goes(place, c) ==
  /\ ChildAt(place)
  /\ ~child.hangs
  /\ child' = [c EXCEPT !.at = Following(place)]
  /\ UNCHANGED <<manager, pipe>>

ResetHandlers == Goes("handlers", [child EXCEPT !.handler = "default"])

NewSession == Goes("session", [child EXCEPT !.session = TRUE])

\* Asks for SIGTERM on the death of its parent, whoever that is by now.
ArmDeathSignal == Goes("deathSignal", [child EXCEPT !.armed = ManagerRuns])

CheckParent ==
  \/ ManagerRuns /\ Goes("parent", child)
  \/ ~ManagerRuns /\ ChildAt("parent") /\ ChildEnds /\ UNCHANGED manager

\* The steps that report their failure: the cgroup's, the directory's and exec itself.
ReportAndExit ==
  /\ child.at \in {"cgroup", "directory", "exec"}
  /\ ~child.hangs
  /\ child' = Ended
  /\ pipe' = [message |-> TRUE, open |-> FALSE]
  /\ UNCHANGED manager

JoinCgroup == Goes("cgroup", child)
ConnectOutput == Goes("output", child)
ChangeDirectory == Goes("directory", child)
Unblock == Goes("unblock", [child EXCEPT !.blocked = FALSE])

\* Exec keeps what is blocked and pending and the death signal.
Exec ==
  /\ ChildAt("exec")
  /\ ~child.hangs
  /\ child' = [child EXCEPT !.at = "service", !.handler = "default"]
  /\ pipe' = [pipe EXCEPT !.open = OpenAfterExec]
  /\ UNCHANGED manager

\* A stop signal ends the child before exec.  The service may do with it what it likes.
ChildSignalled ==
  /\ ChildRuns
  /\ child.pending /\ ~child.blocked
  /\ IF child.handler = "manager"
     THEN child' = [child EXCEPT !.pending = FALSE, !.told = TRUE] /\ UNCHANGED pipe
     ELSE \/ ChildEnds
          \/ /\ ChildAt("service")
             /\ child' = [child EXCEPT !.pending = FALSE, !.told = TRUE]
             /\ UNCHANGED pipe
  /\ UNCHANGED manager

ChildStep ==
  \/ ResetHandlers
  \/ NewSession
  \/ ArmDeathSignal
  \/ CheckParent
  \/ ReportAndExit
  \/ JoinCgroup
  \/ ConnectOutput
  \/ ChangeDirectory
  \/ Unblock
  \/ Exec
  \/ ChildSignalled

----------------------------------------------------------------------------
(* The host *)

\* A stop signal, to the manager or to its process group, the terminal's way.
StopSignal ==
  /\ ManagerRuns
  /\ manager' = [manager EXCEPT !.pending = TRUE]
  /\ \/ UNCHANGED child
     \/ ChildRuns /\ ~child.session /\ child' = [child EXCEPT !.pending = TRUE]
  /\ UNCHANGED pipe

\* The manager is killed: a child that asked for it is sent SIGTERM, a zombie is reaped.
ManagerDies ==
  /\ ManagerRuns
  /\ manager' = [manager EXCEPT !.at = "dead"]
  /\ child' = CASE ChildAt("zombie") -> [child EXCEPT !.at = "gone"]
                [] ChildRuns /\ child.armed -> [child EXCEPT !.pending = TRUE]
                [] OTHER -> child
  /\ UNCHANGED pipe

\* A call of the child's blocks for ever, for instance the connect to the journal.
ChildHangs ==
  /\ child.at \in {"cgroup", "output", "directory", "exec"}
  /\ child' = [child EXCEPT !.hangs = TRUE]
  /\ UNCHANGED <<manager, pipe>>

ChildDies ==
  /\ ChildRuns
  /\ ChildEnds
  /\ UNCHANGED manager

Next ==
  \/ ManagerStep
  \/ ManagerHandles
  \/ ChildStep
  \/ StopSignal
  \/ ManagerDies
  \/ ChildHangs
  \/ ChildDies

Spec == Init /\ [][Next]_vars

----------------------------------------------------------------------------
(* Properties *)

\* No handler of the manager runs in the child, where it would swallow a stop signal.
NoHandlerInChild == [][ Preparing /\ child'.told => child.told ]_vars

\* The answer is true: a refused launch leaves no process, not even a zombie, and an accepted one
\* is the service, unless something killed the child; a failed step is never taken for success.
AnswerIsTrue ==
  /\ ManagerAt("refused") => child.at \in {"none", "gone"}
  /\ ManagerAt("ok") => ~Preparing /\ ~pipe.message

HangsBeforeExec == Preparing /\ child.hangs

\* The service never outlives the manager unaware: it ends, or has been sent SIGTERM, unless it
\* hangs before it is one.
DiesWithManager == ~ManagerRuns ~> (~ChildRuns \/ child.told \/ HangsBeforeExec)

\* A launch returns, and with it the supervision of every other service, unless the child hangs
\* before exec; one that hangs and is killed keeps it no longer.
LaunchReturns == (manager.at \in InLaunch) ~> (manager.at \notin InLaunch \/ HangsBeforeExec)

\* A stop signal that arrives during the launch reaches the manager, even if the child hangs.
StopNoticed == manager.pending ~> (manager.noticed \/ ~ManagerRuns)

\* What a launch takes from the manager it gives back: its time, and the signals it blocked.
ManagerGetsOn == LaunchReturns /\ StopNoticed

=============================================================================
