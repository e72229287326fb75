--------------------------- MODULE CgroupTreeProofs ---------------------------
(***************************************************************************)
(* Proofs about a launch, from the manager's start on: whatever fails, the *)
(* answer is true and no handler of the manager runs in the child, and     *)
(* with any controllers and any processes left by an earlier run limits    *)
(* hold or are told of.                                                    *)
(***************************************************************************)
EXTENDS CgroupTree, TLAPS

Steps == {"handlers", "session", "deathSignal", "parent", "cgroup", "output", "directory",
          "unblock", "exec"}

Managers ==
  [at : {"mask", "fork", "unmask", "read", "reap", "ok", "refused", "dead"},
   blocked : BOOLEAN, pending : BOOLEAN, noticed : BOOLEAN]

Children ==
  [at : Steps \cup {"none", "service", "zombie", "gone"}, blocked : BOOLEAN, pending : BOOLEAN,
   handler : {"default", "manager"}, session : BOOLEAN, armed : BOOLEAN, told : BOOLEAN, hangs : BOOLEAN]

Pipes == [message : BOOLEAN, open : BOOLEAN]

LaunchTypes == manager \in Managers /\ child \in Children /\ pipe \in Pipes

\* The pipe is open just while the child prepares, and what is reported has ended.
Agreed ==
  /\ manager.at \in {"mask", "fork"} => child.at = "none"
  /\ manager.at = "read" => child.at # "none"
  /\ manager.at = "reap" => pipe.message
  /\ pipe.open <=> child.at \in Steps
  /\ pipe.message => child.at \in {"zombie", "gone"}
  /\ child.at = "gone" => manager.at \in {"refused", "dead"}

\* Until the child has reset the handlers, stop signals are blocked.
HandlersBlocked ==
  /\ manager.at = "fork" => manager.blocked
  /\ child.at = "handlers" => child.blocked
  /\ child.at \in Steps /\ child.handler = "manager" => child.at = "handlers"

LaunchInv == LaunchTypes /\ Agreed /\ HandlersBlocked /\ AnswerIsTrue

----------------------------------------------------------------------------
(* The launch *)

\* The steps of the child, by name.
LEMMA StepsByName == {ChildSteps[i] : i \in DOMAIN ChildSteps} = Steps
<1>1. DOMAIN ChildSteps = {1, 2, 3, 4, 5, 6, 7, 8, 9}
  BY DEF ChildSteps
<1> QED
  BY <1>1 DEF ChildSteps, Steps

\* After a step of the child's before exec comes another.
LEMMA FollowingSteps ==
  ASSUME NEW place \in Steps, place # "exec"
  PROVE  Following(place) \in Steps /\ Following(place) # "handlers"
<1> DEFINE Here(i) == i \in DOMAIN ChildPath /\ ChildPath[i] = place
<1>1. DOMAIN ChildPath = {1, 2, 3, 4, 5, 6, 7, 8, 9}
  BY DEF ChildPath, ChildSteps
<1>2. \E i \in DOMAIN ChildPath : ChildPath[i] = place
  BY <1>1 DEF ChildPath, ChildSteps, Steps
<1>3. PICK i \in DOMAIN ChildPath : i = CHOOSE j \in DOMAIN ChildPath : ChildPath[j] = place
  BY <1>2
<1>4. ChildPath[i] = place
  BY <1>2, <1>3
<1>5. i \in {1, 2, 3, 4, 5, 6, 7, 8}
  BY <1>1, <1>4 DEF ChildPath, ChildSteps
<1>6. Following(place) = ChildPath[1 + i]
  BY <1>3 DEF Following
<1> QED
  BY <1>5, <1>6 DEF ChildPath, ChildSteps, Steps

\* The child goes on to another step before exec.
LEMMA GoesInv ==
  ASSUME LaunchInv, child.at \in Steps, child' \in Children, child'.at \in Steps \ {"handlers"},
         child'.told = child.told, child'.handler = "default", UNCHANGED <<manager, pipe>>
  PROVE  LaunchInv' /\ child'.told = child.told
<1>1. LaunchTypes' /\ Agreed' /\ HandlersBlocked'
  BY DEF LaunchInv, LaunchTypes, Agreed, HandlersBlocked, Steps
<1>2. manager.at \notin {"ok", "refused"}
  BY StepsByName DEF LaunchInv, AnswerIsTrue, ManagerAt, Preparing, Steps
<1> QED
  BY <1>1, <1>2 DEF LaunchInv, AnswerIsTrue, ManagerAt

\* The child ends and its pipe closes, with or without a report.
LEMMA EndsInv ==
  ASSUME LaunchInv, ChildRuns, UNCHANGED manager, child' = Ended,
         pipe' \in Pipes, ~pipe'.open, pipe'.message => pipe.message \/ child.at # "service"
  PROVE  LaunchInv' /\ child'.told = child.told
<1>1. child.at \in Steps \cup {"service"}
  BY StepsByName DEF ChildRuns, Preparing
<1>2. /\ child' \in Children /\ child'.at = (IF ManagerRuns THEN "zombie" ELSE "gone")
      /\ child'.told = child.told
  BY DEF Ended, Children, LaunchInv, LaunchTypes
<1>3. LaunchTypes' /\ Agreed' /\ HandlersBlocked'
  <2>1. ManagerRuns <=> manager.at # "dead"
    BY DEF ManagerRuns
  <2>2. manager.at = "reap" => FALSE
    BY <1>1 DEF LaunchInv, Agreed, Steps
  <2> QED
    BY <1>1, <1>2, <2>1, <2>2 DEF LaunchInv, LaunchTypes, Agreed, HandlersBlocked, Steps
<1>4. manager.at # "refused" /\ (manager.at = "ok" => child.at = "service") /\ ~pipe.message
  BY <1>1, StepsByName DEF LaunchInv, Agreed, AnswerIsTrue, ManagerAt, Preparing, Steps
<1>5. ~Preparing'
  BY <1>2, StepsByName DEF Preparing, Steps
<1>6. AnswerIsTrue'
  BY <1>4, <1>5 DEF AnswerIsTrue, ManagerAt
<1> QED
  BY <1>2, <1>3, <1>6 DEF LaunchInv

\* No step of the launch breaks the invariant, and none of the manager's handlers runs in the child.
LEMMA NextInv ==
  ASSUME LaunchInv, [Next]_vars
  PROVE  LaunchInv' /\ (Preparing /\ child'.told => child.told)
<1> USE DEF ManagerAt, ChildAt
<1>types. manager \in Managers /\ child \in Children /\ pipe \in Pipes
  BY DEF LaunchInv, LaunchTypes
<1>prep. (Preparing <=> child.at \in Steps) /\ (Preparing' <=> child'.at \in Steps)
  BY StepsByName DEF Preparing
<1>goes. ASSUME NEW place \in Steps, place # "exec", child.at = place, UNCHANGED <<manager, pipe>>,
                child' \in Children, child'.at = Following(place), child'.told = child.told,
                child'.handler = "default"
         PROVE  LaunchInv' /\ child'.told = child.told
  BY <1>goes, FollowingSteps, GoesInv
<1>default. child.at \in Steps \ {"handlers"} => child.handler = "default"
  BY <1>types DEF LaunchInv, HandlersBlocked, Children
<1>1. CASE MaskSignals
  BY <1>1, <1>types, <1>prep DEF MaskSignals, LaunchInv, LaunchTypes, Agreed, HandlersBlocked, AnswerIsTrue, Managers
<1>2. CASE Fork
  <2>1. manager.at = "fork" /\ child.at = "none" /\ manager.blocked /\ ~pipe.message
    BY <1>2 DEF Fork, LaunchInv, Agreed, HandlersBlocked
  <2>2. manager' \in Managers /\ manager'.at = "unmask" /\ manager'.blocked = manager.blocked
    BY <1>2, <1>types DEF Fork, Managers
  <2>3. CASE UNCHANGED <<child, pipe>>
    BY <2>1, <2>2, <2>3, <1>types, <1>prep DEF LaunchInv, LaunchTypes, Agreed, HandlersBlocked, AnswerIsTrue, Steps
  <2>4. CASE child' = [Unborn EXCEPT !.at = ChildPath[1], !.blocked = manager.blocked, !.handler = "manager"]
             /\ pipe' = [pipe EXCEPT !.open = TRUE]
    <3>1. child' \in Children /\ child'.at = "handlers" /\ child'.blocked /\ ~child'.told
      BY <2>1, <2>4, <1>types DEF Unborn, Children, ChildPath, ChildSteps, Steps, Managers
    <3>2. pipe' \in Pipes /\ pipe'.open /\ ~pipe'.message
      BY <2>1, <2>4, <1>types DEF Pipes
    <3> QED
      BY <2>1, <2>2, <3>1, <3>2, <1>prep DEF LaunchInv, LaunchTypes, Agreed, HandlersBlocked, AnswerIsTrue, Steps
  <2> QED
    BY <1>2, <2>3, <2>4 DEF Fork
<1>3. CASE UnmaskSignals
  BY <1>3, <1>types, <1>prep DEF UnmaskSignals, LaunchInv, LaunchTypes, Agreed, HandlersBlocked, AnswerIsTrue, Managers
<1>4. CASE ReadPipe
  BY <1>4, <1>types, <1>prep DEF ReadPipe, LaunchInv, LaunchTypes, Agreed, HandlersBlocked, AnswerIsTrue, Managers
<1>5. CASE WaitForChild
  <2>1. manager' \in Managers /\ manager'.at = "refused"
    BY <1>5, <1>types DEF WaitForChild, Managers
  <2>2. child' \in Children /\ child'.at = "gone" /\ child'.told = child.told /\ child.at = "zombie"
    BY <1>5, <1>types DEF WaitForChild, ReapFailed, Children
  <2> QED
    BY <2>1, <2>2, <1>5, <1>types, <1>prep
    DEF WaitForChild, LaunchInv, LaunchTypes, Agreed, HandlersBlocked, AnswerIsTrue, Steps
<1>6. CASE ManagerHandles
  BY <1>6, <1>types, <1>prep DEF ManagerHandles, LaunchInv, LaunchTypes, Agreed, HandlersBlocked, AnswerIsTrue, Managers
<1>7. CASE ResetHandlers
  BY <1>7, <1>types, <1>goes, FollowingSteps DEF ResetHandlers, Goes, Children, Steps
<1>8. CASE NewSession
  BY <1>8, <1>types, <1>goes, <1>default, FollowingSteps DEF NewSession, Goes, Children, Steps
<1>9. CASE ArmDeathSignal
  BY <1>9, <1>types, <1>goes, <1>default, FollowingSteps DEF ArmDeathSignal, ManagerRuns, Goes, Children, Steps
<1>ends. ASSUME ChildRuns, ChildEnds, UNCHANGED manager
         PROVE  LaunchInv' /\ child'.told = child.told
  BY <1>ends, <1>types, EndsInv DEF ChildEnds, Pipes
<1>10. CASE CheckParent
  <2>1. CASE Goes("parent", child)
    BY <2>1, <1>types, <1>goes, <1>default, FollowingSteps DEF Goes, Children, Steps
  <2>2. CASE child.at = "parent" /\ ChildEnds /\ UNCHANGED manager
    BY <2>2, <1>ends, <1>prep DEF ChildRuns, Steps
  <2> QED
    BY <1>10, <2>1, <2>2 DEF CheckParent
<1>11. CASE ReportAndExit
  BY <1>11, <1>types, <1>prep, EndsInv DEF ReportAndExit, ChildRuns, Steps, Pipes
<1>12. CASE JoinCgroup
  BY <1>12, <1>types, <1>goes, <1>default, FollowingSteps DEF JoinCgroup, Goes, Children, Steps
<1>13. CASE ConnectOutput
  BY <1>13, <1>types, <1>goes, <1>default, FollowingSteps DEF ConnectOutput, Goes, Children, Steps
<1>14. CASE ChangeDirectory
  BY <1>14, <1>types, <1>goes, <1>default, FollowingSteps DEF ChangeDirectory, Goes, Children, Steps
<1>15. CASE Unblock
  BY <1>15, <1>types, <1>goes, <1>default, FollowingSteps DEF Unblock, Goes, Children, Steps
<1>16. CASE Exec
  <2>1. child' \in Children /\ child'.at = "service" /\ child'.told = child.told /\ child.at = "exec"
    BY <1>16, <1>types DEF Exec, Children
  <2>2. pipe' \in Pipes /\ ~pipe'.open /\ pipe'.message = pipe.message
    BY <1>16, <1>types DEF Exec, OpenAfterExec, Pipes
  <2> QED
    BY <2>1, <2>2, <1>16, <1>types, <1>prep
    DEF Exec, LaunchInv, LaunchTypes, Agreed, HandlersBlocked, AnswerIsTrue, Steps
<1>marks. ASSUME child' \in Children, child'.at = child.at, child'.handler = child.handler,
                 child'.blocked = child.blocked, UNCHANGED pipe,
                 manager' \in Managers, manager'.at = manager.at, manager'.blocked = manager.blocked
          PROVE  LaunchInv'
  BY <1>marks, <1>types, <1>prep DEF LaunchInv, LaunchTypes, Agreed, HandlersBlocked, AnswerIsTrue
<1>17. CASE ChildSignalled
  <2>1. CASE ChildEnds /\ UNCHANGED manager
    BY <1>17, <2>1, <1>ends DEF ChildSignalled
  <2>2. CASE child' = [child EXCEPT !.pending = FALSE, !.told = TRUE] /\ UNCHANGED <<manager, pipe>>
             /\ ~child.blocked /\ (child.handler = "manager" \/ child.at = "service")
    <3>1. LaunchInv'
      BY <2>2, <1>types, <1>marks DEF Children
    <3>2. child.at \notin Steps
      BY <2>2 DEF LaunchInv, HandlersBlocked, Steps
    <3> QED
      BY <3>1, <3>2, <1>prep
  <2> QED
    BY <1>17, <2>1, <2>2 DEF ChildSignalled
<1>18. CASE StopSignal
  <2>1. child' \in Children /\ child'.told = child.told /\ child'.at = child.at
        /\ child'.handler = child.handler /\ child'.blocked = child.blocked
    BY <1>18, <1>types DEF StopSignal, Children
  <2>2. manager' \in Managers /\ manager'.at = manager.at /\ manager'.blocked = manager.blocked
    BY <1>18, <1>types DEF StopSignal, Managers
  <2> QED
    BY <1>18, <2>1, <2>2, <1>marks DEF StopSignal
<1>19. CASE ManagerDies
  <2>1. manager' \in Managers /\ manager'.at = "dead" /\ UNCHANGED pipe
    BY <1>19, <1>types DEF ManagerDies, Managers
  <2>2. /\ child' \in Children /\ child'.told = child.told /\ child'.handler = child.handler
        /\ child'.blocked = child.blocked
        /\ child'.at = (IF child.at = "zombie" THEN "gone" ELSE child.at)
    <3>1. CASE child.at = "zombie"
      <4>1. ~ChildRuns
        BY <3>1, <1>prep DEF ChildRuns, Steps
      <4>2. child' = [child EXCEPT !.at = "gone"]
        BY <1>19, <3>1, <4>1 DEF ManagerDies
      <4> QED
        BY <3>1, <4>2, <1>types DEF Children
    <3>2. CASE child.at # "zombie"
      <4>1. child' \in {child, [child EXCEPT !.pending = TRUE]}
        BY <1>19, <3>2 DEF ManagerDies
      <4> QED
        BY <3>2, <4>1, <1>types DEF Children
    <3> QED
      BY <3>1, <3>2
  <2> QED
    BY <2>1, <2>2, <1>types, <1>prep DEF LaunchInv, LaunchTypes, Agreed, HandlersBlocked, AnswerIsTrue, Steps
<1>20. CASE ChildHangs
  BY <1>20, <1>types, <1>marks DEF ChildHangs, Children
<1>21. CASE ChildDies
  BY <1>21, <1>ends DEF ChildDies
<1>22. CASE UNCHANGED vars
  BY <1>22, <1>types, <1>marks DEF vars
<1> QED
  BY <1>1, <1>2, <1>3, <1>4, <1>5, <1>6, <1>7, <1>8, <1>9, <1>10, <1>11, <1>12, <1>13, <1>14, <1>15,
     <1>16, <1>17, <1>18, <1>19, <1>20, <1>21, <1>22
  DEF Next, ManagerStep, ChildStep

----------------------------------------------------------------------------
(* What comes before the fork *)

Places ==
  {"locate", "prepare", "move", "enable", "list", "kill", "pass", "signal", "remove", "ready",
   "group", "limits", "open", "fork", "refused"}

Trees ==
  [isRoot : BOOLEAN, offered : SUBSET Controllers, on : SUBSET Controllers, others : BOOLEAN,
   manager : {"root", "leaf"}, group : BOOLEAN, limit : [Controllers -> Limits]]

Setups ==
  [at : Places, required : BOOLEAN, tracked : BOOLEAN, enabled : SUBSET Controllers,
   missing : SUBSET Controllers, found : SUBSET Old, attempt : Nat, told : SUBSET (Controllers \cup {"left"})]

TreeTypes ==
  /\ tree \in Trees
  /\ old \in [Old -> {"none", "running", "doomed"}]
  /\ setup \in Setups
  /\ want \in [Controllers -> {"max", "wanted"}]

Limited == {c \in Controllers : tree.limit[c] # "max"}

\* The places where the manager goes by what it has read of the controllers.
KnowsControllers ==
  \/ setup.at \in {"prepare", "move", "enable"}
  \/ setup.tracked /\ setup.at \in {"list", "kill", "pass", "signal", "remove", "ready", "group", "limits"}

\* A limit is only where its controller is on, and the manager knows of it.
LimitsKnown == Limited \subseteq tree.on /\ (KnowsControllers => Limited \subseteq setup.enabled)

\* There is a tree from the listing of its groups on, and in a launch only where one was prepared.
TrackedThere ==
  /\ setup.at \in {"locate", "prepare", "move", "enable"} => ~setup.tracked
  /\ setup.at \in {"list", "kill", "pass", "signal", "remove", "group", "limits", "open"} => setup.tracked

Settled(c) == c \in setup.told \/ tree.limit[c] = want[c]

\* Once written, limits are settled; without a tree there are none.
LimitsSettled ==
  \A c \in Controllers :
    /\ setup.at \in {"open", "fork"} /\ setup.tracked => Settled(c)
    /\ setup.at = "fork" /\ ~setup.tracked => c \in setup.told \/ want[c] = "max"

\* Whatever runs of an earlier run is in a group that is there.
OldInGroup == setup.at \in {"locate", "prepare", "move", "enable", "list"} /\ ~tree.group => Members = {}

TreeInv ==
  /\ TreeTypes
  /\ LimitsKnown
  /\ TrackedThere
  /\ LimitsSettled
  /\ OldInGroup
  /\ OldCopiesGoneOrTold
  /\ BeforeFork => manager.at = "mask"
  /\ setup.at = "refused" => child.at = "none"

IInv == LaunchInv /\ TreeInv

\* The earlier run left limits only where controllers are on, and processes only in its group.
LEMMA InitInv == TreeInit => IInv
<1> SUFFICES ASSUME TreeInit PROVE IInv
  OBVIOUS
<1>1. LaunchInv
  <2>1. manager \in Managers /\ child \in Children /\ pipe \in Pipes /\ child.at = "none" /\ ~pipe.open
        /\ ~pipe.message /\ manager.at = "mask"
    BY DEF TreeInit, Init, Unborn, Managers, Children, Pipes
  <2> QED
    BY <2>1 DEF LaunchInv, LaunchTypes, Agreed, HandlersBlocked, AnswerIsTrue, ManagerAt, Steps
<1>2. /\ setup \in Setups /\ setup.at = "locate" /\ ~setup.tracked
      /\ want \in [Controllers -> {"max", "wanted"}] /\ manager.at = "mask"
  BY DEF TreeInit, Init, Fresh, Setups, Places
<1>3. PICK isRoot, others, group \in BOOLEAN, offered, on \in SUBSET Controllers :
        /\ on \subseteq offered
        /\ on # {} => isRoot
        /\ tree = [isRoot |-> isRoot, offered |-> offered, on |-> on, others |-> others,
                   manager |-> "root", group |-> group,
                   limit |-> [c \in Controllers |-> IF group /\ c \in on THEN "old" ELSE "max"]]
        /\ old \in [Old -> IF group THEN {"none", "running"} ELSE {"none"}]
  BY DEF TreeInit
<1>4. tree \in Trees /\ Limited \subseteq tree.on
  BY <1>3 DEF Trees, Limits, Limited
<1>5. old \in [Old -> {"none", "running", "doomed"}] /\ (~tree.group => Members = {})
  BY <1>3 DEF Members
<1>6. TreeInv
  BY <1>2, <1>4, <1>5
  DEF TreeInv, TreeTypes, LimitsKnown, KnowsControllers, TrackedThere, LimitsSettled, OldInGroup, OldCopiesGoneOrTold
<1> QED
  BY <1>1, <1>6 DEF IInv

\* The manager goes on and changes nothing but what it knows.
LEMMA ProceedInv ==
  ASSUME TreeInv, setup' \in Setups, setup'.at # "refused", BeforeFork, UNCHANGED <<manager, tree, old, want>>,
         KnowsControllers' => Limited \subseteq setup'.enabled,
         TrackedThere', LimitsSettled', OldInGroup', OldCopiesGoneOrTold'
  PROVE  TreeInv'
  BY DEF TreeInv, TreeTypes, LimitsKnown, Limited, BeforeFork

\* No step of the host or of the manager before the fork breaks the invariant.
LEMMA BeforeForkInv ==
  ASSUME IInv, OthersComeAndGo \/ OldStep \/ SetUpStep
  PROVE  IInv'
<1> USE DEF At, Proceed
<1>types. tree \in Trees /\ setup \in Setups /\ old \in [Old -> {"none", "running", "doomed"}]
          /\ want \in [Controllers -> {"max", "wanted"}]
  BY DEF IInv, TreeInv, TreeTypes
<1>launch. ASSUME UNCHANGED vars PROVE LaunchInv'
  BY <1>launch, NextInv DEF IInv
<1>refused. ASSUME Refused, BeforeFork PROVE IInv'
  <2>1. manager' \in Managers /\ manager'.at = "refused" /\ manager.at = "mask" /\ child.at = "none"
    BY <1>refused DEF Refused, IInv, TreeInv, LaunchInv, LaunchTypes, Agreed, Managers
  <2>2. LaunchInv'
    BY <1>refused, <2>1
    DEF Refused, IInv, LaunchInv, LaunchTypes, Agreed, HandlersBlocked, AnswerIsTrue, ManagerAt, Steps
  <2>3. setup' \in Setups /\ setup'.at = "refused"
    BY <1>refused, <1>types DEF Refused, Setups, Places
  <2>4. TreeInv'
    BY <1>refused, <2>1, <2>3
    DEF Refused, IInv, TreeInv, TreeTypes, LimitsKnown, Limited, KnowsControllers, TrackedThere, LimitsSettled,
        OldInGroup, OldCopiesGoneOrTold, BeforeFork
  <2> QED
    BY <2>2, <2>4 DEF IInv
<1>1. CASE OthersComeAndGo
  <2>1. tree' \in Trees /\ tree'.on = tree.on /\ tree'.limit = tree.limit /\ tree'.group = tree.group
    BY <1>1, <1>types DEF OthersComeAndGo, Trees
  <2> QED
    BY <1>1, <2>1, <1>launch
    DEF OthersComeAndGo, IInv, TreeInv, TreeTypes, LimitsKnown, Limited, KnowsControllers, TrackedThere, LimitsSettled,
        Settled, OldInGroup, OldCopiesGoneOrTold, Members, BeforeFork, vars
<1>2. CASE OldStep
  <2>1. old' \in [Old -> {"none", "running", "doomed"}] /\ (Members = {} => Members' = {})
    BY <1>2, <1>types DEF OldStep, Members
  <2> QED
    BY <1>2, <2>1, <1>launch
    DEF OldStep, IInv, TreeInv, TreeTypes, LimitsKnown, Limited, KnowsControllers, TrackedThere, LimitsSettled,
        Settled, OldInGroup, OldCopiesGoneOrTold, BeforeFork, vars
<1>proceeds. ASSUME BeforeFork, UNCHANGED <<vars, tree, old, want>>, setup' \in Setups,
                    setup'.at \notin {"open", "fork", "refused"},
                    KnowsControllers' => Limited \subseteq setup'.enabled,
                    TrackedThere', OldInGroup', OldCopiesGoneOrTold'
             PROVE  IInv'
  BY <1>proceeds, <1>launch, ProceedInv DEF IInv, LimitsSettled, vars
<1>noTree. ASSUME NoTree, UNCHANGED <<tree, old>>, setup.at \in {"locate", "move"} PROVE IInv'
  <2>1. CASE setup.required
    BY <1>noTree, <2>1, <1>refused DEF NoTree, BeforeFork
  <2>2. CASE ~setup.required
    <3>1. setup' = [setup EXCEPT !.at = "ready"] /\ UNCHANGED <<vars, tree, old, want>> /\ ~setup.tracked
      BY <1>noTree, <2>2 DEF NoTree, IInv, TreeInv, TrackedThere
    <3>2. setup' \in Setups /\ setup'.at = "ready" /\ ~setup'.tracked
      BY <3>1, <1>types DEF Setups, Places
    <3> QED
      BY <3>1, <3>2, <1>noTree, <1>proceeds
      DEF KnowsControllers, TrackedThere, OldInGroup, OldCopiesGoneOrTold, BeforeFork
  <2> QED
    BY <2>1, <2>2
<1>3. CASE Locate
  <2>1. CASE setup' = [setup EXCEPT !.at = "prepare", !.enabled = tree.on] /\ UNCHANGED <<vars, tree, old, want>>
    <3>1. setup' \in Setups /\ setup'.at = "prepare" /\ setup'.enabled = tree.on /\ ~setup'.tracked
      BY <1>3, <2>1, <1>types DEF Locate, Setups, Trees, Places, IInv, TreeInv, TrackedThere
    <3> QED
      BY <1>3, <2>1, <3>1, <1>proceeds
      DEF Locate, IInv, TreeInv, LimitsKnown, TrackedThere, OldInGroup, OldCopiesGoneOrTold, Members, BeforeFork
  <2> QED
    BY <1>3, <2>1, <1>noTree DEF Locate, NoTree, Refused
<1>known. KnowsControllers => Limited \subseteq setup.enabled
  BY DEF IInv, TreeInv, LimitsKnown
\* At the start: the next place, what is still missing and whether there is a tree.
<1>starts. ASSUME setup.at \in {"prepare", "move", "enable"}, UNCHANGED <<vars, tree, old, want>>,
                  setup' \in Setups, setup'.enabled = setup.enabled,
                  \/ setup'.at \in {"move", "enable"} /\ ~setup'.tracked
                  \/ setup'.at = "list" /\ setup'.tracked
           PROVE  IInv'
  BY <1>starts, <1>known, <1>proceeds
  DEF IInv, TreeInv, KnowsControllers, TrackedThere, OldInGroup, OldCopiesGoneOrTold, Members, BeforeFork
<1>4. CASE Prepare
  <2>1. ~setup.tracked /\ setup.at = "prepare" /\ UNCHANGED <<vars, tree, old, want>>
    BY <1>4 DEF Prepare, IInv, TreeInv, TrackedThere
  <2>2. Missing \in SUBSET Controllers
    BY <1>types DEF Missing, Trees
  <2>3. \/ setup' = PreparedAt("list")
        \/ setup' = [setup EXCEPT !.at = "enable", !.missing = Missing]
        \/ setup' = [setup EXCEPT !.at = "move", !.missing = Missing]
    BY <1>4 DEF Prepare
  <2>4. CASE setup' = PreparedAt("list")
    BY <2>1, <2>4, <1>types, <1>starts DEF PreparedAt, Setups, Places
  <2>5. CASE setup' = [setup EXCEPT !.at = "enable", !.missing = Missing]
    <3>1. PICK missing \in SUBSET Controllers : setup' = [setup EXCEPT !.at = "enable", !.missing = missing]
      BY <2>2, <2>5
    <3>2. setup' \in Setups /\ setup'.at = "enable" /\ ~setup'.tracked /\ setup'.enabled = setup.enabled
      BY <2>1, <3>1, <1>types DEF Setups, Places
    <3> QED
      BY <2>1, <3>2, <1>starts
  <2>6. CASE setup' = [setup EXCEPT !.at = "move", !.missing = Missing]
    <3>1. PICK missing \in SUBSET Controllers : setup' = [setup EXCEPT !.at = "move", !.missing = missing]
      BY <2>2, <2>6
    <3>2. setup' \in Setups /\ setup'.at = "move" /\ ~setup'.tracked /\ setup'.enabled = setup.enabled
      BY <2>1, <3>1, <1>types DEF Setups, Places
    <3> QED
      BY <2>1, <3>2, <1>starts
  <2> QED
    BY <2>3, <2>4, <2>5, <2>6
<1>treeMoves. ASSUME setup.at \in {"move", "enable"}, UNCHANGED <<vars, old, want>>,
                     setup' \in Setups, setup'.at = "enable", setup'.tracked = setup.tracked,
                     setup'.enabled = setup.enabled,
                     tree' \in Trees, tree'.limit = tree.limit, tree'.group = tree.group, tree.on \subseteq tree'.on
              PROVE  IInv'
  BY <1>treeMoves, <1>launch, <1>known
  DEF IInv, TreeInv, TreeTypes, LimitsKnown, Limited, KnowsControllers, TrackedThere, LimitsSettled, OldInGroup,
      OldCopiesGoneOrTold, Members, BeforeFork, vars
<1>5. CASE MoveManager
  <2>1. CASE setup' = [setup EXCEPT !.at = "enable"] /\ UNCHANGED <<vars, old, want>>
             /\ tree' = [tree EXCEPT !.manager = "leaf"]
    BY <1>5, <2>1, <1>types, <1>treeMoves DEF MoveManager, Setups, Places, Trees
  <2> QED
    BY <1>5, <2>1, <1>noTree DEF MoveManager, NoTree, Refused
<1>6. CASE EnableController
  <2>1. PICK c \in setup.missing :
          /\ setup' = [setup EXCEPT !.missing = @ \ {c}]
          /\ tree' \in {tree, [tree EXCEPT !.on = @ \cup {c}]}
    BY <1>6 DEF EnableController
  <2>2. c \in Controllers
    BY <1>types, <2>1 DEF Setups
  <2>3. setup' \in Setups /\ setup'.at = setup.at /\ setup'.tracked = setup.tracked /\ setup'.enabled = setup.enabled
    BY <1>types, <2>1 DEF Setups
  <2>4. tree' \in Trees /\ tree'.limit = tree.limit /\ tree'.group = tree.group /\ tree.on \subseteq tree'.on
    BY <1>types, <2>1, <2>2 DEF Trees
  <2> QED
    BY <1>6, <2>3, <2>4, <1>treeMoves DEF EnableController
<1>7. CASE LoadEnabled
  <2>1. setup' = [PreparedAt("list") EXCEPT !.enabled = tree.on] /\ setup.at = "enable"
        /\ UNCHANGED <<vars, tree, old, want>>
    BY <1>7 DEF LoadEnabled
  <2>2. setup' \in Setups /\ setup'.at = "list" /\ setup'.enabled = tree.on /\ setup'.tracked
    BY <2>1, <1>types DEF PreparedAt, Setups, Trees, Places
  <2> QED
    BY <2>1, <2>2, <1>proceeds
    DEF IInv, TreeInv, LimitsKnown, TrackedThere, OldInGroup, OldCopiesGoneOrTold, Members, BeforeFork
<1>8. CASE ListGroups
  <2>1. setup' = [setup EXCEPT !.at = IF tree.group THEN "kill" ELSE "ready"] /\ setup.at = "list"
        /\ UNCHANGED <<vars, tree, old, want>>
    BY <1>8 DEF ListGroups
  <2>2. setup' \in Setups /\ setup'.at = (IF tree.group THEN "kill" ELSE "ready") /\ setup'.enabled = setup.enabled
        /\ setup'.tracked = setup.tracked
    BY <2>1, <1>types DEF Setups, Places
  <2> QED
    BY <2>1, <2>2, <1>proceeds, <1>known
    DEF IInv, TreeInv, KnowsControllers, TrackedThere, OldInGroup, OldCopiesGoneOrTold, Members, BeforeFork
\* While an old group is cleared away: more of its processes are doomed, and the next place.
<1>clears. ASSUME setup.at \in {"kill", "pass", "signal"}, UNCHANGED <<vars, tree, want>>,
                  old' \in [Old -> {"none", "running", "doomed"}],
                  setup' \in Setups, setup'.at \in {"pass", "signal", "remove"},
                  setup'.enabled = setup.enabled, setup'.tracked = setup.tracked
           PROVE  IInv'
  BY <1>clears, <1>launch, <1>known
  DEF IInv, TreeInv, TreeTypes, LimitsKnown, Limited, KnowsControllers, TrackedThere, LimitsSettled, OldInGroup,
      OldCopiesGoneOrTold, BeforeFork, vars
<1>doomed. \A S : Doomed(S) \in [Old -> {"none", "running", "doomed"}]
  BY <1>types DEF Doomed
<1>9. CASE KillMembers
  <2>1. (old' = old \/ old' = Doomed(Members)) /\ UNCHANGED <<vars, tree, want>> /\ setup.at = "kill"
    BY <1>9 DEF KillMembers
  <2>2. \/ setup' = [setup EXCEPT !.at = "remove", !.attempt = 0]
        \/ setup' = [setup EXCEPT !.at = "pass", !.attempt = 0]
    BY <1>9 DEF KillMembers
  <2>3. setup' \in Setups /\ setup'.at \in {"pass", "remove"} /\ setup'.enabled = setup.enabled
        /\ setup'.tracked = setup.tracked
    <3>1. CASE setup' = [setup EXCEPT !.at = "remove", !.attempt = 0]
      BY <3>1, <1>types DEF Setups, Places
    <3>2. CASE setup' = [setup EXCEPT !.at = "pass", !.attempt = 0]
      BY <3>2, <1>types DEF Setups, Places
    <3> QED
      BY <2>2, <3>1, <3>2
  <2> QED
    BY <2>1, <2>3, <1>types, <1>doomed, <1>clears
<1>10. CASE KillPass
  <2>1. UNCHANGED <<vars, tree, old, want>> /\ setup.at = "pass"
    BY <1>10 DEF KillPass
  <2>2. \/ setup' = [setup EXCEPT !.at = "remove", !.attempt = 0]
        \/ setup' = [setup EXCEPT !.at = "signal", !.attempt = @ + 1, !.found = Members]
    BY <1>10 DEF KillPass
  <2>3. Members \in SUBSET Old
    BY DEF Members
  <2>4. setup' \in Setups /\ setup'.at \in {"signal", "remove"} /\ setup'.enabled = setup.enabled
        /\ setup'.tracked = setup.tracked
    <3>1. CASE setup' = [setup EXCEPT !.at = "remove", !.attempt = 0]
      BY <3>1, <1>types DEF Setups, Places
    <3>2. CASE setup' = [setup EXCEPT !.at = "signal", !.attempt = @ + 1, !.found = Members]
      <4>1. PICK found \in SUBSET Old, attempt \in Nat :
              setup' = [setup EXCEPT !.at = "signal", !.attempt = attempt, !.found = found]
        <5>1. setup.attempt + 1 \in Nat
          BY <1>types DEF Setups
        <5> QED
          BY <2>3, <3>2, <5>1
      <4> QED
        BY <4>1, <1>types DEF Setups, Places
    <3> QED
      BY <2>2, <3>1, <3>2
  <2> QED
    BY <2>1, <2>4, <1>types, <1>clears
<1>11. CASE SignalMember
  <2>1. PICK o \in setup.found :
          /\ old' = Doomed({o})
          /\ setup' = [setup EXCEPT !.found = @ \ {o}, !.at = IF setup.found = {o} THEN "pass" ELSE "signal"]
          /\ UNCHANGED <<vars, tree, want>> /\ setup.at = "signal"
    BY <1>11 DEF SignalMember
  <2>2. setup' \in Setups /\ setup'.at \in {"pass", "signal"} /\ setup'.enabled = setup.enabled
        /\ setup'.tracked = setup.tracked
    BY <2>1, <1>types DEF Setups, Places
  <2> QED
    BY <2>1, <2>2, <1>doomed, <1>clears
<1>12. CASE RemoveGroup
  <2>1. setup.at = "remove" /\ setup.tracked /\ UNCHANGED <<vars, old, want>>
    BY <1>12 DEF RemoveGroup, IInv, TreeInv, TrackedThere
  <2>2. CASE /\ Members = {}
             /\ tree' = [tree EXCEPT !.group = FALSE, !.limit = [c \in Controllers |-> "max"]]
             /\ setup' = [setup EXCEPT !.at = "ready"]
    <3>1. setup' \in Setups /\ setup'.at = "ready"
      BY <2>2, <1>types DEF Setups, Places
    <3>2. tree' \in Trees /\ \A c \in Controllers : tree'.limit[c] = "max"
      BY <2>2, <1>types DEF Trees, Limits
    <3> QED
      BY <2>1, <2>2, <3>1, <3>2, <1>launch
      DEF IInv, TreeInv, TreeTypes, LimitsKnown, Limited, KnowsControllers, TrackedThere, LimitsSettled, OldInGroup,
          OldCopiesGoneOrTold, Members, BeforeFork, vars
  <2>3. CASE UNCHANGED tree /\ setup' = [setup EXCEPT !.attempt = @ + 1]
    <3>1. setup' \in Setups /\ setup'.at = "remove" /\ setup'.tracked /\ setup'.enabled = setup.enabled
      BY <2>1, <2>3, <1>types DEF Setups
    <3> QED
      BY <2>1, <2>3, <3>1, <1>proceeds, <1>known
      DEF KnowsControllers, TrackedThere, OldInGroup, OldCopiesGoneOrTold, BeforeFork
  <2>4. CASE UNCHANGED tree /\ setup' = [setup EXCEPT !.at = "ready", !.told = @ \cup {"left"}]
    <3>1. setup' \in Setups /\ setup'.at = "ready" /\ setup'.tracked /\ setup'.enabled = setup.enabled
          /\ "left" \in setup'.told
      BY <2>1, <2>4, <1>types DEF Setups, Places
    <3> QED
      BY <2>1, <2>4, <3>1, <1>proceeds, <1>known
      DEF KnowsControllers, TrackedThere, OldInGroup, OldCopiesGoneOrTold, BeforeFork
  <2> QED
    BY <1>12, <2>2, <2>3, <2>4 DEF RemoveGroup, Removed
\* Over to the launch: what was told of stays told.
<1>13. CASE CheckRequest
  <2>1. CASE Refused
    BY <1>13, <2>1, <1>refused DEF CheckRequest, BeforeFork
  <2>2. CASE setup.tracked /\ setup' = [setup EXCEPT !.at = "group"] /\ UNCHANGED <<vars, tree, old, want>>
    <3>1. setup' \in Setups /\ setup'.at = "group" /\ setup'.tracked /\ setup'.enabled = setup.enabled
          /\ setup'.told = setup.told
      BY <2>2, <1>types DEF Setups, Places
    <3> QED
      BY <1>13, <2>2, <3>1, <1>proceeds, <1>known
      DEF CheckRequest, IInv, TreeInv, KnowsControllers, TrackedThere, OldInGroup, OldCopiesGoneOrTold, Members,
          BeforeFork
  <2>3. CASE ~setup.tracked /\ UNCHANGED <<vars, tree, old, want>>
             /\ setup' = [Launching EXCEPT !.told = {c \in Controllers : want[c] # "max"}]
    <3>1. /\ setup' \in Setups /\ setup'.at = "fork" /\ ~setup'.tracked
          /\ \A c \in Controllers : c \in setup'.told \/ want[c] = "max"
      BY <2>3, <1>types DEF Launching, Fresh, Setups, Places
    <3> QED
      BY <1>13, <2>3, <3>1, <1>launch
      DEF CheckRequest, IInv, TreeInv, TreeTypes, LimitsKnown, Limited, KnowsControllers, TrackedThere, LimitsSettled,
          OldInGroup, OldCopiesGoneOrTold, BeforeFork, vars
  <2> QED
    BY <1>13, <2>1, <2>2, <2>3 DEF CheckRequest
<1>14. CASE CreateGroup
  <2>1. CASE Refused
    BY <1>14, <2>1, <1>refused DEF CreateGroup, BeforeFork
  <2>2. CASE tree' = [tree EXCEPT !.group = TRUE] /\ setup' = [setup EXCEPT !.at = "limits"]
             /\ UNCHANGED <<vars, old, want>>
    <3>1. setup' \in Setups /\ setup'.at = "limits" /\ setup'.tracked = setup.tracked
          /\ setup'.enabled = setup.enabled /\ setup'.told = setup.told
      BY <2>2, <1>types DEF Setups, Places
    <3>2. tree' \in Trees /\ tree'.limit = tree.limit /\ tree'.on = tree.on
      BY <2>2, <1>types DEF Trees
    <3> QED
      BY <1>14, <2>2, <3>1, <3>2, <1>launch, <1>known
      DEF CreateGroup, IInv, TreeInv, TreeTypes, LimitsKnown, Limited, KnowsControllers, TrackedThere, LimitsSettled,
          OldInGroup, OldCopiesGoneOrTold, Members, BeforeFork, vars
  <2> QED
    BY <1>14, <2>1, <2>2 DEF CreateGroup
<1>15. CASE ApplyLimits
  <2>1. PICK accepted \in SUBSET (setup.enabled \cap tree.on) :
          /\ tree' = [tree EXCEPT !.limit = [c \in Controllers |-> IF c \in accepted THEN want[c] ELSE tree.limit[c]]]
          /\ setup' = [setup EXCEPT !.at = "open",
                                    !.told = @ \cup (setup.enabled \ accepted)
                                               \cup {c \in Controllers \ setup.enabled : want[c] # "max"}]
          /\ UNCHANGED <<vars, old, want>> /\ setup.at = "limits"
    BY <1>15 DEF ApplyLimits, Written
  <2>2. setup.tracked /\ Limited \subseteq setup.enabled /\ Limited \subseteq tree.on
    BY <2>1, <1>known DEF IInv, TreeInv, TrackedThere, KnowsControllers, LimitsKnown
  <2>3. /\ setup' \in Setups /\ setup'.at = "open" /\ setup'.tracked
        /\ setup'.told = setup.told \cup (setup.enabled \ accepted)
                                    \cup {c \in Controllers \ setup.enabled : want[c] # "max"}
    BY <2>1, <2>2, <1>types DEF Setups, Places
  <2>4. /\ tree' \in Trees /\ tree'.on = tree.on /\ tree'.group = tree.group
        /\ \A c \in Controllers : tree'.limit[c] = IF c \in accepted THEN want[c] ELSE tree.limit[c]
    BY <2>1, <1>types DEF Trees, Limits
  <2>5. \A c \in Controllers : Settled(c)'
    <3> SUFFICES ASSUME NEW c \in Controllers PROVE c \in setup'.told \/ tree'.limit[c] = want[c]
      BY <2>1 DEF Settled
    <3>1. CASE c \in accepted
      BY <3>1, <2>4
    <3>2. CASE c \in setup.enabled \ accepted
      BY <3>2, <2>3
    <3>3. CASE c \notin setup.enabled
      BY <3>3, <2>1, <2>2, <2>3, <2>4 DEF Limited
    <3> QED
      BY <3>1, <3>2, <3>3
  <2>6. LimitsKnown'
    BY <2>1, <2>2, <2>3, <2>4 DEF LimitsKnown, Limited, KnowsControllers
  <2> QED
    BY <2>1, <2>3, <2>4, <2>5, <2>6, <1>launch, <1>types
    DEF IInv, TreeInv, TreeTypes, TrackedThere, LimitsSettled, OldInGroup, OldCopiesGoneOrTold, Members, BeforeFork,
        vars
<1>16. CASE OpenProcs
  <2>1. CASE Refused
    BY <1>16, <2>1, <1>refused DEF OpenProcs, BeforeFork
  <2>2. CASE setup' = [Launching EXCEPT !.told = setup.told] /\ UNCHANGED <<vars, tree, old, want>>
    <3>1. setup.at = "open" /\ setup.tracked
      BY <1>16 DEF OpenProcs, IInv, TreeInv, TrackedThere
    <3>2. setup' \in Setups /\ setup'.at = "fork" /\ setup'.tracked = setup.tracked /\ setup'.told = setup.told
      BY <2>2, <1>types DEF Launching, Fresh, Setups, Places
    <3> QED
      BY <2>2, <3>1, <3>2, <1>launch
      DEF IInv, TreeInv, TreeTypes, LimitsKnown, Limited, KnowsControllers, TrackedThere, LimitsSettled, Settled,
          OldInGroup, OldCopiesGoneOrTold, Members, BeforeFork, vars
  <2> QED
    BY <1>16, <2>1, <2>2 DEF OpenProcs
<1> QED
  BY <1>1, <1>2, <1>3, <1>4, <1>5, <1>6, <1>7, <1>8, <1>9, <1>10, <1>11, <1>12, <1>13, <1>14, <1>15, <1>16
  DEF SetUpStep

----------------------------------------------------------------------------
(* The theorems *)

\* A step of the launch leaves the tree alone.
LEMMA LaunchStepInv ==
  ASSUME IInv, LaunchStep(Next) \/ UNCHANGED allVars
  PROVE  IInv'
<1>1. LaunchInv'
  BY NextInv DEF IInv, LaunchStep, allVars
<1>2. UNCHANGED treeVars /\ (setup.at = "fork" \/ UNCHANGED <<manager, child>>)
  BY DEF LaunchStep, At, allVars, vars
<1>3. TreeInv'
  BY <1>2
  DEF treeVars, IInv, TreeInv, TreeTypes, LimitsKnown, Limited, KnowsControllers, TrackedThere, LimitsSettled, Settled,
      OldInGroup, OldCopiesGoneOrTold, Members, BeforeFork
<1> QED
  BY <1>1, <1>3 DEF IInv

\* Every step, whoever takes it, preserves the invariant.
LEMMA StepInv == IInv /\ [TreeNext]_allVars => IInv'
  BY BeforeForkInv, LaunchStepInv DEF TreeNext

\* So it holds throughout.
LEMMA Invariant == TreeSpec => []IInv
<1>1. TreeSpec => TreeInit /\ [][TreeNext]_allVars
  BY PTL DEF TreeSpec
<1> QED
  BY <1>1, InitInv, StepInv, PTL

\* The answer of Launch is true, whatever of its calls and of those before it fails, and whatever
\* signals come.
THEOREM AnswerHoldsAlways == TreeSpec => []AnswerIsTrue
<1>1. IInv => AnswerIsTrue
  BY DEF IInv, LaunchInv
<1> QED
  BY <1>1, Invariant, PTL

\* With any controllers a service runs under the limits of its configuration or a warning has
\* said which are not applied.
THEOREM ServiceIsLimitedOrTold == TreeSpec => []LimitsHoldOrTold
<1>1. IInv => LimitsHoldOrTold
  <2>1. IInv /\ child.at = "service" => setup.at = "fork"
    BY DEF IInv, LaunchInv, TreeInv, Agreed, BeforeFork
  <2> QED
    BY <2>1 DEF IInv, TreeInv, TreeTypes, Setups, LimitsSettled, Settled, LimitsHoldOrTold
<1> QED
  BY <1>1, Invariant, PTL

\* However many processes an earlier run has left and however they fork, none shares the new
\* service's group unnoticed.
THEOREM NoCopySharesUnnoticed == TreeSpec => []OldCopiesGoneOrTold
<1>1. IInv => OldCopiesGoneOrTold
  BY DEF IInv, TreeInv
<1> QED
  BY <1>1, Invariant, PTL

\* No handler of the manager runs in the child, at whatever moment a signal comes.
THEOREM HandlersStayInManager == TreeSpec => NoHandlerInChild
<1>1. IInv /\ [TreeNext]_allVars => [Preparing /\ child'.told => child.told]_vars
  <2>1. IInv /\ LaunchStep(Next) => (Preparing /\ child'.told => child.told)
    BY NextInv DEF IInv, LaunchStep
  <2>2. OthersComeAndGo \/ OldStep \/ SetUpStep => UNCHANGED child
    BY DEF OthersComeAndGo, OldStep, SetUpStep, Locate, Prepare, MoveManager, EnableController, LoadEnabled,
           ListGroups, KillMembers, KillPass, SignalMember, RemoveGroup, CheckRequest, CreateGroup, ApplyLimits,
           OpenProcs, NoTree, Refused, Proceed, vars
  <2> QED
    BY <2>1, <2>2 DEF TreeNext, allVars
<1> QED
  BY <1>1, Invariant, PTL DEF TreeSpec, NoHandlerInChild

=============================================================================
