------------------------------ MODULE CgroupTree ------------------------------
(***************************************************************************)
(* Task cgroups from the manager's start to a launch: Locate, Prepare,     *)
(* KillMembers, RemoveGroup, CreateGroup and ApplyLimits of                *)
(* manager/src/CgroupTree.cpp as SetUpCgroups of Daemon.cpp and Launch of  *)
(* posix/NativeLauncher.cpp call them, a system call a step, followed by   *)
(* the fork of ProcessLaunch.                                              *)
(*                                                                         *)
(* The tree is the kernel's, and what it allows is part of the model: only *)
(* the root of all cgroups may hold processes and give controllers to its  *)
(* children.  Other processes come to the manager's cgroup and leave it,   *)
(* an earlier run, killed anywhere, has left a group of the service with   *)
(* processes that fork, and every call that changes something may fail.    *)
(***************************************************************************)
EXTENDS ProcessLaunch

CONSTANTS
  Controllers,      \* those that limit: cpu and memory
  Old,              \* processes an earlier run has left
  KillAttempts,     \* kill_attempts
  RemovalAttempts   \* group_removal_attempts

ASSUME CgroupTreeAssumption == KillAttempts \in Nat /\ RemovalAttempts \in Nat

VARIABLES
  tree,     \* isRoot, offered, on: cgroup.subtree_control; others: processes not the manager's are
            \* in it; manager: where it is; group: the service's exists; limit: its files
  old,      \* the processes in the service's group: "none", "running" or "doomed" to end
  setup,    \* at; required: the setting; tracked: there is a CgroupTree; enabled: its controllers;
            \* missing, found, attempt: of its loops; told: what was warned of
  want      \* the limits of the launch

treeVars == <<tree, old, setup, want>>
allVars == <<vars, treeVars>>

Limits == {"max", "old", "wanted"}

Fresh(required) ==
  [at |-> "locate", required |-> required, tracked |-> FALSE, enabled |-> {}, missing |-> {}, found |-> {},
   attempt |-> 0, told |-> {}]

\* An earlier run may have left its group, with limits where controllers are on; in a cgroup that
\* is not the root they cannot be, since the manager is in it.
TreeInit ==
  /\ Init
  /\ \E isRoot, others, group \in BOOLEAN, offered, on \in SUBSET Controllers :
       /\ on \subseteq offered
       /\ on # {} => isRoot
       /\ tree = [isRoot |-> isRoot, offered |-> offered, on |-> on, others |-> others,
                  manager |-> "root", group |-> group,
                  limit |-> [c \in Controllers |-> IF group /\ c \in on THEN "old" ELSE "max"]]
       /\ old \in [Old -> IF group THEN {"none", "running"} ELSE {"none"}]
  /\ \E required \in BOOLEAN : setup = Fresh(required)
  /\ want \in [Controllers -> {"max", "wanted"}]

----------------------------------------------------------------------------
(* The host *)

Members == {o \in Old : old[o] # "none"}

\* Until the fork of the launch.
BeforeFork == setup.at \notin {"fork", "refused"}

\* The kernel lets processes into a cgroup without controllers for its children, or the root of all.
MayHold == tree.isRoot \/ tree.on = {}

OthersComeAndGo ==
  /\ BeforeFork
  /\ tree.others \/ MayHold
  /\ tree' = [tree EXCEPT !.others = ~@]
  /\ UNCHANGED <<vars, old, setup, want>>

\* A process in the group forks, unless it is doomed, or ends.
OldStep ==
  /\ BeforeFork
  /\ \E o \in Members :
       \/ old' = [old EXCEPT ![o] = "none"]
       \/ \E new \in Old \ Members : old[o] = "running" /\ old' = [old EXCEPT ![new] = "running"]
  /\ UNCHANGED <<vars, tree, setup, want>>

----------------------------------------------------------------------------
(* Daemon::SetUpCgroups *)

At(place) == setup.at = place

\* The manager goes on: its own state changes, and what is named of the rest.
Proceed(s) == setup' = s /\ UNCHANGED <<vars, want>>

\* The start or the launch fails, and nothing is forked.
Refused ==
  /\ manager' = [manager EXCEPT !.at = "refused"]
  /\ setup' = [setup EXCEPT !.at = "refused"]
  /\ UNCHANGED <<child, pipe, tree, old, want>>

\* Without a tree the services are tracked by session, unless the setting requires one.
NoTree == IF setup.required THEN Refused
          ELSE Proceed([setup EXCEPT !.at = "ready"]) /\ UNCHANGED <<tree, old>>

Locate ==
  /\ At("locate")
  /\ \/ /\ Proceed([setup EXCEPT !.at = "prepare", !.enabled = tree.on])
        /\ UNCHANGED <<tree, old>>
     \/ NoTree

Missing == tree.offered \ setup.enabled

PreparedAt(place) == [setup EXCEPT !.at = place, !.tracked = TRUE]

Prepare ==
  /\ At("prepare")
  /\ Proceed(CASE Missing = {} -> PreparedAt("list")
             [] Missing # {} /\ tree.isRoot -> [setup EXCEPT !.at = "enable", !.missing = Missing]
             [] Missing # {} /\ ~tree.isRoot /\ tree.others -> PreparedAt("list")
             [] OTHER -> [setup EXCEPT !.at = "move", !.missing = Missing])
  /\ UNCHANGED <<tree, old>>

\* The leaf is created and the manager moved to it; either may fail.
MoveManager ==
  /\ At("move")
  /\ \/ /\ Proceed([setup EXCEPT !.at = "enable"])
        /\ tree' = [tree EXCEPT !.manager = "leaf"]
        /\ UNCHANGED old
     \/ NoTree

\* A controller is on unless the kernel refuses it; one that is not is passed over.
EnableController ==
  /\ At("enable")
  /\ \E c \in setup.missing :
       \/ /\ tree.isRoot \/ (tree.manager = "leaf" /\ ~tree.others)
          /\ tree' = [tree EXCEPT !.on = @ \cup {c}]
          /\ Proceed([setup EXCEPT !.missing = @ \ {c}])
       \/ Proceed([setup EXCEPT !.missing = @ \ {c}]) /\ UNCHANGED tree
  /\ UNCHANGED old

LoadEnabled ==
  /\ At("enable")
  /\ setup.missing = {}
  /\ Proceed([PreparedAt("list") EXCEPT !.enabled = tree.on])
  /\ UNCHANGED <<tree, old>>

ListGroups ==
  /\ At("list")
  /\ Proceed([setup EXCEPT !.at = IF tree.group THEN "kill" ELSE "ready"])
  /\ UNCHANGED <<tree, old>>

Doomed(S) == [o \in Old |-> IF o \in S \cap Members THEN "doomed" ELSE old[o]]

\* KillMembers: cgroup.kill, where the kernel has one, else passes over the members.
KillMembers ==
  /\ At("kill")
  /\ \/ /\ old' = Doomed(Members)
        /\ Proceed([setup EXCEPT !.at = "remove", !.attempt = 0])
     \/ Proceed([setup EXCEPT !.at = "pass", !.attempt = 0]) /\ UNCHANGED old
  /\ UNCHANGED tree

KillPass ==
  /\ At("pass")
  /\ Proceed(IF Members = {} \/ setup.attempt = KillAttempts
           THEN [setup EXCEPT !.at = "remove", !.attempt = 0]
           ELSE [setup EXCEPT !.at = "signal", !.attempt = @ + 1, !.found = Members])
  /\ UNCHANGED <<tree, old>>

\* One member of those read is signalled; after the last the next pass begins.
SignalMember ==
  /\ At("signal")
  /\ \E o \in setup.found :
       /\ old' = Doomed({o})
       /\ Proceed([setup EXCEPT !.found = @ \ {o}, !.at = IF setup.found = {o} THEN "pass" ELSE "signal"])
  /\ UNCHANGED tree

\* Mutant: the last attempt is not looked at.
RemovedOrLate == Members = {} \/ setup.attempt + 1 = RemovalAttempts

Removed == Members = {}

\* A directory is removed only when nothing is in it any more; it is tried some times.
RemoveGroup ==
  /\ At("remove")
  /\ \/ /\ Removed
        /\ tree' = [tree EXCEPT !.group = FALSE, !.limit = [c \in Controllers |-> "max"]]
        /\ Proceed([setup EXCEPT !.at = "ready"])
     \/ /\ UNCHANGED tree
        /\ Proceed(IF setup.attempt + 1 < RemovalAttempts THEN [setup EXCEPT !.attempt = @ + 1]
                 ELSE [setup EXCEPT !.at = "ready", !.told = @ \cup {"left"}])
  /\ UNCHANGED old

----------------------------------------------------------------------------
(* NativeLauncher::Launch before the fork *)

\* The locals of the start have gone.
Launching == [Fresh(FALSE) EXCEPT !.at = "fork", !.tracked = setup.tracked]

\* The binary, the working directory and the output file are looked for.
CheckRequest ==
  /\ At("ready")
  /\ \/ Refused
     \/ /\ Proceed(IF setup.tracked THEN [setup EXCEPT !.at = "group"]
                   ELSE [Launching EXCEPT !.told = {c \in Controllers : want[c] # "max"}])
        /\ UNCHANGED <<tree, old>>

\* A group that is there already keeps its limits.
CreateGroup ==
  /\ At("group")
  /\ \/ Refused
     \/ /\ tree' = [tree EXCEPT !.group = TRUE]
        /\ Proceed([setup EXCEPT !.at = "limits"])
        /\ UNCHANGED old

\* Mutant: a limit is written only where there is one.
WrittenWhenWanted == {c \in setup.enabled : want[c] # "max"}

Written == setup.enabled

\* Each limit is written where its controller is on; a failure, and a limit without its
\* controller, is told.
ApplyLimits ==
  /\ At("limits")
  /\ \E accepted \in SUBSET (Written \cap tree.on) :
       /\ tree' = [tree EXCEPT !.limit = [c \in Controllers |-> IF c \in accepted THEN want[c] ELSE @[c]]]
       /\ Proceed([setup EXCEPT !.at = "open",
                              !.told = @ \cup (Written \ accepted)
                                         \cup {c \in Controllers \ setup.enabled : want[c] # "max"}])
  /\ UNCHANGED old

\* The file through which the child will join is opened.
OpenProcs ==
  /\ At("open")
  /\ \/ Refused
     \/ Proceed([Launching EXCEPT !.told = setup.told]) /\ UNCHANGED <<tree, old>>

SetUpStep ==
  \/ Locate
  \/ Prepare
  \/ MoveManager
  \/ EnableController
  \/ LoadEnabled
  \/ ListGroups
  \/ KillMembers
  \/ KillPass
  \/ SignalMember
  \/ RemoveGroup
  \/ CheckRequest
  \/ CreateGroup
  \/ ApplyLimits
  \/ OpenProcs

LaunchStep(step) == At("fork") /\ step /\ UNCHANGED treeVars

TreeNext ==
  \/ OthersComeAndGo
  \/ OldStep
  \/ SetUpStep
  \/ LaunchStep(Next)

\* The manager gets on, from its start through the launch, and the child unless it hangs.
TreeSpec ==
  /\ TreeInit /\ [][TreeNext]_allVars
  /\ WF_allVars(SetUpStep)
  /\ WF_allVars(LaunchStep(ManagerStep))
  /\ WF_allVars(LaunchStep(ManagerHandles))
  /\ WF_allVars(LaunchStep(ChildStep))

----------------------------------------------------------------------------
(* Properties *)

\* A service runs under the limits of its configuration, not those an earlier launch has left in
\* its group, or a warning has said which are not applied.
LimitsHoldOrTold ==
  child.at = "service" =>
    \A c \in Controllers :
      c \in setup.told \/ (setup.tracked /\ tree.limit[c] = want[c]) \/ (~setup.tracked /\ want[c] = "max")

\* Processes an earlier run has left do not share the group of the new service unnoticed, however
\* they fork while they are killed, and whatever fails on the way.
OldCopiesGoneOrTold ==
  setup.tracked /\ setup.at \in {"ready", "group", "limits", "open", "fork"} /\ Members # {} =>
    "left" \in setup.told

=============================================================================
