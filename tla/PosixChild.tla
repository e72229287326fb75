----------------------------- MODULE PosixChild -----------------------------
(***************************************************************************)
(* One running service of the posix launcher: the class PosixChild of      *)
(* manager/src/posix/NativeLauncher.cpp, over the processes of the host.   *)
(*                                                                         *)
(* The service is a main process and whatever it forks, and these may move *)
(* to groups and sessions of their own, end, be reaped and leave their     *)
(* process IDs to strangers, between any two system calls of a poll.  A    *)
(* process ID is not given out again while a process, a zombie included,   *)
(* has it as its own, its group's or its session's.                        *)
(***************************************************************************)
EXTENDS Integers, FiniteSets

CONSTANTS
  Pids,       \* process IDs the host may give out
  Init1,      \* the process that adopts orphans
  Manager     \* the manager itself

ASSUME PidsAssumption == Init1 \notin Pids /\ Manager \notin Pids /\ Init1 # Manager

VARIABLES
  process,       \* for every process ID, what it is
  pid,           \* the main process the handle was made for
  cgroup,        \* it has a task cgroup
  exited,        \* exit.has_value(): the handle has the exit status
  mainExited,
  drained,       \* the clock has passed drainDeadline
  pc,            \* where in Poll or Kill the manager is
  polling,       \* which of the two it is
  unlisted,      \* the process IDs Capture has not come to in listing /proc
  unread,        \* those it listed and whose entry it has not read
  table,         \* the entries it has read, of processes that are no zombies
  found,         \* the members KillLeftovers has read and not yet killed
  late           \* history: the process IDs given to forked processes since the listing began

childVars == <<pid, cgroup, exited, mainExited>>
capture == <<unlisted, unread, table, late>>
vars == <<process, childVars, drained, pc, polling, capture, found>>

NoProcess == [state |-> "free"]
Processes ==
  [state : {"running", "zombie"}, ours : BOOLEAN, doomed : BOOLEAN,
   parent : Pids \cup {Init1, Manager}, group : Pids, session : Pids] \cup {NoProcess}
ProcessEntry == [pid : Pids, parent : Pids \cup {Init1, Manager}, session : Pids]

InUse == {p \in Pids : process[p].state # "free"}
Running == {p \in Pids : process[p].state = "running"}
Ours == {p \in Running : process[p].ours}

\* The IDs the host may give to a new process.
Free == Pids \ (InUse \cup {process[p].group : p \in InUse} \cup {process[p].session : p \in InUse})

\* Launch: the main process leads a session of its own.
Init ==
  /\ pid \in Pids
  /\ process = [p \in Pids |->
       IF p = pid THEN [state |-> "running", ours |-> TRUE, doomed |-> FALSE,
                        parent |-> Manager, group |-> p, session |-> p]
       ELSE NoProcess]
  /\ cgroup \in BOOLEAN
  /\ exited = FALSE
  /\ mainExited = FALSE
  /\ drained = FALSE
  /\ pc = "idle"
  /\ polling = FALSE
  /\ unlisted = {} /\ unread = {} /\ table = {} /\ found = {} /\ late = {}

----------------------------------------------------------------------------
(* The host *)

HostAlone == UNCHANGED <<childVars, drained, pc, polling, unlisted, unread, table, found>>

Host(p) == process' = p /\ HostAlone /\ UNCHANGED late

\* From the listing of /proc on until the status is collected.
Capturing == pc \in {"listPids", "readStats", "collect"} /\ ~cgroup

\* A process that is being killed forks no more.
Fork ==
  \E p \in Running, q \in Free :
    /\ ~process[p].doomed
    /\ process' = [process EXCEPT ![q] = [process[p] EXCEPT !.parent = p]]
    /\ late' = IF Capturing THEN late \cup {q} ELSE late
    /\ HostAlone

\* A stranger's process leads a group and session of its own.
StrangerStarts ==
  \E q \in Free :
    Host([process EXCEPT ![q] = [state |-> "running", ours |-> FALSE, doomed |-> FALSE,
                                 parent |-> Init1, group |-> q, session |-> q]])

LeadGroup ==
  \E p \in Ours :
    /\ process[p].session # p
    /\ Host([process EXCEPT ![p].group = p])

LeadSession ==
  \E p \in Ours :
    /\ process[p].group # p
    /\ Host([process EXCEPT ![p].group = p, ![p].session = p])

\* A process ends: its children go to the process that adopts orphans, which reaps at once;
\* it stays a zombie until its parent reaps it.
Ends(p) ==
  [q \in Pids |->
     CASE q = p ->
            IF process[p].parent = Init1 THEN NoProcess ELSE [process[p] EXCEPT !.state = "zombie"]
       [] q # p /\ process[q].state = "running" /\ process[q].parent = p ->
            [process[q] EXCEPT !.parent = Init1]
       [] q # p /\ process[q].state = "zombie" /\ process[q].parent = p -> NoProcess
       [] OTHER -> process[q]]

ProcessEnds == \E p \in Running : Host(Ends(p))

ParentReaps ==
  \E p \in InUse :
    /\ process[p].state = "zombie"
    /\ process[p].parent \in Running
    /\ Host([process EXCEPT ![p] = NoProcess])

DrainDeadlinePasses ==
  /\ mainExited
  /\ drained' = TRUE
  /\ UNCHANGED <<process, childVars, pc, polling, capture, found>>

----------------------------------------------------------------------------
(* The manager: one system call a step *)

Doom(S) ==
  process' = [p \in Pids |-> IF p \in S \cap Running THEN [process[p] EXCEPT !.doomed = TRUE]
                             ELSE process[p]]

GroupOf(g) == {p \in InUse : process[p].group = g}

\* What of the table is in S or descends from it: the least set of entries that is closed.
DescendantsIn(entries, S) ==
  LET listed == {e.pid : e \in entries}
      Closed(T) == S \subseteq T /\ \A e \in entries : e.parent \in T => e.pid \in T
  IN  {p \in listed : \A T \in SUBSET listed : Closed(T) => p \in T}

\* Mutant: only the main process and its descendants are looked for.
MembersByParent(entries) == DescendantsIn(entries, {e.pid : e \in {e \in entries : e.pid = pid}})

\* ProcessTable::Members: the session, the main process, and their descendants.
MembersOf(entries) ==
  DescendantsIn(entries, {e.pid : e \in {e \in entries : e.session = pid \/ e.pid = pid}})

\* Mutant: the exit status is collected at once.
ReapMain ==
  IF process[pid].state = "zombie" THEN process' = [process EXCEPT ![pid] = NoProcess]
  ELSE UNCHANGED process

\* waitid with WNOWAIT leaves the zombie in place.
LeaveMain == UNCHANGED process

\* Poll, first call: has the main process ended?
PollMain ==
  /\ pc = "idle"
  /\ ~exited
  /\ mainExited \/ process[pid].state = "zombie"
  /\ LeaveMain
  /\ mainExited' = TRUE
  /\ pc' = "killGroup"
  /\ polling' = TRUE
  /\ UNCHANGED <<pid, cgroup, exited, drained, capture, found>>

\* Kill, of a stop that took too long, of a shutdown, or of the handle's end.
KillStarts ==
  /\ pc = "idle"
  /\ ~exited
  /\ pc' = "killGroup"
  /\ polling' = FALSE
  /\ UNCHANGED <<process, childVars, drained, capture, found>>

\* RequestStop signals the group too, and a process may heed it by ending, as it may anyway.

KillGroup ==
  /\ pc = "killGroup"
  /\ Doom(GroupOf(pid))
  /\ pc' = "readMembers"
  /\ UNCHANGED <<childVars, drained, polling, capture, found>>

\* With a cgroup one read tells its members.  With none left, or the time to wait for them over,
\* a poll collects the exit status.
ReadMembers ==
  /\ pc = "readMembers"
  /\ cgroup
  /\ pc' = IF Ours # {} THEN "killCgroup" ELSE "collect"
  /\ UNCHANGED <<process, childVars, drained, polling, capture, found>>

\* Without one, Capture lists /proc, one name after the other ...
BeginCapture ==
  /\ pc = "readMembers"
  /\ ~cgroup
  /\ pc' = "listPids"
  /\ unlisted' = Pids
  /\ unread' = {} /\ table' = {} /\ late' = {}
  /\ UNCHANGED <<process, childVars, drained, polling, found>>

ListPid ==
  /\ pc = "listPids"
  /\ \E p \in unlisted :
       /\ unlisted' = unlisted \ {p}
       /\ unread' = unread \cup ({p} \cap InUse)
  /\ pc' = IF unlisted' = {} THEN "readStats" ELSE "listPids"
  /\ UNCHANGED <<process, childVars, drained, polling, table, late, found>>

\* ... and then reads the entry of each, if it is still there; zombies count for nothing.
EntriesOf(p) ==
  IF p \in Running THEN {[pid |-> p, parent |-> process[p].parent, session |-> process[p].session]}
  ELSE {}

ReadStat ==
  /\ pc = "readStats"
  /\ \E p \in unread :
       /\ unread' = unread \ {p}
       /\ table' = table \cup EntriesOf(p)
  /\ UNCHANGED <<process, childVars, drained, pc, polling, unlisted, late, found>>

\* All are read: the members are those among the entries.
CaptureDone ==
  /\ pc = "readStats"
  /\ unread = {}
  /\ found' = MembersOf(table)
  /\ table' = {}
  /\ pc' = IF found' # {} THEN "killMembers" ELSE "collect"
  /\ UNCHANGED <<process, childVars, drained, polling, unlisted, unread, late>>

\* cgroup.kill reaches every process of the cgroup at once.
KillCgroup ==
  /\ pc = "killCgroup"
  /\ Doom(Ours)
  /\ pc' = "wait"
  /\ UNCHANGED <<childVars, drained, polling, capture, found>>

KillMember ==
  /\ pc = "killMembers"
  /\ \E p \in found :
       /\ Doom({p})
       /\ found' = found \ {p}
  /\ pc' = IF Cardinality(found) = 1 THEN "wait" ELSE "killMembers"
  /\ UNCHANGED <<childVars, drained, polling, capture>>

\* Mutant: the members left are waited for as long as it takes.
WaitForAll ==
  /\ pc = "wait"
  /\ pc' = "idle"
  /\ found' = {}
  /\ UNCHANGED <<process, childVars, drained, polling, capture>>

\* Members were left: this poll ends without a status, unless they have been waited for.
Wait ==
  /\ pc = "wait"
  /\ pc' = IF polling /\ drained THEN "collect" ELSE "idle"
  /\ found' = {}
  /\ UNCHANGED <<process, childVars, drained, polling, capture>>

\* A poll collects the status, and with it the process ID; a kill has done its work.
Collect ==
  /\ pc = "collect"
  /\ exited' = polling
  /\ process' = IF polling THEN [process EXCEPT ![pid] = NoProcess] ELSE process
  /\ pc' = "idle"
  /\ found' = {}
  /\ UNCHANGED <<pid, cgroup, mainExited, drained, polling, capture>>

Call ==
  \/ PollMain
  \/ KillGroup
  \/ ReadMembers
  \/ BeginCapture
  \/ ListPid
  \/ ReadStat
  \/ CaptureDone
  \/ KillCgroup
  \/ KillMember
  \/ Wait
  \/ Collect

Next ==
  \/ Fork
  \/ StrangerStarts
  \/ LeadGroup
  \/ LeadSession
  \/ ProcessEnds
  \/ ParentReaps
  \/ DrainDeadlinePasses
  \/ KillStarts
  \/ Call

Spec == Init /\ [][Next]_vars

\* A call returns; every tick polls, however often it kills; time passes.  No process has to die.
FairSpec == Spec /\ WF_vars(Call) /\ SF_vars(PollMain) /\ WF_vars(DrainDeadlinePasses)

----------------------------------------------------------------------------
(* Properties *)

\* Type correctness; until the status is collected the main process's ID is its own.
TypeOK ==
  /\ process \in [Pids -> Processes]
  /\ ~exited => process[pid].state # "free" /\ process[pid].ours
  /\ exited => mainExited
  /\ unlisted \cup unread \cup late \cup found \subseteq Pids
  /\ table \subseteq ProcessEntry

\* A signal to the process group never reaches a stranger: as long as the handle may signal the
\* group, to stop it or to kill it, the main process, running or a zombie, keeps the group's ID
\* from being reused.
GroupKillIsOurs == ~exited => \A p \in GroupOf(pid) : process[p].ours

\* A restart finds no old copy: the exit is reported only when no process of the service runs
\* any more, or those that outlive SIGKILL have been waited for.  Without a cgroup that is the
\* service's session, moved to other groups or not.  The code keeps one exception there: /proc is
\* listed and read name by name (posix/ProcessTable.cpp:20-25), and a process forked since the
\* listing began may be in none of what is read, its parent gone before its turn; the exit then
\* counts while that one runs.
ExitMeansGone ==
  [][ ~exited /\ exited' =>
        \/ drained
        \/ cgroup /\ Ours = {}
        \/ ~cgroup /\ \A p \in Running : process[p].session = pid => p \in late ]_vars

\* The end of the main process is reported in the end, whatever the rest of the service does.
ExitReported == mainExited ~> exited

=============================================================================
