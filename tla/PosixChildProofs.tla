--------------------------- MODULE PosixChildProofs ---------------------------
(***************************************************************************)
(* Proofs about the process handle: on a host with any process IDs, the    *)
(* signals to its process group reach no stranger.                         *)
(***************************************************************************)
EXTENDS PosixChild, TLAPS

InUseEntries ==
  [state : {"running", "zombie"}, ours : BOOLEAN, doomed : BOOLEAN,
   parent : Pids \cup {Init1, Manager}, group : Pids, session : Pids]

\* Until the status is collected, the main process, running or a zombie, has its ID.  It is nobody's
\* to reap but the manager's.
MainIsThere ==
  process[pid].state # "free" /\ process[pid].ours /\ process[pid].parent = Manager

\* No stranger is in its group: who joins a group is forked into it or leads one of its own.
GroupIsOurs == \A p \in Pids : process[p].state # "free" /\ process[p].group = pid => process[p].ours

IInv ==
  /\ process \in [Pids -> Processes]
  /\ pid \in Pids
  /\ ~exited => MainIsThere /\ GroupIsOurs

\* Within a call the handle has no exit status: a call makes its system calls only until then.
CallInv ==
  /\ polling \in BOOLEAN
  /\ pc \in {"idle", "killGroup", "readMembers", "listPids", "readStats", "killCgroup", "killMembers",
             "wait", "collect"}
  /\ pc # "idle" => ~exited

\* What is in use has every field.
LEMMA InUseEntry ==
  ASSUME process \in [Pids -> Processes], NEW p \in Pids, process[p].state # "free"
  PROVE  process[p] \in InUseEntries
  BY DEF Processes, InUseEntries, NoProcess

\* The converse.
LEMMA EntryInProcesses == ASSUME NEW e \in InUseEntries PROVE e \in Processes /\ e.state # "free"
  BY DEF Processes, InUseEntries

\* A process ID that is given out is not the main process's.
LEMMA FreeIsNotMain ==
  ASSUME IInv, ~exited, NEW q \in Free
  PROVE  q \in Pids /\ q # pid
  BY DEF IInv, MainIsThere, Free, InUse

\* The steps that leave the processes alone, and do not give the handle back.
LEMMA ProcessUnchanged ==
  ASSUME IInv, UNCHANGED <<process, pid>>, ~exited' => ~exited
  PROVE  IInv'
<1>1. CASE exited'
  BY <1>1 DEF IInv
<1>2. CASE ~exited'
  BY <1>2 DEF IInv, MainIsThere, GroupIsOurs
<1> QED
  BY <1>1, <1>2

\* A launch leaves the main process alone in a group of its own.
LEMMA InitIInv == Init => IInv
<1> SUFFICES ASSUME Init PROVE IInv
  OBVIOUS
<1> DEFINE main == [state |-> "running", ours |-> TRUE, doomed |-> FALSE,
                    parent |-> Manager, group |-> pid, session |-> pid]
<1>1. main \in Processes /\ NoProcess \in Processes
  BY DEF Init, Processes
<1>2. process = [p \in Pids |-> IF p = pid THEN main ELSE NoProcess]
  BY DEF Init
<1>3. pid \in Pids
  BY DEF Init
<1>4. process \in [Pids -> Processes]
  BY <1>1, <1>2
<1>5. MainIsThere
  BY <1>2, <1>3 DEF MainIsThere
<1>6. GroupIsOurs
  BY <1>2, <1>3 DEF GroupIsOurs, NoProcess
<1> QED
  BY <1>3, <1>4, <1>5, <1>6 DEF IInv

\* A process forks: its child is in its group, and its kind.
LEMMA ForkIInv == ASSUME IInv, Fork PROVE IInv'
<1>1. PICK p \in Running, q \in Free :
        /\ process' = [process EXCEPT ![q] = [process[p] EXCEPT !.parent = p]]
        /\ UNCHANGED childVars
  BY DEF Fork, HostAlone
<1>2. p \in Pids /\ q \in Pids /\ process[p] \in InUseEntries
  BY <1>1, InUseEntry DEF IInv, Running, Free
<1> DEFINE e == [process[p] EXCEPT !.parent = p]
<1>3. /\ e \in InUseEntries
      /\ e.group = process[p].group
      /\ e.ours = process[p].ours
  BY <1>2 DEF InUseEntries
<1>4. process' \in [Pids -> Processes]
  BY <1>1, <1>2, <1>3, EntryInProcesses DEF IInv
<1>5. ASSUME ~exited PROVE MainIsThere' /\ GroupIsOurs'
  <2>1. q # pid
    BY <1>1, <1>5, FreeIsNotMain
  <2>2. /\ pid' = pid
        /\ process'[q] = e
        /\ \A r \in Pids : r # q => process'[r] = process[r]
    BY <1>1, <1>2 DEF IInv, childVars
  <2>3. MainIsThere'
    BY <1>5, <2>1, <2>2 DEF IInv, MainIsThere
  <2>4. e.group = pid => e.ours
    BY <1>2, <1>3, <1>5 DEF IInv, GroupIsOurs, InUseEntries
  <2>5. GroupIsOurs'
    BY <1>5, <2>2, <2>4 DEF IInv, GroupIsOurs
  <2> QED
    BY <2>3, <2>5
<1> QED
  BY <1>1, <1>4, <1>5 DEF IInv, childVars

\* A stranger leads a group of its own.
LEMMA StrangerStartsIInv == ASSUME IInv, StrangerStarts PROVE IInv'
<1>1. PICK q \in Free :
        /\ process' = [process EXCEPT ![q] = [state |-> "running", ours |-> FALSE, doomed |-> FALSE,
                                              parent |-> Init1, group |-> q, session |-> q]]
        /\ UNCHANGED childVars
  BY DEF StrangerStarts, Host, HostAlone
<1> DEFINE e == [state |-> "running", ours |-> FALSE, doomed |-> FALSE,
                 parent |-> Init1, group |-> q, session |-> q]
<1>2. q \in Pids /\ e \in InUseEntries
  BY DEF Free, InUseEntries
<1>3. process' \in [Pids -> Processes]
  BY <1>1, <1>2, EntryInProcesses DEF IInv
<1>4. ASSUME ~exited PROVE MainIsThere' /\ GroupIsOurs'
  <2>1. q # pid
    BY <1>1, <1>4, FreeIsNotMain
  <2>2. /\ pid' = pid
        /\ process'[q] = e
        /\ \A r \in Pids : r # q => process'[r] = process[r]
    BY <1>1, <1>2 DEF IInv, childVars
  <2>3. MainIsThere'
    BY <1>4, <2>1, <2>2 DEF IInv, MainIsThere
  <2>4. GroupIsOurs'
    BY <1>4, <2>1, <2>2 DEF IInv, GroupIsOurs
  <2> QED
    BY <2>3, <2>4
<1> QED
  BY <1>1, <1>3, <1>4 DEF IInv, childVars

\* One of the service's processes moves to a group of its own.
LEMMA MoveIInv ==
  ASSUME IInv, NEW p \in Ours, NEW e,
         e = [process[p] EXCEPT !.group = p] \/ e = [process[p] EXCEPT !.group = p, !.session = p],
         process' = [process EXCEPT ![p] = e], UNCHANGED childVars
  PROVE  IInv'
<1>1. p \in Pids /\ process[p] \in InUseEntries /\ process[p].ours
  BY InUseEntry DEF IInv, Ours, Running
<1>2. e \in InUseEntries /\ e.ours = process[p].ours /\ e.parent = process[p].parent
  BY <1>1 DEF InUseEntries
<1>3. process' \in [Pids -> Processes]
  BY <1>1, <1>2, EntryInProcesses DEF IInv
<1>4. /\ pid' = pid
      /\ process'[p] = e
      /\ \A r \in Pids : r # p => process'[r] = process[r]
  BY <1>1 DEF IInv, childVars
<1>5. ASSUME ~exited PROVE MainIsThere' /\ GroupIsOurs'
  <2>1. MainIsThere'
    BY <1>2, <1>4, <1>5, EntryInProcesses DEF IInv, MainIsThere
  <2>2. GroupIsOurs'
    BY <1>1, <1>2, <1>4, <1>5 DEF IInv, GroupIsOurs
  <2> QED
    BY <2>1, <2>2
<1> QED
  BY <1>3, <1>5 DEF IInv, childVars

\* A process that ends stays until its parent reaps it; orphans change their parent only.
LEMMA EndsIInv == ASSUME IInv, NEW p \in Running, Host(Ends(p)) PROVE IInv'
<1>1. p \in Pids /\ process' = Ends(p) /\ UNCHANGED childVars
  BY DEF Running, Host, HostAlone
<1>2. ASSUME NEW q \in Pids
      PROVE  /\ process'[q] \in Processes
             /\ process'[q].state # "free" =>
                  /\ process[q].state # "free"
                  /\ process'[q].group = process[q].group
                  /\ process'[q].ours = process[q].ours
             /\ process[q].parent = Manager /\ process[q].state # "free" =>
                  process'[q].state # "free" /\ process'[q].parent = Manager
  <2>1. process[q] \in Processes
    BY DEF IInv
  <2>2. CASE process[q].state = "free"
    <3>1. q # p
      BY <2>2 DEF Running
    <3>2. process'[q] = process[q]
      BY <1>1, <2>2, <3>1 DEF Ends
    <3> QED
      BY <2>1, <2>2, <3>2
  <2>3. CASE process[q].state # "free"
    <3>1. process[q] \in InUseEntries
      BY <2>3, InUseEntry DEF IInv
    <3>2. process'[q] = CASE q = p -> IF process[p].parent = Init1 THEN NoProcess
                                      ELSE [process[p] EXCEPT !.state = "zombie"]
                          [] q # p /\ process[q].state = "running" /\ process[q].parent = p ->
                               [process[q] EXCEPT !.parent = Init1]
                          [] q # p /\ process[q].state = "zombie" /\ process[q].parent = p -> NoProcess
                          [] OTHER -> process[q]
      BY <1>1 DEF Ends
    <3>3. p # Manager /\ Init1 # Manager
      BY <1>1, PidsAssumption
    <3>4. CASE q = p
      BY <3>1, <3>2, <3>3, <3>4 DEF InUseEntries, Processes, NoProcess
    <3>5. CASE q # p /\ process[q].parent = p
      BY <3>1, <3>2, <3>3, <3>5 DEF InUseEntries, Processes, NoProcess
    <3>6. CASE q # p /\ process[q].parent # p
      BY <2>1, <2>3, <3>2, <3>6
    <3> QED
      BY <3>4, <3>5, <3>6
  <2> QED
    BY <2>2, <2>3
<1>3. process' \in [Pids -> Processes]
  BY <1>1, <1>2 DEF Ends
<1>4. ASSUME ~exited PROVE MainIsThere' /\ GroupIsOurs'
  <2>1. pid' = pid /\ pid \in Pids
    BY <1>1 DEF IInv, childVars
  <2>2. MainIsThere'
    BY <1>2, <1>4, <2>1 DEF IInv, MainIsThere
  <2>3. GroupIsOurs'
    BY <1>2, <1>4, <2>1 DEF IInv, GroupIsOurs
  <2> QED
    BY <2>2, <2>3
<1> QED
  BY <1>1, <1>3, <1>4 DEF IInv, childVars

\* A process reaps a child, never the main process, whose parent is the manager.
LEMMA ParentReapsIInv == ASSUME IInv, ParentReaps PROVE IInv'
<1>1. PICK p \in Pids : /\ process[p].parent \in Running
                        /\ process' = [process EXCEPT ![p] = NoProcess]
                        /\ UNCHANGED childVars
  BY DEF ParentReaps, Host, HostAlone, InUse
<1>2. process' \in [Pids -> Processes]
  BY <1>1 DEF IInv, Processes
<1>3. ASSUME ~exited PROVE MainIsThere' /\ GroupIsOurs'
  <2>1. p # pid
    BY <1>1, <1>3, PidsAssumption DEF IInv, MainIsThere, Running
  <2>2. /\ pid' = pid
        /\ process'[p] = NoProcess
        /\ \A r \in Pids : r # p => process'[r] = process[r]
    BY <1>1 DEF IInv, childVars
  <2>3. MainIsThere'
    BY <1>3, <2>1, <2>2 DEF IInv, MainIsThere
  <2>4. GroupIsOurs'
    BY <1>3, <2>2 DEF IInv, GroupIsOurs, NoProcess
  <2> QED
    BY <2>3, <2>4
<1> QED
  BY <1>1, <1>2, <1>3 DEF IInv, childVars

\* Signals take no process away.
LEMMA DoomIInv == ASSUME IInv, NEW S, Doom(S), UNCHANGED childVars PROVE IInv'
<1>1. ASSUME NEW q \in Pids
      PROVE  /\ process'[q] \in Processes
             /\ process'[q].state = process[q].state
             /\ process[q].state # "free" =>
                  /\ process'[q].group = process[q].group
                  /\ process'[q].ours = process[q].ours
                  /\ process'[q].parent = process[q].parent
  <2>1. process[q] \in Processes
    BY DEF IInv
  <2>2. CASE q \in S \cap Running
    <3>1. process[q] \in InUseEntries
      BY <2>2, InUseEntry DEF IInv, Running
    <3>2. process'[q] = [process[q] EXCEPT !.doomed = TRUE]
      BY <2>2 DEF Doom
    <3> QED
      BY <3>1, <3>2, EntryInProcesses DEF InUseEntries
  <2>3. CASE q \notin S \cap Running
    BY <2>1, <2>3 DEF Doom
  <2> QED
    BY <2>2, <2>3
<1>2. process' \in [Pids -> Processes]
  BY <1>1 DEF Doom
<1>3. ASSUME ~exited PROVE MainIsThere' /\ GroupIsOurs'
  <2>1. pid' = pid /\ pid \in Pids
    BY DEF IInv, childVars
  <2>2. MainIsThere'
    BY <1>1, <1>3, <2>1 DEF IInv, MainIsThere
  <2>3. GroupIsOurs'
    BY <1>1, <1>3, <2>1 DEF IInv, GroupIsOurs
  <2> QED
    BY <2>2, <2>3
<1> QED
  BY <1>2, <1>3 DEF IInv, childVars

\* A poll that collects the status gives the handle back; a kill changes nothing.
LEMMA CollectIInv == ASSUME IInv, CallInv, Collect PROVE IInv'
<1>1. CASE polling
  <2>1. exited' /\ pid' = pid /\ process' = [process EXCEPT ![pid] = NoProcess]
    BY <1>1 DEF Collect
  <2>2. process' \in [Pids -> Processes]
    BY <2>1 DEF IInv, Processes
  <2> QED
    BY <2>1, <2>2 DEF IInv
<1>2. CASE ~polling
  <2>1. UNCHANGED <<process, pid>>
    BY <1>2 DEF Collect
  <2>2. ~exited
    BY DEF CallInv, Collect
  <2> QED
    BY <2>1, <2>2, ProcessUnchanged
<1> QED
  BY <1>1, <1>2 DEF CallInv

----------------------------------------------------------------------------
(* The specification *)

\* The places of a call, and that only a handle without a status begins one.
LEMMA CallInvariant == Spec => []CallInv
<1>1. Init => CallInv
  BY DEF Init, CallInv
<1>2. CallInv /\ [Next]_vars => CallInv'
  <2> SUFFICES ASSUME CallInv, [Next]_vars PROVE CallInv'
    OBVIOUS
  <2>1. ASSUME UNCHANGED <<exited, pc, polling>> PROVE CallInv'
    BY <2>1 DEF CallInv
  <2>2. CASE Fork \/ StrangerStarts \/ LeadGroup \/ LeadSession \/ ProcessEnds \/ ParentReaps
    BY <2>1, <2>2 DEF Fork, StrangerStarts, LeadGroup, LeadSession, ProcessEnds, ParentReaps, Host, HostAlone,
                      childVars
  <2>3. CASE DrainDeadlinePasses
    BY <2>1, <2>3 DEF DrainDeadlinePasses, childVars
  <2>4. CASE KillStarts
    BY <2>4 DEF KillStarts, CallInv, childVars
  <2>5. CASE PollMain
    BY <2>5 DEF PollMain, CallInv
  <2>6. CASE \/ KillGroup \/ ReadMembers \/ BeginCapture \/ ListPid \/ ReadStat \/ CaptureDone
             \/ KillCgroup \/ KillMember \/ Wait
    BY <2>6 DEF KillGroup, ReadMembers, BeginCapture, ListPid, ReadStat, CaptureDone, KillCgroup,
                KillMember, Wait, CallInv, childVars
  <2>7. CASE Collect
    BY <2>7 DEF Collect, CallInv
  <2>8. CASE UNCHANGED vars
    BY <2>1, <2>8 DEF vars, childVars
  <2> QED
    BY <2>2, <2>3, <2>4, <2>5, <2>6, <2>7, <2>8 DEF Next, Call
<1> QED
  BY <1>1, <1>2, PTL DEF Spec

\* Every state has the inductive invariant.
LEMMA ProcessInvariant == Spec => []IInv
<1>1. Init => IInv
  BY InitIInv
<1>2. IInv /\ CallInv /\ [Next]_vars => IInv'
  <2> SUFFICES ASSUME IInv, CallInv, [Next]_vars PROVE IInv'
    OBVIOUS
  <2>1. CASE Fork
    BY <2>1, ForkIInv
  <2>2. CASE StrangerStarts
    BY <2>2, StrangerStartsIInv
  <2>3. CASE LeadGroup
    <3>1. PICK p \in Ours : Host([process EXCEPT ![p].group = p])
      BY <2>3 DEF LeadGroup
    <3>2. process' = [process EXCEPT ![p] = [process[p] EXCEPT !.group = p]] /\ UNCHANGED childVars
      BY <3>1 DEF Host, HostAlone
    <3> QED
      BY <3>2, MoveIInv
  <2>4. CASE LeadSession
    <3>1. PICK p \in Ours : Host([process EXCEPT ![p].group = p, ![p].session = p])
      BY <2>4 DEF LeadSession
    <3>2. process' = [process EXCEPT ![p] = [process[p] EXCEPT !.group = p, !.session = p]]
      BY <3>1 DEF Host, HostAlone, IInv, Ours, Running
    <3> QED
      BY <3>1, <3>2, MoveIInv DEF Host, HostAlone
  <2>5. CASE ProcessEnds
    BY <2>5, EndsIInv DEF ProcessEnds
  <2>6. CASE ParentReaps
    BY <2>6, ParentReapsIInv
  <2>7. CASE DrainDeadlinePasses
    BY <2>7, ProcessUnchanged DEF DrainDeadlinePasses, childVars
  <2>8. CASE KillStarts
    BY <2>8, ProcessUnchanged DEF KillStarts, childVars
  <2>9. CASE PollMain
    BY <2>9, ProcessUnchanged DEF PollMain, LeaveMain
  <2>10. CASE KillGroup
    BY <2>10, DoomIInv DEF KillGroup
  <2>11. CASE ReadMembers \/ BeginCapture \/ ListPid \/ ReadStat \/ CaptureDone
    BY <2>11, ProcessUnchanged DEF ReadMembers, BeginCapture, ListPid, ReadStat, CaptureDone, childVars
  <2>12. CASE KillCgroup
    BY <2>12, DoomIInv DEF KillCgroup
  <2>13. CASE KillMember
    BY <2>13, DoomIInv DEF KillMember
  <2>14. CASE Wait
    BY <2>14, ProcessUnchanged DEF Wait, childVars
  <2>15. CASE Collect
    BY <2>15, CollectIInv
  <2>16. CASE UNCHANGED vars
    BY <2>16, ProcessUnchanged DEF vars, childVars
  <2> QED
    BY <2>1, <2>2, <2>3, <2>4, <2>5, <2>6, <2>7, <2>8, <2>9, <2>10, <2>11, <2>12, <2>13, <2>14,
       <2>15, <2>16 DEF Next, Call
<1> QED
  BY <1>1, <1>2, CallInvariant, PTL DEF Spec

\* On a host with any process IDs, however processes fork, move and die between two system calls,
\* whatever is in the group the handle may signal belongs to the service.
THEOREM GroupSignalsHitOurs == Spec => []GroupKillIsOurs
<1>1. IInv => GroupKillIsOurs
  BY DEF IInv, GroupIsOurs, GroupKillIsOurs, GroupOf, InUse
<1> QED
  BY <1>1, ProcessInvariant, PTL

----------------------------------------------------------------------------
(* An exit that is reported *)

\* One of the session, or the main process itself.
OfSession(p) == p = pid \/ process[p].session = pid

\* What of the session runs is late, or its entry is yet to be read, or one like it was read.
SeenOrLate(unseen, entries) ==
  \A p \in Pids : process[p].state = "running" /\ OfSession(p) =>
    \/ p \in late \cup unseen
    \/ \E e \in entries : e.session = pid \/ e.pid = pid

\* Nothing of the service runs any more, as far as the manager can tell the service's processes:
\* by the cgroup, or else by the main process's session.
Gone ==
  IF cgroup THEN \A p \in Pids : process[p].state = "running" => ~process[p].ours
  ELSE SeenOrLate({}, {})

\* A capture that goes on misses only the late; and when the status is about to be collected,
\* nothing is left, or what is left has been waited for.
CollectInv ==
  /\ pc \in {"listPids", "readStats"} => ~cgroup /\ SeenOrLate(unlisted \cup unread, table)
  /\ pc = "readStats" => unlisted = {}
  /\ pc = "collect" => drained \/ Gone

\* An entry of the session, or of the main process, is a member.
LEMMA MembersAreFound ==
  ASSUME NEW entries, NEW e \in entries, e.session = pid \/ e.pid = pid
  PROVE  MembersOf(entries) # {}
<1> DEFINE roots == {f.pid : f \in {f \in entries : f.session = pid \/ f.pid = pid}}
<1>1. e.pid \in roots /\ e.pid \in {f.pid : f \in entries}
  OBVIOUS
<1> HIDE DEF roots
<1>2. e.pid \in DescendantsIn(entries, roots)
  BY <1>1 DEF DescendantsIn
<1> QED
  BY <1>2 DEF MembersOf, roots

\* What the host may do between two steps of the handle.
HostActs == Fork \/ StrangerStarts \/ LeadGroup \/ LeadSession \/ ProcessEnds \/ ParentReaps

\* Whoever runs after a step of the host ran before it, or was forked by one who did, or is a
\* stranger who leads a session of its own: the main process's ID is not given out again before
\* the status is collected.
LEMMA HostDoes ==
  ASSUME IInv, ~exited, HostActs, NEW r \in Pids, process'[r].state = "running"
  PROVE  \/ /\ process[r].state = "running" /\ process'[r].ours = process[r].ours
            /\ OfSession(r)' => OfSession(r)
         \/ /\ Capturing => r \in late'
            /\ \E p \in Pids : process[p].state = "running" /\ process'[r].ours = process[p].ours
         \/ ~process'[r].ours /\ ~OfSession(r)'
<1>1. process \in [Pids -> Processes] /\ pid' = pid
  BY DEF IInv, HostActs, Fork, StrangerStarts, LeadGroup, LeadSession, ProcessEnds, ParentReaps,
         Host, HostAlone, childVars
<1>2. ASSUME process'[r] = process[r]
      PROVE  /\ process[r].state = "running" /\ process'[r].ours = process[r].ours
             /\ OfSession(r)' => OfSession(r)
  BY <1>1, <1>2 DEF OfSession
<1>3. CASE Fork
  <2>1. PICK p \in Running, q \in Free : /\ process' = [process EXCEPT ![q] = [process[p] EXCEPT !.parent = p]]
                                        /\ late' = IF Capturing THEN late \cup {q} ELSE late
    BY <1>3 DEF Fork
  <2>2. p \in Pids /\ q \in Pids /\ process[p] \in InUseEntries /\ process[p].state = "running"
    BY InUseEntry DEF IInv, Running, Free
  <2>3. CASE r = q
    <3> DEFINE e == [process[p] EXCEPT !.parent = p]
    <3>1. e.ours = process[p].ours
      BY <2>2 DEF InUseEntries
    <3>2. process'[r] = e
      BY <1>1, <2>1, <2>2, <2>3
    <3> HIDE DEF e
    <3>3. process'[r].ours = process[p].ours
      BY <3>1, <3>2
    <3>4. Capturing => r \in late'
      BY <2>1, <2>3
    <3> QED BY <2>2, <3>3, <3>4
  <2>4. CASE r # q
    BY <1>1, <1>2, <2>1, <2>4
  <2> QED BY <2>3, <2>4
<1>4. CASE StrangerStarts
  <2>1. PICK q \in Free :
          process' = [process EXCEPT ![q] = [state |-> "running", ours |-> FALSE, doomed |-> FALSE,
                                             parent |-> Init1, group |-> q, session |-> q]]
    BY <1>4 DEF StrangerStarts, Host
  <2>2. q \in Pids /\ q # pid
    BY FreeIsNotMain
  <2>3. CASE r = q
    BY <1>1, <2>1, <2>2, <2>3 DEF OfSession
  <2>4. CASE r # q
    BY <1>1, <1>2, <2>1, <2>4
  <2> QED BY <2>3, <2>4
<1>5. CASE LeadGroup \/ LeadSession
  <2>1. PICK p \in Ours :
          \/ process' = [process EXCEPT ![p] = [process[p] EXCEPT !.group = p]]
          \/ process' = [process EXCEPT ![p] = [process[p] EXCEPT !.group = p, !.session = p]]
    <3>1. CASE LeadGroup
      BY <3>1 DEF LeadGroup, Host
    <3>2. CASE LeadSession
      <4>1. PICK p \in Ours : process' = [process EXCEPT ![p].group = p, ![p].session = p]
        BY <3>2 DEF LeadSession, Host
      <4>2. process' = [process EXCEPT ![p] = [process[p] EXCEPT !.group = p, !.session = p]]
        BY <1>1, <4>1 DEF Ours, Running
      <4> QED BY <4>2
    <3> QED BY <1>5, <3>1, <3>2
  <2>2. p \in Pids /\ process[p].state = "running" /\ process[p].ours /\ process[p] \in InUseEntries
    BY InUseEntry DEF IInv, Ours, Running
  <2>3. CASE r = p
    <3>1. /\ process'[r].session = process[p].session \/ process'[r].session = p
          /\ process'[r].ours = process[p].ours
      BY <1>1, <2>1, <2>2, <2>3 DEF InUseEntries
    <3>2. OfSession(r)' => OfSession(r)
      BY <1>1, <2>3, <3>1 DEF OfSession
    <3> QED BY <2>2, <2>3, <3>1, <3>2
  <2>4. CASE r # p
    BY <1>1, <1>2, <2>1, <2>4
  <2> QED BY <2>3, <2>4
<1>6. CASE ProcessEnds
  <2>1. PICK p \in Running : process' = Ends(p)
    BY <1>6 DEF ProcessEnds, Host
  <2>2. process[r] \in Processes /\ p \in Pids
    BY <1>1 DEF Running
  <2>3. process'[r] = CASE r = p -> IF process[p].parent = Init1 THEN NoProcess
                                    ELSE [process[p] EXCEPT !.state = "zombie"]
                        [] r # p /\ process[r].state = "running" /\ process[r].parent = p ->
                             [process[r] EXCEPT !.parent = Init1]
                        [] r # p /\ process[r].state = "zombie" /\ process[r].parent = p -> NoProcess
                        [] OTHER -> process[r]
    BY <2>1 DEF Ends
  <2>4. CASE r = p
    <3>1. process[p] \in InUseEntries
      BY <2>1, InUseEntry DEF IInv, Running
    <3>2. process'[r].state # "running"
      BY <2>3, <2>4, <3>1 DEF InUseEntries, NoProcess
    <3> QED BY <3>2
  <2>5. CASE r # p /\ process[r].state = "running" /\ process[r].parent = p
    <3>1. process[r] \in InUseEntries
      BY <2>5, InUseEntry DEF IInv
    <3>2. process'[r] = [process[r] EXCEPT !.parent = Init1]
      BY <2>3, <2>5
    <3>3. process'[r].ours = process[r].ours /\ process'[r].session = process[r].session
      BY <3>1, <3>2 DEF InUseEntries
    <3> QED BY <1>1, <2>5, <3>3 DEF OfSession
  <2>6. CASE r # p /\ process[r].state = "zombie" /\ process[r].parent = p
    BY <2>3, <2>6 DEF NoProcess
  <2>7. CASE r # p /\ ~(process[r].parent = p /\ process[r].state \in {"running", "zombie"})
    <3>1. process'[r] = process[r]
      BY <2>3, <2>7, Zenon
    <3> QED BY <1>2, <3>1
  <2> QED BY <2>4, <2>5, <2>6, <2>7
<1>7. CASE ParentReaps
  <2>1. PICK p \in Pids : process' = [process EXCEPT ![p] = NoProcess]
    BY <1>7 DEF ParentReaps, Host, InUse
  <2>2. CASE r = p
    BY <1>1, <2>1, <2>2 DEF NoProcess
  <2>3. CASE r # p
    BY <1>1, <1>2, <2>1, <2>3
  <2> QED BY <2>2, <2>3
<1> QED BY <1>3, <1>4, <1>5, <1>6, <1>7 DEF HostActs

\* A step of the host leaves the manager alone, and forgets nothing that is late.
LEMMA HostIsApart ==
  ASSUME HostActs
  PROVE  /\ UNCHANGED <<pid, cgroup, exited, drained, pc, unlisted, unread, table>>
         /\ late \subseteq late'
  BY DEF HostActs, Fork, StrangerStarts, LeadGroup, LeadSession, ProcessEnds, ParentReaps,
         Host, HostAlone, childVars

\* While it captures, whoever is forked is late, so none is missed that was not before.
LEMMA HostKeepsSeen ==
  ASSUME IInv, ~exited, HostActs, Capturing, NEW unseen, NEW entries, SeenOrLate(unseen, entries)
  PROVE  SeenOrLate(unseen, entries)'
<1>1. pid' = pid /\ late \subseteq late'
  BY HostIsApart
<1> SUFFICES ASSUME NEW r \in Pids, process'[r].state = "running", OfSession(r)'
             PROVE  r \in late' \cup unseen \/ \E e \in entries : e.session = pid \/ e.pid = pid
  BY <1>1 DEF SeenOrLate
<1>2. (process[r].state = "running" /\ OfSession(r)) \/ r \in late'
  BY HostDoes
<1> QED BY <1>1, <1>2 DEF SeenOrLate

\* What is gone stays gone: nobody in the cgroup is left to fork, and in the session only the late.
LEMMA GoneStays ==
  ASSUME IInv, ~exited, HostActs, pc = "collect", Gone
  PROVE  Gone'
<1>1. cgroup' = cgroup
  BY HostIsApart
<1>2. CASE cgroup
  <2> SUFFICES ASSUME NEW r \in Pids, process'[r].state = "running" PROVE ~process'[r].ours
    BY <1>1, <1>2 DEF Gone
  <2> QED BY <1>2, HostDoes DEF Gone
<1>3. CASE ~cgroup
  <2>1. SeenOrLate({}, {})'
    BY <1>3, HostKeepsSeen DEF Gone, Capturing
  <2> QED BY <1>1, <1>3, <2>1 DEF Gone
<1> QED BY <1>2, <1>3

\* Every state has it: a capture misses only the late, and so does the collecting.
LEMMA AlwaysCollectInv == Spec => []CollectInv
<1>1. Init => CollectInv
  BY DEF Init, CollectInv
<1>2. IInv /\ CallInv /\ CollectInv /\ [Next]_vars => CollectInv'
  <2> SUFFICES ASSUME IInv, CallInv, CollectInv, [Next]_vars PROVE CollectInv'
    OBVIOUS
  <2>1. CASE HostActs
    <3>1. UNCHANGED <<cgroup, drained, pc, unlisted, unread, table>>
      BY <2>1, HostIsApart
    <3>2. pc # "idle" => ~exited
      BY DEF CallInv
    <3>3. ASSUME pc \in {"listPids", "readStats"} PROVE SeenOrLate(unlisted \cup unread, table)'
      <4> DEFINE unseen == unlisted \cup unread
      <4>1. ~exited /\ Capturing /\ SeenOrLate(unseen, table)
        BY <3>2, <3>3 DEF CollectInv, Capturing
      <4>2. ASSUME NEW u, NEW t, SeenOrLate(u, t) PROVE SeenOrLate(u, t)'
        BY <2>1, <4>1, <4>2, HostKeepsSeen
      <4>3. \A p \in Pids : process'[p].state = "running" /\ OfSession(p)' =>
              \/ p \in late' \cup unseen
              \/ \E e \in table : e.session = pid' \/ e.pid = pid'
        BY <4>1, <4>2 DEF SeenOrLate
      <4> QED BY <3>1, <4>3 DEF SeenOrLate
    <3>4. ASSUME pc = "collect" PROVE (drained \/ Gone)'
      BY <2>1, <3>1, <3>2, <3>4, GoneStays DEF CollectInv
    <3> QED BY <3>1, <3>3, <3>4 DEF CollectInv
  <2>2. CASE DrainDeadlinePasses \/ UNCHANGED vars
    BY <2>2 DEF DrainDeadlinePasses, vars, childVars, capture, CollectInv, SeenOrLate, OfSession, Gone
  <2>3. CASE KillStarts \/ PollMain \/ KillGroup \/ KillCgroup \/ KillMember
    BY <2>3 DEF KillStarts, PollMain, KillGroup, KillCgroup, KillMember, CollectInv
  <2>4. CASE ReadMembers
    <3>1. Ours = {} => Gone'
      BY <2>4 DEF ReadMembers, Gone, Ours, Running, childVars
    <3> QED BY <2>4, <3>1 DEF ReadMembers, CollectInv
  <2>5. CASE BeginCapture
    <3>1. unlisted' = Pids /\ ~cgroup' /\ pc' = "listPids"
      BY <2>5 DEF BeginCapture, childVars
    <3> QED BY <3>1 DEF CollectInv, SeenOrLate
  <2>6. CASE ListPid
    <3>1. PICK q \in unlisted : unlisted' = unlisted \ {q} /\ unread' = unread \cup ({q} \cap InUse)
      BY <2>6 DEF ListPid
    <3>2. UNCHANGED <<process, pid, cgroup, table, late>>
      BY <2>6 DEF ListPid, childVars
    <3>3. pc = "listPids" /\ pc' \in {"listPids", "readStats"} /\ (pc' = "readStats" => unlisted' = {})
      BY <2>6 DEF ListPid
    <3>4. \A p \in Pids : process[p].state = "running" => (p \in unlisted \cup unread => p \in unlisted' \cup unread')
      BY <3>1 DEF InUse
    <3>5. SeenOrLate(unlisted \cup unread, table)'
      BY <3>2, <3>3, <3>4 DEF CollectInv, SeenOrLate, OfSession
    <3> QED BY <3>2, <3>3, <3>5 DEF CollectInv
  <2>7. CASE ReadStat
    <3>1. PICK q \in unread : unread' = unread \ {q} /\ table' = table \cup EntriesOf(q)
      BY <2>7 DEF ReadStat
    <3>2. UNCHANGED <<process, pid, cgroup, unlisted, late>> /\ pc = "readStats" /\ pc' = "readStats"
      BY <2>7 DEF ReadStat, childVars
    <3>3. ASSUME NEW p \in Pids, process[p].state = "running", OfSession(p), p = q
          PROVE  \E e \in table' : e.session = pid \/ e.pid = pid
      <4> DEFINE e == [pid |-> q, parent |-> process[q].parent, session |-> process[q].session]
      <4>1. e \in table'
        BY <3>1, <3>3 DEF EntriesOf, Running
      <4>2. e.session = pid \/ e.pid = pid
        BY <3>3 DEF OfSession
      <4> QED BY <4>1, <4>2
    <3>4. SeenOrLate(unlisted \cup unread, table)'
      <4> SUFFICES ASSUME NEW p \in Pids, process[p].state = "running", OfSession(p)
                   PROVE  \/ p \in late \cup unlisted \cup unread'
                          \/ \E e \in table' : e.session = pid \/ e.pid = pid
        BY <3>2 DEF SeenOrLate, OfSession
      <4>1. p \in late \cup unlisted \cup unread \/ \E e \in table : e.session = pid \/ e.pid = pid
        BY <3>2 DEF CollectInv, SeenOrLate
      <4>2. CASE p = q
        BY <3>3, <4>2
      <4>3. CASE p # q
        BY <3>1, <4>1, <4>3
      <4> QED BY <4>2, <4>3
    <3> QED BY <3>2, <3>4 DEF CollectInv
  <2>8. CASE CaptureDone
    <3>1. /\ UNCHANGED <<process, pid, cgroup, late>> /\ pc' \in {"killMembers", "collect"}
          /\ pc' = "collect" => MembersOf(table) = {}
      BY <2>8 DEF CaptureDone, childVars
    <3>2. ~cgroup /\ SeenOrLate({}, table)
      BY <2>8 DEF CaptureDone, CollectInv, SeenOrLate
    <3>3. pc' = "collect" => SeenOrLate({}, {})
      BY <3>1, <3>2, MembersAreFound DEF SeenOrLate
    <3> QED BY <3>1, <3>2, <3>3 DEF CollectInv, Gone, SeenOrLate, OfSession
  <2>9. CASE Wait
    BY <2>9 DEF Wait, CollectInv
  <2>10. CASE Collect
    BY <2>10 DEF Collect, CollectInv
  <2> QED BY <2>1, <2>2, <2>3, <2>4, <2>5, <2>6, <2>7, <2>8, <2>9, <2>10 DEF Next, Call, HostActs
<1> QED BY <1>1, <1>2, CallInvariant, ProcessInvariant, PTL DEF Spec

\* A restart finds no old copy: whatever the service's processes do while /proc is listed and read and
\* until the status is collected, an exit is reported only when none of them runs any more but those
\* forked since the listing began, or when those that outlive SIGKILL have been waited for.
THEOREM ReportedExitsAreOver == Spec => ExitMeansGone
<1>1. CollectInv /\ [Next]_vars =>
        [~exited /\ exited' =>
           \/ drained
           \/ cgroup /\ Ours = {}
           \/ ~cgroup /\ \A p \in Running : process[p].session = pid => p \in late]_vars
  <2> SUFFICES ASSUME CollectInv, [Next]_vars, ~exited, exited'
               PROVE  \/ drained \/ (cgroup /\ Ours = {})
                      \/ ~cgroup /\ \A p \in Running : process[p].session = pid => p \in late
    BY DEF vars
  <2>1. Collect
    BY DEF Next, Call, vars, childVars, Host, HostAlone, Fork, StrangerStarts, LeadGroup, LeadSession,
           ProcessEnds, ParentReaps, DrainDeadlinePasses, KillStarts, PollMain, KillGroup, ReadMembers,
           BeginCapture, ListPid, ReadStat, CaptureDone, KillCgroup, KillMember, Wait
  <2>2. drained \/ Gone
    BY <2>1 DEF Collect, CollectInv
  <2> QED BY <2>2 DEF Gone, SeenOrLate, OfSession, Ours, Running
<1> QED BY <1>1, AlwaysCollectInv, PTL DEF Spec, ExitMeansGone

----------------------------------------------------------------------------
(* Types *)

\* A poll goes on only once the main process has ended, and what it kills it has found.
StatusInv ==
  /\ pc # "idle" /\ polling => mainExited
  /\ exited => mainExited
  /\ unlisted \cup unread \cup late \cup found \subseteq Pids
  /\ table \subseteq ProcessEntry

\* What was read is an entry, and members are among the entries.
LEMMA EntryTypes ==
  ASSUME IInv, StatusInv
  PROVE  MembersOf(table) \subseteq Pids /\ \A p \in Pids : EntriesOf(p) \subseteq ProcessEntry
<1>1. MembersOf(table) \subseteq Pids
  BY DEF MembersOf, DescendantsIn, StatusInv, ProcessEntry
<1>2. ASSUME NEW p \in Pids PROVE EntriesOf(p) \subseteq ProcessEntry
  <2>1. CASE p \in Running
    <3>1. process[p] \in InUseEntries
      BY <2>1, InUseEntry DEF IInv, Running
    <3> QED BY <2>1, <3>1 DEF EntriesOf, InUseEntries, ProcessEntry
  <2> QED BY <2>1 DEF EntriesOf
<1> QED BY <1>1, <1>2

\* Every state has it.
LEMMA AlwaysStatusInv == Spec => []StatusInv
<1>1. Init => StatusInv
  BY DEF Init, StatusInv
<1>2. IInv /\ CallInv /\ StatusInv /\ [Next]_vars => StatusInv'
  <2> SUFFICES ASSUME IInv, CallInv, StatusInv, [Next]_vars PROVE StatusInv'
    OBVIOUS
  <2>1. CASE HostActs
    <3>1. UNCHANGED <<exited, mainExited, pc, polling, unlisted, unread, table, found>>
      BY <2>1 DEF HostActs, Fork, StrangerStarts, LeadGroup, LeadSession, ProcessEnds, ParentReaps,
                  Host, HostAlone, childVars
    <3>2. late' \subseteq late \cup Pids
      BY <2>1 DEF HostActs, Fork, StrangerStarts, LeadGroup, LeadSession, ProcessEnds, ParentReaps,
                  Host, Free
    <3> QED BY <3>1, <3>2 DEF StatusInv
  <2>2. CASE DrainDeadlinePasses \/ UNCHANGED vars
    BY <2>2 DEF DrainDeadlinePasses, vars, childVars, capture, StatusInv
  <2>3. CASE KillStarts \/ PollMain
    BY <2>3 DEF KillStarts, PollMain, childVars, capture, StatusInv
  <2>4. CASE KillGroup \/ ReadMembers \/ KillCgroup \/ KillMember \/ Wait
    <3>1. /\ UNCHANGED <<exited, mainExited, polling, unlisted, unread, table, late>>
          /\ pc # "idle" /\ found' \subseteq found
      BY <2>4 DEF KillGroup, ReadMembers, KillCgroup, KillMember, Wait, childVars, capture
    <3> QED BY <3>1 DEF StatusInv
  <2>5. CASE BeginCapture \/ ListPid
    <3>1. /\ UNCHANGED <<exited, mainExited, polling, found>> /\ pc # "idle"
          /\ unlisted' \cup unread' \cup late' \subseteq Pids \cup unlisted \cup unread \cup late
          /\ table' \subseteq table
      BY <2>5 DEF BeginCapture, ListPid, childVars
    <3> QED BY <3>1 DEF StatusInv
  <2>6. CASE ReadStat
    <3>1. PICK p \in unread : unread' = unread \ {p} /\ table' = table \cup EntriesOf(p)
      BY <2>6 DEF ReadStat
    <3>2. EntriesOf(p) \subseteq ProcessEntry
      BY EntryTypes DEF StatusInv
    <3>3. UNCHANGED <<exited, mainExited, polling, pc, unlisted, late, found>>
      BY <2>6 DEF ReadStat, childVars
    <3> QED BY <3>1, <3>2, <3>3 DEF StatusInv
  <2>7. CASE CaptureDone
    <3>1. /\ UNCHANGED <<exited, mainExited, polling, unlisted, unread, late>> /\ pc # "idle"
          /\ found' = MembersOf(table) /\ table' = {}
      BY <2>7 DEF CaptureDone, childVars
    <3> QED BY <3>1, EntryTypes DEF StatusInv
  <2>8. CASE Collect
    BY <2>8 DEF Collect, childVars, capture, CallInv, StatusInv
  <2> QED BY <2>1, <2>2, <2>3, <2>4, <2>5, <2>6, <2>7, <2>8 DEF Next, Call, HostActs
<1> QED BY <1>1, <1>2, CallInvariant, ProcessInvariant, PTL DEF Spec

\* The processes and the handle keep their types; until the status is collected the main process's
\* ID is its own.
THEOREM TypeCorrect == Spec => []TypeOK
<1>1. IInv /\ StatusInv => TypeOK
  BY DEF IInv, MainIsThere, StatusInv, TypeOK
<1> QED BY <1>1, ProcessInvariant, AlwaysStatusInv, PTL

=============================================================================
