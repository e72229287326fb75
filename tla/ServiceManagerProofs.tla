------------------------ MODULE ServiceManagerProofs ------------------------
(***************************************************************************)
(* Proofs about ServiceManager and about Daemon, which extends it, for     *)
(* every finite set of names and every set of valid loads.  The manager:   *)
(* the dropped stay down, the orders of starting and stopping, and that    *)
(* each service is a supervised service.  The daemon: in the loop, too,    *)
(* the manager's invariant holds, with the surroundings acting within its  *)
(* calls and with task groups being cleared; one request to stop is        *)
(* graceful; and clearing the groups of removed services ends no process   *)
(* of a service that is there.                                             *)
(***************************************************************************)
EXTENDS Daemon, FiniteSetTheorems, SequenceTheorems, WellFoundedInduction, TLAPS

----------------------------------------------------------------------------
(* The inductive invariant *)

Targets == {"startTarget", "restartTarget"}
OneStart == Targets \cup {"autostart", "added", "start", "restart", "dependency"}
AllStart == {"startAll", "restartAll"}
Steps == OneStart \cup AllStart
           \cup {"stop", "heartbeat", "stopAll", "drop", "tick", "settle", "sweep", "shutdown", "kill"}
Tasks == [step : Steps, name : Names]

\* A sequence with nothing in it twice.
Once(s) == \A i, j \in DOMAIN s : s[i] = s[j] => i = j

TypeOK ==
  /\ order \in Seq(Names) /\ Once(order)
  /\ control \in [Names -> Control]
  /\ config \in [Names -> Entry]
  /\ removing \subseteq Present
  /\ shuttingDown \in BOOLEAN
  /\ work \in Seq(Tasks)
  /\ started \subseteq Names

Left == ToSet(work)

\* Dropped, or about to be by the reload that runs; and the others.
Gone == removing \cup {n \in Names : Task("drop", n) \in Left}
Kept == Present \ Gone

\* A control whose parts agree.
Coherent(s) ==
  /\ s \in Control
  /\ s.child # "none" <=> s.state \in Alive
  /\ s.pendingStart \/ s.restartAfterStop => s.state = "Stopping"
  /\ ~(s.pendingStart /\ s.restartAfterStop)
  /\ s.killSent => s.child # "none"

\* On its way out, with nothing queued.
Leaving(s) == s.state \in {"Stopping", "Stopped"} /\ ~s.pendingStart /\ ~s.restartAfterStop

Controlled ==
  /\ \A n \in Names : Coherent(control[n])
  /\ \A n \in Names \ Present : control[n] = NewControl
  /\ \A n \in removing : Leaving(control[n])

\* What is kept needs nothing that goes.
Closed == \A n \in Kept : config[n].dependsOn \subseteq Kept

\* Which steps may be left: only what is kept is started, and only before the shutdown.
StepOK(t) ==
  /\ t.step \in OneStart => t.name \in Kept /\ ~shuttingDown
  /\ t.step \in AllStart => t.name \in Present /\ ~shuttingDown /\ \A u \in Left : u.step # "drop"
  /\ t.step = "drop" => t.name \in Present /\ ~shuttingDown
  /\ t.step = "sweep" => \A u \in Left : u.step \notin OneStart \cup AllStart \cup {"drop"}
  /\ t.step \in {"shutdown", "kill"} => shuttingDown
  /\ t.step \in {"stop", "stopAll"} => ~shuttingDown
  /\ t.step = "restart" => started = {} /\ Len(work) = 1
  /\ t.step = "restartTarget" => t.name \notin started /\ Task("dependency", t.name) \notin Left

StepsOK == \A t \in Left : StepOK(t)

\* Up, or it will be.
Reached(d) == StateOf(d) # "Stopped" /\ (StateOf(d) = "Stopping" => control[d].pendingStart)

\* Before a target come only the services it needs, and those whose turn has been are reached.
Chained ==
  /\ \A i \in DOMAIN work : work[i].step \in Targets \cup {"dependency"}
       => \A j \in 1..(i - 1) : work[j].step = "dependency"
  /\ \A t \in Left : t.step \in Targets
       => \A d \in NeedsOf(t.name) : Task("dependency", d) \in Left \/ Reached(d)

Launches(s, r) == s.child # "running" /\ r.child = "running"

IInv == TypeOK /\ Controlled /\ Closed /\ StepsOK /\ Chained

----------------------------------------------------------------------------
(* The calls of a service *)

\* A restart scheduled, or refused: the process handle and the queue stay as they are.
LEMMA ScheduleRestartIs ==
  ASSUME NEW s, s \in Control, NEW r \in ScheduleRestart(s)
  PROVE  /\ r \in Control /\ r.state \in {"Backoff", "Failed"} /\ r.child = s.child
         /\ r.pendingStart = s.pendingStart /\ r.restartAfterStop = s.restartAfterStop
         /\ r.killSent = s.killSent
BY DEF ScheduleRestart, Control, States, Alive, Up

\* The restart policy: a service is stopped by it only after a clean exit.
LEMMA ApplyRestartPolicyIs ==
  ASSUME NEW s, s \in Control, NEW clean \in BOOLEAN, NEW r \in ApplyRestartPolicy(s, clean)
  PROVE  /\ r \in Control /\ r.state \in {"Backoff", "Failed", "Stopped"} /\ r.child = s.child
         /\ r.state = "Stopped" => clean
         /\ r.pendingStart = s.pendingStart /\ r.restartAfterStop = s.restartAfterStop
         /\ r.killSent = s.killSent
BY ScheduleRestartIs DEF ApplyRestartPolicy, Control, States, Alive, Up

\* A stop that begins: nothing is queued behind it.
LEMMA BeginStopIs ==
  ASSUME NEW s, s \in Control, NEW r \in BeginStop(s)
  PROVE  /\ r \in Control /\ r.state = "Stopping" /\ r.child = s.child
         /\ ~r.pendingStart /\ ~r.restartAfterStop
BY DEF BeginStop, Control, States, Alive, Up

\* A launch from a service without a process: it holds one, or is due to restart, or failed.
LEMMA LaunchIs ==
  ASSUME NEW s, s \in Control, s.child = "none", ~s.pendingStart, ~s.restartAfterStop, ~s.killSent,
         NEW r \in Launch(s)
  PROVE  /\ Coherent(r) /\ r.state \in {"Starting", "Backoff", "Failed"}
         /\ ~r.pendingStart /\ ~r.restartAfterStop /\ ~r.killSent
<1>1. CASE r \in ApplyRestartPolicy(s, FALSE)
  BY <1>1, ApplyRestartPolicyIs DEF Coherent, Alive, Up
<1>2. CASE r = [s EXCEPT !.child = "running", !.state = "Starting", !.killSent = FALSE]
  BY <1>2 DEF Coherent, Control, States, Alive, Up
<1>3. QED
  BY <1>1, <1>2 DEF Launch

\* A stop, from any state: the service is on its way out and its process is where it was.
LEMMA StopIs ==
  ASSUME NEW s, Coherent(s), NEW r \in Stop(s)
  PROVE  /\ Coherent(r) /\ Leaving(r) /\ r.child = s.child
<1>1. CASE s.state \in Up
  BY <1>1, BeginStopIs DEF Stop, Coherent, Alive, Leaving, Up
<1>2. CASE s.state = "Stopping"
  BY <1>2 DEF Stop, Coherent, Alive, Leaving, Up, Control, States
<1>3. CASE s.state \notin Alive
  BY <1>3 DEF Stop, Coherent, Alive, Leaving, Up, Control, States
<1>4. QED
  BY <1>1, <1>2, <1>3 DEF Alive

\* A launch that waits for its dependencies.
LEMMA RelaunchIs ==
  ASSUME NEW s, s \in Control, s.child = "none", ~s.pendingStart, ~s.restartAfterStop, ~s.killSent,
         NEW ready \in BOOLEAN, NEW r \in Relaunch(s, ready)
  PROVE  /\ Coherent(r) /\ r.state \in {"Starting", "Backoff", "Failed", "Waiting"}
         /\ ~r.pendingStart /\ ~r.restartAfterStop
         /\ r.child = "running" => ready
<1>1. CASE ready
  BY <1>1, LaunchIs DEF Relaunch
<1>2. CASE ~ready
  BY <1>2 DEF Relaunch, Coherent, Control, States, Alive, Up
<1>3. QED
  BY <1>1, <1>2

\* A start: the service is up or will be, and launches only if its dependencies run.
LEMMA StartIs ==
  ASSUME NEW s, Coherent(s), NEW ready \in BOOLEAN, NEW r \in Start(s, ready)
  PROVE  /\ Coherent(r)
         /\ r.state # "Stopped"
         /\ r.state = "Stopping" => s.state = "Stopping" /\ r.pendingStart
         /\ Launches(s, r) => ready
<1>1. CASE s.state \in Up
  BY <1>1 DEF Start, Coherent, Up, Launches
<1>2. CASE s.state = "Stopping"
  BY <1>2 DEF Start, Coherent, Alive, Up, Control, States, Launches
<1>3. CASE s.state \notin Alive
  <2>1. r \in Relaunch(s, ready)
    BY <1>3 DEF Start, Alive
  <2>2. s \in Control /\ s.child = "none" /\ ~s.pendingStart /\ ~s.restartAfterStop /\ ~s.killSent
    BY <1>3 DEF Coherent, Alive, Control
  <2>3. QED
    BY <2>1, <2>2, RelaunchIs DEF Launches
<1>4. QED
  BY <1>1, <1>2, <1>3 DEF Alive

\* A restart launches only if its dependencies run.
LEMMA RestartIs ==
  ASSUME NEW s, Coherent(s), NEW ready \in BOOLEAN, NEW r \in Restart(s, ready)
  PROVE  /\ Coherent(r)
         /\ Launches(s, r) => ready
<1>1. CASE s.state \in Up
  <2>1. PICK q \in BeginStop(s) : r = [q EXCEPT !.pendingStart = TRUE]
    BY <1>1 DEF Restart
  <2>2. q \in Control /\ q.state = "Stopping" /\ q.child = s.child /\ ~q.restartAfterStop
    BY BeginStopIs DEF Coherent
  <2>3. QED
    BY <1>1, <2>1, <2>2 DEF Coherent, Alive, Control, States, Launches
<1>2. CASE s.state \notin Up
  BY <1>2, StartIs DEF Restart
<1>3. QED
  BY <1>1, <1>2

\* A kill leaves the service on its way out.
LEMMA KillIs ==
  ASSUME NEW s, Coherent(s), NEW r \in Kill(s)
  PROVE  /\ Coherent(r) /\ Leaving(r) /\ r.child = s.child
<1>1. CASE s.child = "none"
  BY <1>1 DEF Kill, Coherent, Leaving, Alive, Up, Control, States
<1>2. CASE s.child # "none"
  BY <1>2 DEF Kill, Coherent, Leaving, Alive, Up, Control, States
<1>3. QED
  BY <1>1, <1>2

\* A heartbeat changes only a service that is up.
LEMMA HeartbeatIs ==
  ASSUME NEW s, Coherent(s), NEW r \in Heartbeat(s)
  PROVE  /\ Coherent(r) /\ r.child = s.child
         /\ s.state \notin Up => r = s
BY DEF Heartbeat, Coherent, Alive, Up, Control, States

\* Only a waiting service is given up.
LEMMA AbandonIs ==
  ASSUME NEW s, Coherent(s), NEW r \in Abandon(s)
  PROVE  /\ Coherent(r) /\ r.child = s.child
         /\ s.state # "Waiting" => r = s
BY DEF Abandon, Coherent, Alive, Up, Control, States

\* A process that ends is still held, and the state does not change yet.
LEMMA ProcessExitsIs ==
  ASSUME NEW s, Coherent(s), NEW r \in ProcessExits(s)
  PROVE  /\ Coherent(r) /\ s.child = "running" /\ r.child = "exited"
         /\ r.state = s.state /\ r.pendingStart = s.pendingStart
         /\ r.restartAfterStop = s.restartAfterStop
BY DEF ProcessExits, Coherent, Alive, Up, Control, States

\* An exit that is noticed: one on its way out is stopped, and a launch needs leave.
LEMMA HandleExitIs ==
  ASSUME NEW s, Coherent(s), s.child = "exited", NEW allowed \in BOOLEAN, NEW ready \in BOOLEAN,
         NEW r \in HandleExit(s, allowed, ready)
  PROVE  /\ Coherent(r) /\ r.state # "Stopping"
         /\ Leaving(s) => r.state = "Stopped"
         /\ r.child = "running" => allowed /\ ready
<1> DEFINE gone == [s EXCEPT !.child = "none", !.killSent = FALSE]
           stopped == [gone EXCEPT !.state = "Stopped", !.pendingStart = FALSE,
                                   !.restartAfterStop = FALSE]
<1>1. /\ gone \in Control /\ gone.child = "none" /\ ~gone.killSent /\ gone.state = s.state
      /\ gone.pendingStart = s.pendingStart /\ gone.restartAfterStop = s.restartAfterStop
  BY DEF Coherent, Control
<1>2. /\ stopped \in Control /\ stopped.child = "none" /\ ~stopped.killSent
      /\ stopped.state = "Stopped" /\ ~stopped.pendingStart /\ ~stopped.restartAfterStop
  BY DEF Coherent, Control, States
<1>3. \/ s.state # "Stopping" /\ r \in ApplyRestartPolicy(gone, TRUE)
      \/ allowed /\ s.restartAfterStop /\ r \in ScheduleRestart(stopped)
      \/ allowed /\ s.pendingStart /\ r \in Relaunch(stopped, ready)
      \/ r = stopped
  BY DEF HandleExit
<1> HIDE DEF gone, stopped
<1>4. CASE s.state # "Stopping" /\ r \in ApplyRestartPolicy(gone, TRUE)
  <2>1. s.state \in Up /\ ~s.pendingStart /\ ~s.restartAfterStop
    BY <1>4 DEF Coherent, Alive
  <2>2. QED
    BY <1>1, <1>4, <2>1, ApplyRestartPolicyIs, ZenonT(60) DEF Coherent, Alive, Up, Leaving
<1>5. CASE allowed /\ s.restartAfterStop /\ r \in ScheduleRestart(stopped)
  BY <1>2, <1>5, ScheduleRestartIs DEF Coherent, Alive, Up, Leaving
<1>6. CASE allowed /\ s.pendingStart /\ r \in Relaunch(stopped, ready)
  BY <1>2, <1>6, RelaunchIs DEF Leaving
<1>7. CASE r = stopped
  BY <1>2, <1>7 DEF Coherent, Alive, Up
<1>8. QED
  BY <1>3, <1>4, <1>5, <1>6, <1>7

\* The start grace keeps the process.
LEMMA CheckGraceIs ==
  ASSUME NEW s, Coherent(s), s.state \in Up, NEW r \in CheckGrace(s)
  PROVE  Coherent(r) /\ r.child = s.child
BY DEF CheckGrace, Coherent, Alive, Up, Control, States

\* So do the heartbeat checks.
LEMMA CheckUpIs ==
  ASSUME NEW s, Coherent(s), s.state \in Up, NEW r \in CheckUp(s)
  PROVE  Coherent(r) /\ r.child = s.child
<1>1. CASE r \in CheckGrace(s)
  BY <1>1, CheckGraceIs
<1>2. CASE r = [s EXCEPT !.state = "Unhealthy"]
  BY <1>2 DEF Coherent, Alive, Up, Control, States
<1>3. ASSUME NEW q \in BeginStop(s), r = [q EXCEPT !.restartAfterStop = TRUE]
      PROVE  Coherent(r) /\ r.child = s.child
  <2>1. q \in Control /\ q.state = "Stopping" /\ q.child = s.child /\ ~q.pendingStart
    BY BeginStopIs DEF Coherent
  <2>2. QED
    BY <1>3, <2>1 DEF Coherent, Alive, Up, Control, States
<1>4. QED
  BY <1>1, <1>2, <1>3 DEF CheckUp

\* Supervision never brings back what is on its way out.
LEMMA SuperviseIs ==
  ASSUME NEW s, Coherent(s), NEW allowed \in BOOLEAN, NEW ready \in BOOLEAN,
         NEW r \in Supervise(s, allowed, ready)
  PROVE  /\ Coherent(r)
         /\ Leaving(s) => Leaving(r)
         /\ s.state = "Stopped" => r = s
         /\ Launches(s, r) => allowed /\ ready
<1>1. CASE s.state \in Up
  BY <1>1, CheckUpIs DEF Supervise, Leaving, Launches, Up
<1>2. CASE s.state = "Stopping" /\ r = [s EXCEPT !.killSent = TRUE]
  BY <1>2 DEF Coherent, Leaving, Launches, Alive, Up, Control, States
<1>3. CASE s.state = "Backoff" /\ allowed /\ r \in Relaunch(s, ready)
  <2>1. s \in Control /\ s.child = "none" /\ ~s.pendingStart /\ ~s.restartAfterStop /\ ~s.killSent
    BY <1>3 DEF Coherent, Alive, Up, Control
  <2>2. QED
    BY <1>3, <2>1, RelaunchIs DEF Leaving, Launches
<1>4. CASE r = s
  BY <1>4 DEF Launches
<1>5. QED
  BY <1>1, <1>2, <1>3, <1>4 DEF Supervise

\* Nor does a whole tick, and it launches only if that is allowed and the dependencies run.
LEMMA TickIs ==
  ASSUME NEW s, Coherent(s), NEW allowed \in BOOLEAN, NEW ready \in BOOLEAN,
         NEW r \in Tick(s, allowed, ready)
  PROVE  /\ Coherent(r)
         /\ Leaving(s) => Leaving(r)
         /\ s.state = "Stopped" => r = s
         /\ Launches(s, r) => allowed /\ ready
<1>1. PICK q \in Reap(s, allowed, ready) :
        r \in (IF s.child = "exited" /\ q.child = "running" THEN CheckGrace(q)
               ELSE Supervise(q, allowed, ready))
  BY DEF Tick
<1>2. CASE s.child = "exited"
  <2>1. q \in HandleExit(s, allowed, ready)
    BY <1>1, <1>2 DEF Reap
  <2>2. /\ Coherent(q) /\ q.state # "Stopping"
        /\ Leaving(s) => q.state = "Stopped"
        /\ q.child = "running" => allowed /\ ready
    BY <1>2, <2>1, HandleExitIs
  <2>3. s.state # "Stopped"
    BY <1>2 DEF Coherent, Alive, Up
  <2>4. CASE q.child = "running"
    <3>1. q.state \in Alive
      BY <2>2, <2>4 DEF Coherent
    <3>2. q.state \in Up /\ q.state # "Stopped"
      BY <2>2, <3>1 DEF Alive, Up
    <3>3. r \in CheckGrace(q)
      BY <1>1, <1>2, <2>4
    <3>4. Coherent(r)
      BY <2>2, <3>2, <3>3, CheckGraceIs
    <3>5. QED
      BY <2>2, <2>3, <2>4, <3>2, <3>4
  <2>5. CASE q.child # "running"
    <3>1. r \in Supervise(q, allowed, ready)
      BY <1>1, <2>5
    <3>2. /\ Coherent(r)
          /\ q.state = "Stopped" => r = q
          /\ Launches(q, r) => allowed /\ ready
      BY <2>2, <3>1, SuperviseIs
    <3>3. q.state = "Stopped" => Leaving(q)
      BY <2>2 DEF Leaving, Coherent
    <3>4. QED
      BY <2>2, <2>3, <2>5, <3>2, <3>3 DEF Launches
  <2>6. QED
    BY <2>4, <2>5
<1>3. CASE s.child # "exited"
  <2>1. r \in Supervise(s, allowed, ready)
    BY <1>1, <1>3 DEF Reap
  <2>2. QED
    BY <2>1, SuperviseIs
<1>4. QED
  BY <1>2, <1>3

\* A tick stops what runs only for the sake of its heartbeats, and then to start it again.
LEMMA TickStops ==
  ASSUME NEW s, Coherent(s), s.state \in Up, NEW allowed \in BOOLEAN, NEW ready \in BOOLEAN,
         NEW r \in Tick(s, allowed, ready), r.state = "Stopping"
  PROVE  r.restartAfterStop
<1>1. PICK q \in Reap(s, allowed, ready) :
        r \in (IF s.child = "exited" /\ q.child = "running" THEN CheckGrace(q)
               ELSE Supervise(q, allowed, ready))
  BY DEF Tick
<1>2. CASE s.child = "exited"
  <2>1. q \in HandleExit(s, allowed, ready)
    BY <1>1, <1>2 DEF Reap
  <2>2. Coherent(q) /\ q.state # "Stopping" /\ q \in Control
    BY <1>2, <2>1, HandleExitIs DEF Coherent
  <2>3. q.state \notin Up
    <3>1. /\ [s EXCEPT !.child = "none", !.killSent = FALSE] \in Control
          /\ q \in ApplyRestartPolicy([s EXCEPT !.child = "none", !.killSent = FALSE], TRUE)
      BY <2>1 DEF HandleExit, Up, Coherent, Control
    <3>2. q.state \in {"Backoff", "Failed", "Stopped"}
      BY <3>1, ApplyRestartPolicyIs
    <3>3. QED
      BY <3>2 DEF Up
  <2>4. q.child = "none"
    BY <2>2, <2>3 DEF Coherent, Alive, Control
  <2>5. r \in Supervise(q, allowed, ready)
    BY <1>1, <2>4
  <2>6. r = q \/ (r \in Relaunch(q, ready) /\ q.state = "Backoff")
    BY <2>2, <2>3, <2>5 DEF Supervise
  <2>7. ~q.pendingStart /\ ~q.restartAfterStop /\ ~q.killSent
    BY <2>2, <2>4 DEF Coherent, Control
  <2>8. QED
    BY <2>2, <2>4, <2>6, <2>7, RelaunchIs
<1>3. CASE s.child # "exited"
  <2>1. r \in CheckUp(s)
    <3>1. r \in Supervise(s, allowed, ready)
      BY <1>1, <1>3 DEF Reap
    <3>2. QED
      BY <3>1 DEF Supervise, Up
  <2>2. r \notin CheckGrace(s) /\ r # [s EXCEPT !.state = "Unhealthy"]
    BY DEF CheckGrace, Coherent, Control, Up
  <2>3. PICK b \in BeginStop(s) : r = [b EXCEPT !.restartAfterStop = TRUE]
    BY <2>1, <2>2 DEF CheckUp
  <2>4. QED
    BY <2>3, BeginStopIs DEF Coherent, Control
<1>4. QED
  BY <1>2, <1>3

----------------------------------------------------------------------------
(* Sequences *)

\* Every set of naturals has a least element: induction, as these proofs use it.
LEMMA LeastNatural ==
  ASSUME NEW T \in SUBSET Nat, T # {}
  PROVE  \E x \in T : \A y \in T : x <= y
<1>1. IsWellFoundedOn(OpToRel(<,Nat), Nat)
  BY NatLessThanWellFounded
<1>2. PICK x \in T : \A y \in T : ~ (<<y, x>> \in OpToRel(<,Nat))
  BY <1>1, WFMin, Zenon
<1>3. \A y \in T : ~ (y < x)
  BY <1>2 DEF OpToRel
<1>4. QED
  BY <1>3

OnlyStep(s, S, f, i) ==
  IF i = 0 THEN <<>> ELSE IF s[i] \in S THEN Append(f[i - 1], s[i]) ELSE f[i - 1]

\* The recursive function in Only exists: no least length is without one.
LEMMA OnlyExists ==
  ASSUME NEW T, NEW s \in Seq(T), NEW S
  PROVE  \A k \in 0..Len(s) : \E f : f = [i \in 0..k |-> OnlyStep(s, S, f, i)]
<1> DEFINE Undefined == {k \in Nat : k <= Len(s) /\ ~\E f : f = [i \in 0..k |-> OnlyStep(s, S, f, i)]}
<1>1. SUFFICES ASSUME Undefined # {} PROVE FALSE
  BY DEF Undefined
<1>2. PICK k \in Undefined : \A j \in Undefined : k <= j
  BY <1>1, LeastNatural
<1>3. k \in Nat /\ k <= Len(s) /\ Len(s) \in Nat
  OBVIOUS
<1>4. CASE k = 0
  <2> DEFINE f == [i \in 0..0 |-> <<>>]
  <2>1. f = [i \in 0..k |-> OnlyStep(s, S, f, i)]
    BY <1>4 DEF OnlyStep
  <2>2. QED
    BY <1>2, <2>1
<1>5. CASE k # 0
  <2>1. k - 1 \in Nat /\ k - 1 < k /\ k - 1 <= Len(s)
    BY <1>3, <1>5
  <2>2. k - 1 \notin Undefined
    BY <1>2, <2>1
  <2>3. PICK f : f = [i \in 0..(k - 1) |-> OnlyStep(s, S, f, i)]
    BY <2>1, <2>2
  <2> DEFINE g == [i \in 0..k |-> OnlyStep(s, S, f, i)]
  <2>4. \A i \in 0..(k - 1) : g[i] = f[i]
    <3>1. \A i \in 0..(k - 1) : f[i] = OnlyStep(s, S, f, i)
      BY <2>3, Zenon
    <3>2. \A i \in 0..(k - 1) : i \in 0..k
      BY <1>3
    <3>3. QED
      BY <3>1, <3>2
  <2>5. \A i \in 0..k : OnlyStep(s, S, f, i) = OnlyStep(s, S, g, i)
    <3> SUFFICES ASSUME NEW i \in 0..k PROVE OnlyStep(s, S, f, i) = OnlyStep(s, S, g, i)
      OBVIOUS
    <3>1. CASE i = 0
      BY <3>1 DEF OnlyStep
    <3>2. CASE i # 0
      <4>1. i - 1 \in 0..(k - 1)
        BY <1>3, <3>2
      <4>2. g[i - 1] = f[i - 1]
        BY <2>4, <4>1
      <4> HIDE DEF g
      <4>3. QED
        BY <4>2 DEF OnlyStep
    <3>3. QED
      BY <3>1, <3>2
  <2>6. g = [i \in 0..k |-> OnlyStep(s, S, g, i)]
    BY <2>5
  <2>7. QED
    BY <1>2, <2>6
<1>6. QED
  BY <1>4, <1>5

\* Only(s, S) holds the elements of s that are in S, and none twice if s does not.
LEMMA OnlyIs ==
  ASSUME NEW T, NEW s \in Seq(T), NEW S
  PROVE  /\ Only(s, S) \in Seq(T)
         /\ ToSet(Only(s, S)) = ToSet(s) \cap S
         /\ Once(s) => Once(Only(s, S))
<1> DEFINE only == CHOOSE f : f = [i \in 0..Len(s) |-> OnlyStep(s, S, f, i)]
           Upto(i) == {s[j] : j \in 1..i} \cap S
           Good(i) == /\ only[i] \in Seq(T)
                      /\ ToSet(only[i]) = Upto(i)
                      /\ Once(s) => Once(only[i])
           Bad == {i \in Nat : i <= Len(s) /\ ~Good(i)}
<1>1. Len(s) \in Nat /\ DOMAIN s = 1..Len(s)
  OBVIOUS
<1>2. only = [i \in 0..Len(s) |-> OnlyStep(s, S, only, i)]
  <2>1. \A k \in 0..Len(s) : \E f : f = [i \in 0..k |-> OnlyStep(s, S, f, i)]
    BY OnlyExists, Zenon
  <2>2. Len(s) \in 0..Len(s)
    BY <1>1
  <2>3. QED
    BY <2>1, <2>2, Zenon
<1>3. Only(s, S) = only[Len(s)]
  BY DEF Only, OnlyStep
<1> HIDE DEF only
<1>4. \A i \in 0..Len(s) : only[i] = OnlyStep(s, S, only, i)
  BY <1>2, Zenon
<1>5. only[0] = <<>>
  BY <1>1, <1>4 DEF OnlyStep
<1>6. Good(0)
  BY <1>5 DEF ToSet, Once
<1>7. ASSUME NEW i \in 1..Len(s), Good(i - 1) PROVE Good(i)
  <2>1. i \in Nat /\ i \in 0..Len(s) /\ i - 1 \in 0..Len(s) /\ i # 0 /\ s[i] \in T
    BY <1>1
  <2>2. only[i] = IF s[i] \in S THEN Append(only[i - 1], s[i]) ELSE only[i - 1]
    BY <1>4, <2>1 DEF OnlyStep
  <2>3. {s[j] : j \in 1..i} = {s[j] : j \in 1..(i - 1)} \cup {s[i]}
    BY <2>1
  <2>4. CASE s[i] \notin S
    BY <1>7, <2>2, <2>3, <2>4
  <2>5. CASE s[i] \in S
    <3> DEFINE q == only[i - 1]
    <3>1. q \in Seq(T) /\ ToSet(q) = Upto(i - 1) /\ only[i] = Append(q, s[i])
      BY <1>7, <2>2, <2>5
    <3> HIDE DEF q
    <3>2. /\ Append(q, s[i]) \in Seq(T) /\ Len(Append(q, s[i])) = Len(q) + 1 /\ Len(q) \in Nat
          /\ \A k \in 1..Len(q) : Append(q, s[i])[k] = q[k]
          /\ Append(q, s[i])[Len(q) + 1] = s[i]
          /\ DOMAIN q = 1..Len(q) /\ DOMAIN Append(q, s[i]) = 1..(Len(q) + 1)
      BY <2>1, <3>1, AppendProperties
    <3>3. ToSet(Append(q, s[i])) = ToSet(q) \cup {s[i]}
      BY <3>2 DEF ToSet
    <3>4. ToSet(Append(q, s[i])) = Upto(i)
      BY <2>3, <2>5, <3>1, <3>3
    <3>5. ASSUME Once(s) PROVE Once(Append(q, s[i]))
      <4>1. s[i] \notin ToSet(q)
        <5>1. \A j \in 1..(i - 1) : j \in DOMAIN s /\ i \in DOMAIN s /\ j # i
          BY <1>1, <2>1
        <5>2. \A j \in 1..(i - 1) : s[j] # s[i]
          BY <3>5, <5>1 DEF Once
        <5>3. QED
          BY <3>1, <5>2
      <4>2. Once(q)
        BY <1>7, <3>5 DEF q
      <4>3. \A k \in 1..Len(q) : q[k] # s[i]
        BY <3>2, <4>1 DEF ToSet
      <4>4. QED
        BY <3>2, <4>2, <4>3 DEF Once
    <3>6. QED
      BY <3>1, <3>2, <3>4, <3>5
  <2>6. QED
    BY <2>4, <2>5
<1>8. Bad = {}
  <2>1. SUFFICES ASSUME Bad # {} PROVE FALSE
    OBVIOUS
  <2>2. PICK i \in Bad : \A j \in Bad : i <= j
    BY <2>1, LeastNatural
  <2>3. i \in Nat /\ i <= Len(s) /\ ~Good(i)
    OBVIOUS
  <2>4. i # 0
    BY <1>6, <2>3
  <2>5. i - 1 \in Nat /\ i - 1 < i /\ i - 1 <= Len(s) /\ i \in 1..Len(s)
    BY <1>1, <2>3, <2>4
  <2> HIDE DEF Good
  <2>6. i - 1 \notin Bad
    <3> HIDE DEF Bad
    <3>1. QED
      BY <2>2, <2>3, <2>5
  <2>7. Good(i - 1)
    BY <2>5, <2>6
  <2>8. QED
    BY <1>7, <2>3, <2>5, <2>7
<1>9. Good(Len(s))
  <2> HIDE DEF Good
  <2>1. QED
    BY <1>1, <1>8
<1>10. Upto(Len(s)) = ToSet(s) \cap S
  BY <1>1 DEF ToSet
<1>11. QED
  BY <1>3, <1>9, <1>10

\* A sequence is its head and its tail.
LEMMA TailIs ==
  ASSUME NEW T, NEW s \in Seq(T), s # <<>>
  PROVE  /\ Head(s) \in T /\ Tail(s) \in Seq(T)
         /\ ToSet(s) = {Head(s)} \cup ToSet(Tail(s))
<1>1. Len(s) \in Nat \ {0} /\ DOMAIN s = 1..Len(s) /\ Head(s) = s[1]
  OBVIOUS
<1>2. /\ Tail(s) \in Seq(T) /\ DOMAIN Tail(s) = 1..(Len(s) - 1)
      /\ \A i \in 1..(Len(s) - 1) : Tail(s)[i] = s[i + 1]
  BY <1>1
<1>3. \A i \in 2..Len(s) : i - 1 \in 1..(Len(s) - 1) /\ Tail(s)[i - 1] = s[i]
  BY <1>1, <1>2
<1>4. \A i \in 1..Len(s) : i = 1 \/ i \in 2..Len(s)
  BY <1>1
<1>5. \A i \in 1..(Len(s) - 1) : i + 1 \in 1..Len(s)
  BY <1>1
<1>6. ToSet(s) \subseteq {Head(s)} \cup ToSet(Tail(s))
  <2> SUFFICES ASSUME NEW i \in 1..Len(s) PROVE s[i] \in {Head(s)} \cup ToSet(Tail(s))
    BY <1>1 DEF ToSet
  <2>1. CASE i = 1
    BY <1>1, <2>1
  <2>2. CASE i \in 2..Len(s)
    BY <1>2, <1>3, <2>2 DEF ToSet
  <2>3. QED
    BY <1>4, <2>1, <2>2
<1>7. {Head(s)} \cup ToSet(Tail(s)) \subseteq ToSet(s)
  BY <1>1, <1>2, <1>5 DEF ToSet
<1>8. QED
  BY <1>1, <1>2, <1>6, <1>7

\* What a concatenation holds, and where.
LEMMA ConcatIs ==
  ASSUME NEW T, NEW s \in Seq(T), NEW t \in Seq(T)
  PROVE  /\ s \o t \in Seq(T)
         /\ ToSet(s \o t) = ToSet(s) \cup ToSet(t)
         /\ DOMAIN (s \o t) = 1..(Len(s) + Len(t)) /\ Len(s) \in Nat /\ Len(t) \in Nat
         /\ \A i \in 1..(Len(s) + Len(t)) : (s \o t)[i] = IF i <= Len(s) THEN s[i] ELSE t[i - Len(s)]
<1>1. /\ s \o t \in Seq(T) /\ Len(s) \in Nat /\ Len(t) \in Nat
      /\ DOMAIN s = 1..Len(s) /\ DOMAIN t = 1..Len(t) /\ DOMAIN (s \o t) = 1..(Len(s) + Len(t))
      /\ \A i \in 1..(Len(s) + Len(t)) : (s \o t)[i] = IF i <= Len(s) THEN s[i] ELSE t[i - Len(s)]
  BY ConcatProperties
<1>2. ToSet(s \o t) \subseteq ToSet(s) \cup ToSet(t)
  BY <1>1 DEF ToSet
<1>3. \A i \in 1..Len(s) : i \in 1..(Len(s) + Len(t)) /\ (s \o t)[i] = s[i]
  BY <1>1
<1>4. \A i \in 1..Len(t) : i + Len(s) \in 1..(Len(s) + Len(t)) /\ (s \o t)[i + Len(s)] = t[i]
  BY <1>1
<1>5. ToSet(s) \subseteq ToSet(s \o t)
  BY <1>1, <1>3 DEF ToSet
<1>6. ToSet(t) \subseteq ToSet(s \o t)
  BY <1>1, <1>4 DEF ToSet
<1>7. QED
  BY <1>1, <1>2, <1>5, <1>6

----------------------------------------------------------------------------
(* Dependencies *)

ReachStep(n, f, k) ==
  IF k = 0 THEN {n}
  ELSE f[k - 1] \cup ((UNION {config[m].dependsOn : m \in f[k - 1]}) \cap Present)

\* The recursive function in Needed exists.
LEMMA ReachExists ==
  ASSUME NEW n, NEW c \in Nat
  PROVE  \E f : f = [k \in 0..c |-> ReachStep(n, f, k)]
<1> DEFINE Undefined == {k \in Nat : ~\E f : f = [i \in 0..k |-> ReachStep(n, f, i)]}
<1>1. SUFFICES ASSUME Undefined # {} PROVE FALSE
  BY DEF Undefined
<1>2. PICK k \in Undefined : \A j \in Undefined : k <= j
  BY <1>1, LeastNatural
<1>3. k \in Nat
  OBVIOUS
<1>4. CASE k = 0
  <2> DEFINE f == [i \in 0..0 |-> {n}]
  <2>1. f = [i \in 0..k |-> ReachStep(n, f, i)]
    BY <1>4 DEF ReachStep
  <2>2. QED
    BY <1>2, <2>1
<1>5. CASE k # 0
  <2>1. k - 1 \in Nat /\ k - 1 < k
    BY <1>3, <1>5
  <2>2. k - 1 \notin Undefined
    BY <1>2, <2>1
  <2>3. PICK f : f = [i \in 0..(k - 1) |-> ReachStep(n, f, i)]
    BY <2>1, <2>2
  <2> DEFINE g == [i \in 0..k |-> ReachStep(n, f, i)]
  <2>4. \A i \in 0..(k - 1) : g[i] = f[i]
    <3>1. \A i \in 0..(k - 1) : f[i] = ReachStep(n, f, i)
      BY <2>3, Zenon
    <3>2. \A i \in 0..(k - 1) : i \in 0..k
      BY <1>3
    <3>3. QED
      BY <3>1, <3>2
  <2>5. \A i \in 0..k : ReachStep(n, f, i) = ReachStep(n, g, i)
    <3> SUFFICES ASSUME NEW i \in 0..k PROVE ReachStep(n, f, i) = ReachStep(n, g, i)
      OBVIOUS
    <3>1. CASE i = 0
      BY <3>1 DEF ReachStep
    <3>2. CASE i # 0
      <4>1. i - 1 \in 0..(k - 1)
        BY <1>3, <3>2
      <4>2. g[i - 1] = f[i - 1]
        BY <2>4, <4>1
      <4> HIDE DEF g
      <4>3. QED
        BY <4>2 DEF ReachStep
    <3>3. QED
      BY <3>1, <3>2
  <2>6. g = [i \in 0..k |-> ReachStep(n, g, i)]
    BY <2>5
  <2>7. QED
    BY <1>2, <2>6
<1>6. QED
  BY <1>4, <1>5

\* A set that holds what its members need, as far as that is present.
Complete(R) == \A m \in R : config[m].dependsOn \cap Present \subseteq R

\* Needed(n) stays within any set that holds n and what its members need, and misses nothing
\* of NeedsOf(n): the rounds of the search, as many as there are names, are enough.
LEMMA NeededIs ==
  ASSUME NEW n \in Names, config \in [Names -> Entry], Present \subseteq Names,
         NEW K \in SUBSET Present, n \in K, \A m \in K : config[m].dependsOn \subseteq K
  PROVE  /\ Needed(n) \subseteq K \ {n}
         /\ NeedsOf(n) \subseteq Needed(n)
<1> DEFINE c == Cardinality(Names)
           reach == CHOOSE f : f = [k \in 0..c |-> ReachStep(n, f, k)]
           Good(k) == /\ n \in reach[k] /\ reach[k] \subseteq K
                      /\ Complete(reach[k]) \/ Cardinality(reach[k]) > k
           Bad == {k \in Nat : k <= c /\ ~Good(k)}
<1>1. c \in Nat
  BY NamesAssumption, FS_CardinalityType
<1> HIDE DEF c
<1>2. reach = [k \in 0..c |-> ReachStep(n, reach, k)]
  <2>1. \E f : f = [k \in 0..c |-> ReachStep(n, f, k)]
    BY <1>1, ReachExists
  <2>2. QED
    BY <2>1, Zenon
<1>3. Needed(n) = reach[c] \ {n}
  BY DEF Needed, ReachStep, c
<1> HIDE DEF reach
<1>4. \A k \in 0..c : reach[k] = ReachStep(n, reach, k)
  BY <1>2, Zenon
<1>5. \A S \in SUBSET Names : IsFiniteSet(S) /\ Cardinality(S) \in Nat
  BY NamesAssumption, FS_Subset, FS_CardinalityType
<1>6. Good(0)
  <2>1. 0 \in 0..c
    BY <1>1
  <2>2. reach[0] = ReachStep(n, reach, 0)
    BY <1>4, <2>1
  <2>3. reach[0] = {n}
    BY <2>2 DEF ReachStep
  <2>4. Cardinality({n}) = 1
    BY FS_Singleton
  <2>5. QED
    BY <2>3, <2>4
<1>7. ASSUME NEW k \in 1..c, Good(k - 1) PROVE Good(k)
  <2> DEFINE R == reach[k - 1]
  <2>1. k \in 0..c /\ k - 1 \in Nat /\ k \in Nat /\ k # 0 /\ k > k - 1
    BY <1>1
  <2>2. reach[k] = R \cup ((UNION {config[m].dependsOn : m \in R}) \cap Present)
    BY <1>4, <2>1 DEF ReachStep
  <2>3. n \in R /\ R \subseteq K /\ (Complete(R) \/ Cardinality(R) > k - 1)
    BY <1>7
  <2> HIDE DEF R, Good
  <2>8. \A x : x \in reach[k] <=> x \in R \/ (x \in Present /\ \E m \in R : x \in config[m].dependsOn)
    BY <2>2
  <2>4. n \in reach[k] /\ reach[k] \subseteq K
    BY <2>2, <2>3
  <2>5. CASE Complete(R)
    <3>1. reach[k] = R
      BY <2>8, <2>5 DEF Complete
    <3>2. QED
      BY <2>4, <2>5, <3>1 DEF Good
  <2>6. CASE ~Complete(R)
    <3>1. R \subseteq reach[k] /\ R # reach[k]
      BY <2>8, <2>6 DEF Complete
    <3>2. reach[k] \in SUBSET Names /\ R \in SUBSET Names
      BY <2>3, <2>4
    <3>3. IsFiniteSet(reach[k]) /\ Cardinality(reach[k]) \in Nat /\ Cardinality(R) \in Nat
      BY <1>5, <3>2
    <3>4. Cardinality(R) < Cardinality(reach[k])
      BY <3>1, <3>3, FS_Subset
    <3>5. Cardinality(reach[k]) > k
      BY <2>1, <2>3, <2>6, <3>3, <3>4
    <3>6. QED
      BY <2>4, <3>5 DEF Good
  <2>7. QED
    BY <2>5, <2>6
<1>8. Good(c)
  <2> HIDE DEF Good
  <2>1. Bad = {}
    <3>1. SUFFICES ASSUME Bad # {} PROVE FALSE
      OBVIOUS
    <3>2. PICK k \in Bad : \A j \in Bad : k <= j
      BY <3>1, LeastNatural
    <3>3. k \in Nat /\ k <= c /\ ~Good(k)
      OBVIOUS
    <3>4. k # 0
      BY <1>6, <3>3
    <3>5. k - 1 \in Nat /\ k - 1 < k /\ k - 1 <= c /\ k \in 1..c
      BY <1>1, <3>3, <3>4
    <3>6. k - 1 \notin Bad
      <4> HIDE DEF Bad
      <4>1. QED
        BY <3>2, <3>3, <3>5
    <3>7. Good(k - 1)
      BY <3>5, <3>6
    <3>8. QED
      BY <1>7, <3>3, <3>5, <3>7
  <2>2. QED
    BY <1>1, <2>1
<1>9. Complete(reach[c])
  <2>1. reach[c] \subseteq Names
    BY <1>8
  <2>2. Cardinality(reach[c]) <= c
    BY <2>1, NamesAssumption, FS_Subset DEF c
  <2>3. Cardinality(reach[c]) \in Nat
    BY <1>5, <2>1
  <2>4. QED
    BY <1>1, <1>8, <2>2, <2>3
<1>10. \A m \in reach[c] : config[m].dependsOn \subseteq reach[c]
  BY <1>8, <1>9 DEF Complete
<1>11. NeedsOf(n) \subseteq reach[c] \ {n}
  <2>1. reach[c] \in SUBSET Names /\ n \in reach[c]
    BY <1>8
  <2>2. \A d \in NeedsOf(n) : d # n /\ d \in reach[c]
    BY <1>10, <2>1 DEF NeedsOf
  <2>3. QED
    BY <2>2
<1>12. QED
  BY <1>3, <1>8, <1>11

\* An order of the needed services holds each of them.
LEMMA OrderIs ==
  ASSUME NEW n \in Names, Needed(n) \subseteq Names, NEW s \in DependencyOrders(n)
  PROVE  s \in Seq(Names) /\ ToSet(s) = Needed(n)
<1> DEFINE S == Needed(n)
           D == 1..Cardinality(S)
<1>1. IsFiniteSet(S) /\ Cardinality(S) \in Nat
  BY NamesAssumption, FS_Subset, FS_CardinalityType
<1>2. s \in [D -> S] /\ \A i, j \in D : i # j => s[i] # s[j]
  BY DEF DependencyOrders, SetToSeqs
<1> HIDE DEF S
<1>3. s \in Injection(D, S)
  BY <1>2 DEF Injection, IsInjective
<1>4. IsFiniteSet(D) /\ Cardinality(D) = Cardinality(S)
  BY <1>1, FS_Interval
<1>5. s \in Surjection(D, S)
  BY <1>1, <1>3, <1>4, FS_Injection
<1>6. \A d \in S : \E i \in D : s[i] = d
  BY <1>5 DEF Surjection
<1>7. DOMAIN s = D /\ \A i \in D : s[i] \in S
  BY <1>2
<1>8. ToSet(s) = S
  BY <1>6, <1>7 DEF ToSet
<1>9. s \in Seq(Names)
  <2>1. PICK k \in Nat : D = 1..k
    BY <1>1
  <2>2. s \in [1..k -> Names]
    BY <1>2, <2>1 DEF S
  <2>3. QED
    BY <2>2
<1>10. QED
  BY <1>8, <1>9 DEF S

\* One step for every name of a sequence.
LEMMA ForAllIs ==
  ASSUME NEW step \in Steps, NEW s \in Seq(Names)
  PROVE  /\ ForAll(step, s) \in Seq(Tasks) /\ Len(ForAll(step, s)) = Len(s)
         /\ ToSet(ForAll(step, s)) = {Task(step, n) : n \in ToSet(s)}
         /\ \A i \in 1..Len(s) : ForAll(step, s)[i].step = step
<1>1. Len(s) \in Nat /\ DOMAIN s = 1..Len(s) /\ \A i \in 1..Len(s) : s[i] \in Names
  OBVIOUS
<1>2. \A n \in Names : Task(step, n) \in Tasks /\ Task(step, n).step = step
  BY DEF Task, Tasks
<1>3. ForAll(step, s) = [i \in 1..Len(s) |-> Task(step, s[i])]
  BY <1>1 DEF ForAll
<1>4. ForAll(step, s) \in Seq(Tasks) /\ Len(ForAll(step, s)) = Len(s)
  BY <1>1, <1>2, <1>3
<1>5. ToSet(ForAll(step, s)) = {Task(step, n) : n \in ToSet(s)}
  BY <1>1, <1>3 DEF ToSet
<1>6. QED
  BY <1>1, <1>2, <1>3, <1>4, <1>5

----------------------------------------------------------------------------
(* What the steps do to the invariant *)

\* A service nobody has started is stopped, with nothing queued.
LEMMA NewControlIs == Coherent(NewControl) /\ Leaving(NewControl)
BY DEF NewControl, Coherent, Leaving, Control, States, Alive, Up

\* A service on its way out that has no process is as one nobody has started.
LEMMA AbsentStays ==
  ASSUME NEW r, Coherent(r), Leaving(r), r.child = "none"
  PROVE  r = NewControl
<1>1. r \in Control /\ r.state = "Stopped" /\ ~r.killSent
  BY DEF Coherent, Leaving, Alive
<1>2. /\ r = [state |-> r.state, child |-> r.child, pendingStart |-> r.pendingStart,
              restartAfterStop |-> r.restartAfterStop, killSent |-> r.killSent]
      /\ {r.pendingStart, r.restartAfterStop, r.killSent} \subseteq BOOLEAN
  BY <1>1 DEF Control
<1>3. r.pendingStart = FALSE /\ r.restartAfterStop = FALSE /\ r.killSent = FALSE
  BY <1>1, <1>2 DEF Leaving
<1>4. QED
  BY <1>1, <1>2, <1>3 DEF NewControl

\* A task is its step and its name.
LEMMA TaskIs ==
  /\ \A t \in Tasks : t = Task(t.step, t.name) /\ t.step \in Steps /\ t.name \in Names
  /\ \A step \in Steps, n \in Names : Task(step, n) \in Tasks
  /\ \A step, n : Task(step, n).step = step /\ Task(step, n).name = n
BY DEF Tasks, Task

\* One control changes, and the rest of what Controlled speaks of does not.
LEMMA ControlledKept ==
  ASSUME IInv, NEW n \in Names, NEW r, Coherent(r), n \notin Present => r = NewControl,
         n \in removing' => Leaving(r), removing' \subseteq removing \cup {n},
         control' = [control EXCEPT ![n] = r], order' = order
  PROVE  Controlled' /\ control' \in [Names -> Control]
<1>1. control \in [Names -> Control] /\ Controlled /\ Present' = Present
  BY DEF IInv, TypeOK, Present
<1>2. r \in Control
  BY DEF Coherent
<1>3. \A m \in Names : control'[m] = IF m = n THEN r ELSE control[m]
  BY <1>1
<1>4. removing \subseteq Names
  BY DEF IInv, TypeOK, Present, ToSet
<1>5. \A m \in Names : Coherent(control[m])'
  BY <1>1, <1>3 DEF Controlled
<1>6. \A m \in Names \ Present' : control'[m] = NewControl
  BY <1>1, <1>3 DEF Controlled
<1>7. \A m \in removing' : Leaving(control[m])'
  BY <1>1, <1>3, <1>4 DEF Controlled
<1>8. QED
  BY <1>1, <1>2, <1>5, <1>6, <1>7 DEF Controlled

\* Nothing changes but controls.
LEMMA StepsSame ==
  ASSUME UNCHANGED <<order, config, removing, shuttingDown, work, started>>
  PROVE  /\ Present' = Present /\ Kept' = Kept /\ Left' = Left
         /\ Closed <=> Closed'
         /\ StepsOK <=> StepsOK'
<1>1. Present' = Present /\ Left' = Left
  BY DEF Present, Left
<1>2. Gone' = Gone /\ Kept' = Kept
  BY <1>1 DEF Gone, Kept
<1>3. Closed <=> Closed'
  BY <1>2 DEF Closed
<1>4. StepsOK <=> StepsOK'
  BY <1>1, <1>2 DEF StepsOK, StepOK
<1>5. QED
  BY <1>1, <1>2, <1>3, <1>4

\* A process ends.
LEMMA ProcessEndsKeeps == IInv /\ ProcessEnds => IInv'
<1> SUFFICES ASSUME IInv, ProcessEnds PROVE IInv'
  OBVIOUS
<1> PICK n \in Present : \E r \in ProcessExits(control[n]) : control' = [control EXCEPT ![n] = r]
  BY DEF ProcessEnds
<1>1. PICK r \in ProcessExits(control[n]) : control' = [control EXCEPT ![n] = r]
  OBVIOUS
<1>2. UNCHANGED <<order, config, removing, shuttingDown, work, started>>
  BY DEF ProcessEnds
<1>3. n \in Names /\ TypeOK /\ Coherent(control[n])
  BY DEF IInv, TypeOK, Present, ToSet, Controlled
<1>4. /\ Coherent(r) /\ r.state = control[n].state
      /\ r.pendingStart = control[n].pendingStart /\ r.restartAfterStop = control[n].restartAfterStop
  BY <1>3, ProcessExitsIs
<1>5. n \in removing => Leaving(r)
  BY <1>4 DEF IInv, Controlled, Leaving
<1>6. Controlled' /\ control' \in [Names -> Control]
  BY <1>1, <1>2, <1>3, <1>4, <1>5, ControlledKept
<1>7. TypeOK'
  BY <1>2, <1>3, <1>6, StepsSame DEF TypeOK, Once
<1>8. Closed' /\ StepsOK'
  BY <1>2, StepsSame DEF IInv
<1>9. \A d \in Names : Reached(d) => Reached(d)'
  <2>1. \A d \in Names : control'[d] = IF d = n THEN r ELSE control[d]
    BY <1>1, <1>3 DEF TypeOK
  <2>2. QED
    BY <1>4, <2>1 DEF Reached, StateOf
<1>10. Chained'
  <2>1. \A t \in Left : NeedsOf(t.name)' = NeedsOf(t.name) /\ NeedsOf(t.name) \subseteq Names
    BY <1>2 DEF NeedsOf
  <2>2. QED
    BY <1>2, <1>9, <2>1, StepsSame DEF IInv, Chained
<1>11. QED
  BY <1>6, <1>7, <1>8, <1>10 DEF IInv

\* A method begins: an idle manager gets steps of one kind.
LEMMA RunKeeps ==
  ASSUME IInv, NEW steps \in Seq(Tasks), Run(steps), UNCHANGED <<order, control, config, removing>>,
         shuttingDown' \in BOOLEAN,
         \A t \in ToSet(steps) :
           /\ t.step \notin Targets \cup {"dependency", "drop"}
           /\ StepOK(t)'
  PROVE  IInv'
<1>1. work = <<>> /\ work' = steps /\ started' = {}
  BY DEF Run
<1>2. TypeOK'
  BY <1>1 DEF IInv, TypeOK, Present, Once
<1>3. Controlled'
  BY DEF IInv, Controlled, Present
<1>4. StepsOK'
  BY <1>1 DEF StepsOK, Left
<1>5. Left = {} /\ Left' = ToSet(steps)
  BY <1>1 DEF Left, ToSet
<1>6. Gone' = Gone
  <2>1. \A n \in Names : Task("drop", n) \notin Left'
    BY <1>5, TaskIs
  <2>2. QED
    BY <1>5, <2>1 DEF Gone
<1>7. Closed'
  BY <1>6 DEF IInv, Closed, Kept, Present
<1>8. Chained'
  <2>1. \A i \in DOMAIN work' : work'[i] \in ToSet(steps)
    BY <1>1 DEF ToSet
  <2>2. QED
    BY <1>5, <2>1 DEF Chained
<1>9. QED
  BY <1>2, <1>3, <1>4, <1>7, <1>8 DEF IInv

\* The first of the steps left and the rest of them.
LEMMA HeadIs ==
  ASSUME IInv, work # <<>>
  PROVE  /\ Head(work) \in Tasks /\ This \in Names /\ Head(work) = Task(Head(work).step, This)
         /\ Tail(work) \in Seq(Tasks) /\ Left = {Head(work)} \cup ToSet(Tail(work))
         /\ StepOK(Head(work))
         /\ DOMAIN work = 1..Len(work) /\ Len(work) \in Nat \ {0} /\ work[1] = Head(work)
         /\ Len(work) = 1 => ToSet(Tail(work)) = {}
<1>1. work \in Seq(Tasks)
  BY DEF IInv, TypeOK
<1>2. /\ Head(work) \in Tasks /\ Tail(work) \in Seq(Tasks)
      /\ Left = {Head(work)} \cup ToSet(Tail(work))
  BY <1>1, TailIs DEF Left
<1>3. This \in Names /\ Head(work) = Task(Head(work).step, This)
  BY <1>2, TaskIs DEF This
<1>4. StepOK(Head(work))
  BY <1>2 DEF IInv, StepsOK
<1>5. Len(work) = 1 => ToSet(Tail(work)) = {}
  <2>1. DOMAIN Tail(work) = 1..(Len(work) - 1)
    BY <1>1
  <2>2. QED
    BY <2>1 DEF ToSet
<1>6. QED
  BY <1>1, <1>2, <1>3, <1>4, <1>5

\* Behind a step that is not a dependency's there is neither a target nor a dependency.
LEMMA TailIsPlain ==
  ASSUME IInv, work # <<>>, Head(work).step # "dependency"
  PROVE  \A t \in ToSet(Tail(work)) : t.step \notin Targets \cup {"dependency"}
<1>1. /\ work \in Seq(Tasks) /\ DOMAIN work = 1..Len(work) /\ Len(work) \in Nat \ {0}
      /\ work[1] = Head(work)
  BY HeadIs DEF IInv, TypeOK
<1>2. SUFFICES ASSUME NEW i \in DOMAIN Tail(work)
               PROVE  Tail(work)[i].step \notin Targets \cup {"dependency"}
  BY DEF ToSet
<1>3. i \in 1..(Len(work) - 1) /\ i + 1 \in 1..Len(work) /\ Tail(work)[i] = work[i + 1]
  BY <1>1
<1>4. 1 \in 1..((i + 1) - 1)
  BY <1>3
<1>5. QED
  BY <1>1, <1>3, <1>4 DEF IInv, Chained

\* The first step is done, and does to the manager what its kind may.
LEMMA TailKeeps ==
  ASSUME IInv, work # <<>>, work' = Tail(work), UNCHANGED <<order, config, shuttingDown>>,
         \/ Head(work).step # "drop" /\ removing' = removing
         \/ Head(work).step = "drop" /\ removing' = removing \cup {This},
         \/ started' = started
         \/ Head(work).step = "dependency" /\ started' = started \cup {This},
         Controlled', control' \in [Names -> Control],
         \A d \in Names : Reached(d) => Reached(d)' \/ Head(work).step # "dependency",
         \A d \in Names : Head(work) = Task("dependency", d) => Reached(d)'
  PROVE  IInv'
<1>1. /\ Head(work) \in Tasks /\ This \in Names /\ Head(work) = Task(Head(work).step, This)
      /\ Tail(work) \in Seq(Tasks) /\ Left = {Head(work)} \cup ToSet(Tail(work))
      /\ StepOK(Head(work))
      /\ DOMAIN work = 1..Len(work) /\ Len(work) \in Nat \ {0} /\ work[1] = Head(work)
  BY HeadIs
<1>2. Left' = ToSet(Tail(work)) /\ Present' = Present
  BY DEF Left, Present
<1>3. TypeOK'
  <2>1. TypeOK
    BY DEF IInv
  <2>2. removing' \subseteq Present'
    <3>1. CASE Head(work).step # "drop"
      BY <1>2, <2>1, <3>1 DEF TypeOK
    <3>2. CASE Head(work).step = "drop"
      <4>1. This \in Present
        BY <1>1, <3>2 DEF StepOK, This
      <4>2. QED
        BY <1>2, <2>1, <3>2, <4>1 DEF TypeOK
    <3>3. QED
      BY <3>1, <3>2
  <2>3. started' \subseteq Names
    BY <1>1, <2>1 DEF TypeOK
  <2>4. QED
    BY <1>1, <1>2, <2>1, <2>2, <2>3 DEF TypeOK, Once
<1>4. Gone' = Gone
  <2>1. CASE Head(work).step = "drop"
    <3>1. removing' = removing \cup {This}
      BY <2>1
    <3>2. Head(work) = Task("drop", This)
      BY <1>1, <2>1
    <3>3. \A n \in Names : Task("drop", n) \in Left <=> n = This \/ Task("drop", n) \in Left'
      BY <1>1, <1>2, <3>2, TaskIs
    <3>4. \A n : n \in Gone <=> n \in removing \/ (n \in Names /\ Task("drop", n) \in Left)
      BY DEF Gone
    <3>5. \A n : n \in Gone' <=> n \in removing' \/ (n \in Names /\ Task("drop", n) \in Left')
      BY DEF Gone
    <3>6. QED
      BY <1>1, <3>1, <3>3, <3>4, <3>5
  <2>2. CASE Head(work).step # "drop"
    <3>1. \A n \in Names : Task("drop", n) # Head(work)
      BY <2>2, TaskIs
    <3>2. QED
      BY <1>1, <1>2, <2>2, <3>1 DEF Gone
  <2>3. QED
    BY <2>1, <2>2
<1>5. Kept' = Kept
  BY <1>2, <1>4 DEF Kept
<1>6. Closed'
  BY <1>5 DEF IInv, Closed
<1>7. StepsOK'
  <2> SUFFICES ASSUME NEW t \in Left' PROVE StepOK(t)'
    BY DEF StepsOK
  <2>1. t \in Left /\ Left' \subseteq Left /\ StepOK(t)
    BY <1>1, <1>2 DEF IInv, StepsOK
  <2>2. t.step # "restart"
    BY <1>2, <2>1, HeadIs DEF StepOK
  <2>3. t.step = "restartTarget" => t.name \notin started'
    <3>1. SUFFICES ASSUME t.step = "restartTarget", Head(work).step = "dependency" PROVE t.name # This
      BY <2>1 DEF StepOK
    <3>2. Task("dependency", t.name) \notin Left
      BY <2>1, <3>1 DEF StepOK
    <3>3. QED
      BY <1>1, <3>1, <3>2
  <2>4. QED
    BY <1>2, <1>5, <2>1, <2>2, <2>3 DEF StepOK
<1>8. Chained'
  <2>1. CASE Head(work).step # "dependency"
    <3>1. \A t \in Left' : t.step \notin Targets \cup {"dependency"}
      BY <1>2, <2>1, TailIsPlain
    <3>2. \A i \in DOMAIN work' : work'[i] \in Left'
      BY DEF Left, ToSet
    <3>3. QED
      BY <3>1, <3>2 DEF Chained
  <2>2. CASE Head(work).step = "dependency"
    <3>1. ASSUME NEW i \in DOMAIN work', work'[i].step \in Targets \cup {"dependency"},
                 NEW j \in 1..(i - 1)
          PROVE  work'[j].step = "dependency"
      <4>1. work \in Seq(Tasks)
        BY DEF IInv, TypeOK
      <4>2. i \in 1..(Len(work) - 1) /\ i + 1 \in 1..Len(work) /\ work'[i] = work[i + 1]
        BY <1>1, <4>1
      <4>3. j \in 1..(Len(work) - 1) /\ j + 1 \in 1..((i + 1) - 1) /\ work'[j] = work[j + 1]
        BY <1>1, <4>1, <4>2
      <4>4. QED
        BY <1>1, <3>1, <4>2, <4>3 DEF IInv, Chained
    <3>2. ASSUME NEW t \in Left', t.step \in Targets, NEW d \in NeedsOf(t.name)'
          PROVE  Task("dependency", d) \in Left' \/ Reached(d)'
      <4>1. t \in Left /\ d \in NeedsOf(t.name) /\ d \in Names
        BY <1>1, <1>2 DEF NeedsOf
      <4>2. Task("dependency", d) \in Left \/ Reached(d)
        BY <3>2, <4>1 DEF IInv, Chained
      <4>3. CASE Reached(d)
        BY <2>2, <4>1, <4>3
      <4>4. CASE Task("dependency", d) \in Left'
        BY <4>4
      <4>5. CASE Task("dependency", d) = Head(work)
        BY <4>1, <4>5
      <4>6. QED
        BY <1>1, <1>2, <4>2, <4>3, <4>4, <4>5
    <3>3. QED
      BY <3>1, <3>2 DEF Chained
  <2>3. QED
    BY <2>1, <2>2
<1>9. QED
  BY <1>3, <1>6, <1>7, <1>8 DEF IInv

\* The first step is passed over.
LEMMA SkipKeeps ==
  ASSUME IInv, work # <<>>, Head(work).step \notin {"drop", "dependency"}, Skip
  PROVE  IInv' /\ Left' \subseteq Left
<1>1. work' = Tail(work) /\ UNCHANGED <<order, control, config, removing, shuttingDown, started>>
  BY DEF Skip
<1>2. Controlled' /\ control' \in [Names -> Control]
  BY <1>1 DEF IInv, Controlled, TypeOK, Present
<1>3. \A d \in Names : Head(work) # Task("dependency", d)
  BY TaskIs
<1>4. Left' \subseteq Left
  BY <1>1, HeadIs DEF Left
<1>5. QED
  BY <1>1, <1>2, <1>3, <1>4, TailKeeps

\* A step adds no steps but those of starts.
OnlyStartsAdded == \A t \in Left' : t \in Left \/ t.step \in Targets \cup {"dependency"}

\* The first step is replaced by the start of a service and, before it, of what it needs.
LEMMA WithDependenciesKeeps ==
  ASSUME IInv, work # <<>>, NEW target \in Targets, This \in Kept, ~shuttingDown,
         Head(work).step \in {"autostart", "added", "start", "restart", "startAll", "restartAll"},
         target = "restartTarget" => This \notin started,
         WithDependencies(target)
  PROVE  IInv' /\ OnlyStartsAdded
<1>1. /\ Head(work) \in Tasks /\ Tail(work) \in Seq(Tasks)
      /\ Left = {Head(work)} \cup ToSet(Tail(work)) /\ StepOK(Head(work))
  BY HeadIs
<1>2. PICK n \in Names : n = This
  <2>1. This \in Names
    BY HeadIs
  <2>2. QED
    BY <2>1
<1>3. PICK needed \in DependencyOrders(n) :
        work' = ForAll("dependency", needed) \o <<Task(target, n)>> \o Tail(work)
  BY <1>2 DEF WithDependencies
<1>4. UNCHANGED <<order, control, config, removing, shuttingDown, started>>
  BY DEF WithDependencies
<1>5. TypeOK /\ Present \subseteq Names /\ Present' = Present
  BY <1>4 DEF IInv, TypeOK, Present, ToSet
<1>6. Kept \subseteq Present /\ n \in Kept
  BY <1>2 DEF Kept
<1>7. Needed(n) \subseteq Kept \ {n} /\ NeedsOf(n) \subseteq Needed(n)
  BY <1>5, <1>6, NeededIs DEF IInv, TypeOK, Closed
<1>8. needed \in Seq(Names) /\ ToSet(needed) = Needed(n)
  BY <1>3, <1>5, <1>6, <1>7, OrderIs
<1> DEFINE A == ForAll("dependency", needed)
           B == A \o <<Task(target, n)>>
<1>9. /\ A \in Seq(Tasks) /\ ToSet(A) = {Task("dependency", d) : d \in Needed(n)}
      /\ \A i \in 1..Len(A) : A[i].step = "dependency"
  <2>1. "dependency" \in Steps
    BY DEF Steps, OneStart
  <2>2. QED
    BY <1>8, <2>1, ForAllIs
<1> HIDE DEF A
<1>10. Task(target, n) \in Tasks
  BY TaskIs DEF Steps, OneStart
<1>11. B \in Seq(Tasks) /\ Len(B) = Len(A) + 1 /\ \A i \in 1..Len(A) : B[i] = A[i]
  BY <1>9, <1>10
<1>12. ToSet(B) = ToSet(A) \cup {Task(target, n)}
  <2> DEFINE C == <<Task(target, n)>>
  <2>1. C \in Seq(Tasks) /\ ToSet(C) = {Task(target, n)} /\ B = A \o C
    BY <1>10 DEF ToSet
  <2> HIDE DEF A, B, C
  <2>2. A \in Seq(Tasks)
    BY <1>9
  <2>3. ToSet(A \o C) = ToSet(A) \cup ToSet(C)
    BY <2>1, <2>2, ConcatIs
  <2>4. QED
    BY <2>1, <2>3, Zenon
<1>13. work' = B \o Tail(work)
  BY <1>3 DEF A
<1> HIDE DEF B
<1>14. work' \in Seq(Tasks) /\ Left' = ToSet(B) \cup ToSet(Tail(work))
  BY <1>1, <1>11, <1>13, ConcatIs, ZenonT(60) DEF Left
<1>15. \A t \in Left' :
         \/ t \in ToSet(Tail(work)) /\ t \in Left
         \/ t = Task(target, n)
         \/ \E d \in Needed(n) : t = Task("dependency", d)
  BY <1>1, <1>9, <1>12, <1>14
<1>16. \A t \in ToSet(Tail(work)) : t.step \notin Targets \cup {"dependency"}
  BY TailIsPlain
<1>17. Gone' = Gone
  <2>1. \A m \in Names : Task("drop", m) \in Left <=> Task("drop", m) \in Left'
    <3>1. SUFFICES ASSUME NEW m \in Names
                   PROVE  Task("drop", m) \in Left <=> Task("drop", m) \in Left'
      OBVIOUS
    <3>2. Task("drop", m) # Head(work) /\ Task("drop", m) # Task(target, n)
      BY TaskIs DEF Targets
    <3>3. \A d : Task("drop", m) # Task("dependency", d)
      BY TaskIs
    <3>4. QED
      BY <1>1, <1>14, <1>15, <3>2, <3>3
  <2>2. QED
    BY <1>4, <2>1 DEF Gone
<1>18. Kept' = Kept
  BY <1>5, <1>17 DEF Kept
<1>19. TypeOK'
  BY <1>4, <1>5, <1>14 DEF TypeOK, Once
<1>20. Controlled' /\ Closed'
  BY <1>4, <1>5, <1>18 DEF IInv, Controlled, Closed
<1>21. StepsOK'
  <2> SUFFICES ASSUME NEW t \in Left' PROVE StepOK(t)'
    BY DEF StepsOK
  <2>1. CASE t = Task(target, n)
    <3>1. t.step = target /\ t.name = n
      BY <2>1, TaskIs
    <3>2. Task("dependency", n) \notin Left'
      <4>1. Task("dependency", n) # Task(target, n)
        BY TaskIs DEF Targets
      <4>2. Task("dependency", n) \notin ToSet(Tail(work))
        BY <1>16, TaskIs
      <4>3. \A d \in Needed(n) : Task("dependency", n) # Task("dependency", d)
        BY <1>7, TaskIs
      <4>4. QED
        BY <1>15, <4>1, <4>2, <4>3
    <3>3. t.name \in Kept' /\ ~shuttingDown'
      BY <1>4, <1>6, <1>18, <3>1
    <3>4. target = "restartTarget" => n \notin started'
      BY <1>2, <1>4
    <3>5. QED
      BY <3>1, <3>2, <3>3, <3>4 DEF StepOK, Targets, AllStart
  <2>2. CASE \E d \in Needed(n) : t = Task("dependency", d)
    <3>1. t.step = "dependency" /\ t.name \in Kept
      BY <1>7, <2>2, TaskIs
    <3>2. t.name \in Kept' /\ ~shuttingDown'
      BY <1>4, <1>18, <3>1
    <3>3. QED
      BY <3>1, <3>2 DEF StepOK, Targets, AllStart
  <2>3. CASE t \in ToSet(Tail(work)) /\ t \in Left
    <3>1. StepOK(t) /\ t.step \notin Targets \cup {"dependency"}
      BY <1>16, <2>3 DEF IInv, StepsOK
    <3>2. t.step # "restart"
      BY <2>3, <3>1, HeadIs DEF StepOK
    <3>3. t.step # "sweep"
      <4>1. Head(work) \in Left /\ Head(work).step \in OneStart \cup AllStart
        BY <1>1 DEF OneStart, AllStart
      <4>2. QED
        BY <3>1, <4>1 DEF StepOK
    <3>4. t.step \in AllStart => \A u \in Left' : u.step # "drop"
      <4> SUFFICES ASSUME t.step \in AllStart, NEW u \in Left' PROVE u.step # "drop"
        OBVIOUS
      <4>1. \A v \in Left : v.step # "drop"
        BY <3>1 DEF StepOK
      <4>2. QED
        BY <1>15, <4>1, TaskIs DEF Targets
    <3>5. QED
      BY <1>4, <1>5, <1>18, <3>1, <3>2, <3>3, <3>4 DEF StepOK, Targets
  <2>4. QED
    BY <1>15, <2>1, <2>2, <2>3
<1>22. ASSUME NEW i \in DOMAIN work', work'[i].step \in Targets \cup {"dependency"},
              NEW j \in 1..(i - 1)
       PROVE  work'[j].step = "dependency"
  <2> DEFINE C == Tail(work)
  <2>1. C \in Seq(Tasks) /\ work' = B \o C /\ ToSet(C) = ToSet(Tail(work))
    BY <1>1, <1>13
  <2> HIDE DEF C
  <2>2. /\ DOMAIN work' = 1..(Len(B) + Len(C)) /\ Len(B) \in Nat /\ Len(C) \in Nat
        /\ \A k \in 1..(Len(B) + Len(C)) : work'[k] = IF k <= Len(B) THEN B[k] ELSE C[k - Len(B)]
    <3>1. /\ DOMAIN (B \o C) = 1..(Len(B) + Len(C)) /\ Len(B) \in Nat /\ Len(C) \in Nat
          /\ \A k \in 1..(Len(B) + Len(C)) : (B \o C)[k] = IF k <= Len(B) THEN B[k] ELSE C[k - Len(B)]
      BY <1>11, <2>1, ConcatIs
    <3>2. QED
      BY <2>1, <3>1
  <2>3. i <= Len(B)
    <3>1. SUFFICES ASSUME i > Len(B) PROVE FALSE
      BY <1>22, <2>2
    <3>2. i - Len(B) \in 1..Len(C) /\ work'[i] = C[i - Len(B)]
      BY <2>2, <3>1
    <3>3. C[i - Len(B)] \in ToSet(C)
      BY <2>1, <3>2 DEF ToSet
    <3>4. QED
      BY <1>16, <1>22, <2>1, <3>2, <3>3
  <2>4. j \in 1..Len(A) /\ j \in 1..Len(B) /\ j <= Len(B) /\ j \in 1..(Len(B) + Len(C))
    BY <1>9, <1>11, <2>2, <2>3
  <2>5. QED
    BY <1>9, <1>11, <2>2, <2>4
<1>23. ASSUME NEW t \in Left', t.step \in Targets, NEW d \in NeedsOf(t.name)'
       PROVE  Task("dependency", d) \in Left'
  <2>1. t.step # "dependency"
    BY <1>23 DEF Targets
  <2>2. t = Task(target, n)
    BY <1>15, <1>16, <1>23, <2>1, TaskIs
  <2>3. d \in NeedsOf(n)
    BY <1>4, <2>2, TaskIs DEF NeedsOf
  <2>4. QED
    BY <1>7, <1>9, <1>12, <1>14, <2>3
<1>24. Chained'
  BY <1>22, <1>23 DEF Chained
<1>25. OnlyStartsAdded
  BY <1>15, TaskIs DEF OnlyStartsAdded
<1>26. QED
  BY <1>19, <1>20, <1>21, <1>24, <1>25 DEF IInv

\* What the invariant says of the service whose step it is.
LEMMA ThisIs ==
  ASSUME IInv, work # <<>>
  PROVE  /\ This \in Names /\ Coherent(control[This])
         /\ This \notin Present => control[This] = NewControl
         /\ This \in removing => Leaving(control[This])
         /\ Head(work).step \in OneStart
              => This \in Kept /\ This \in Present /\ This \notin removing /\ ~shuttingDown
         /\ Head(work).step \in {"stop", "stopAll", "drop"} => ~shuttingDown
<1>1. This \in Names /\ StepOK(Head(work))
  BY HeadIs
<1>2. /\ Head(work).step \in OneStart => This \in Kept /\ ~shuttingDown
      /\ Head(work).step \in {"stop", "stopAll", "drop"} => ~shuttingDown
  BY <1>1 DEF StepOK, This
<1>3. QED
  BY <1>1, <1>2 DEF IInv, Controlled, Kept, Gone

\* A step calls its service and leaves the manager alone.
LEMMA CallKeeps ==
  ASSUME IInv, work # <<>>, Head(work).step \notin {"drop", "dependency"},
         NEW r, Coherent(r), This \notin Present => r = NewControl, This \in removing => Leaving(r),
         control' = [control EXCEPT ![This] = r], work' = Tail(work),
         UNCHANGED <<order, config, removing, shuttingDown, started>>
  PROVE  IInv'
<1>1. PICK n \in Names : n = This
  <2>1. This \in Names
    BY HeadIs
  <2>2. QED
    BY <2>1
<1>2. control' = [control EXCEPT ![n] = r]
  BY <1>1
<1>3. Controlled' /\ control' \in [Names -> Control]
  BY <1>1, <1>2, ControlledKept
<1>4. \A d \in Names : Head(work) # Task("dependency", d)
  BY TaskIs
<1>5. QED
  BY <1>3, <1>4, TailKeeps

\* The service the command names is started, or restarted.
LEMMA StartTargetKeeps == IInv /\ StartTarget => IInv'
<1> SUFFICES ASSUME IInv, StartTarget PROVE IInv'
  OBVIOUS
<1>1. work # <<>> /\ Head(work).step \in Targets
  BY DEF StartTarget, Current, Targets
<1>2. /\ work' = Tail(work)
      /\ UNCHANGED <<order, config, removing, shuttingDown, started>>
  BY DEF StartTarget, Calls
<1>3. Coherent(control[This]) /\ This \in Present /\ This \notin removing
  BY <1>1, ThisIs DEF OneStart
<1>4. DependenciesRunning(This) \in BOOLEAN
  BY DEF DependenciesRunning
<1>5. PICK r : /\ control' = [control EXCEPT ![This] = r]
               /\ \/ r \in Start(control[This], DependenciesRunning(This))
                  \/ r \in Restart(control[This], DependenciesRunning(This))
  BY DEF StartTarget, Calls
<1>6. Coherent(r)
  BY <1>3, <1>4, <1>5, StartIs, RestartIs
<1>7. QED
  BY <1>1, <1>2, <1>3, <1>5, <1>6, CallKeeps DEF Targets

\* A call that leaves a service on its way out, or leaves it as it was.
LEMMA QuietCallKeeps ==
  ASSUME IInv, work # <<>>, Head(work).step \notin {"drop", "dependency"},
         NEW r, control' = [control EXCEPT ![This] = r], work' = Tail(work),
         UNCHANGED <<order, config, removing, shuttingDown, started>>,
         \/ Coherent(r) /\ Leaving(r) /\ r.child = control[This].child
         \/ Coherent(r) /\ control[This].state \notin {"Stopping", "Stopped"}
         \/ r = control[This]
  PROVE  IInv'
<1>1. /\ Coherent(control[This])
      /\ This \notin Present => control[This] = NewControl
      /\ This \in removing => Leaving(control[This])
  BY ThisIs
<1>2. NewControl.child = "none" /\ NewControl.state = "Stopped"
  BY DEF NewControl
<1>3. Coherent(r)
  BY <1>1
<1>4. This \notin Present => r = NewControl
  BY <1>1, <1>2, AbsentStays
<1>5. This \in removing => Leaving(r)
  BY <1>1 DEF Leaving
<1>6. QED
  BY <1>3, <1>4, <1>5, CallKeeps

\* A service is stopped, or its heartbeat noted.
LEMMA StopOneKeeps == IInv /\ StopOne => IInv'
<1> SUFFICES ASSUME IInv, StopOne PROVE IInv'
  OBVIOUS
<1>1. work # <<>> /\ Head(work).step \in {"stop", "stopAll", "heartbeat"}
  BY DEF StopOne, Current
<1>2. work' = Tail(work) /\ UNCHANGED <<order, config, removing, shuttingDown, started>>
  BY DEF StopOne, Calls
<1>3. PICK r : /\ control' = [control EXCEPT ![This] = r]
               /\ \/ r \in Stop(control[This])
                  \/ r = control[This]
                  \/ r \in Heartbeat(control[This])
  BY DEF StopOne, Calls
<1>4. Coherent(control[This])
  BY <1>1, ThisIs
<1>5. CASE r \in Stop(control[This])
  BY <1>1, <1>2, <1>3, <1>4, <1>5, StopIs, QuietCallKeeps
<1>6. CASE r = control[This]
  BY <1>1, <1>2, <1>3, <1>6, QuietCallKeeps
<1>7. CASE r \in Heartbeat(control[This])
  <2>1. Coherent(r) /\ (control[This].state \notin Up => r = control[This])
    BY <1>4, <1>7, HeartbeatIs
  <2>2. r = control[This] \/ control[This].state \notin {"Stopping", "Stopped"}
    BY <2>1 DEF Up
  <2>3. QED
    BY <1>1, <1>2, <1>3, <2>1, <2>2, QuietCallKeeps
<1>8. QED
  BY <1>3, <1>5, <1>6, <1>7

\* A service is stopped by the shutdown.
LEMMA ShutDownOneKeeps == IInv /\ ShutDownOne => IInv'
<1> SUFFICES ASSUME IInv, ShutDownOne PROVE IInv'
  OBVIOUS
<1>1. work # <<>> /\ Head(work).step = "shutdown"
  BY DEF ShutDownOne, Current
<1>2. work' = Tail(work) /\ UNCHANGED <<order, config, removing, shuttingDown, started>>
  BY DEF ShutDownOne, Calls
<1>3. PICK r : /\ control' = [control EXCEPT ![This] = r]
               /\ r \in Stop(control[This]) \/ r = control[This]
  BY DEF ShutDownOne, Calls, ShutDown
<1>4. Coherent(control[This])
  BY <1>1, ThisIs
<1>5. QED
  BY <1>1, <1>2, <1>3, <1>4, StopIs, QuietCallKeeps

\* A service is killed.
LEMMA KillOneKeeps == IInv /\ KillOne => IInv'
<1> SUFFICES ASSUME IInv, KillOne PROVE IInv'
  OBVIOUS
<1>1. work # <<>> /\ Head(work).step = "kill"
  BY DEF KillOne, Current
<1>2. work' = Tail(work) /\ UNCHANGED <<order, config, removing, shuttingDown, started>>
  BY DEF KillOne, Calls
<1>3. PICK r \in Kill(control[This]) : control' = [control EXCEPT ![This] = r]
  BY DEF KillOne, Calls
<1>4. Coherent(control[This])
  BY <1>1, ThisIs
<1>5. QED
  BY <1>1, <1>2, <1>3, <1>4, KillIs, QuietCallKeeps

\* A service is ticked.
LEMMA TickOneKeeps == IInv /\ TickOne => IInv'
<1> SUFFICES ASSUME IInv, TickOne PROVE IInv'
  OBVIOUS
<1>1. work # <<>> /\ Head(work).step = "tick"
  BY DEF TickOne, Current
<1>2. work' = Tail(work) /\ UNCHANGED <<order, config, removing, shuttingDown, started>>
  BY DEF TickOne, Calls
<1>3. PICK r \in Tick(control[This], ~shuttingDown, DependenciesRunning(This)) :
        control' = [control EXCEPT ![This] = r]
  BY DEF TickOne, Calls
<1>4. /\ Coherent(control[This])
      /\ This \notin Present => control[This] = NewControl
      /\ This \in removing => Leaving(control[This])
  BY <1>1, ThisIs
<1>5. (~shuttingDown) \in BOOLEAN /\ DependenciesRunning(This) \in BOOLEAN
  BY DEF DependenciesRunning
<1>6. /\ Coherent(r)
      /\ Leaving(control[This]) => Leaving(r)
      /\ control[This].state = "Stopped" => r = control[This]
  BY <1>3, <1>4, <1>5, TickIs
<1>7. This \notin Present => r = NewControl
  BY <1>4, <1>6 DEF NewControl
<1>8. QED
  BY <1>1, <1>2, <1>3, <1>4, <1>6, <1>7, CallKeeps

\* A waiting service is started or given up; in a shutdown, one that may stop stops.
LEMMA SettleOneKeeps == IInv /\ SettleOne => IInv'
<1> SUFFICES ASSUME IInv, SettleOne PROVE IInv'
  OBVIOUS
<1>1. work # <<>> /\ Head(work).step = "settle"
  BY DEF SettleOne, Current
<1>2. work' = Tail(work) /\ UNCHANGED <<order, config, removing, shuttingDown, started>>
  BY DEF SettleOne, Calls
<1>3. PICK r \in Settle(This) : control' = [control EXCEPT ![This] = r]
  BY DEF SettleOne, Calls
<1>4. Coherent(control[This])
  BY <1>1, ThisIs
<1>5. \/ r \in Stop(control[This])
      \/ r = control[This]
      \/ StateOf(This) = "Waiting" /\ r \in Start(control[This], TRUE)
      \/ StateOf(This) = "Waiting" /\ r \in Abandon(control[This])
  BY <1>3 DEF Settle, ShutDown
<1>6. CASE r \in Stop(control[This]) \/ r = control[This]
  BY <1>1, <1>2, <1>3, <1>4, <1>6, StopIs, QuietCallKeeps
<1>7. CASE StateOf(This) = "Waiting" /\ (r \in Start(control[This], TRUE) \/ r \in Abandon(control[This]))
  <2>1. Coherent(r) /\ control[This].state \notin {"Stopping", "Stopped"}
    BY <1>4, <1>7, StartIs, AbandonIs DEF StateOf
  <2>2. QED
    BY <1>1, <1>2, <1>3, <2>1, QuietCallKeeps
<1>8. QED
  BY <1>5, <1>6, <1>7

\* A service is dropped: it joins removing, as Gone foresaw.
LEMMA DropKeeps == IInv /\ Drop => IInv'
<1> SUFFICES ASSUME IInv, Drop PROVE IInv'
  OBVIOUS
<1>1. work # <<>> /\ Head(work).step = "drop"
  BY DEF Drop, Current
<1>2. work' = Tail(work) /\ removing' = removing \cup {This}
      /\ UNCHANGED <<order, config, shuttingDown, started>>
  BY DEF Drop, Calls
<1>3. PICK n \in Names : n = This
  <2>1. This \in Names
    BY <1>1, HeadIs
  <2>2. QED
    BY <2>1
<1>4. PICK r \in Stop(control[n]) : control' = [control EXCEPT ![n] = r]
  BY <1>3 DEF Drop, Calls
<1>5. Coherent(control[n]) /\ StepOK(Head(work))
  BY <1>1, <1>3, ThisIs, HeadIs
<1>6. Coherent(r) /\ Leaving(r) /\ n \in Present
  BY <1>1, <1>3, <1>4, <1>5, StopIs DEF StepOK, This
<1>7. removing' \subseteq removing \cup {n}
  BY <1>2, <1>3
<1>8. Controlled' /\ control' \in [Names -> Control]
  BY <1>2, <1>4, <1>6, <1>7, ControlledKept
<1>9. \A d \in Names : Head(work) # Task("dependency", d)
  BY <1>1, TaskIs
<1>10. QED
  BY <1>1, <1>2, <1>8, <1>9, TailKeeps

\* A dependency is started: it is up from here on, or will be.
LEMMA StartDependencyKeeps == IInv /\ StartDependency => IInv'
<1> SUFFICES ASSUME IInv, StartDependency PROVE IInv'
  OBVIOUS
<1>1. work # <<>> /\ Head(work).step = "dependency"
  BY DEF StartDependency, Current
<1>2. /\ work' = Tail(work) /\ UNCHANGED <<order, config, removing, shuttingDown>>
      /\ started' = started \/ started' = started \cup {This}
  BY DEF StartDependency, Calls
<1>3. PICK n \in Names : n = This
  <2>1. This \in Names
    BY <1>1, HeadIs
  <2>2. QED
    BY <2>1
<1>4. PICK r \in Start(control[n], DependenciesRunning(n)) : control' = [control EXCEPT ![n] = r]
  BY <1>3 DEF StartDependency, Calls
<1>5. Coherent(control[n]) /\ n \in Present /\ n \notin removing
  BY <1>1, <1>3, ThisIs DEF OneStart
<1>6. DependenciesRunning(n) \in BOOLEAN
  BY DEF DependenciesRunning
<1>7. Coherent(r) /\ r.state # "Stopped" /\ (r.state = "Stopping" => r.pendingStart)
  BY <1>4, <1>5, <1>6, StartIs
<1>8. Controlled' /\ control' \in [Names -> Control]
  BY <1>2, <1>4, <1>5, <1>7, ControlledKept
<1>9. \A d \in Names : control'[d] = IF d = n THEN r ELSE control[d]
  BY <1>4 DEF IInv, TypeOK
<1>10. \A d \in Names : d = n \/ Reached(d) => Reached(d)'
  BY <1>7, <1>9 DEF Reached, StateOf
<1>11. \A d \in Names : Head(work) = Task("dependency", d) => d = n
  BY <1>3, TaskIs DEF This
<1>12. QED
  BY <1>1, <1>2, <1>8, <1>10, <1>11, TailKeeps

\* A dropped service that no longer runs leaves.
LEMMA SweepKeeps == IInv /\ Sweep => IInv'
<1> SUFFICES ASSUME IInv, Sweep PROVE IInv'
  OBVIOUS
<1>1. work # <<>> /\ Head(work).step = "sweep"
  BY DEF Sweep, Current
<1>2. CASE ~IsFinished(This)
  BY <1>1, <1>2, SkipKeeps DEF Sweep
<1>3. CASE IsFinished(This)
  <2>1. PICK n \in Names : n = This
    <3>1. This \in Names
      BY <1>1, HeadIs
    <3>2. QED
      BY <3>1
  <2>2. /\ order' = Only(order, Present \ {n})
        /\ removing' = removing \ {n}
        /\ control' = [control EXCEPT ![n] = NewControl]
        /\ config' = [config EXCEPT ![n] = NoEntry(n)]
        /\ work' = Tail(work)
        /\ UNCHANGED <<shuttingDown, started>>
    BY <1>3, <2>1 DEF Sweep
  <2>3. /\ Tail(work) \in Seq(Tasks) /\ Left = {Head(work)} \cup ToSet(Tail(work))
        /\ StepOK(Head(work))
    BY <1>1, HeadIs
  <2>4. TypeOK /\ Present \subseteq Names /\ n \in removing
    BY <1>3, <2>1 DEF IInv, TypeOK, Present, ToSet, IsFinished
  <2>5. order' \in Seq(Names) /\ Once(order)' /\ Present' = Present \ {n}
    <3>1. order \in Seq(Names) /\ Once(order)
      BY <2>4 DEF TypeOK
    <3>2. /\ Only(order, Present \ {n}) \in Seq(Names)
          /\ ToSet(Only(order, Present \ {n})) = ToSet(order) \cap (Present \ {n})
          /\ Once(Only(order, Present \ {n}))
      BY <3>1, OnlyIs
    <3>3. QED
      BY <2>2, <3>2 DEF Present, Once
  <2>6. NewControl \in Control /\ NoEntry(n) \in Entry
    BY NewControlIs DEF Coherent, NoEntry, Entry
  <2>7. /\ \A m \in Names : control'[m] = IF m = n THEN NewControl ELSE control[m]
        /\ \A m \in Names : m # n => config'[m] = config[m]
    BY <2>2, <2>4 DEF TypeOK
  <2>8. TypeOK'
    <3>1. control' \in [Names -> Control] /\ config' \in [Names -> Entry]
      BY <2>2, <2>4, <2>6 DEF TypeOK
    <3>2. removing' \subseteq Present'
      BY <2>2, <2>4, <2>5 DEF TypeOK
    <3>3. QED
      BY <2>2, <2>3, <2>4, <2>5, <3>1, <3>2 DEF TypeOK
  <2>9. Controlled'
    <3>1. \A m \in Names : Coherent(control[m])'
      BY <2>7, NewControlIs DEF IInv, Controlled
    <3>2. \A m \in Names \ Present' : control'[m] = NewControl
      BY <2>5, <2>7 DEF IInv, Controlled
    <3>3. \A m \in removing' : Leaving(control[m])'
      BY <2>2, <2>4, <2>7 DEF IInv, Controlled, TypeOK
    <3>4. QED
      BY <3>1, <3>2, <3>3 DEF Controlled
  <2>10. Left' = ToSet(Tail(work)) /\ Left' \subseteq Left
    BY <2>2, <2>3 DEF Left
  <2>11. \A t \in Left : t.step \notin OneStart \cup AllStart \cup {"drop"}
    BY <1>1, <2>3 DEF StepOK
  <2>12. Gone = removing /\ Gone' = removing'
    <3>1. \A m \in Names : Task("drop", m) \notin Left /\ Task("drop", m) \notin Left'
      BY <2>10, <2>11, TaskIs
    <3>2. QED
      BY <3>1 DEF Gone
  <2>13. Kept' = Kept
    BY <2>2, <2>4, <2>5, <2>12 DEF Kept
  <2>14. Closed'
    BY <2>4, <2>7, <2>12, <2>13 DEF IInv, Closed, Kept
  <2>15. StepsOK'
    <3> SUFFICES ASSUME NEW t \in Left' PROVE StepOK(t)'
      BY DEF StepsOK
    <3>1. StepOK(t) /\ t.step \notin OneStart \cup AllStart \cup {"drop"}
      BY <2>10, <2>11 DEF IInv, StepsOK
    <3>2. t.step \notin {"restart", "restartTarget"}
      BY <3>1 DEF OneStart, Targets
    <3>3. \A u \in Left' : u.step \notin OneStart \cup AllStart \cup {"drop"}
      BY <2>10, <2>11
    <3>4. /\ t.step \in {"shutdown", "kill"} => shuttingDown'
          /\ t.step \in {"stop", "stopAll"} => ~shuttingDown'
      BY <2>2, <3>1 DEF StepOK
    <3>5. QED
      BY <3>1, <3>2, <3>3, <3>4 DEF StepOK
  <2>16. Chained'
    <3>1. \A t \in Left' : t.step \notin Targets \cup {"dependency"}
      BY <2>10, <2>11 DEF OneStart
    <3>2. \A i \in DOMAIN work' : work'[i] \in Left'
      BY DEF Left, ToSet
    <3>3. QED
      BY <3>1, <3>2 DEF Chained
  <2>17. QED
    BY <2>8, <2>9, <2>14, <2>15, <2>16 DEF IInv
<1>4. QED
  BY <1>2, <1>3

\* A service is about to be started: its dependencies come first.
LEMMA StartKeeps == IInv /\ (StartAutostart \/ StartAdded \/ StartOne) => IInv' /\ OnlyStartsAdded
<1> SUFFICES ASSUME IInv, StartAutostart \/ StartAdded \/ StartOne PROVE IInv' /\ OnlyStartsAdded
  OBVIOUS
<1>1. work # <<>> /\ Head(work).step \in {"autostart", "added", "start", "restart"}
  BY DEF StartAutostart, StartAdded, StartOne, Current
<1>2. This \in Kept /\ ~shuttingDown
  BY <1>1, ThisIs DEF OneStart
<1>3. Head(work).step = "restart" => This \notin started
  BY <1>1, HeadIs DEF StepOK
<1>4. CASE Skip
  BY <1>1, <1>4, SkipKeeps DEF OnlyStartsAdded
<1>5. CASE WithDependencies("startTarget")
  BY <1>1, <1>2, <1>5, WithDependenciesKeeps DEF Targets
<1>6. CASE Current("restart") /\ WithDependencies("restartTarget")
  <2>1. Head(work).step = "restart"
    BY <1>6 DEF Current
  <2>2. QED
    BY <1>1, <1>2, <1>3, <1>6, <2>1, WithDependenciesKeeps DEF Targets
<1>7. QED
  BY <1>4, <1>5, <1>6 DEF StartAutostart, StartAdded, StartOne

\* The next one of a command to all services.
LEMMA StartNextKeeps == IInv /\ StartNext => IInv' /\ OnlyStartsAdded
<1> SUFFICES ASSUME IInv, StartNext PROVE IInv' /\ OnlyStartsAdded
  OBVIOUS
<1>1. work # <<>> /\ Head(work).step \in {"startAll", "restartAll"}
  BY DEF StartNext, Current
<1>2. CASE Skip
  BY <1>1, <1>2, SkipKeeps DEF OnlyStartsAdded
<1>3. ASSUME This \notin Skipped, NEW target \in Targets, WithDependencies(target)
      PROVE  IInv' /\ OnlyStartsAdded
  <2>1. This \in Names /\ This \in Present /\ ~shuttingDown /\ \A u \in Left : u.step # "drop"
    BY <1>1, HeadIs DEF StepOK, AllStart, This
  <2>2. \A m \in Names : Task("drop", m) \notin Left
    BY <2>1, TaskIs
  <2>3. This \in Kept /\ This \notin started
    BY <1>3, <2>1, <2>2 DEF Skipped, Kept, Gone
  <2>4. QED
    BY <1>1, <1>3, <2>1, <2>3, WithDependenciesKeeps
<1>4. QED
  BY <1>2, <1>3 DEF StartNext, Targets

\* Every step keeps the invariant.
LEMMA StepKeeps == IInv /\ Step => IInv'
BY StartKeeps, StartNextKeeps, StartDependencyKeeps, StartTargetKeeps, StopOneKeeps, DropKeeps,
   ShutDownOneKeeps, KillOneKeeps, TickOneKeeps, SettleOneKeeps, SweepKeeps DEF Step

\* The services there are.
LEMMA PresentIs ==
  ASSUME IInv
  PROVE  /\ order \in Seq(Names) /\ ToSet(order) = Present /\ Present \subseteq Names
         /\ removing \subseteq Present
BY DEF IInv, TypeOK, Present, ToSet

\* No step adds a service.
LEMMA StepAdds ==
  ASSUME IInv, Step
  PROVE  OnlyStartsAdded /\ Present' \subseteq Present
<1>1. OnlyStartsAdded
  <2>1. CASE StartAutostart \/ StartAdded \/ StartOne \/ StartNext
    BY <2>1, StartKeeps, StartNextKeeps
  <2>2. CASE ~(StartAutostart \/ StartAdded \/ StartOne \/ StartNext)
    <3>1. work # <<>> /\ work' = Tail(work)
      BY <2>2 DEF Step, StartDependency, StartTarget, StopOne, Drop, ShutDownOne, KillOne, TickOne,
                  SettleOne, Sweep, Current, Calls, Skip
    <3>2. Left' \subseteq Left
      BY <3>1, HeadIs DEF Left
    <3>3. QED
      BY <3>2 DEF OnlyStartsAdded
  <2>3. QED
    BY <2>1, <2>2
<1>2. Present' \subseteq Present
  <2>1. CASE Sweep /\ IsFinished(This)
    <3>1. order' = Only(order, Present \ {This})
      BY <2>1 DEF Sweep
    <3>2. ToSet(Only(order, Present \ {This})) = ToSet(order) \cap (Present \ {This})
      BY PresentIs, OnlyIs
    <3>3. QED
      BY <3>1, <3>2 DEF Present
  <2>2. CASE ~(Sweep /\ IsFinished(This))
    <3>1. order' = order
      BY <2>2 DEF Step, StartAutostart, StartAdded, StartOne, StartNext, StartDependency, StartTarget,
                  StopOne, Drop, ShutDownOne, KillOne, TickOne, SettleOne, Sweep, WithDependencies, Calls, Skip
    <3>2. QED
      BY <3>1 DEF Present
  <2>3. QED
    BY <2>1, <2>2
<1>3. QED
  BY <1>1, <1>2

----------------------------------------------------------------------------
(* The methods *)

\* A command to one service.
LEMMA ExecuteOneKeeps ==
  IInv /\ ExecuteOne => IInv' /\ \A t \in Left' : t.step \in {"start", "restart", "stop", "heartbeat"}
<1> SUFFICES ASSUME IInv, ExecuteOne
             PROVE  IInv' /\ \A t \in Left' : t.step \in {"start", "restart", "stop", "heartbeat"}
  OBVIOUS
<1>1. PICK n \in Present \ removing, step \in {"start", "restart", "stop", "heartbeat"} :
        /\ shuttingDown => step = "heartbeat"
        /\ Run(<<Task(step, n)>>)
        /\ UNCHANGED <<order, control, config, removing, shuttingDown>>
  BY DEF ExecuteOne
<1> DEFINE steps == <<Task(step, n)>>
<1>2. n \in Names /\ step \in Steps /\ Task(step, n) \in Tasks
  BY PresentIs, TaskIs DEF Steps, OneStart
<1>3. steps \in Seq(Tasks) /\ ToSet(steps) = {Task(step, n)} /\ Len(steps) = 1
  BY <1>2 DEF ToSet
<1> HIDE DEF steps
<1>4. work = <<>> /\ work' = steps /\ started' = {}
  BY <1>1 DEF Run, steps
<1>5. Present' = Present /\ Gone' = removing
  <2>1. \A m \in Names : Task("drop", m) \notin Left'
    <3>1. \A m \in Names : Task("drop", m) # Task(step, n)
      BY TaskIs
    <3>2. QED
      BY <1>3, <1>4, <3>1 DEF Left
  <2>2. QED
    BY <1>1, <2>1 DEF Present, Gone
<1>6. n \in Kept'
  BY <1>1, <1>5 DEF Kept
<1>7. StepOK(Task(step, n))'
  <2>1. Task(step, n).step = step /\ Task(step, n).name = n
    BY TaskIs
  <2>2. /\ step \in OneStart => n \in Kept' /\ ~shuttingDown'
        /\ step \in {"stop", "stopAll"} => ~shuttingDown'
    BY <1>1, <1>6 DEF OneStart, Targets
  <2>3. step \notin AllStart \cup {"drop", "sweep", "shutdown", "kill", "restartTarget"}
    BY <1>1 DEF AllStart
  <2>4. QED
    BY <1>3, <1>4, <2>1, <2>2, <2>3 DEF StepOK
<1>8. \A t \in ToSet(steps) : t.step \notin Targets \cup {"dependency", "drop"} /\ StepOK(t)'
  BY <1>3, <1>7, TaskIs DEF Targets
<1>9. Run(steps) /\ shuttingDown' \in BOOLEAN
  BY <1>1 DEF steps, IInv, TypeOK
<1>10. \A t \in Left' : t.step = step
  BY <1>3, <1>4, TaskIs DEF Left
<1>11. QED
  BY <1>1, <1>3, <1>8, <1>9, <1>10, RunKeeps

\* A method that takes one step for every service.
LEMMA RunForAllKeeps ==
  ASSUME IInv, NEW step \in AllStart \cup {"stopAll", "shutdown", "kill"}, Run(ForAll(step, order)),
         UNCHANGED <<order, control, config, removing>>, shuttingDown' \in BOOLEAN,
         step \in AllStart \cup {"stopAll"} => ~shuttingDown',
         step \in {"shutdown", "kill"} => shuttingDown'
  PROVE  IInv' /\ \A t \in Left' : t.step = step
<1> DEFINE steps == ForAll(step, order)
<1>1. step \in Steps
  BY DEF Steps, AllStart
<1>2. steps \in Seq(Tasks) /\ ToSet(steps) = {Task(step, n) : n \in Present}
  BY <1>1, PresentIs, ForAllIs
<1>3. work' = steps /\ Run(steps)
  BY DEF Run
<1> HIDE DEF steps
<1>4. \A t \in ToSet(steps) : t.step = step /\ t.name \in Present
  BY <1>2, TaskIs
<1>5. Present' = Present /\ Left' = ToSet(steps)
  BY <1>3 DEF Present, Left
<1>6. step \notin OneStart \cup {"drop", "sweep", "restart", "restartTarget"}
  BY DEF OneStart, AllStart, Targets
<1>7. \A t \in ToSet(steps) : StepOK(t)'
  BY <1>4, <1>5, <1>6 DEF StepOK
<1>8. \A t \in ToSet(steps) : t.step \notin Targets \cup {"dependency", "drop"}
  BY <1>4, <1>6 DEF OneStart
<1>9. QED
  BY <1>2, <1>3, <1>4, <1>5, <1>7, <1>8, RunKeeps

\* A command to all services.
LEMMA ExecuteAllKeeps ==
  IInv /\ ExecuteAll => IInv' /\ \A t \in Left' : t.step \in {"startAll", "restartAll", "stopAll"}
<1> SUFFICES ASSUME IInv, ExecuteAll
             PROVE  IInv' /\ \A t \in Left' : t.step \in {"startAll", "restartAll", "stopAll"}
  OBVIOUS
<1>1. PICK step \in {"startAll", "restartAll", "stopAll"} : Run(ForAll(step, order))
  BY DEF ExecuteAll
<1>2. ~shuttingDown' /\ UNCHANGED <<order, control, config, removing, shuttingDown>>
  BY DEF ExecuteAll
<1>3. step \in AllStart \cup {"stopAll", "shutdown", "kill"} /\ step \notin {"shutdown", "kill"}
  BY DEF AllStart
<1>4. QED
  BY <1>1, <1>2, <1>3, RunForAllKeeps DEF IInv, TypeOK

\* The shutdown begins.
LEMMA StopAllKeeps == IInv /\ StopAll => IInv' /\ \A t \in Left' : t.step = "shutdown"
BY RunForAllKeeps DEF StopAll, AllStart

\* The shutdown's time is up.
LEMMA KillAllKeeps == IInv /\ KillAll => IInv' /\ \A t \in Left' : t.step = "kill"
BY RunForAllKeeps DEF KillAll, AllStart

\* A tick of the manager: it ticks the services, settles what waits and sweeps, and no more.
LEMMA TickAllIs ==
  ASSUME IInv, TickAll
  PROVE  \E steps \in Seq(Tasks) :
           Run(steps) /\ \A t \in ToSet(steps) : t.step \in {"tick", "settle", "sweep"}
<1> DEFINE first == ForAll("tick", order)
           second == ForAll("settle", order)
           third == ForAll("sweep", order)
           both == first \o second
           steps == both \o third
<1>1. {"tick", "settle", "sweep"} \subseteq Steps
  BY DEF Steps
<1>2. /\ first \in Seq(Tasks) /\ ToSet(first) = {Task("tick", n) : n \in Present}
      /\ second \in Seq(Tasks) /\ ToSet(second) = {Task("settle", n) : n \in Present}
      /\ third \in Seq(Tasks) /\ ToSet(third) = {Task("sweep", n) : n \in Present}
  BY <1>1, PresentIs, ForAllIs
<1>3. Run(steps)
  BY DEF TickAll
<1> HIDE DEF first, second, third
<1>4. both \in Seq(Tasks) /\ ToSet(both) = ToSet(first) \cup ToSet(second)
  BY <1>2, ConcatIs
<1> HIDE DEF both
<1>5. /\ steps \in Seq(Tasks)
      /\ ToSet(steps) = ToSet(first) \cup ToSet(second) \cup ToSet(third)
  BY <1>2, <1>4, ConcatIs, SMTT(30)
<1> HIDE DEF steps
<1>6. \A t \in ToSet(steps) : t.step \in {"tick", "settle", "sweep"}
  BY <1>2, <1>5, TaskIs
<1>7. QED
  BY <1>3, <1>5, <1>6

\* A tick of the manager.
LEMMA TickAllKeeps == IInv /\ TickAll => IInv'
<1> SUFFICES ASSUME IInv, TickAll PROVE IInv'
  OBVIOUS
<1>1. PICK steps \in Seq(Tasks) :
        Run(steps) /\ \A t \in ToSet(steps) : t.step \in {"tick", "settle", "sweep"}
  BY TickAllIs
<1>2. work' = steps
  BY <1>1 DEF Run
<1>3. \A t \in ToSet(steps) :
        t.step \notin OneStart \cup AllStart \cup {"stop", "stopAll", "drop", "shutdown", "kill"}
  BY <1>1 DEF OneStart, AllStart, Targets
<1>4. \A t \in ToSet(steps) : StepOK(t)'
  BY <1>2, <1>3 DEF StepOK, Left, OneStart, Targets
<1>5. \A t \in ToSet(steps) : t.step \notin Targets \cup {"dependency", "drop"}
  BY <1>3 DEF OneStart
<1>6. UNCHANGED <<order, control, config, removing, shuttingDown>> /\ shuttingDown' \in BOOLEAN
  BY DEF TickAll, IInv, TypeOK
<1>7. QED
  BY <1>1, <1>4, <1>5, <1>6, RunKeeps

\* What a load lists, by the rules of the parser.
LEMMA LoadIs ==
  ASSUME NEW load \in Loads, NEW names, names = [i \in DOMAIN load |-> load[i].name]
  PROVE  /\ names \in Seq(Names) /\ Once(names) /\ ToSet(names) = Listed(load)
         /\ Listed(load) \subseteq Names
         /\ \A n \in Listed(load) :
              EntryOf(load, n) \in Entry /\ EntryOf(load, n).dependsOn \subseteq Listed(load)
<1>1. load \in Seq(Entry) /\ Valid(load)
  BY LoadsAssumption
<1>2. DOMAIN load = 1..Len(load) /\ Len(load) \in Nat /\ \A i \in DOMAIN load : load[i] \in Entry
  BY <1>1
<1>3. \A i \in DOMAIN load : load[i].name \in Names
  BY <1>2 DEF Entry
<1>4. names \in Seq(Names) /\ DOMAIN names = DOMAIN load
  BY <1>2, <1>3
<1>5. Once(names)
  BY <1>1, <1>4 DEF Once, Valid
<1>6. ToSet(names) = Listed(load)
  BY <1>4 DEF ToSet, Listed
<1>7. Listed(load) \subseteq Names
  BY <1>3 DEF Listed
<1>8. ASSUME NEW n \in Listed(load)
      PROVE  EntryOf(load, n) \in Entry /\ EntryOf(load, n).dependsOn \subseteq Listed(load)
  <2> DEFINE i == CHOOSE j \in DOMAIN load : load[j].name = n
  <2>1. \E j \in DOMAIN load : load[j].name = n
    BY DEF Listed
  <2>2. i \in DOMAIN load
    BY <2>1
  <2>3. EntryOf(load, n) = load[i]
    BY DEF EntryOf
  <2> HIDE DEF i
  <2>4. QED
    BY <1>1, <1>2, <2>2, <2>3 DEF Valid
<1>9. QED
  BY <1>4, <1>5, <1>6, <1>7, <1>8

\* Two sequences with nothing twice and nothing in common.
LEMMA ConcatOnce ==
  ASSUME NEW T, NEW s \in Seq(T), NEW t \in Seq(T), Once(s), Once(t), ToSet(s) \cap ToSet(t) = {}
  PROVE  Once(s \o t)
<1>1. /\ DOMAIN (s \o t) = 1..(Len(s) + Len(t)) /\ Len(s) \in Nat /\ Len(t) \in Nat
      /\ \A i \in 1..(Len(s) + Len(t)) : (s \o t)[i] = IF i <= Len(s) THEN s[i] ELSE t[i - Len(s)]
      /\ DOMAIN s = 1..Len(s) /\ DOMAIN t = 1..Len(t)
  BY ConcatIs
<1>2. SUFFICES ASSUME NEW i \in 1..(Len(s) + Len(t)), NEW j \in 1..(Len(s) + Len(t)),
                      (s \o t)[i] = (s \o t)[j]
               PROVE  i = j
  BY <1>1 DEF Once
<1>3. \A k \in 1..(Len(s) + Len(t)) :
        \/ k \in DOMAIN s /\ (s \o t)[k] = s[k] /\ s[k] \in ToSet(s)
        \/ k - Len(s) \in DOMAIN t /\ (s \o t)[k] = t[k - Len(s)] /\ t[k - Len(s)] \in ToSet(t)
  <2> SUFFICES ASSUME NEW k \in 1..(Len(s) + Len(t))
               PROVE  \/ k \in DOMAIN s /\ (s \o t)[k] = s[k] /\ s[k] \in ToSet(s)
                      \/ /\ k - Len(s) \in DOMAIN t /\ (s \o t)[k] = t[k - Len(s)]
                         /\ t[k - Len(s)] \in ToSet(t)
    OBVIOUS
  <2>1. CASE k <= Len(s)
    BY <1>1, <2>1 DEF ToSet
  <2>2. CASE k > Len(s)
    <3>1. k - Len(s) \in 1..Len(t) /\ (s \o t)[k] = t[k - Len(s)]
      BY <1>1, <2>2
    <3>2. QED
      BY <1>1, <3>1 DEF ToSet
  <2>3. QED
    BY <1>1, <2>1, <2>2
<1>4. CASE i \in DOMAIN s /\ j \in DOMAIN s /\ s[i] = s[j]
  BY <1>4 DEF Once
<1>5. CASE i - Len(s) \in DOMAIN t /\ j - Len(s) \in DOMAIN t /\ t[i - Len(s)] = t[j - Len(s)]
  <2>1. i - Len(s) = j - Len(s)
    BY <1>5 DEF Once
  <2>2. QED
    BY <1>1, <2>1
<1>6. QED
  BY <1>2, <1>3, <1>4, <1>5

\* A manager that keeps what a load lists, and nothing it starts before.
LEMMA ApplyKeeps == IInv /\ Apply => IInv' /\ \A t \in Left' : t.step \in {"drop", "added"}
<1> SUFFICES ASSUME IInv, Apply PROVE IInv' /\ \A t \in Left' : t.step \in {"drop", "added"}
  OBVIOUS
<1>1. PICK load \in Loads :
        LET names == [i \in DOMAIN load |-> load[i].name]
            added == Only(names, New \cup removing)
            dropped == Only(order, Present \ (Listed(load) \cup removing))
        IN  /\ order' = order \o Only(names, New)
            /\ config' = Settings(load)
            /\ removing' = removing \ Listed(load)
            /\ Run(ForAll("drop", dropped) \o ForAll("added", added))
  BY DEF Apply
<1> DEFINE names == [i \in DOMAIN load |-> load[i].name]
           new == Only(names, New)
           added == Only(names, New \cup removing)
           dropped == Only(order, Present \ (Listed(load) \cup removing))
           drops == ForAll("drop", dropped)
           adds == ForAll("added", added)
<1>2. /\ order' = order \o new
      /\ config' = Settings(load)
      /\ removing' = removing \ Listed(load)
      /\ work = <<>> /\ work' = drops \o adds /\ started' = {}
      /\ ~shuttingDown /\ UNCHANGED <<control, shuttingDown>>
  BY <1>1 DEF Run, Apply
<1>3. /\ names \in Seq(Names) /\ Once(names) /\ ToSet(names) = Listed(load)
      /\ Listed(load) \subseteq Names
      /\ \A n \in Listed(load) :
           EntryOf(load, n) \in Entry /\ EntryOf(load, n).dependsOn \subseteq Listed(load)
  BY LoadIs
<1> HIDE DEF names
<1>4. /\ order \in Seq(Names) /\ Once(order) /\ ToSet(order) = Present /\ Present \subseteq Names
      /\ removing \subseteq Present /\ TypeOK
  BY PresentIs DEF IInv, TypeOK
<1>5. new \in Seq(Names) /\ ToSet(new) = Listed(load) \ Present /\ Once(new)
  BY <1>3, <1>4, OnlyIs DEF New
<1>6. added \in Seq(Names) /\ ToSet(added) = Listed(load) \cap (New \cup removing)
  BY <1>3, OnlyIs
<1>7. dropped \in Seq(Names) /\ ToSet(dropped) = Present \ (Listed(load) \cup removing)
  BY <1>4, OnlyIs
<1> HIDE DEF new, added, dropped
<1>8. "drop" \in Steps /\ "added" \in Steps
  BY DEF Steps, OneStart
<1>9. /\ drops \in Seq(Tasks) /\ ToSet(drops) = {Task("drop", n) : n \in ToSet(dropped)}
      /\ adds \in Seq(Tasks) /\ ToSet(adds) = {Task("added", n) : n \in ToSet(added)}
  BY <1>6, <1>7, <1>8, ForAllIs
<1> HIDE DEF drops, adds
<1>10. work' \in Seq(Tasks) /\ Left' = ToSet(drops) \cup ToSet(adds)
  BY <1>2, <1>9, ConcatIs DEF Left
<1>11. /\ order' \in Seq(Names) /\ Once(order)' /\ Present' = Present \cup Listed(load)
  <2>1. /\ order \o new \in Seq(Names) /\ Once(order \o new)
        /\ ToSet(order \o new) = Present \cup Listed(load)
    BY <1>4, <1>5, ConcatIs, ConcatOnce
  <2>2. QED
    BY <1>2, <2>1 DEF Once, Present
<1>12. \A n \in Names : config'[n] = IF n \in Listed(load) THEN EntryOf(load, n) ELSE config[n]
  BY <1>2 DEF Settings
<1>13. TypeOK'
  <2>1. config' \in [Names -> Entry]
    BY <1>2, <1>3, <1>4 DEF Settings, TypeOK
  <2>2. removing' \subseteq Present'
    BY <1>2, <1>4, <1>11
  <2>3. QED
    BY <1>2, <1>4, <1>10, <1>11, <2>1, <2>2 DEF TypeOK
<1>14. Controlled'
  BY <1>2, <1>4, <1>11 DEF IInv, Controlled
<1>15. \A n \in Names : Task("drop", n) \in Left' <=> n \in Present \ (Listed(load) \cup removing)
  <2>1. \A n, m : Task("drop", n) # Task("added", m)
    BY TaskIs
  <2>2. \A n, m : Task("drop", n) = Task("drop", m) => n = m
    BY TaskIs
  <2>3. QED
    BY <1>7, <1>9, <1>10, <2>1, <2>2
<1>16. Gone' = Present \ Listed(load)
  BY <1>2, <1>4, <1>15 DEF Gone
<1>17. Kept' = Listed(load)
  BY <1>11, <1>16 DEF Kept
<1>18. Closed'
  BY <1>3, <1>12, <1>17 DEF Closed
<1>19. \A t \in Left' : \/ t.step = "drop" /\ t.name \in Present
                        \/ t.step = "added" /\ t.name \in Listed(load)
  BY <1>6, <1>7, <1>9, <1>10, TaskIs
<1>20. StepsOK'
  <2> SUFFICES ASSUME NEW t \in Left' PROVE StepOK(t)'
    BY DEF StepsOK
  <2>1. CASE t.step = "drop" /\ t.name \in Present
    BY <1>2, <1>11, <2>1 DEF StepOK, OneStart, AllStart, Targets
  <2>2. CASE t.step = "added" /\ t.name \in Listed(load)
    BY <1>2, <1>17, <2>2 DEF StepOK, AllStart, Targets
  <2>3. QED
    BY <1>19, <2>1, <2>2
<1>21. Chained'
  <2>1. \A t \in Left' : t.step \notin Targets \cup {"dependency"}
    BY <1>19 DEF Targets
  <2>2. \A i \in DOMAIN work' : work'[i] \in Left'
    BY DEF Left, ToSet
  <2>3. QED
    BY <2>1, <2>2 DEF Chained
<1>22. QED
  BY <1>13, <1>14, <1>18, <1>19, <1>20, <1>21 DEF IInv

\* The first load gives the invariant.
LEMMA InitOK == Init => IInv
<1> SUFFICES ASSUME Init PROVE IInv
  OBVIOUS
<1>1. PICK load \in Loads :
        /\ order = [i \in DOMAIN load |-> load[i].name]
        /\ config = [n \in Names |-> IF n \in Listed(load) THEN EntryOf(load, n) ELSE NoEntry(n)]
  BY DEF Init
<1>2. /\ control = [n \in Names |-> NewControl] /\ removing = {} /\ shuttingDown = FALSE
      /\ work = ForAll("autostart", order) /\ started = {}
  BY DEF Init
<1>3. /\ order \in Seq(Names) /\ Once(order) /\ Present = Listed(load) /\ Present \subseteq Names
      /\ \A n \in Listed(load) :
           EntryOf(load, n) \in Entry /\ EntryOf(load, n).dependsOn \subseteq Listed(load)
  BY <1>1, LoadIs DEF Present
<1>4. "autostart" \in Steps
  BY DEF Steps, OneStart
<1>5. work \in Seq(Tasks) /\ Left = {Task("autostart", n) : n \in Present}
  BY <1>2, <1>3, <1>4, ForAllIs DEF Left, Present
<1>6. TypeOK
  <2>1. \A n \in Names : NoEntry(n) \in Entry
    BY DEF NoEntry, Entry
  <2>2. config \in [Names -> Entry]
    BY <1>1, <1>3, <2>1
  <2>3. control \in [Names -> Control]
    BY <1>2, NewControlIs DEF Coherent
  <2>4. QED
    BY <1>2, <1>3, <1>5, <2>2, <2>3 DEF TypeOK
<1>7. Controlled
  BY <1>2, NewControlIs DEF Controlled
<1>8. \A t \in Left : t.step = "autostart" /\ t.name \in Present
  BY <1>5, TaskIs
<1>9. Gone = {} /\ Kept = Present
  <2>1. \A n \in Names : Task("drop", n) \notin Left
    BY <1>8, TaskIs
  <2>2. QED
    BY <1>2, <2>1 DEF Gone, Kept
<1>10. Closed
  BY <1>1, <1>3, <1>9 DEF Closed
<1>11. StepsOK
  BY <1>2, <1>8, <1>9 DEF StepsOK, StepOK, AllStart, Targets
<1>12. Chained
  <2>1. \A i \in DOMAIN work : work[i] \in Left
    BY DEF Left, ToSet
  <2>2. QED
    BY <1>8, <2>1 DEF Chained, Targets
<1>13. QED
  BY <1>6, <1>7, <1>10, <1>11, <1>12 DEF IInv

\* A step that changes nothing.
LEMMA StutterKeeps == IInv /\ UNCHANGED vars => IInv'
<1> SUFFICES ASSUME IInv, UNCHANGED vars PROVE IInv'
  OBVIOUS
<1>1. UNCHANGED <<order, config, removing, shuttingDown, work, started>> /\ control' = control
  BY DEF vars
<1>2. Present' = Present /\ Left' = Left /\ Closed' /\ StepsOK'
  BY <1>1, StepsSame DEF IInv
<1>3. TypeOK' /\ Controlled'
  BY <1>1, <1>2 DEF IInv, TypeOK, Controlled, Once
<1>4. Chained'
  BY <1>1, <1>2 DEF IInv, Chained, Reached, StateOf, NeedsOf
<1>5. QED
  BY <1>2, <1>3, <1>4 DEF IInv

\* The invariant is inductive.
LEMMA NextKeeps == IInv /\ [Next]_vars => IInv'
BY StutterKeeps, ExecuteOneKeeps, ExecuteAllKeeps, ApplyKeeps, TickAllKeeps, StopAllKeeps,
   KillAllKeeps, StepKeeps, ProcessEndsKeeps DEF Next

\* ServiceManager keeps the types, coherent controls, the dependencies of what stays, and a list of
\* steps that names only what may be started: the invariant the theorems below rest on.
THEOREM AlwaysIInv == Spec => []IInv
BY InitOK, NextKeeps, PTL DEF Spec

\* ServiceManager::Apply and everything after it: from the reload that drops a service to the
\* sweep that removes it, nothing starts it again.
THEOREM DroppedStay == Spec => []DroppedStaysDown
<1>1. IInv => DroppedStaysDown
  BY DEF IInv, TypeOK, Controlled, Leaving, DroppedStaysDown, StateOf
<1>2. QED
  BY <1>1, AlwaysIInv, PTL

----------------------------------------------------------------------------
(* Action properties *)

\* The call that the step at hand makes of service n.
Called(n) ==
  /\ work # <<>>
  /\ Head(work).name = n
  /\ \/ /\ Head(work).step \in {"dependency", "startTarget"}
        /\ control'[n] \in Start(control[n], DependenciesRunning(n))
     \/ /\ Head(work).step = "restartTarget"
        /\ control'[n] \in Restart(control[n], DependenciesRunning(n))
     \/ Head(work).step \in {"stop", "stopAll", "drop"} /\ control'[n] \in Stop(control[n])
     \/ Head(work).step = "heartbeat" /\ control'[n] \in Heartbeat(control[n])
     \/ /\ Head(work).step \in {"shutdown", "settle"} /\ DependentsStopped(n)
        /\ control'[n] \in Stop(control[n])
     \/ Head(work).step = "kill" /\ control'[n] \in Kill(control[n])
     \/ /\ Head(work).step = "tick"
        /\ control'[n] \in Tick(control[n], ~shuttingDown, DependenciesRunning(n))
     \/ /\ Head(work).step = "settle" /\ ~shuttingDown
        /\ StateOf(n) = "Waiting" /\ DependenciesRunning(n)
        /\ control'[n] \in Start(control[n], TRUE)
     \/ Head(work).step = "settle" /\ ~shuttingDown /\ control'[n] \in Abandon(control[n])
     \/ Head(work).step = "sweep" /\ IsFinished(n) /\ control'[n] = NewControl

\* Whenever the control of a service changes, its process ended or a step called the service.
LEMMA ControlChanges ==
  ASSUME IInv, Next, NEW n \in Names, control'[n] # control[n]
  PROVE  /\ control'[n] \in ProcessExits(control[n]) \/ Called(n)
         /\ shuttingDown' = shuttingDown
<1>1. control' # control
  OBVIOUS
<1>2. CASE ProcessEnds
  <2>1. PICK m \in Present : \E r \in ProcessExits(control[m]) : control' = [control EXCEPT ![m] = r]
    BY <1>2 DEF ProcessEnds
  <2>2. PICK r \in ProcessExits(control[m]) : control' = [control EXCEPT ![m] = r]
    BY <2>1
  <2>3. m = n /\ control'[n] = r
    BY <2>2 DEF IInv, TypeOK
  <2>4. QED
    BY <1>2, <2>2, <2>3 DEF ProcessEnds
<1>3. CASE Step
  <2>1. PICK m \in Names : m = This
    <3>1. work # <<>>
      BY <1>3 DEF Step, StartAutostart, StartAdded, StartOne, StartNext, StartDependency, StartTarget,
                  StopOne, Drop, ShutDownOne, KillOne, TickOne, SettleOne, Sweep, Current
    <3>2. This \in Names
      BY <3>1, HeadIs
    <3>3. QED
      BY <3>2
  <2>2. ASSUME NEW r, control' = [control EXCEPT ![m] = r] PROVE n = m /\ control'[n] = r
    BY <2>2 DEF IInv, TypeOK
  <2>3. CASE StartAutostart \/ StartAdded \/ StartOne \/ StartNext
    BY <1>1, <2>3 DEF StartAutostart, StartAdded, StartOne, StartNext, WithDependencies, Skip
  <2>4. CASE StartDependency \/ StartTarget
    <3>1. PICK r : /\ control' = [control EXCEPT ![m] = r]
                   /\ \/ Current("dependency") /\ r \in Start(control[m], DependenciesRunning(m))
                      \/ Current("startTarget") /\ r \in Start(control[m], DependenciesRunning(m))
                      \/ Current("restartTarget") /\ r \in Restart(control[m], DependenciesRunning(m))
      BY <2>1, <2>4 DEF StartDependency, StartTarget, Calls
    <3>2. n = m /\ control'[n] = r
      BY <2>2, <3>1
    <3>3. QED
      BY <2>1, <2>4, <3>1, <3>2 DEF StartDependency, StartTarget, Calls, Called, Current, This
  <2>5. CASE StopOne \/ Drop \/ KillOne
    <3>1. PICK r : /\ control' = [control EXCEPT ![m] = r]
                   /\ \/ Current("stop") /\ r \in Stop(control[m])
                      \/ Current("stopAll") /\ (r \in Stop(control[m]) \/ r = control[m])
                      \/ Current("heartbeat") /\ r \in Heartbeat(control[m])
                      \/ Current("drop") /\ r \in Stop(control[m])
                      \/ Current("kill") /\ r \in Kill(control[m])
      BY <2>1, <2>5 DEF StopOne, Drop, KillOne, Calls
    <3>2. n = m /\ control'[n] = r
      BY <2>2, <3>1
    <3>3. QED
      BY <2>1, <2>5, <3>1, <3>2 DEF StopOne, Drop, KillOne, Calls, Called, Current, This
  <2>6. CASE TickOne
    <3>1. PICK r \in Tick(control[m], ~shuttingDown, DependenciesRunning(m)) :
            control' = [control EXCEPT ![m] = r]
      BY <2>1, <2>6 DEF TickOne, Calls
    <3>2. n = m /\ control'[n] = r
      BY <2>2, <3>1
    <3>3. QED
      BY <2>1, <2>6, <3>1, <3>2 DEF TickOne, Calls, Called, Current, This
  <2>7. CASE ShutDownOne
    <3>1. PICK r : /\ control' = [control EXCEPT ![m] = r]
                   /\ (DependentsStopped(m) /\ r \in Stop(control[m])) \/ r = control[m]
      BY <2>1, <2>7 DEF ShutDownOne, Calls, ShutDown
    <3>2. n = m /\ control'[n] = r
      BY <2>2, <3>1
    <3>3. QED
      BY <2>1, <2>7, <3>1, <3>2 DEF ShutDownOne, Calls, Called, Current, This
  <2>8. CASE SettleOne
    <3>1. PICK r \in Settle(m) : control' = [control EXCEPT ![m] = r]
      BY <2>1, <2>8 DEF SettleOne, Calls
    <3>2. n = m /\ control'[n] = r
      BY <2>2, <3>1
    <3>3. \/ DependentsStopped(m) /\ r \in Stop(control[m])
          \/ r = control[m]
          \/ /\ ~shuttingDown /\ StateOf(m) = "Waiting" /\ DependenciesRunning(m)
             /\ r \in Start(control[m], TRUE)
          \/ ~shuttingDown /\ r \in Abandon(control[m])
      BY <3>1 DEF Settle, ShutDown
    <3>4. QED
      BY <2>1, <2>8, <3>2, <3>3 DEF SettleOne, Calls, Called, Current, This
  <2>9. CASE Sweep
    <3>1. IsFinished(m) /\ control' = [control EXCEPT ![m] = NewControl] /\ shuttingDown' = shuttingDown
      BY <1>1, <2>1, <2>9 DEF Sweep, Skip
    <3>2. n = m /\ control'[n] = NewControl
      BY <2>2, <3>1
    <3>3. QED
      BY <2>1, <2>9, <3>1, <3>2 DEF Sweep, Called, Current, This
  <2>10. QED
    BY <1>3, <2>3, <2>4, <2>5, <2>6, <2>7, <2>8, <2>9 DEF Step
<1>4. QED
  BY <1>1, <1>2, <1>3 DEF Next, ExecuteOne, ExecuteAll, Apply, TickAll, StopAll, KillAll

\* What a call does that finds the process not running and leaves it running.
LEMMA LaunchedIs ==
  ASSUME IInv, Next, NEW n \in Names, Launched(n)
  PROVE  ~shuttingDown /\ n \in Present /\ DependenciesRunning(n)
<1> DEFINE s == control[n]
           r == control'[n]
<1>1. Launches(s, r) /\ r # s
  BY DEF Launched, Launches
<1>2. Coherent(s) /\ (n \notin Present => s.state = "Stopped" /\ s = NewControl)
  BY DEF IInv, Controlled, NewControl
<1>3. r \in ProcessExits(s) \/ Called(n)
  BY <1>1, ControlChanges
<1>4. r \notin ProcessExits(s)
  BY <1>1, <1>2, ProcessExitsIs DEF Launches
<1>5. work # <<>> /\ This = n
  BY <1>3, <1>4 DEF Called, This
<1>6. Head(work).step \in OneStart => n \in Present /\ ~shuttingDown
  BY <1>5, ThisIs
<1>7. DependenciesRunning(n) \in BOOLEAN /\ (~shuttingDown) \in BOOLEAN
  BY DEF DependenciesRunning
<1> HIDE DEF s, r
<1>8. CASE /\ Head(work).step \in {"dependency", "startTarget", "restartTarget"}
           /\ r \in Start(s, DependenciesRunning(n)) \/ r \in Restart(s, DependenciesRunning(n))
  <2>1. Head(work).step \in OneStart
    BY <1>8 DEF OneStart, Targets
  <2>2. QED
    BY <1>1, <1>2, <1>6, <1>7, <1>8, <2>1, StartIs, RestartIs
<1>9. CASE r \in Stop(s) \/ r \in Heartbeat(s) \/ r \in Kill(s) \/ r \in Abandon(s) \/ r = NewControl
  <2>1. r.child = s.child \/ r.child = "none"
    BY <1>2, <1>9, StopIs, HeartbeatIs, KillIs, AbandonIs DEF NewControl
  <2>2. QED
    BY <1>1, <2>1 DEF Launches
<1>10. CASE r \in Tick(s, ~shuttingDown, DependenciesRunning(n))
  <2>1. /\ s.state = "Stopped" => r = s
        /\ Launches(s, r) => ~shuttingDown /\ DependenciesRunning(n)
    BY <1>2, <1>7, <1>10, TickIs
  <2>2. QED
    BY <1>1, <1>2, <2>1
<1>11. CASE ~shuttingDown /\ StateOf(n) = "Waiting" /\ DependenciesRunning(n)
  BY <1>2, <1>11 DEF StateOf, s
<1>12. QED
  BY <1>3, <1>4, <1>8, <1>9, <1>10, <1>11 DEF Called, s, r

\* StartWithDependencies, Tick and StartWaiting launch a service only while everything it needs is
\* running, and never in a shutdown.
THEOREM LaunchesNeedDependencies == Spec => LaunchNeedsDependencies
<1>1. IInv /\ Next => \A n \in Names : Launched(n) =>
        /\ ~shuttingDown
        /\ n \in Present
        /\ \A d \in config[n].dependsOn : d \in Present /\ StateOf(d) = "Running"
  BY LaunchedIs DEF DependenciesRunning
<1>2. QED
  BY <1>1, AlwaysIInv, PTL DEF Spec, LaunchNeedsDependencies

\* In a shutdown, StopAll and the ticks after it bring a service to stop only once nothing that
\* needs it holds a process: a tick that stops one for its failed heartbeats apart, no step does
\* otherwise, in any graph of dependencies and after any reloads.
THEOREM DependentsStopBefore == Spec => DependentsStopFirst
<1>1. ASSUME IInv, Next, NEW n \in Names, shuttingDown, ~Current("kill"),
             StateOf(n) \in Up, control'[n].state = "Stopping", ~control'[n].restartAfterStop,
             NEW m \in Present, n \in config[m].dependsOn
      PROVE  control[m].child = "none"
  <2> DEFINE s == control[n]
             r == control'[n]
  <2>1. Coherent(s) /\ Coherent(control[m])
    BY <1>1, PresentIs DEF IInv, Controlled
  <2>2. s.state \in Up /\ r.state = "Stopping" /\ r # s
    BY <1>1 DEF StateOf, Up
  <2>3. r \notin ProcessExits(s)
    BY <2>1, <2>2, ProcessExitsIs DEF Up
  <2>4. Called(n)
    BY <1>1, <2>2, <2>3, ControlChanges
  <2>5. work # <<>> /\ This = n
    BY <2>4 DEF Called, This
  <2>6. Head(work).step \notin OneStart \cup {"stop", "stopAll", "drop", "kill"}
    BY <1>1, <2>5, ThisIs DEF Current
  <2>7. DependenciesRunning(n) \in BOOLEAN /\ (~shuttingDown) \in BOOLEAN
    BY DEF DependenciesRunning
  <2>8. r \notin Tick(s, ~shuttingDown, DependenciesRunning(n))
    BY <1>1, <2>1, <2>2, <2>7, TickStops
  <2>9. r \notin Heartbeat(s) /\ r # NewControl
    BY <2>1, <2>2 DEF Heartbeat, Coherent, Control, NewControl
  <2>10. DependentsStopped(n)
    BY <1>1, <2>4, <2>6, <2>8, <2>9 DEF Called, OneStart, Targets
  <2>11. StateOf(m) \notin Alive
    BY <1>1, <2>10 DEF DependentsStopped
  <2>12. QED
    BY <2>1, <2>11 DEF Coherent, StateOf
<1>2. IInv /\ Next => \A n \in Names :
        /\ shuttingDown /\ ~Current("kill")
        /\ StateOf(n) \in Up /\ control'[n].state = "Stopping"
        => \/ control'[n].restartAfterStop
           \/ \A m \in Present : n \in config[m].dependsOn => control[m].child = "none"
  BY <1>1
<1>3. QED
  BY <1>2, AlwaysIInv, PTL DEF Spec, DependentsStopFirst

\* What a command started as a dependency it does not stop when it comes to it as a target.
LEMMA StartedIsNotStopped ==
  ASSUME IInv, Next, Current("restartTarget") \/ Current("startTarget"), This \in started
  PROVE  control'[This].state # "Stopping" \/ StateOf(This) = "Stopping"
<1>1. work # <<>> /\ Head(work).step \in Targets
  BY DEF Current, Targets
<1>2. PICK n \in Names : n = This
  <2>1. This \in Names
    BY <1>1, HeadIs
  <2>2. QED
    BY <2>1
<1>3. Coherent(control[n]) /\ StepOK(Head(work))
  BY <1>1, <1>2, ThisIs, HeadIs
<1>4. Head(work).step = "startTarget"
  BY <1>1, <1>3 DEF Targets, StepOK, This
<1>5. CASE control'[n] \in ProcessExits(control[n])
  BY <1>2, <1>3, <1>5, ProcessExitsIs DEF StateOf
<1>6. CASE Called(n)
  <2>1. control'[n] \in Start(control[n], DependenciesRunning(n))
    BY <1>4, <1>6 DEF Called
  <2>2. DependenciesRunning(n) \in BOOLEAN
    BY DEF DependenciesRunning
  <2>3. control'[n].state = "Stopping" => control[n].state = "Stopping"
    BY <1>3, <2>1, <2>2, StartIs
  <2>4. QED
    BY <1>2, <2>3 DEF StateOf
<1>7. CASE control'[n] = control[n]
  BY <1>2, <1>7 DEF StateOf
<1>8. QED
  BY <1>5, <1>6, <1>7, ControlChanges

\* When a target's turn comes, the steps of the services it needs are behind it.
LEMMA NeedsAreReached ==
  ASSUME IInv, Current("startTarget") \/ Current("restartTarget"), NEW d \in NeedsOf(This)
  PROVE  Reached(d)
<1>1. work # <<>> /\ Head(work).step \in Targets
  BY DEF Current, Targets
<1>2. Left = {Head(work)} \cup ToSet(Tail(work))
  BY <1>1, HeadIs
<1>3. Task("dependency", d) \in Left \/ Reached(d)
  BY <1>1, <1>2 DEF IInv, Chained, This
<1>4. Task("dependency", d) \notin Left
  <2>1. Head(work).step # "dependency"
    BY <1>1 DEF Targets
  <2>2. \A t \in ToSet(Tail(work)) : t.step # "dependency"
    BY <1>1, <2>1, TailIsPlain
  <2>3. QED
    BY <1>2, <2>1, <2>2, TaskIs
<1>5. QED
  BY <1>3, <1>4

\* ExecuteAll and StartWithDependencies: a command to all services reaches every service that the
\* target at hand needs, however far down, and stops none it started itself.
THEOREM AllAreReachedOnce == Spec => AllReachedOnce
<1>1. IInv /\ Next => ((Current("restartTarget") \/ Current("startTarget")) /\ This \in started
                         => control'[This].state # "Stopping" \/ StateOf(This) = "Stopping")
  BY StartedIsNotStopped
<1>2. IInv /\ Next => (Current("startTarget") \/ Current("restartTarget")
                         => \A d \in NeedsOf(This) :
                              /\ StateOf(d) # "Stopped"
                              /\ StateOf(d) = "Stopping" => control[d].pendingStart)
  BY NeedsAreReached DEF Reached
<1>3. QED
  BY <1>1, <1>2, AlwaysIInv, PTL DEF Spec, AllReachedOnce, StartedOnce, StartReachesAll

----------------------------------------------------------------------------
(* Each service is a supervised service *)

\* The calls of the abstract service are those of ServiceControl.
LEMMA SameCalls ==
  ASSUME NEW n, NEW s, NEW allowed, NEW ready
  PROVE  /\ Supervised(n)!Start(s, ready) = Start(s, ready)
         /\ Supervised(n)!Restart(s, ready) = Restart(s, ready)
         /\ Supervised(n)!Stop(s) = Stop(s)
         /\ Supervised(n)!Heartbeat(s) = Heartbeat(s)
         /\ Supervised(n)!ProcessExits(s) = ProcessExits(s)
         /\ Supervised(n)!Kill(s) = Kill(s)
         /\ Supervised(n)!Abandon(s) = Abandon(s)
         /\ Supervised(n)!Tick(s, allowed, ready) = Tick(s, allowed, ready)
         /\ Supervised(n)!NewControl = NewControl
<1>1. Supervised(n)!Start(s, ready) = Start(s, ready)
  BY DEF Supervised!Start, Start, Supervised!Up, Up, Supervised!Relaunch, Relaunch,
         Supervised!Launch, Launch, Supervised!ApplyRestartPolicy, ApplyRestartPolicy,
         Supervised!ScheduleRestart, ScheduleRestart
<1>2. Supervised(n)!BeginStop(s) = BeginStop(s) /\ Supervised(n)!Up = Up
  BY DEF Supervised!BeginStop, BeginStop, Supervised!Up, Up
<1>3. Supervised(n)!Restart(s, ready) = Restart(s, ready)
  BY <1>1, <1>2 DEF Supervised!Restart, Restart
<1>4. /\ Supervised(n)!Stop(s) = Stop(s)
      /\ Supervised(n)!Heartbeat(s) = Heartbeat(s)
      /\ Supervised(n)!ProcessExits(s) = ProcessExits(s)
      /\ Supervised(n)!Kill(s) = Kill(s)
      /\ Supervised(n)!Abandon(s) = Abandon(s)
  BY <1>2 DEF Supervised!Stop, Stop, Supervised!Heartbeat, Heartbeat, Supervised!Kill, Kill,
              Supervised!ProcessExits, ProcessExits, Supervised!Abandon, Abandon
<1>5. Supervised(n)!Tick(s, allowed, ready) = Tick(s, allowed, ready)
  BY DEF Supervised!Tick, Tick, Supervised!Reap, Reap, Supervised!HandleExit, HandleExit,
         Supervised!Supervise, Supervise, Supervised!CheckUp, CheckUp, Supervised!CheckGrace, CheckGrace,
         Supervised!BeginStop, BeginStop, Supervised!Up, Up, Supervised!Relaunch, Relaunch,
         Supervised!Launch, Launch, Supervised!ApplyRestartPolicy, ApplyRestartPolicy,
         Supervised!ScheduleRestart, ScheduleRestart
<1>6. Supervised(n)!NewControl = NewControl
  BY DEF Supervised!NewControl, NewControl
<1>7. QED
  BY <1>1, <1>3, <1>4, <1>5, <1>6

\* A change of one control is a call of the abstract service.
LEMMA SupervisedCall ==
  ASSUME IInv, Next, NEW n \in Names, control'[n] # control[n]
  PROVE  Supervised(n)!AbstractCall
<1> DEFINE s == control[n]
           r == control'[n]
<1>1. /\ r \in ProcessExits(s) \/ Called(n)
      /\ shuttingDown' = shuttingDown
  BY ControlChanges
<1>2. SUFFICES \/ ~shuttingDown /\ \E ready \in BOOLEAN : r \in Start(s, ready) \cup Restart(s, ready)
               \/ r \in Stop(s) \cup Heartbeat(s) \cup ProcessExits(s)
               \/ shuttingDown /\ r \in Kill(s)
               \/ ~shuttingDown /\ r \in Abandon(s)
               \/ \E ready \in BOOLEAN : r \in Tick(s, ~shuttingDown, ready)
  BY <1>1, SameCalls DEF Supervised!AbstractCall
<1>3. CASE r \in ProcessExits(s)
  BY <1>3
<1>4. CASE Called(n)
  <2>1. work # <<>> /\ This = n
    BY <1>4 DEF Called, This
  <2>2. StepOK(Head(work)) /\ (Head(work).step \in OneStart => ~shuttingDown)
    BY <2>1, HeadIs, ThisIs
  <2>3. DependenciesRunning(n) \in BOOLEAN
    BY DEF DependenciesRunning
  <2>4. Head(work).step \in {"dependency", "startTarget", "restartTarget"} => ~shuttingDown
    BY <2>2 DEF OneStart, Targets
  <2>5. Head(work).step = "kill" => shuttingDown
    BY <2>2 DEF StepOK
  <2>6. ~(Head(work).step = "sweep" /\ IsFinished(n) /\ r = NewControl)
    <3>1. SUFFICES ASSUME IsFinished(n), r = NewControl PROVE FALSE
      OBVIOUS
    <3>2. Coherent(s) /\ Leaving(s) /\ s.state \notin Alive
      BY <3>1 DEF IsFinished, IInv, Controlled, StateOf
    <3>3. s.child = "none"
      BY <3>2 DEF Coherent, Control
    <3>4. QED
      BY <3>1, <3>2, <3>3, AbsentStays
  <2> HIDE DEF s, r
  <2>7. \/ ~shuttingDown /\ r \in Start(s, DependenciesRunning(n)) \cup Restart(s, DependenciesRunning(n))
        \/ ~shuttingDown /\ r \in Start(s, TRUE)
        \/ r \in Stop(s) \cup Heartbeat(s)
        \/ shuttingDown /\ r \in Kill(s)
        \/ ~shuttingDown /\ r \in Abandon(s)
        \/ r \in Tick(s, ~shuttingDown, DependenciesRunning(n))
    BY <1>4, <2>4, <2>5, <2>6 DEF Called, s, r
  <2>8. QED
    BY <2>3, <2>7
<1>5. QED
  BY <1>1, <1>3, <1>4

\* A step of the manager is, for each service, a step of the abstract service or none.
LEMMA SupervisedStep ==
  ASSUME IInv, [Next]_vars, NEW n \in Names
  PROVE  [Supervised(n)!AbstractNext]_(Supervised(n)!abstractVars)
<1>1. CASE Next /\ control'[n] # control[n]
  BY <1>1, SupervisedCall DEF Supervised!AbstractNext
<1>2. CASE control'[n] = control[n] /\ shuttingDown' = shuttingDown
  BY <1>2 DEF Supervised!abstractVars
<1>3. CASE StopAll
  <2>1. ~shuttingDown /\ shuttingDown' = TRUE /\ control' = control
    BY <1>3 DEF StopAll
  <2>2. QED
    BY <2>1 DEF Supervised!AbstractNext, Supervised!AbstractShutdown
<1>4. CASE Next /\ ~StopAll
  <2>1. shuttingDown' = shuttingDown
    BY <1>4 DEF Next, ExecuteOne, ExecuteAll, Apply, TickAll, KillAll, ProcessEnds, Step, StartAutostart,
                StartAdded, StartOne, StartNext, StartDependency, StartTarget, StopOne, Drop, ShutDownOne,
                KillOne, TickOne, SettleOne, Sweep, WithDependencies, Skip, Calls
  <2>2. QED
    BY <1>1, <1>2, <1>4, <2>1
<1>5. CASE UNCHANGED vars
  BY <1>2, <1>5 DEF vars
<1>6. QED
  BY <1>3, <1>4, <1>5

\* At first each service is new.
LEMMA SupervisedInit ==
  ASSUME Init, NEW n \in Names
  PROVE  Supervised(n)!AbstractInit
BY SameCalls DEF Init, Supervised!AbstractInit

\* Service by service the manager does nothing that the class Service forbids: every service, also
\* one that is swept and added again, implements the abstract service.
THEOREM EveryServiceIsSupervised == Spec => EachIsSupervised
<1>1. Init => \A n \in Names : Supervised(n)!AbstractInit
  BY SupervisedInit
<1>2. IInv /\ [Next]_vars
        => \A n \in Names : [Supervised(n)!AbstractNext]_(Supervised(n)!abstractVars)
  BY SupervisedStep
<1>3. QED
  BY <1>1, <1>2, AlwaysIInv, PTL DEF Spec, EachIsSupervised

\* The same for one service, in the words of the abstract specification.
THEOREM ServiceIsSupervised ==
  ASSUME NEW n \in Names
  PROVE  Spec => Supervised(n)!AbstractSpec
<1>1. Init => Supervised(n)!AbstractInit
  BY SupervisedInit
<1>2. IInv /\ [Next]_vars => [Supervised(n)!AbstractNext]_(Supervised(n)!abstractVars)
  BY SupervisedStep
<1>3. QED
  BY <1>1, <1>2, AlwaysIInv, PTL DEF Spec, Supervised!AbstractSpec

----------------------------------------------------------------------------
(* The daemon: the inductive invariant *)

\* What is asked for when the shutdown has begun was asked for after it began, or left over by the
\* round that began it; and the first read's result lasts until the second.
AskedAgain ==
  /\ stopping /\ (signalled \/ StopAsked) => askedAgain \/ leftOver
  /\ taken => pc = "requests"

\* Services are swept only on the way from a tick to the task groups.
SweptBeforeGroups == (\E t \in Left : t.step = "sweep") => pc \in {"groups", "lastReport"}

\* What was removed is gone until its group is cleared: no reload comes between.
RemovedAreGone ==
  /\ removed \subseteq Names \ Present
  /\ removed # {} => pc \in {"groups", "lastReport", "done"}

DInv == IInv /\ AskedAgain /\ SweptBeforeGroups /\ RemovedAreGone

----------------------------------------------------------------------------
(* The daemon: the manager's invariant in the loop *)

\* A group is cleared: some running processes end at once.
LEMMA KillGroupsKeeps ==
  ASSUME IInv, NEW S, KillGroups(S), UNCHANGED <<order, config, removing, shuttingDown, work, started>>
  PROVE  IInv'
<1> DEFINE r(n) == IF n \in S /\ control[n].child = "running"
                   THEN [control[n] EXCEPT !.child = "exited"] ELSE control[n]
<1>1. control' = [n \in Names |-> r(n)]
  BY DEF KillGroups
<1>2. \A n \in Names : Coherent(control[n])
  BY DEF IInv, Controlled
<1>3. ASSUME NEW n \in Names
      PROVE  /\ Coherent(r(n)) /\ r(n).state = control[n].state
             /\ r(n).pendingStart = control[n].pendingStart
             /\ r(n).restartAfterStop = control[n].restartAfterStop
             /\ control[n].child = "none" => r(n) = control[n]
  <2>1. CASE n \in S /\ control[n].child = "running"
    <3>1. r(n) \in ProcessExits(control[n])
      BY <2>1 DEF ProcessExits
    <3>2. QED
      BY <1>2, <2>1, <3>1, ProcessExitsIs
  <2>2. CASE ~(n \in S /\ control[n].child = "running")
    BY <1>2, <2>2
  <2>3. QED
    BY <2>1, <2>2
<1>4. \A n \in Names : control'[n] = r(n)
  BY <1>1
<1> HIDE DEF r
<1>5. control' \in [Names -> Control]
  BY <1>1, <1>3 DEF Coherent
<1>6. Present' = Present /\ Present \subseteq Names /\ removing \subseteq Names
  BY PresentIs, StepsSame
<1>7. Controlled'
  <2>1. \A n \in Names : Coherent(control[n])'
    BY <1>3, <1>4
  <2>2. \A n \in Names \ Present : control'[n] = NewControl
    BY <1>3, <1>4 DEF IInv, Controlled, NewControl
  <2>3. \A n \in removing : Leaving(control[n])'
    BY <1>3, <1>4, <1>6 DEF IInv, Controlled, Leaving
  <2>4. QED
    BY <1>6, <2>1, <2>2, <2>3 DEF Controlled
<1>8. TypeOK'
  BY <1>5, <1>6 DEF IInv, TypeOK, Once
<1>9. Closed' /\ StepsOK'
  BY StepsSame DEF IInv
<1>10. Chained'
  <2>1. \A d \in Names : Reached(d) => Reached(d)'
    BY <1>3, <1>4 DEF Reached, StateOf
  <2>2. \A t \in Left : NeedsOf(t.name)' = NeedsOf(t.name) /\ NeedsOf(t.name) \subseteq Names
    BY DEF NeedsOf
  <2>3. QED
    BY <2>1, <2>2, StepsSame DEF IInv, Chained
<1>11. QED
  BY <1>7, <1>8, <1>9, <1>10 DEF IInv

\* What a step of the daemon does to the manager.
LEMMA DaemonDoes ==
  ASSUME [DaemonNext]_daemonVars
  PROVE  \/ Next
         \/ UNCHANGED vars
         \/ /\ \E S : KillGroups(S)
            /\ UNCHANGED <<order, config, removing, shuttingDown, work, started>>
<1>1. CASE ReadStop
  BY <1>1 DEF ReadStop, Next
<1>2. CASE ReadReload \/ HandleCommand
  BY <1>2 DEF ReadReload, HandleCommand, Reload, Next
<1>3. CASE Tick1 \/ LastTick
  BY <1>3 DEF Tick1, LastTick, Next
<1>4. CASE CheckDeadline
  BY <1>4 DEF CheckDeadline, Next
<1>5. CASE RemoveTaskGroups
  BY <1>5 DEF RemoveTaskGroups
<1>6. CASE LastReport
  BY <1>6 DEF LastReport, vars
<1>7. CASE ReadSignal \/ CommandsDone \/ PublishReport
  BY <1>7 DEF ReadSignal, CommandsDone, PublishReport
<1>8. CASE ManagerStep
  BY <1>8 DEF ManagerStep, Next
<1>9. CASE Surroundings
  BY <1>9 DEF Surroundings, StopRequested, ReloadRequested, CommandArrives, DeadlinePasses, Next
<1>10. CASE UNCHANGED daemonVars
  BY <1>10 DEF daemonVars
<1>11. QED
  BY <1>1, <1>2, <1>3, <1>4, <1>5, <1>6, <1>7, <1>8, <1>9, <1>10 DEF DaemonNext, Loop

\* A step of the daemon or of its surroundings keeps the invariant of the manager.
LEMMA ManagerKept ==
  ASSUME IInv, [DaemonNext]_daemonVars
  PROVE  IInv'
<1>1. CASE \E S : KillGroups(S) /\ UNCHANGED <<order, config, removing, shuttingDown, work, started>>
  BY <1>1, KillGroupsKeeps
<1>2. QED
  BY <1>1, DaemonDoes, NextKeeps

----------------------------------------------------------------------------
(* The loop *)

\* Clearing the groups of what was removed changes no service.
LEMMA ClearingIsIdle ==
  ASSUME DInv, RemoveTaskGroups
  PROVE  UNCHANGED control
<1>1. \A n \in Names : n \in removed => control[n].child = "none"
  BY DEF DInv, RemovedAreGone, IInv, Controlled, NewControl
<1>2. control' = [n \in Names |-> control[n]]
  BY <1>1 DEF RemoveTaskGroups, KillGroups, TakeRemoved
<1>3. QED
  BY <1>2 DEF DInv, IInv, TypeOK

\* Every step keeps AskedAgain: what the round read is cleared when it begins the shutdown.
LEMMA AskedAgainKept ==
  ASSUME DInv, [DaemonNext]_daemonVars
  PROVE  AskedAgain'
<1>1. CASE ReadSignal
  BY <1>1 DEF ReadSignal, Goto, AskedAgain, StopAsked, shutdown, DInv
<1>2. CASE ReadStop
  BY <1>2 DEF ReadStop, ClearRequest, AskedAgain, StopAsked, DInv
<1>3. CASE StopRequested
  BY <1>3 DEF StopRequested, AskedAgain, StopAsked, shutdown, DInv
<1>4. CASE /\ UNCHANGED <<signalled, requested, taken, stopping, askedAgain, leftOver>>
           /\ pc' = pc \/ pc # "requests"
  BY <1>4 DEF AskedAgain, StopAsked, DInv
<1>5. CASE Loop /\ ~ReadSignal /\ ~ReadStop
  BY <1>4, <1>5 DEF Loop, ReadReload, HandleCommand, CommandsDone, Tick1, RemoveTaskGroups, PublishReport,
                    CheckDeadline, LastTick, LastReport, ManagerStep, At, flags, shutdown
<1>6. CASE Surroundings /\ ~StopRequested
  BY <1>4, <1>6 DEF Surroundings, ReloadRequested, CommandArrives, DeadlinePasses, flags, shutdown
<1>7. CASE UNCHANGED daemonVars
  BY <1>4, <1>7 DEF daemonVars, flags, shutdown
<1>8. QED
  BY <1>1, <1>2, <1>3, <1>5, <1>6, <1>7 DEF DaemonNext

\* Every step keeps SweptBeforeGroups: what sweeps is only begun by a tick.
LEMMA SweptKept ==
  ASSUME DInv, [DaemonNext]_daemonVars
  PROVE  SweptBeforeGroups'
<1>1. CASE UNCHANGED <<work, pc>>
  BY <1>1 DEF DInv, SweptBeforeGroups, Left
<1>2. CASE Tick1 \/ LastTick
  BY <1>2 DEF Tick1, LastTick, Goto, SweptBeforeGroups
<1>3. CASE ManagerStep
  <2>1. OnlyStartsAdded /\ pc' = pc
    BY <1>3, StepAdds DEF ManagerStep, DInv
  <2>2. \A t \in Left' : t.step = "sweep" => t \in Left
    BY <2>1 DEF OnlyStartsAdded, Targets
  <2>3. QED
    BY <2>1, <2>2 DEF DInv, SweptBeforeGroups
<1>4. CASE \A t \in Left' : t.step # "sweep"
  BY <1>4 DEF SweptBeforeGroups
<1>5. CASE work' = <<>>
  BY <1>5 DEF SweptBeforeGroups, Left, ToSet
<1>6. IInv
  BY DEF DInv
<1>7. CASE ReadStop
  BY <1>1, <1>4, <1>6, <1>7, StopAllKeeps, KillAllKeeps
     DEF ReadStop, vars, SweptBeforeGroups, Left, DInv, At, ToSet
<1>8. CASE ReadReload
  BY <1>4, <1>5, <1>6, <1>8, ApplyKeeps DEF ReadReload, Reload, vars, At
<1>9. CASE HandleCommand
  BY <1>4, <1>5, <1>6, <1>9, ApplyKeeps, ExecuteOneKeeps, ExecuteAllKeeps DEF HandleCommand, Reload, vars, At
<1>10. CASE CheckDeadline
  BY <1>4, <1>5, <1>6, <1>10, KillAllKeeps DEF CheckDeadline, vars, At
<1>11. CASE ReadSignal \/ CommandsDone \/ RemoveTaskGroups \/ PublishReport \/ LastReport
  BY <1>5, <1>11 DEF ReadSignal, CommandsDone, RemoveTaskGroups, PublishReport, LastReport, vars, At
<1>12. CASE Surroundings \/ UNCHANGED daemonVars
  BY <1>1, <1>12 DEF Surroundings, StopRequested, ReloadRequested, CommandArrives, DeadlinePasses, ProcessEnds,
                     vars, daemonVars
<1>13. QED
  BY <1>2, <1>3, <1>7, <1>8, <1>9, <1>10, <1>11, <1>12 DEF DaemonNext, Loop

\* Every step keeps RemovedAreGone: reloads come before the tick, and the groups behind it.
LEMMA RemovedKept ==
  ASSUME DInv, [DaemonNext]_daemonVars
  PROVE  RemovedAreGone'
<1>1. IInv /\ RemovedAreGone /\ Present \subseteq Names
  BY PresentIs DEF DInv
<1>2. CASE removed' = removed /\ order' = order /\ (pc' = pc \/ pc \notin {"groups", "lastReport", "done"})
  BY <1>1, <1>2 DEF RemovedAreGone, Present
<1>3. CASE removed' = {}
  BY <1>3 DEF RemovedAreGone
<1>4. CASE ReadReload \/ HandleCommand
  <2>1. removed = {} /\ removed' = removed
    BY <1>1, <1>4 DEF ReadReload, HandleCommand, At, RemovedAreGone
  <2>2. QED
    BY <1>3, <2>1
<1>5. CASE RemoveTaskGroups
  BY <1>3, <1>5 DEF RemoveTaskGroups, ForgetRemoved
<1>6. CASE \/ ReadSignal \/ ReadStop \/ CommandsDone \/ Tick1 \/ PublishReport \/ CheckDeadline
           \/ LastTick
  BY <1>2, <1>6 DEF ReadSignal, ReadStop, StopAll, KillAll, CommandsDone, Tick1, TickAll, PublishReport, CheckDeadline,
                    LastTick, At, vars
<1>7. CASE LastReport
  BY <1>1, <1>7 DEF LastReport, Goto, RemovedAreGone, Present
<1>8. CASE ManagerStep
  <2>1. /\ Step /\ pc' = pc /\ removed' = removed \cup (Present \ Present')
        /\ Present' \subseteq Present
    BY <1>1, <1>8, StepAdds DEF ManagerStep, Present
  <2>2. removed' \subseteq Names \ Present'
    BY <1>1, <2>1 DEF RemovedAreGone
  <2>3. CASE Sweep
    <3>1. Head(work).step = "sweep" /\ Head(work) \in Left
      BY <1>1, <2>3, HeadIs DEF Sweep, Current
    <3>2. pc \in {"groups", "lastReport"}
      BY <3>1 DEF DInv, SweptBeforeGroups
    <3>3. QED
      BY <2>1, <2>2, <3>2 DEF RemovedAreGone
  <2>4. CASE ~Sweep
    <3>1. order' = order
      BY <2>1, <2>4 DEF Step, StartAutostart, StartAdded, StartOne, StartNext, StartDependency, StartTarget,
                        StopOne, Drop, ShutDownOne, KillOne, TickOne, SettleOne, WithDependencies, Calls, Skip
    <3>2. removed' = removed
      BY <2>1, <3>1 DEF Present
    <3>3. QED
      BY <1>2, <2>1, <3>1, <3>2
  <2>5. QED
    BY <2>3, <2>4
<1>9. CASE Surroundings \/ UNCHANGED daemonVars
  BY <1>2, <1>9 DEF Surroundings, StopRequested, ReloadRequested, CommandArrives, DeadlinePasses, ProcessEnds,
                    vars, daemonVars
<1>10. QED
  BY <1>4, <1>5, <1>6, <1>7, <1>8, <1>9 DEF DaemonNext, Loop

\* The inductive invariant holds in every behaviour of the daemon.
THEOREM AlwaysDInv == DaemonSpec => []DInv
<1>1. DaemonInit => DInv
  <2> SUFFICES ASSUME DaemonInit PROVE DInv
    OBVIOUS
  <2>2. IInv
    BY InitOK DEF DaemonInit
  <2>3. AskedAgain /\ RemovedAreGone
    BY DEF DaemonInit, AskedAgain, RemovedAreGone
  <2>4. SweptBeforeGroups
    <3>1. "autostart" \in Steps
      BY DEF Steps, OneStart
    <3>2. work = ForAll("autostart", order)
      BY DEF DaemonInit, Init
    <3>3. Left = {Task("autostart", n) : n \in ToSet(order)}
      BY <2>2, <3>1, <3>2, PresentIs, ForAllIs DEF Left
    <3>4. QED
      BY <3>3, TaskIs DEF SweptBeforeGroups
  <2>5. QED
    BY <2>2, <2>3, <2>4 DEF DInv
<1>2. DInv /\ [DaemonNext]_daemonVars => DInv'
  <2> SUFFICES ASSUME DInv, [DaemonNext]_daemonVars PROVE DInv'
    OBVIOUS
  <2>2. IInv'
    BY ManagerKept DEF DInv
  <2>3. QED
    BY <2>2, AskedAgainKept, SweptKept, RemovedKept DEF DInv
<1>3. QED
  BY <1>1, <1>2, PTL DEF DaemonSpec

----------------------------------------------------------------------------
(* What follows *)

\* A list of kills is begun by a second request or at the deadline.
LEMMA KillsAreAskedFor ==
  ASSUME DInv, [DaemonNext]_daemonVars, work = <<>>, work' # <<>>, Head(work').step = "kill"
  PROVE  askedAgain \/ expired \/ leftOver
<1>1. IInv /\ IInv'
  BY ManagerKept DEF DInv
<1>2. Head(work') \in Left'
  <2>1. work' \in Seq(Tasks)
    BY <1>1 DEF IInv, TypeOK
  <2>2. QED
    BY <2>1, TailIs DEF Left
<1>3. CASE ReadStop
  <2>1. ~StopAll
    BY <1>1, <1>2, StopAllKeeps
  <2>2. stopping /\ StopAsked
    BY <1>3, <2>1 DEF ReadStop, vars
  <2>3. QED
    BY <2>2 DEF DInv, AskedAgain
<1>4. CASE CheckDeadline
  BY <1>4 DEF CheckDeadline, ShutdownOver, vars
<1>5. CASE ReadReload \/ HandleCommand
  BY <1>1, <1>2, <1>5, ApplyKeeps, ExecuteOneKeeps, ExecuteAllKeeps DEF ReadReload, HandleCommand, Reload, vars
<1>6. CASE Tick1 \/ LastTick
  <2>1. TickAll
    BY <1>6 DEF Tick1, LastTick
  <2>2. PICK steps \in Seq(Tasks) :
          Run(steps) /\ \A t \in ToSet(steps) : t.step \in {"tick", "settle", "sweep"}
    BY <1>1, <2>1, TickAllIs
  <2>3. QED
    BY <1>2, <2>2 DEF Run, Left
<1>7. CASE ManagerStep
  BY <1>7 DEF ManagerStep, Step, StartAutostart, StartAdded, StartOne, StartNext, StartDependency, StartTarget,
              StopOne, Drop, ShutDownOne, KillOne, TickOne, SettleOne, Sweep, Current
<1>8. CASE work' = work
  BY <1>8
<1>9. CASE \/ ReadSignal \/ CommandsDone \/ RemoveTaskGroups \/ PublishReport \/ LastReport
           \/ Surroundings \/ UNCHANGED daemonVars
  BY <1>8, <1>9 DEF ReadSignal, CommandsDone, RemoveTaskGroups, PublishReport, LastReport, Surroundings, StopRequested,
                    ReloadRequested, CommandArrives, DeadlinePasses, ProcessEnds, vars, daemonVars
<1>10. QED
  BY <1>3, <1>4, <1>5, <1>6, <1>7, <1>9 DEF DaemonNext, Loop

\* One request to stop lets the services end gracefully: the loop kills only when it is asked to
\* stop once more, when its deadline has passed, or when a signal came between the two reads that
\* began the shutdown, for any services and dependencies.
THEOREM StopIsGraceful == DaemonSpec => GracefulStop
<1>1. DInv /\ [DaemonNext]_daemonVars =>
        (work = <<>> /\ work' # <<>> /\ Head(work').step = "kill" => askedAgain \/ expired \/ leftOver)
  BY KillsAreAskedFor
<1>2. QED
  BY <1>1, AlwaysDInv, PTL DEF DaemonSpec, GracefulStop

\* RemoveTaskGroups clears the groups of services that are gone, and ends no process of a service
\* that is there, whatever reloads and commands came before it.
THEOREM ClearedGroupsAreDead == DaemonSpec => OnlyDeadGroupsRemoved
<1>1. ASSUME DInv, [DaemonNext]_daemonVars, At("groups"), pc' # "groups" PROVE UNCHANGED control
  <2>1. RemoveTaskGroups
    BY <1>1 DEF DaemonNext, Loop, ReadSignal, ReadStop, ReadReload, HandleCommand, CommandsDone, Tick1,
                PublishReport, CheckDeadline, LastTick, LastReport, ManagerStep, Surroundings, StopRequested, ReloadRequested,
                CommandArrives, DeadlinePasses, At, daemonVars
  <2>2. QED
    BY <1>1, <2>1, ClearingIsIdle
<1>2. DInv /\ [DaemonNext]_daemonVars => (At("groups") /\ pc' # "groups" => UNCHANGED control)
  BY <1>1
<1>3. QED
  BY <1>2, AlwaysDInv, PTL DEF DaemonSpec, OnlyDeadGroupsRemoved

\* In the loop, too, a service dropped by a reload is never launched again while it goes.
THEOREM DroppedStayInTheLoop == DaemonSpec => []DroppedStaysDown
<1>1. DInv => DroppedStaysDown
  BY DEF DInv, IInv, TypeOK, Controlled, Leaving, DroppedStaysDown, StateOf
<1>2. QED
  BY <1>1, AlwaysDInv, PTL

\* In the loop, too, a service is launched only before the shutdown, and while what it needs runs.
THEOREM LaunchesInTheLoop == DaemonSpec => LaunchNeedsDependencies
<1>1. ASSUME DInv, [DaemonNext]_daemonVars, NEW n \in Names, Launched(n)
      PROVE  ~shuttingDown /\ n \in Present /\ DependenciesRunning(n)
  <2>1. IInv
    BY <1>1 DEF DInv
  <2>2. CASE Next
    BY <1>1, <2>1, <2>2, LaunchedIs
  <2>3. CASE UNCHANGED vars
    BY <1>1, <2>3 DEF vars, Launched
  <2>4. CASE \E S : KillGroups(S)
    BY <1>1, <2>1, <2>4 DEF KillGroups, Launched, IInv, Controlled, Coherent, Control
  <2>5. QED
    BY <1>1, <2>2, <2>3, <2>4, DaemonDoes
<1>2. DInv /\ [DaemonNext]_daemonVars => \A n \in Names : Launched(n) =>
        /\ ~shuttingDown
        /\ n \in Present
        /\ \A d \in config[n].dependsOn : d \in Present /\ StateOf(d) = "Running"
  BY <1>1 DEF DependenciesRunning
<1>3. QED
  BY <1>2, AlwaysDInv, PTL DEF DaemonSpec, LaunchNeedsDependencies

=============================================================================
