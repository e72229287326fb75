--------------------------- MODULE ServiceProofs ---------------------------
(***************************************************************************)
(* Proofs about Service, for every set of configurations and every bound.  *)
(***************************************************************************)
EXTENDS Service, FiniteSetTheorems, SequenceTheorems, WellFoundedInduction, TLAPS

\* What the state machine, the process handle, the queued starts and the counters keep
\* through every call of the object.
Coherent(s) ==
  /\ s \in Service
  /\ s.child # "none" <=> s.state \in Alive
  /\ s.pendingStart \/ s.restartAfterStop => s.state = "Stopping"
  /\ ~(s.pendingStart /\ s.restartAfterStop)
  /\ s.restartCount + (IF s.child # "none" \/ s.state = "Backoff" THEN 1 ELSE 0) <= s.attempts

\* The last order to stop still holds.
Sticks(s) ==
  ~s.wanted =>
    /\ s.state \in {"Stopping", "Stopped"}
    /\ ~s.pendingStart
    /\ ~s.restartAfterStop

\* The inductive invariant.
Sound(s) == Coherent(s) /\ Sticks(s)
IInv == Sound(svc) /\ now \in 0..MaxTime /\ launchAllowed \in BOOLEAN

\* The object between two lives, in the middle of a call: no process, nothing queued.
Idle(s) ==
  /\ s \in Service
  /\ s.child = "none"
  /\ ~s.pendingStart
  /\ ~s.restartAfterStop
  /\ s.restartCount <= s.attempts

----------------------------------------------------------------------------
(* Helpers *)

\* A delay between restarts is a time.
LEMMA BackoffDelayIsNat ==
  ASSUME NEW c \in Config, NEW n \in Nat
  PROVE  BackoffDelay(c, n) \in Nat
BY DEF BackoffDelay, Config

\* What is left of a history without its beginning is one.
LEMMA SuffixIsSeq ==
  ASSUME NEW h \in Seq(Nat), NEW k \in Nat
  PROVE  SubSeq(h, k + 1, Len(h)) \in Seq(Nat)
<1>1. Len(h) \in Nat
  OBVIOUS
<1>2. \A i \in (k + 1)..Len(h) : h[i] \in Nat
  OBVIOUS
<1>3. k + 1 \in Int /\ Len(h) \in Int
  BY <1>1
<1>4. QED
  BY <1>2, <1>3, SubSeqProperties, Zenon

\* The restarts within a window are a history of restarts.
LEMMA RecentIsSeq ==
  ASSUME NEW h \in Seq(Nat), NEW w \in Nat, NEW t \in Nat
  PROVE  Recent(h, w, t) \in Seq(Nat)
<1> DEFINE old == {i \in DOMAIN h : \A j \in 1..i : t - h[j] > w}
<1>1. IsFiniteSet(DOMAIN h)
  <2>1. DOMAIN h = 1..Len(h) /\ Len(h) \in Nat
    OBVIOUS
  <2>2. QED
    BY <2>1, FS_Interval
<1>2. Cardinality(old) \in Nat
  BY <1>1, FS_Subset, FS_CardinalityType
<1>3. Recent(h, w, t) = SubSeq(h, Cardinality(old) + 1, Len(h))
  BY DEF Recent
<1> HIDE DEF old
<1>4. QED
  BY <1>2, <1>3, SuffixIsSeq

----------------------------------------------------------------------------
(* The operators, innermost first *)

\* A restart that is scheduled, or given up, leaves the idle object coherent.
LEMMA ScheduleRestartCoherent ==
  ASSUME NEW s, NEW t \in Nat, Idle(s), s.restartCount + 1 <= s.attempts
  PROVE  Coherent(ScheduleRestart(s, t)) /\ ScheduleRestart(s, t).wanted = s.wanted
<1> DEFINE history == Recent(s.restartHistory, s.config.restartWindow, t)
           r == ScheduleRestart(s, t)
<1>1. s.config \in Config
  BY ConfigsAssumption DEF Idle, Service
<1>2. history \in Seq(Nat) /\ Len(history) \in Nat
  <2>1. s.restartHistory \in Seq(Nat) /\ s.config.restartWindow \in Nat
    BY <1>1 DEF Idle, Service, Config
  <2>2. history \in Seq(Nat)
    BY <2>1, RecentIsSeq
  <2>3. QED
    BY <2>2
<1>3. t + BackoffDelay(s.config, Len(history)) \in Nat
  BY <1>1, <1>2, BackoffDelayIsNat, SMTT(30)
<1>4. Append(history, t) \in Seq(Nat) /\ Append(s.scheduled, t) \in Seq(Nat)
  BY <1>2, AppendProperties DEF Idle, Service
<1>5. CASE s.config.maxRestarts > 0 /\ Len(history) >= s.config.maxRestarts
  <2>1. r = [s EXCEPT !.restartHistory = history, !.state = "Failed"]
    BY <1>5 DEF ScheduleRestart
  <2> HIDE DEF history, r
  <2>2. r \in Service
    BY <2>1, <1>2 DEF Idle, Service, States
  <2>3. /\ r.child = "none" /\ ~r.pendingStart /\ ~r.restartAfterStop /\ r.wanted = s.wanted
        /\ r.state = "Failed" /\ r.restartCount = s.restartCount /\ r.attempts = s.attempts
    BY <2>1 DEF Idle, Service
  <2>4. Coherent(r) /\ r.wanted = s.wanted
    BY <2>2, <2>3 DEF Coherent, Idle, Service, Alive, Up
  <2>5. QED
    BY <2>4 DEF r
<1>6. CASE ~(s.config.maxRestarts > 0 /\ Len(history) >= s.config.maxRestarts)
  <2>1. r = [s EXCEPT !.restartHistory = Append(history, t),
                      !.restartAt = t + BackoffDelay(s.config, Len(history)),
                      !.state = "Backoff",
                      !.scheduled = Append(@, t)]
    BY <1>6 DEF ScheduleRestart
  <2> HIDE DEF history, r
  <2>2. r \in Service
    BY <2>1, <1>3, <1>4 DEF Idle, Service, States
  <2>3. /\ r.child = "none" /\ ~r.pendingStart /\ ~r.restartAfterStop /\ r.wanted = s.wanted
        /\ r.state = "Backoff" /\ r.restartCount = s.restartCount /\ r.attempts = s.attempts
    BY <2>1 DEF Idle, Service
  <2>4. Coherent(r) /\ r.wanted = s.wanted
    BY <2>2, <2>3 DEF Coherent, Idle, Service, Alive, Up
  <2>5. QED
    BY <2>4 DEF r
<1>7. QED
  BY <1>5, <1>6

\* So does the restart policy after an exit.
LEMMA ApplyRestartPolicyCoherent ==
  ASSUME NEW s, NEW t \in Nat, NEW cleanExit \in BOOLEAN,
         Idle(s), s.restartCount + 1 <= s.attempts
  PROVE  /\ Coherent(ApplyRestartPolicy(s, t, cleanExit))
         /\ ApplyRestartPolicy(s, t, cleanExit).wanted = s.wanted
<1> DEFINE r == ApplyRestartPolicy(s, t, cleanExit)
           again == s.config.restart = "always" \/ (s.config.restart = "on-failure" /\ ~cleanExit)
<1>1. CASE again
  BY <1>1, ScheduleRestartCoherent DEF ApplyRestartPolicy
<1>2. CASE ~again
  <2>1. r = [s EXCEPT !.state = IF cleanExit THEN "Stopped" ELSE "Failed"]
    BY <1>2 DEF ApplyRestartPolicy
  <2> HIDE DEF r
  <2>2. r \in Service
    BY <2>1 DEF Idle, Service, States
  <2>3. /\ r.child = "none" /\ ~r.pendingStart /\ ~r.restartAfterStop /\ r.wanted = s.wanted
        /\ r.state \in {"Stopped", "Failed"}
        /\ r.restartCount = s.restartCount /\ r.attempts = s.attempts
    BY <2>1 DEF Idle, Service
  <2>4. Coherent(r) /\ r.wanted = s.wanted
    BY <2>2, <2>3, SMTT(30) DEF Coherent, Idle, Service, Alive, Up
  <2>5. QED
    BY <2>4 DEF r
<1>3. QED
  BY <1>1, <1>2

\* A launch gives the idle object its process, or goes by the restart policy.
LEMMA LaunchCoherent ==
  ASSUME NEW s, NEW t \in Nat, NEW ok \in BOOLEAN, Idle(s)
  PROVE  Coherent(Launch(s, t, ok)) /\ Launch(s, t, ok).wanted = s.wanted
<1> DEFINE r == Launch(s, t, ok)
<1>1. CASE ok
  <2>1. r = [s EXCEPT !.attempts = @ + 1, !.lastSeen = t, !.switchedOn = FALSE,
                      !.child = "running", !.state = "Starting", !.launchedAt = t,
                      !.lastBeat = t, !.killSent = FALSE, !.stuckReported = FALSE]
    BY <1>1 DEF Launch
  <2> HIDE DEF r
  <2> DEFINE n == s.attempts + 1
  <2>a. n \in Nat
    BY DEF Idle, Service
  <2>b. r = [s EXCEPT !.attempts = n, !.lastSeen = t, !.switchedOn = FALSE,
                      !.child = "running", !.state = "Starting", !.launchedAt = t,
                      !.lastBeat = t, !.killSent = FALSE, !.stuckReported = FALSE]
    BY <2>1
  <2> HIDE DEF n
  <2>2. r \in Service
    BY <2>a, <2>b DEF Idle, Service, States, Alive, Up, Children
  <2>3. /\ r.child = "running" /\ ~r.pendingStart /\ ~r.restartAfterStop /\ r.wanted = s.wanted
        /\ r.state = "Starting"
        /\ r.restartCount = s.restartCount /\ r.attempts = s.attempts + 1
    BY <2>1 DEF Idle, Service
  <2>4. Coherent(r) /\ r.wanted = s.wanted
    BY <2>2, <2>3, SMTT(30) DEF Coherent, Idle, Service, Alive, Up
  <2>5. QED
    BY <2>4 DEF r
<1>2. CASE ~ok
  <2> DEFINE n == s.attempts + 1
             q == [s EXCEPT !.attempts = n]
  <2>a. n \in Nat
    BY DEF Idle, Service
  <2>1. q \in Service
    <3> HIDE DEF n
    <3>1. QED
      BY <2>a DEF Idle, Service
  <2>2. /\ q.child = "none" /\ ~q.pendingStart /\ ~q.restartAfterStop /\ q.wanted = s.wanted
        /\ q.restartCount = s.restartCount /\ q.attempts = s.attempts + 1
    BY DEF Idle, Service
  <2>3. r = ApplyRestartPolicy(q, t, FALSE)
    BY <1>2 DEF Launch
  <2> HIDE DEF q, r
  <2>4. Idle(q) /\ q.restartCount + 1 <= q.attempts
    BY <2>1, <2>2, SMTT(30) DEF Idle, Service
  <2>5. Coherent(r) /\ r.wanted = s.wanted
    BY <2>2, <2>3, <2>4, ApplyRestartPolicyCoherent
  <2>6. QED
    BY <2>5 DEF r
<1>3. QED
  BY <1>1, <1>2

\* So does a relaunch, unless it waits for dependencies.
LEMMA RelaunchCoherent ==
  ASSUME NEW s, NEW t \in Nat, NEW ready \in BOOLEAN, NEW ok \in BOOLEAN, Idle(s)
  PROVE  Coherent(Relaunch(s, t, ready, ok)) /\ Relaunch(s, t, ready, ok).wanted = s.wanted
<1> DEFINE r == Relaunch(s, t, ready, ok)
<1>1. CASE ready
  BY <1>1, LaunchCoherent DEF Relaunch
<1>2. CASE ~ready
  <2>1. r = [s EXCEPT !.state = "Waiting"]
    BY <1>2 DEF Relaunch
  <2> HIDE DEF r
  <2>2. r \in Service
    BY <2>1 DEF Idle, Service, States
  <2>3. /\ r.child = "none" /\ ~r.pendingStart /\ ~r.restartAfterStop /\ r.wanted = s.wanted
        /\ r.state = "Waiting" /\ r.restartCount = s.restartCount /\ r.attempts = s.attempts
    BY <2>1 DEF Idle, Service
  <2>4. Coherent(r) /\ r.wanted = s.wanted
    BY <2>2, <2>3 DEF Coherent, Idle, Service, Alive, Up
  <2>5. QED
    BY <2>4 DEF r
<1>3. QED
  BY <1>1, <1>2

\* A stop begins with nothing queued behind it.
LEMMA BeginStopCoherent ==
  ASSUME NEW s, NEW t \in Nat, Coherent(s), s.state \in Up
  PROVE  /\ Coherent(BeginStop(s, t))
         /\ BeginStop(s, t).wanted = s.wanted
         /\ BeginStop(s, t).state = "Stopping"
         /\ ~BeginStop(s, t).pendingStart
         /\ ~BeginStop(s, t).restartAfterStop
<1> DEFINE r == BeginStop(s, t)
           byKill == (s.config.stopSignal = "kill")
           deadline == t + s.config.stopTimeout
           killDeadline == t + KillGrace
<1>1. deadline \in Nat /\ killDeadline \in Nat /\ byKill \in BOOLEAN
  <2>1. s.config \in Config
    BY ConfigsAssumption DEF Coherent, Service
  <2>2. QED
    BY <2>1, KillGraceAssumption DEF Config
<1>2. r = [s EXCEPT !.state = "Stopping", !.pendingStart = FALSE, !.restartAfterStop = FALSE,
                    !.stopDeadline = deadline, !.killSent = byKill,
                    !.killDeadline = killDeadline, !.stuckReported = FALSE]
  BY DEF BeginStop
<1> HIDE DEF r, byKill, deadline, killDeadline
<1>3. r \in Service
  BY <1>1, <1>2 DEF Coherent, Service, States, Alive
<1>4. /\ r.state = "Stopping" /\ ~r.pendingStart /\ ~r.restartAfterStop /\ r.wanted = s.wanted
      /\ r.child = s.child /\ r.restartCount = s.restartCount /\ r.attempts = s.attempts
  BY <1>2 DEF Coherent, Service
<1>5. Coherent(r) /\ r.wanted = s.wanted
  BY <1>3, <1>4 DEF Coherent, Service, Alive, Up
<1>6. QED
  BY <1>4, <1>5 DEF r

\* A record that differs from a coherent one only in the listed harmless fields is coherent.
LEMMA SameLifeCoherent ==
  ASSUME NEW s, NEW r, Coherent(s), r \in Service,
         r.child = s.child, r.state = s.state \/ (s.state \in Up /\ r.state \in Up),
         r.pendingStart = s.pendingStart, r.restartAfterStop = s.restartAfterStop,
         r.restartCount = s.restartCount, r.attempts = s.attempts
  PROVE  Coherent(r)
BY DEF Coherent, Alive, Up, Service

\* The same while it is stopping, whatever is queued, as long as it is one thing.
LEMMA QueueCoherent ==
  ASSUME NEW s, NEW r, Coherent(s), s.state = "Stopping", r \in Service,
         r.child = s.child, r.state = "Stopping",
         ~(r.pendingStart /\ r.restartAfterStop),
         r.restartCount = s.restartCount, r.attempts = s.attempts
  PROVE  Coherent(r)
BY DEF Coherent, Alive, Up, Service

\* The last order, recorded.
LEMMA OrderedToRun ==
  ASSUME NEW r, Coherent(r)
  PROVE  Sound([r EXCEPT !.wanted = TRUE])
<1> DEFINE q == [r EXCEPT !.wanted = TRUE]
<1>1. q \in Service /\ q.wanted
  BY DEF Coherent, Service
<1>2. /\ q.child = r.child /\ q.state = r.state /\ q.pendingStart = r.pendingStart
      /\ q.restartAfterStop = r.restartAfterStop
      /\ q.restartCount = r.restartCount /\ q.attempts = r.attempts
  BY DEF Coherent, Service
<1> HIDE DEF q
<1>3. Coherent(q) /\ Sticks(q)
  BY <1>1, <1>2, SameLifeCoherent DEF Sticks
<1>4. QED
  BY <1>3 DEF Sound, q

\* Where nothing is queued, an order to stop holds.
LEMMA OrderedToStop ==
  ASSUME NEW r, Coherent(r), r.state \in {"Stopping", "Stopped"},
         ~r.pendingStart, ~r.restartAfterStop
  PROVE  Sound([r EXCEPT !.wanted = FALSE])
<1> DEFINE q == [r EXCEPT !.wanted = FALSE]
<1>1. q \in Service
  BY DEF Coherent, Service
<1>2. /\ q.child = r.child /\ q.state = r.state /\ q.pendingStart = r.pendingStart
      /\ q.restartAfterStop = r.restartAfterStop
      /\ q.restartCount = r.restartCount /\ q.attempts = r.attempts
  BY DEF Coherent, Service
<1> HIDE DEF q
<1>3. Coherent(q) /\ Sticks(q)
  BY <1>1, <1>2, SameLifeCoherent DEF Sticks
<1>4. QED
  BY <1>3 DEF Sound, q

\* A service that is not alive has no process and nothing queued.
LEMMA DownIsIdle ==
  ASSUME NEW s, Coherent(s), s.state \notin Alive
  PROVE  Idle(s)
BY DEF Coherent, Idle, Alive, Up, Service

----------------------------------------------------------------------------
(* Commands *)

\* Start leaves the object coherent, and the order to its caller.
LEMMA StartCoherent ==
  ASSUME NEW s, NEW t \in Nat, NEW ready \in BOOLEAN, NEW ok \in BOOLEAN, Coherent(s)
  PROVE  Coherent(Start(s, t, ready, ok)) /\ Start(s, t, ready, ok).wanted = s.wanted
<1> DEFINE r == Start(s, t, ready, ok)
           fresh == IF s.state \in {"Stopped", "Failed", "Backoff"}
                    THEN [s EXCEPT !.restartHistory = <<>>, !.scheduled = <<>>]
                    ELSE s
<1>1. CASE s.state \in Up
  BY <1>1 DEF Start, Up
<1>2. CASE s.state = "Stopping"
  <2>1. r = [s EXCEPT !.pendingStart = TRUE, !.pendingStartIsRestart = FALSE,
                      !.restartAfterStop = FALSE]
    BY <1>2 DEF Start, Up
  <2> HIDE DEF r
  <2>2. r \in Service
    BY <2>1 DEF Coherent, Service
  <2>3. /\ r.state = s.state /\ r.child = s.child /\ ~r.restartAfterStop
        /\ r.wanted = s.wanted /\ r.restartCount = s.restartCount /\ r.attempts = s.attempts
    BY <2>1 DEF Coherent, Service
  <2>4. Coherent(r) /\ r.wanted = s.wanted
    BY <1>2, <2>2, <2>3, QueueCoherent
  <2>5. QED
    BY <2>4 DEF r
<1>3. CASE s.state \notin Alive
  <2>1. r = Relaunch(fresh, t, ready, ok)
    BY <1>3 DEF Start, Alive, Up
  <2>2. Idle(fresh) /\ fresh.wanted = s.wanted
    <3>1. Idle(s)
      BY <1>3, DownIsIdle
    <3>2. <<>> \in Seq(Nat)
      OBVIOUS
    <3> DEFINE emptied == [s EXCEPT !.restartHistory = <<>>, !.scheduled = <<>>]
    <3>3. emptied \in Service
      BY <3>1, <3>2 DEF Idle, Service
    <3>4. /\ emptied.child = s.child /\ emptied.wanted = s.wanted
          /\ emptied.pendingStart = s.pendingStart
          /\ emptied.restartAfterStop = s.restartAfterStop
          /\ emptied.restartCount = s.restartCount /\ emptied.attempts = s.attempts
      BY <3>1 DEF Idle, Service
    <3> HIDE DEF emptied
    <3>5. Idle(emptied)
      BY <3>1, <3>3, <3>4 DEF Idle
    <3>6. QED
      BY <3>1, <3>4, <3>5 DEF emptied
  <2> HIDE DEF r, fresh
  <2>3. Coherent(r) /\ r.wanted = s.wanted
    BY <2>1, <2>2, RelaunchCoherent
  <2>4. QED
    BY <2>3 DEF r
<1>4. QED
  BY <1>1, <1>2, <1>3 DEF Alive

\* Stop leaves nothing queued, whatever was.
LEMMA StopCoherent ==
  ASSUME NEW s, NEW t \in Nat, Coherent(s)
  PROVE  /\ Coherent(Stop(s, t))
         /\ Stop(s, t).state \in {"Stopping", "Stopped"}
         /\ ~Stop(s, t).pendingStart
         /\ ~Stop(s, t).restartAfterStop
<1> DEFINE r == Stop(s, t)
<1>1. CASE s.state \in Up
  <2>1. Stop(s, t) = BeginStop(s, t)
    BY <1>1 DEF Stop, Up
  <2>2. QED
    BY <1>1, <2>1, BeginStopCoherent, Zenon
<1>2. CASE s.state = "Stopping"
  <2>1. r = [s EXCEPT !.pendingStart = FALSE, !.restartAfterStop = FALSE]
    BY <1>2 DEF Stop, Up
  <2> HIDE DEF r
  <2>2. r \in Service
    BY <2>1 DEF Coherent, Service
  <2>3. /\ r.state = s.state /\ r.child = s.child /\ ~r.restartAfterStop /\ ~r.pendingStart
        /\ r.restartCount = s.restartCount /\ r.attempts = s.attempts
    BY <2>1 DEF Coherent, Service
  <2>4. Coherent(r)
    BY <1>2, <2>2, <2>3, QueueCoherent
  <2>5. QED
    BY <1>2, <2>3, <2>4 DEF r
<1>3. CASE s.state \notin Alive
  <2>1. r = [s EXCEPT !.state = "Stopped"]
    BY <1>3 DEF Stop, Alive, Up
  <2> HIDE DEF r
  <2>2. Idle(s)
    BY <1>3, DownIsIdle
  <2>3. r \in Service
    BY <2>1, <2>2 DEF Idle, Service, States
  <2>4. /\ r.child = "none" /\ ~r.pendingStart /\ ~r.restartAfterStop
        /\ r.state = "Stopped" /\ r.restartCount = s.restartCount /\ r.attempts = s.attempts
    BY <2>1, <2>2 DEF Idle, Service
  <2>5. Coherent(r)
    BY <2>2, <2>3, <2>4 DEF Coherent, Idle, Service, Alive, Up
  <2>6. QED
    BY <2>4, <2>5 DEF r
<1>4. QED
  BY <1>1, <1>2, <1>3 DEF Alive

\* Restart leaves the object coherent, and the order to its caller.
LEMMA RestartCoherent ==
  ASSUME NEW s, NEW t \in Nat, NEW ready \in BOOLEAN, NEW ok \in BOOLEAN, Coherent(s)
  PROVE  Coherent(Restart(s, t, ready, ok))
<1> DEFINE r == Restart(s, t, ready, ok)
           b == BeginStop(s, t)
<1>1. CASE s.state \in Up
  <2>1. Coherent(b) /\ b.state = "Stopping" /\ ~b.restartAfterStop
    BY <1>1, BeginStopCoherent, Zenon
  <2>2. r = [b EXCEPT !.pendingStart = TRUE, !.pendingStartIsRestart = TRUE]
    BY <1>1 DEF Restart, Up
  <2> HIDE DEF r, b
  <2>3. r \in Service
    BY <2>1, <2>2 DEF Coherent, Service
  <2>4. /\ r.state = b.state /\ r.child = b.child /\ r.restartAfterStop = b.restartAfterStop
        /\ r.restartCount = b.restartCount /\ r.attempts = b.attempts
    BY <2>1, <2>2 DEF Coherent, Service
  <2>5. Coherent(r)
    BY <2>1, <2>3, <2>4, QueueCoherent
  <2>6. QED
    BY <2>5 DEF r
<1>2. CASE s.state = "Stopping"
  <2>1. r = [s EXCEPT !.pendingStart = TRUE, !.pendingStartIsRestart = TRUE,
                      !.restartAfterStop = FALSE]
    BY <1>2 DEF Restart, Up
  <2> HIDE DEF r
  <2>2. r \in Service
    BY <2>1 DEF Coherent, Service
  <2>3. /\ r.state = s.state /\ r.child = s.child /\ ~r.restartAfterStop
        /\ r.restartCount = s.restartCount /\ r.attempts = s.attempts
    BY <2>1 DEF Coherent, Service
  <2>4. Coherent(r)
    BY <1>2, <2>2, <2>3, QueueCoherent
  <2>5. QED
    BY <2>4 DEF r
<1>3. CASE s.state \notin Alive
  BY <1>3, StartCoherent DEF Restart, Alive, Up
<1>4. QED
  BY <1>1, <1>2, <1>3 DEF Alive

\* Kill leaves nothing queued, as Stop does.
LEMMA KillCoherent ==
  ASSUME NEW s, NEW t \in Nat, Coherent(s)
  PROVE  /\ Coherent(Kill(s, t))
         /\ Kill(s, t).state \in {"Stopping", "Stopped"}
         /\ ~Kill(s, t).pendingStart
         /\ ~Kill(s, t).restartAfterStop
<1> DEFINE r == Kill(s, t)
           deadline == t + KillGrace
<1>1. CASE s.child = "none"
  <2>1. r = [[s EXCEPT !.pendingStart = FALSE, !.restartAfterStop = FALSE]
              EXCEPT !.state = "Stopped"]
    BY <1>1 DEF Kill
  <2> HIDE DEF r
  <2>2. r \in Service
    BY <2>1 DEF Coherent, Service, States
  <2>3. /\ r.child = "none" /\ ~r.pendingStart /\ ~r.restartAfterStop
        /\ r.state = "Stopped" /\ r.restartCount = s.restartCount /\ r.attempts = s.attempts
    BY <1>1, <2>1 DEF Coherent, Service
  <2>4. Coherent(r)
    BY <2>2, <2>3, SMTT(30) DEF Coherent, Service, Alive, Up
  <2>5. QED
    BY <2>3, <2>4 DEF r
<1>2. CASE s.child # "none"
  <2>1. r = [[s EXCEPT !.pendingStart = FALSE, !.restartAfterStop = FALSE]
              EXCEPT !.state = "Stopping", !.stopDeadline = t, !.killSent = TRUE,
                     !.killDeadline = deadline]
    BY <1>2 DEF Kill
  <2>2. deadline \in Nat
    BY KillGraceAssumption
  <2> HIDE DEF r, deadline
  <2>3. r \in Service
    BY <2>1, <2>2 DEF Coherent, Service, States, Alive
  <2>4. /\ r.child = s.child /\ ~r.pendingStart /\ ~r.restartAfterStop
        /\ r.state = "Stopping" /\ r.restartCount = s.restartCount /\ r.attempts = s.attempts
    BY <2>1 DEF Coherent, Service
  <2>5. Coherent(r)
    BY <1>2, <2>3, <2>4 DEF Coherent, Service, Alive, Up
  <2>6. QED
    BY <2>4, <2>5 DEF r
<1>3. QED
  BY <1>1, <1>2

\* A heartbeat undoes no stop.
LEMMA HeartbeatSound ==
  ASSUME NEW s, NEW t \in Nat, Sound(s)
  PROVE  Sound(Heartbeat(s, t))
<1> DEFINE r == Heartbeat(s, t)
<1>1. CASE s.state \in Up
  <2>1. r = [s EXCEPT !.lastBeat = t, !.lastSeen = t, !.switchedOn = FALSE, !.state = "Running"]
    BY <1>1 DEF Heartbeat
  <2> HIDE DEF r
  <2>2. r \in Service
    BY <2>1 DEF Sound, Coherent, Service, States, Alive, Up
  <2>3. /\ r.child = s.child /\ r.state = "Running" /\ r.pendingStart = s.pendingStart
        /\ r.restartAfterStop = s.restartAfterStop /\ r.wanted = s.wanted
        /\ r.restartCount = s.restartCount /\ r.attempts = s.attempts
    BY <2>1 DEF Sound, Coherent, Service
  <2>4. Coherent(r)
    BY <1>1, <2>2, <2>3, SameLifeCoherent DEF Sound, Up
  <2>5. s.wanted
    BY <1>1 DEF Sound, Sticks, Up
  <2>6. QED
    BY <2>3, <2>4, <2>5 DEF Sound, Sticks, r
<1>2. CASE s.state \notin Up
  BY <1>2 DEF Heartbeat
<1>3. QED
  BY <1>1, <1>2

\* A service that gives up waiting has not been stopped.
LEMMA AbandonSound ==
  ASSUME NEW s, Sound(s)
  PROVE  Sound(Abandon(s))
<1> DEFINE r == Abandon(s)
<1>1. CASE s.state = "Waiting"
  <2>1. r = [s EXCEPT !.state = "Failed"]
    BY <1>1 DEF Abandon
  <2> HIDE DEF r
  <2>2. Idle(s) /\ s.wanted
    BY <1>1, DownIsIdle DEF Sound, Sticks, Alive, Up
  <2>3. r \in Service
    BY <2>1, <2>2 DEF Idle, Service, States
  <2>4. /\ r.child = "none" /\ ~r.pendingStart /\ ~r.restartAfterStop /\ r.wanted
        /\ r.state = "Failed" /\ r.restartCount = s.restartCount /\ r.attempts = s.attempts
    BY <2>1, <2>2 DEF Idle, Service
  <2>5. Coherent(r)
    BY <2>2, <2>3, <2>4 DEF Coherent, Idle, Service, Alive, Up
  <2>6. QED
    BY <2>4, <2>5 DEF Sound, Sticks, r
<1>2. CASE s.state # "Waiting"
  BY <1>2 DEF Abandon
<1>3. QED
  BY <1>1, <1>2

\* r is s with another configuration, which may switch heartbeats on.
Reloaded(s, r) ==
  /\ r \in Service
  /\ r.child = s.child /\ r.state = s.state /\ r.killSent = s.killSent
  /\ r.pendingStart = s.pendingStart /\ r.restartAfterStop = s.restartAfterStop
  /\ r.wanted = s.wanted /\ r.restartCount = s.restartCount /\ r.attempts = s.attempts
  /\ r.restartAt = s.restartAt /\ r.restartHistory = s.restartHistory /\ r.scheduled = s.scheduled
  /\ r.lastBeat = s.lastBeat /\ r.lastSeen = s.lastSeen
  /\ r.switchedOn = (s.switchedOn \/ (~HeartbeatEnabled(s) /\ HeartbeatEnabled(r)))

\* A new configuration changes nothing else.
LEMMA ReplaceReloads ==
  ASSUME NEW s \in Service, NEW config \in Configs
  PROVE  Reloaded(s, Replace(s, config))
<1> DEFINE q == [s EXCEPT !.config = config]
           on == s.switchedOn \/ (~HeartbeatEnabled(s) /\ HeartbeatEnabled(q))
           r == [q EXCEPT !.switchedOn = on]
<1>1. on \in BOOLEAN /\ q \in Service
  <2>1. on \in BOOLEAN
    BY DEF Service
  <2>2. q \in Service
    BY DEF Service
  <2> QED BY <2>1, <2>2
<1>2. Replace(s, config) = r
  BY <1>1 DEF Replace, Service
<1>3. on = (s.switchedOn \/ (~HeartbeatEnabled(s) /\ HeartbeatEnabled(q)))
  OBVIOUS
<1>4. /\ q.child = s.child /\ q.state = s.state /\ q.killSent = s.killSent
      /\ q.pendingStart = s.pendingStart /\ q.restartAfterStop = s.restartAfterStop
      /\ q.wanted = s.wanted /\ q.restartCount = s.restartCount /\ q.attempts = s.attempts
      /\ q.restartAt = s.restartAt /\ q.restartHistory = s.restartHistory /\ q.scheduled = s.scheduled
      /\ q.lastBeat = s.lastBeat /\ q.lastSeen = s.lastSeen
  BY DEF Service
<1> HIDE DEF q, on
<1>5. /\ r.config = q.config /\ r \in Service /\ r.switchedOn = on
      /\ r.child = q.child /\ r.state = q.state /\ r.killSent = q.killSent
      /\ r.pendingStart = q.pendingStart /\ r.restartAfterStop = q.restartAfterStop
      /\ r.wanted = q.wanted /\ r.restartCount = q.restartCount /\ r.attempts = q.attempts
      /\ r.restartAt = q.restartAt /\ r.restartHistory = q.restartHistory /\ r.scheduled = q.scheduled
      /\ r.lastBeat = q.lastBeat /\ r.lastSeen = q.lastSeen
  BY <1>1 DEF Service
<1> HIDE DEF r
<1>6. HeartbeatEnabled(r) = HeartbeatEnabled(q)
  BY <1>5 DEF HeartbeatEnabled
<1> QED BY <1>2, <1>3, <1>4, <1>5, <1>6 DEF Reloaded

\* And so it undoes no stop.
LEMMA ReplaceSound ==
  ASSUME NEW s, NEW config \in Configs, Sound(s)
  PROVE  Sound(Replace(s, config))
<1> DEFINE r == Replace(s, config)
<1>1. Reloaded(s, r)
  BY ReplaceReloads DEF Sound, Coherent
<1> HIDE DEF r
<1>2. QED
  BY <1>1, SameLifeCoherent DEF Reloaded, Sound, Sticks, r

----------------------------------------------------------------------------
(* One round of supervision *)

\* The end of a process, at whatever moment it is found, undoes no stop.
LEMMA HandleExitSound ==
  ASSUME NEW s, NEW t \in Nat, NEW allowed \in BOOLEAN, NEW ready \in BOOLEAN,
         NEW ok \in BOOLEAN, Sound(s), s.child \in {"clean", "unclean"}
  PROVE  Sound(HandleExit(s, t, allowed, ready, ok))
<1> DEFINE r == HandleExit(s, t, allowed, ready, ok)
           gone == [s EXCEPT !.child = "none"]
           stopped == [gone EXCEPT !.state = "Stopped", !.pendingStart = FALSE,
                                   !.restartAfterStop = FALSE]
           count == s.restartCount + (IF s.pendingStartIsRestart THEN 1 ELSE 0)
           counted == [stopped EXCEPT !.restartCount = count]
<1>1. s \in Service /\ s.state \in Alive /\ s.restartCount + 1 <= s.attempts
  BY DEF Sound, Coherent
<1>2. count \in Nat /\ count <= s.attempts
  BY <1>1 DEF Service
<1>3. CASE s.state # "Stopping"
  <2>1. r = ApplyRestartPolicy(gone, t, s.child = "clean")
    BY <1>3 DEF HandleExit
  <2>2. gone \in Service
    BY <1>1 DEF Service, Children
  <2>3. /\ gone.child = "none" /\ gone.pendingStart = s.pendingStart
        /\ gone.restartAfterStop = s.restartAfterStop /\ gone.wanted = s.wanted
        /\ gone.restartCount = s.restartCount /\ gone.attempts = s.attempts
    BY <1>1 DEF Service
  <2> HIDE DEF r, gone
  <2>4. ~s.pendingStart /\ ~s.restartAfterStop /\ s.wanted
    BY <1>1, <1>3 DEF Sound, Coherent, Sticks, Alive, Up
  <2>5. Idle(gone) /\ gone.restartCount + 1 <= gone.attempts
    BY <1>1, <2>2, <2>3, <2>4, SMTT(30) DEF Idle, Service
  <2>6. Coherent(r) /\ r.wanted
    BY <2>1, <2>3, <2>4, <2>5, ApplyRestartPolicyCoherent
  <2>7. QED
    BY <2>6 DEF Sound, Sticks, r
<1>4. CASE s.state = "Stopping"
  <2>1. stopped \in Service
    BY <1>1 DEF Service, States, Children
  <2>2. /\ stopped.child = "none" /\ ~stopped.pendingStart /\ ~stopped.restartAfterStop
        /\ stopped.state = "Stopped" /\ stopped.wanted = s.wanted
        /\ stopped.restartCount = s.restartCount /\ stopped.attempts = s.attempts
    BY <1>1 DEF Service
  <2>3. Idle(stopped) /\ stopped.restartCount + 1 <= stopped.attempts
    <3> HIDE DEF stopped
    <3>1. QED
      BY <1>1, <2>1, <2>2, SMTT(30) DEF Idle, Service
  <2>4. Sound(stopped)
    <3> HIDE DEF stopped
    <3>1. QED
      BY <2>1, <2>2, <2>3 DEF Sound, Coherent, Sticks, Idle, Service, Alive, Up
  <2>5. CASE ~allowed \/ (~s.restartAfterStop /\ ~s.pendingStart)
    <3>1. r = stopped
      BY <1>4, <2>5 DEF HandleExit
    <3>2. QED
      BY <3>1, <2>4
  <2>6. CASE allowed /\ s.restartAfterStop
    <3>1. r = ScheduleRestart(stopped, t)
      BY <1>4, <2>6 DEF HandleExit
    <3> HIDE DEF r, stopped
    <3>2. s.wanted
      BY <2>6 DEF Sound, Sticks
    <3>3. Coherent(r) /\ r.wanted
      BY <2>2, <2>3, <3>1, <3>2, ScheduleRestartCoherent
    <3>4. QED
      BY <3>3 DEF Sound, Sticks, r
  <2>7. CASE allowed /\ ~s.restartAfterStop /\ s.pendingStart
    <3>1. r = Relaunch(counted, t, ready, ok)
      BY <1>4, <2>7 DEF HandleExit
    <3>2. counted \in Service /\ counted.restartCount = count
          /\ counted.child = stopped.child /\ counted.pendingStart = stopped.pendingStart
          /\ counted.restartAfterStop = stopped.restartAfterStop
          /\ counted.wanted = stopped.wanted /\ counted.attempts = stopped.attempts
      <4> HIDE DEF stopped, count
      <4>1. QED
        BY <1>2, <2>1 DEF Service
    <3> HIDE DEF r, stopped, counted, count
    <3>3. s.wanted
      BY <2>7 DEF Sound, Sticks
    <3>4. Idle(counted) /\ counted.wanted
      BY <1>2, <2>2, <3>2, <3>3 DEF Idle
    <3>5. Coherent(r) /\ r.wanted
      BY <3>1, <3>4, RelaunchCoherent
    <3>6. QED
      BY <3>5 DEF Sound, Sticks, r
  <2>8. QED
    BY <2>5, <2>6, <2>7
<1>5. QED
  BY <1>3, <1>4

\* The check of the heartbeats undoes no stop.
LEMMA CheckHeartbeatSound ==
  ASSUME NEW s, NEW t \in Nat, Sound(s), s.state \in Up
  PROVE  Sound(CheckHeartbeat(s, t))
<1> DEFINE missedBeats == (t - s.lastBeat) \div s.config.heartbeatInterval
           patient == missedBeats < s.config.heartbeatTolerance \/ s.state = "Unhealthy"
           unhealthy == [s EXCEPT !.state = "Unhealthy"]
           b == BeginStop(unhealthy, t)
           r == CheckHeartbeat(s, t)
<1>1. s.wanted
  BY DEF Sound, Sticks, Up
<1>2. unhealthy \in Service
  BY DEF Sound, Coherent, Service, States, Alive, Up
<1>3. /\ unhealthy.child = s.child /\ unhealthy.state = "Unhealthy"
      /\ unhealthy.pendingStart = s.pendingStart
      /\ unhealthy.restartAfterStop = s.restartAfterStop /\ unhealthy.wanted = s.wanted
      /\ unhealthy.restartCount = s.restartCount /\ unhealthy.attempts = s.attempts
  BY DEF Sound, Coherent, Service
<1>4. Coherent(unhealthy) /\ unhealthy.wanted
  <2> HIDE DEF unhealthy
  <2>1. QED
    BY <1>1, <1>2, <1>3, SameLifeCoherent DEF Sound, Up
<1>5. CASE patient
  BY <1>5 DEF CheckHeartbeat
<1>6. CASE ~patient /\ s.config.unhealthyAction # "restart"
  <2>1. r = unhealthy
    BY <1>6 DEF CheckHeartbeat
  <2>2. QED
    BY <2>1, <1>4 DEF Sound, Sticks
<1>7. CASE ~patient /\ s.config.unhealthyAction = "restart"
  <2>1. r = [b EXCEPT !.restartAfterStop = TRUE]
    BY <1>7 DEF CheckHeartbeat
  <2>2. unhealthy.state \in Up
    BY <1>3 DEF Up
  <2> HIDE DEF unhealthy
  <2>3. Coherent(b) /\ b.state = "Stopping" /\ ~b.pendingStart /\ b.wanted = unhealthy.wanted
    BY <1>4, <2>2, BeginStopCoherent, Zenon
  <2> HIDE DEF r, b
  <2>4. r \in Service
    BY <2>1, <2>3 DEF Coherent, Service
  <2>5. /\ r.child = b.child /\ r.state = b.state /\ r.pendingStart = b.pendingStart
        /\ r.wanted = b.wanted
        /\ r.restartCount = b.restartCount /\ r.attempts = b.attempts
    BY <2>1, <2>3 DEF Coherent, Service
  <2>6. Coherent(r) /\ r.wanted
    BY <1>4, <2>3, <2>4, <2>5, QueueCoherent
  <2>7. QED
    BY <2>6 DEF Sound, Sticks, r
<1>8. QED
  BY <1>5, <1>6, <1>7

\* Nor does the check of the grace after a launch.
LEMMA CheckGraceSound ==
  ASSUME NEW s, NEW t \in Nat, Sound(s), s.state \in Up
  PROVE  Sound(CheckGrace(s, t))
<1> DEFINE r == CheckGrace(s, t)
<1>1. r = [s EXCEPT !.lastSeen = t] \/ r = [s EXCEPT !.lastSeen = t, !.state = "Running"]
  BY DEF CheckGrace
<1> HIDE DEF r
<1>2. r \in Service
  BY <1>1 DEF Sound, Coherent, Service, States, Alive, Up
<1>3. /\ r.child = s.child /\ r.state \in {s.state, "Running"} /\ r.pendingStart = s.pendingStart
      /\ r.restartAfterStop = s.restartAfterStop /\ r.wanted = s.wanted
      /\ r.restartCount = s.restartCount /\ r.attempts = s.attempts
  BY <1>1 DEF Sound, Coherent, Service
<1>4. Coherent(r) /\ r.wanted
  BY <1>2, <1>3, SameLifeCoherent DEF Sound, Sticks, Up
<1>5. QED
  BY <1>4 DEF Sound, Sticks, r

\* Nor does the check of a stop's deadline, which kills.
LEMMA CheckStopSound ==
  ASSUME NEW s, NEW t \in Nat, Sound(s)
  PROVE  Sound(CheckStop(s, t))
<1> DEFINE r == CheckStop(s, t)
           deadline == t + KillGrace
<1>1. deadline \in Nat
  BY KillGraceAssumption
<1>2. \/ r = s
      \/ r = [s EXCEPT !.killSent = TRUE, !.killDeadline = deadline]
      \/ r = [s EXCEPT !.stuckReported = TRUE]
  BY DEF CheckStop
<1> HIDE DEF r, deadline
<1>3. r \in Service
  BY <1>1, <1>2, ZenonT(60) DEF Sound, Coherent, Service
<1>4. /\ r.child = s.child /\ r.state = s.state /\ r.pendingStart = s.pendingStart
      /\ r.restartAfterStop = s.restartAfterStop /\ r.wanted = s.wanted
      /\ r.restartCount = s.restartCount /\ r.attempts = s.attempts
  BY <1>2 DEF Sound, Coherent, Service
<1>5. QED
  BY <1>3, <1>4, SameLifeCoherent DEF Sound, Sticks, r

\* A tick, from the end it finds to the restart it makes, undoes no stop.
LEMMA TickSound ==
  ASSUME NEW s, NEW t \in Nat, NEW allowed \in BOOLEAN, NEW ready \in BOOLEAN,
         NEW ok1 \in BOOLEAN, NEW ok2 \in BOOLEAN, Sound(s)
  PROVE  Sound(Tick(s, t, allowed, ready, ok1, ok2))
<1> DEFINE m == Reap(s, t, allowed, ready, ok1)
           r == Supervise(m, t, allowed, ready, ok2)
           due == m.state = "Backoff" /\ allowed /\ t >= m.restartAt
<1>1. Sound(m)
  BY HandleExitSound DEF Reap
<1> HIDE DEF m
<1>2. CASE m.state \in Up
  <2>1. r = IF HeartbeatEnabled(m) THEN CheckHeartbeat(m, t) ELSE CheckGrace(m, t)
    BY <1>2 DEF Supervise, Up
  <2>2. QED
    BY <1>1, <1>2, <2>1, CheckHeartbeatSound, CheckGraceSound DEF Tick, m
<1>3. CASE m.state = "Stopping"
  <2>1. r = CheckStop(m, t)
    BY <1>3 DEF Supervise, Up
  <2>2. QED
    BY <1>1, <2>1, CheckStopSound DEF Tick, m
<1>4. CASE due
  <2> DEFINE count == m.restartCount + 1
             q == [m EXCEPT !.restartCount = count]
  <2>1. r = Relaunch(q, t, ready, ok2)
    BY <1>4 DEF Supervise, Up
  <2>2. m \in Service /\ m.child = "none" /\ ~m.pendingStart /\ ~m.restartAfterStop /\ m.wanted
    BY <1>1, <1>4 DEF Sound, Coherent, Sticks, Alive, Up
  <2>3. count \in Nat /\ count <= m.attempts
    <3>1. m.restartCount \in Nat /\ m.attempts \in Nat /\ m.state = "Backoff"
      BY <1>4, <2>2 DEF Service
    <3>2. m.restartCount + 1 <= m.attempts
      BY <1>1, <3>1 DEF Sound, Coherent
    <3>3. QED
      BY <3>1, <3>2
  <2> HIDE DEF count
  <2>4. q \in Service /\ q.child = "none" /\ ~q.pendingStart /\ ~q.restartAfterStop /\ q.wanted
        /\ q.restartCount = count /\ q.attempts = m.attempts
    BY <2>2, <2>3 DEF Service
  <2> HIDE DEF q, r
  <2>5. Idle(q)
    BY <2>3, <2>4 DEF Idle
  <2>6. Coherent(r) /\ r.wanted
    BY <2>1, <2>4, <2>5, RelaunchCoherent
  <2>7. QED
    BY <2>6 DEF Sound, Sticks, Tick, m, r
<1>5. CASE ~due /\ m.state \notin Up /\ m.state # "Stopping"
  <2>1. r = m
    BY <1>5, Zenon DEF Supervise
  <2>2. QED
    BY <1>1, <2>1 DEF Tick, m
<1>6. QED
  BY <1>2, <1>3, <1>4, <1>5

----------------------------------------------------------------------------
(* The specification *)

\* A new service is sound.
LEMMA InitSound == Init => IInv
<1> SUFFICES ASSUME Init PROVE IInv
  OBVIOUS
<1>1. PICK config \in Configs : svc = NewService(config)
  BY DEF Init
<1>2. <<>> \in Seq(Nat)
  OBVIOUS
<1>3. svc \in Service
  BY <1>1, <1>2 DEF NewService, Service, Children, States
<1>4. /\ svc.child = "none" /\ svc.state = "Stopped" /\ ~svc.pendingStart
      /\ ~svc.restartAfterStop /\ svc.restartCount = 0 /\ svc.attempts = 0
  BY <1>1 DEF NewService
<1>5. Sound(svc)
  BY <1>3, <1>4 DEF Sound, Coherent, Sticks, Alive, Up
<1>6. QED
  BY <1>5, BoundsAssumption DEF Init, IInv

\* Every call, the process and the clock leave it so.
LEMMA StepSound == IInv /\ [Next]_vars => IInv'
<1> SUFFICES ASSUME IInv, [Next]_vars PROVE IInv'
  OBVIOUS
<1>1. Sound(svc) /\ Coherent(svc) /\ now \in Nat /\ now \in 0..MaxTime /\ launchAllowed \in BOOLEAN
  BY BoundsAssumption DEF IInv, Sound
<1>2. ASSUME NEW result, Call(result), Sound(result) PROVE IInv'
  BY <1>1, <1>2 DEF Call, IInv
<1>3. CASE StartCommand
  <2>1. PICK ready \in BOOLEAN, ok \in BOOLEAN :
          Call([Start(svc, now, ready, ok) EXCEPT !.wanted = TRUE])
    BY <1>3 DEF StartCommand
  <2>2. Sound([Start(svc, now, ready, ok) EXCEPT !.wanted = TRUE])
    BY <1>1, StartCoherent, OrderedToRun
  <2>3. QED
    BY <1>2, <2>1, <2>2
<1>4. CASE RestartCommand
  <2>1. PICK ready \in BOOLEAN, ok \in BOOLEAN :
          Call([Restart(svc, now, ready, ok) EXCEPT !.wanted = TRUE])
    BY <1>4 DEF RestartCommand
  <2>2. Sound([Restart(svc, now, ready, ok) EXCEPT !.wanted = TRUE])
    BY <1>1, RestartCoherent, OrderedToRun
  <2>3. QED
    BY <1>2, <2>1, <2>2
<1>5. CASE StopCommand
  <2>1. Sound([Stop(svc, now) EXCEPT !.wanted = FALSE])
    BY <1>1, StopCoherent, OrderedToStop, Zenon
  <2>2. QED
    BY <1>2, <1>5, <2>1 DEF StopCommand
<1>6. CASE KillCommand
  <2>1. Sound([Kill(svc, now) EXCEPT !.wanted = FALSE])
    BY <1>1, KillCoherent, OrderedToStop, Zenon
  <2>2. QED
    BY <1>2, <1>6, <2>1 DEF KillCommand
<1>7. CASE HeartbeatCommand
  BY <1>1, <1>2, <1>7, HeartbeatSound DEF HeartbeatCommand
<1>8. CASE ResumeWaiting
  <2>1. PICK ok \in BOOLEAN : Call(Start(svc, now, TRUE, ok))
    BY <1>8 DEF ResumeWaiting
  <2>2. svc.wanted
    BY <1>1, <1>8 DEF ResumeWaiting, Sound, Sticks
  <2>3. Sound(Start(svc, now, TRUE, ok))
    BY <1>1, <2>2, StartCoherent DEF Sound, Sticks
  <2>4. QED
    BY <1>2, <2>1, <2>3
<1>9. CASE AbandonWaiting
  BY <1>1, <1>2, <1>9, AbandonSound DEF AbandonWaiting
<1>10. CASE Reload
  BY <1>1, <1>2, <1>10, ReplaceSound DEF Reload
<1>11. CASE TickService
  <2>1. PICK ready \in BOOLEAN, ok1 \in BOOLEAN, ok2 \in BOOLEAN :
          Call(Tick(svc, now, launchAllowed, ready, ok1, ok2))
    BY <1>11 DEF TickService
  <2>2. Sound(Tick(svc, now, launchAllowed, ready, ok1, ok2))
    BY <1>1, TickSound
  <2>3. QED
    BY <1>2, <2>1, <2>2
<1>12. CASE ProcessExits
  <2>1. PICK how \in {"clean", "unclean"} : svc' = [svc EXCEPT !.child = how]
    BY <1>12 DEF ProcessExits
  <2> DEFINE r == [svc EXCEPT !.child = how]
  <2>2. r \in Service
    BY <1>1 DEF Coherent, Service, Children
  <2>3. /\ r.child = how /\ r.state = svc.state /\ r.pendingStart = svc.pendingStart
        /\ r.restartAfterStop = svc.restartAfterStop /\ r.wanted = svc.wanted
        /\ r.restartCount = svc.restartCount /\ r.attempts = svc.attempts
    BY <1>1 DEF Coherent, Service
  <2> HIDE DEF r
  <2>4. Sound(r)
    BY <1>1, <1>12, <2>2, <2>3 DEF ProcessExits, Sound, Coherent, Sticks
  <2>5. QED
    BY <1>1, <1>12, <2>1, <2>4 DEF ProcessExits, IInv, r
<1>13. CASE BeginShutdown
  BY <1>1, <1>13 DEF BeginShutdown, IInv
<1>14. CASE PassTime
  BY <1>1, <1>14, BoundsAssumption DEF PassTime, IInv
<1>15. CASE UNCHANGED vars
  BY <1>1, <1>15 DEF vars, IInv
<1>16. QED
  BY <1>3, <1>4, <1>5, <1>6, <1>7, <1>8, <1>9, <1>10, <1>11, <1>12, <1>13, <1>14, <1>15 DEF Next

\* The inductive invariant holds in every behaviour.
LEMMA AlwaysIInv == Spec => []IInv
BY InitSound, StepSound, PTL DEF Spec

\* The object, the clock and the flag keep their types, for every set of configurations.
THEOREM TypeCorrect == Spec => []TypeOK
<1>1. IInv => TypeOK
  BY DEF IInv, TypeOK, Sound, Coherent
<1>2. QED
  BY <1>1, AlwaysIInv, PTL

\* Whatever is called in whatever order, the service holds a process exactly while the rest of
\* the manager takes it for alive.
THEOREM ProcessAgreesWithState == Spec => []ChildIffAlive
<1>1. IInv => ChildIffAlive
  BY DEF IInv, ChildIffAlive, Sound, Coherent
<1>2. QED
  BY <1>1, AlwaysIInv, PTL

\* What is queued behind a stop is queued only while it lasts, and is one thing.
THEOREM OneQueuedStart == Spec => []QueuedOnlyWhileStopping
<1>1. IInv => QueuedOnlyWhileStopping
  BY DEF IInv, QueuedOnlyWhileStopping, Sound, Coherent
<1>2. QED
  BY <1>1, AlwaysIInv, PTL

\* No restart policy, backoff, heartbeat failure, launch failure or reload undoes a stop.
THEOREM StoppedStaysStopped == Spec => []StopSticks
<1>1. IInv => StopSticks
  BY DEF IInv, StopSticks, Sound, Sticks
<1>2. QED
  BY <1>1, AlwaysIInv, PTL

\* No process end is counted as two restarts.
THEOREM EveryRestartCountedOnce == Spec => []RestartsCounted
<1>1. IInv => RestartsCounted
  BY DEF IInv, RestartsCounted, Sound, Coherent
<1>2. QED
  BY <1>1, AlwaysIInv, PTL

----------------------------------------------------------------------------
(* The service seen without its clock *)

ChildSeen(s) == IF s.child \in {"clean", "unclean"} THEN "exited" ELSE s.child
KillSeen(s) == s.killSent /\ s.child # "none"

\* What is seen of a service is a record of ServiceControl.
LEMMA ControlIs ==
  ASSUME NEW s \in Service
  PROVE  /\ ControlOf(s) \in Abstract!Control
         /\ ControlOf(s).state = s.state
         /\ ControlOf(s).child = ChildSeen(s)
         /\ ControlOf(s).pendingStart = s.pendingStart
         /\ ControlOf(s).restartAfterStop = s.restartAfterStop
         /\ ControlOf(s).killSent = KillSeen(s)
BY DEF ControlOf, Service, Abstract!Control, States, Alive, Up, Children,
       Abstract!States, Abstract!Alive, Abstract!Up, ChildSeen, KillSeen

\* killSent is seen while there is a process.
LEMMA KillIs ==
  ASSUME NEW s \in Service
  PROVE  /\ s.child # "none" => KillSeen(s) = s.killSent
         /\ s.child = "none" => KillSeen(s) = FALSE
<1>1. s.killSent \in BOOLEAN
  BY DEF Service
<1> QED BY <1>1, Zenon DEF KillSeen

\* A record is what is seen of a service if it agrees with it in every field.
LEMMA SeenAs ==
  ASSUME NEW s \in Service, NEW c \in Abstract!Control,
         c.state = s.state, c.child = ChildSeen(s), c.killSent = KillSeen(s),
         c.pendingStart = s.pendingStart, c.restartAfterStop = s.restartAfterStop
  PROVE  ControlOf(s) = c
<1> DEFINE d == ControlOf(s)
<1>1. /\ d \in Abstract!Control /\ d.state = c.state /\ d.child = c.child /\ d.killSent = c.killSent
      /\ d.pendingStart = c.pendingStart /\ d.restartAfterStop = c.restartAfterStop
  BY ControlIs
<1> HIDE DEF d
<1>2. d = c
  BY <1>1 DEF Abstract!Control
<1> QED BY <1>2 DEF d

\* Where only the state changes, only the state is seen to change.
LEMMA StateSeen ==
  ASSUME NEW s \in Service, NEW r \in Service, r.child = s.child, r.killSent = s.killSent,
         r.pendingStart = s.pendingStart, r.restartAfterStop = s.restartAfterStop
  PROVE  ControlOf(r) = [ControlOf(s) EXCEPT !.state = r.state]
<1> DEFINE c == ControlOf(s)
           d == [c EXCEPT !.state = r.state]
<1>1. c \in Abstract!Control /\ ControlOf(r) \in Abstract!Control /\ ControlOf(r).state = r.state
  BY ControlIs
<1>2. /\ d \in Abstract!Control /\ d.state = r.state /\ d.child = c.child
      /\ d.pendingStart = c.pendingStart /\ d.restartAfterStop = c.restartAfterStop /\ d.killSent = c.killSent
  BY <1>1 DEF Abstract!Control
<1> HIDE DEF d
<1>3. ChildSeen(r) = ChildSeen(s) /\ KillSeen(r) = KillSeen(s)
  BY DEF ChildSeen, KillSeen
<1>4. ControlOf(r) = d
  BY <1>2, <1>3, ControlIs, SeenAs
<1> QED BY <1>4 DEF d

\* The history and the configuration are not seen.
LEMMA SameSeen ==
  ASSUME NEW s \in Service, NEW r \in Service, r.child = s.child, r.killSent = s.killSent,
         r.pendingStart = s.pendingStart, r.restartAfterStop = s.restartAfterStop, r.state = s.state
  PROVE  ControlOf(r) = ControlOf(s)
BY DEF ControlOf

\* A restart is seen to be scheduled, or the service to have failed.
LEMMA ScheduleRestartSeen ==
  ASSUME NEW s, NEW t \in Nat, Idle(s), s.restartCount + 1 <= s.attempts
  PROVE  ControlOf(ScheduleRestart(s, t)) \in Abstract!ScheduleRestart(ControlOf(s))
<1> DEFINE r == ScheduleRestart(s, t)
           history == Recent(s.restartHistory, s.config.restartWindow, t)
           at == t + BackoffDelay(s.config, Len(history))
<1>1. r \in Service /\ s \in Service
  BY ScheduleRestartCoherent DEF Coherent, Idle
<1>2. \/ r = [s EXCEPT !.restartHistory = history, !.state = "Failed"]
      \/ r = [s EXCEPT !.restartHistory = Append(history, t), !.restartAt = at, !.state = "Backoff",
                       !.scheduled = Append(@, t)]
  BY DEF ScheduleRestart
<1> HIDE DEF r, history, at
<1>3. /\ r.state \in {"Backoff", "Failed"} /\ r.child = s.child /\ r.killSent = s.killSent
      /\ r.pendingStart = s.pendingStart /\ r.restartAfterStop = s.restartAfterStop
  BY <1>1, <1>2 DEF Service
<1> QED BY <1>1, <1>3, StateSeen DEF r, Abstract!ScheduleRestart

\* So it is when the restart policy is applied, or to have stopped after a clean exit.
LEMMA ApplyRestartPolicySeen ==
  ASSUME NEW s, NEW t \in Nat, NEW cleanExit \in BOOLEAN, Idle(s), s.restartCount + 1 <= s.attempts
  PROVE  ControlOf(ApplyRestartPolicy(s, t, cleanExit)) \in
           Abstract!ApplyRestartPolicy(ControlOf(s), cleanExit)
<1> DEFINE r == ApplyRestartPolicy(s, t, cleanExit)
<1>1. r \in Service /\ s \in Service
  BY ApplyRestartPolicyCoherent DEF Coherent, Idle
<1>2. CASE r = ScheduleRestart(s, t)
  BY <1>2, ScheduleRestartSeen DEF Abstract!ApplyRestartPolicy
<1>3. CASE r = [s EXCEPT !.state = IF cleanExit THEN "Stopped" ELSE "Failed"]
  <2> HIDE DEF r
  <2>1. /\ r.state = (IF cleanExit THEN "Stopped" ELSE "Failed") /\ r.child = s.child
        /\ r.killSent = s.killSent
        /\ r.pendingStart = s.pendingStart /\ r.restartAfterStop = s.restartAfterStop
    BY <1>1, <1>3 DEF Service
  <2> QED BY <1>1, <2>1, StateSeen DEF r, Abstract!ApplyRestartPolicy, Abstract!ScheduleRestart
<1> QED BY <1>2, <1>3 DEF ApplyRestartPolicy

\* A launch is seen to succeed, or to be followed by the restart policy.
LEMMA LaunchSeen ==
  ASSUME NEW s, NEW t \in Nat, NEW ok \in BOOLEAN, Idle(s)
  PROVE  ControlOf(Launch(s, t, ok)) \in Abstract!Launch(ControlOf(s))
<1> DEFINE r == Launch(s, t, ok)
           c == ControlOf(s)
           d == [c EXCEPT !.child = "running", !.state = "Starting", !.killSent = FALSE]
<1>1. r \in Service /\ s \in Service /\ s.attempts \in Nat /\ s.restartCount \in Nat
  BY LaunchCoherent DEF Coherent, Idle, Service
<1>2. CASE ok
  <2>1. /\ r.state = "Starting" /\ r.child = "running" /\ r.killSent = FALSE
        /\ r.pendingStart = s.pendingStart /\ r.restartAfterStop = s.restartAfterStop
    BY <1>1, <1>2 DEF Launch, Service
  <2>2. /\ d \in Abstract!Control /\ d.state = "Starting" /\ d.child = "running" /\ d.killSent = FALSE
        /\ d.pendingStart = s.pendingStart /\ d.restartAfterStop = s.restartAfterStop
    BY <1>1, ControlIs DEF Abstract!Control, Abstract!States, Abstract!Alive, Abstract!Up
  <2> HIDE DEF r, d
  <2>3. ChildSeen(r) = "running" /\ KillSeen(r) = FALSE
    BY <1>1, <2>1, KillIs DEF ChildSeen
  <2>4. ControlOf(r) = d
    BY <1>1, <2>1, <2>2, <2>3, SeenAs
  <2> QED BY <2>4 DEF r, d, Abstract!Launch
<1>3. CASE ~ok
  <2> DEFINE n == s.attempts + 1
             q == [s EXCEPT !.attempts = n]
  <2> HIDE DEF n
  <2>6. n \in Nat
    BY <1>1 DEF n
  <2>1. /\ q \in Service /\ q.child = s.child /\ q.killSent = s.killSent /\ q.pendingStart = s.pendingStart
        /\ q.restartAfterStop = s.restartAfterStop /\ q.state = s.state
        /\ q.restartCount = s.restartCount /\ q.attempts = n
    BY <1>1, <2>6 DEF Service, Idle
  <2>2. r = ApplyRestartPolicy(q, t, FALSE)
    BY <1>3 DEF Launch, n
  <2> HIDE DEF q, r
  <2>3. Idle(q) /\ q.restartCount + 1 <= q.attempts
    BY <1>1, <2>1 DEF Idle, n
  <2>4. ControlOf(q) = c
    BY <1>1, <2>1, SameSeen
  <2>5. ControlOf(r) \in Abstract!ApplyRestartPolicy(c, FALSE)
    BY <2>2, <2>3, <2>4, ApplyRestartPolicySeen
  <2> QED BY <2>5 DEF r, Abstract!Launch
<1> QED BY <1>2, <1>3

\* What is not ready is seen to wait.
LEMMA RelaunchSeen ==
  ASSUME NEW s, NEW t \in Nat, NEW ready \in BOOLEAN, NEW ok \in BOOLEAN, Idle(s)
  PROVE  ControlOf(Relaunch(s, t, ready, ok)) \in Abstract!Relaunch(ControlOf(s), ready)
<1> DEFINE r == Relaunch(s, t, ready, ok)
<1>1. r \in Service /\ s \in Service
  BY RelaunchCoherent DEF Coherent, Idle
<1>2. CASE ready
  BY <1>2, LaunchSeen DEF Relaunch, Abstract!Relaunch
<1>3. CASE ~ready
  <2>1. r = [s EXCEPT !.state = "Waiting"]
    BY <1>3 DEF Relaunch
  <2> HIDE DEF r
  <2>2. /\ r.state = "Waiting" /\ r.child = s.child /\ r.killSent = s.killSent
        /\ r.pendingStart = s.pendingStart /\ r.restartAfterStop = s.restartAfterStop
    BY <1>1, <2>1 DEF Service
  <2> QED BY <1>1, <1>3, <2>2, StateSeen DEF r, Abstract!Relaunch
<1> QED BY <1>2, <1>3

\* A stop is seen to begin, by a kill or by another signal.
LEMMA BeginStopSeen ==
  ASSUME NEW s, NEW t \in Nat, Coherent(s), s.state \in Up
  PROVE  ControlOf(BeginStop(s, t)) \in Abstract!BeginStop(ControlOf(s))
<1> DEFINE r == BeginStop(s, t)
           c == ControlOf(s)
           byKill == (s.config.stopSignal = "kill")
           d == [c EXCEPT !.state = "Stopping", !.pendingStart = FALSE, !.restartAfterStop = FALSE,
                          !.killSent = byKill]
<1>1. r \in Service /\ s \in Service
  BY BeginStopCoherent DEF Coherent
<1>2. /\ r.state = "Stopping" /\ r.child = s.child /\ r.pendingStart = FALSE /\ r.restartAfterStop = FALSE
      /\ r.killSent = byKill /\ r.child # "none"
  BY DEF BeginStop, Coherent, Service, Alive
<1>3. byKill \in BOOLEAN /\ c \in Abstract!Control
  BY <1>1, ControlIs
<1> HIDE DEF byKill
<1>4. /\ d \in Abstract!Control /\ d.state = "Stopping" /\ d.child = c.child /\ d.pendingStart = FALSE
      /\ d.restartAfterStop = FALSE /\ d.killSent = byKill
  BY <1>3 DEF Abstract!Control, Abstract!States, Abstract!Alive
<1> HIDE DEF r, d
<1>5. ChildSeen(r) = ChildSeen(s) /\ KillSeen(r) = byKill /\ c.child = ChildSeen(s)
  BY <1>1, <1>2, KillIs, ControlIs DEF ChildSeen, c
<1>6. ControlOf(r) = d
  BY <1>1, <1>2, <1>4, <1>5, SeenAs
<1> QED BY <1>3, <1>6 DEF r, d, Abstract!BeginStop

\* Starting: a stop under way queues the start, what runs is left alone.
LEMMA StartSeen ==
  ASSUME NEW s, NEW t \in Nat, NEW ready \in BOOLEAN, NEW ok \in BOOLEAN, Coherent(s)
  PROVE  ControlOf(Start(s, t, ready, ok)) \in Abstract!Start(ControlOf(s), ready)
<1> DEFINE r == Start(s, t, ready, ok)
           c == ControlOf(s)
<1>1. r \in Service /\ s \in Service
  BY StartCoherent DEF Coherent
<1>2. c \in Abstract!Control /\ c.state = s.state /\ c.child = ChildSeen(s) /\ c.killSent = KillSeen(s)
  BY <1>1, ControlIs
<1> HIDE DEF c
<1>3. CASE s.state \in Up
  <2>1. r = s
    BY <1>3 DEF Start, Up
  <2> QED BY <1>2, <1>3, <2>1 DEF c, Abstract!Start, Abstract!Up, Up
<1>4. CASE s.state = "Stopping"
  <2> DEFINE d == [c EXCEPT !.pendingStart = TRUE, !.restartAfterStop = FALSE]
  <2>1. r = [s EXCEPT !.pendingStart = TRUE, !.pendingStartIsRestart = FALSE, !.restartAfterStop = FALSE]
    BY <1>4 DEF Start, Up
  <2> HIDE DEF r
  <2>2. /\ r.state = s.state /\ r.child = s.child /\ r.killSent = s.killSent
        /\ r.pendingStart = TRUE /\ r.restartAfterStop = FALSE
    BY <1>1, <2>1 DEF Service
  <2>3. /\ d \in Abstract!Control /\ d.state = c.state /\ d.child = c.child /\ d.killSent = c.killSent
        /\ d.pendingStart = TRUE /\ d.restartAfterStop = FALSE
    BY <1>2 DEF Abstract!Control
  <2>4. ChildSeen(r) = ChildSeen(s) /\ KillSeen(r) = KillSeen(s)
    BY <2>2 DEF ChildSeen, KillSeen
  <2> HIDE DEF d
  <2>5. ControlOf(r) = d
    BY <1>1, <1>2, <2>2, <2>3, <2>4, SeenAs
  <2>6. Abstract!Start(c, ready) = {d}
    BY <1>2, <1>4 DEF Abstract!Start, Abstract!Up, d
  <2> QED BY <2>5, <2>6 DEF c, r
<1>5. CASE s.state \notin Alive
  <2> DEFINE emptied == [s EXCEPT !.restartHistory = <<>>, !.scheduled = <<>>]
             fresh == IF s.state \in {"Stopped", "Failed", "Backoff"} THEN emptied ELSE s
  <2>1. r = Relaunch(fresh, t, ready, ok)
    BY <1>5 DEF Start, Alive, Up
  <2>2. Idle(s)
    BY <1>5, DownIsIdle
  <2>3. emptied \in Service
    <3>1. <<>> \in Seq(Nat)
      OBVIOUS
    <3> QED BY <1>1, <3>1 DEF Service
  <2>4. /\ emptied.child = s.child /\ emptied.state = s.state /\ emptied.killSent = s.killSent
        /\ emptied.pendingStart = s.pendingStart /\ emptied.restartAfterStop = s.restartAfterStop
        /\ emptied.restartCount = s.restartCount /\ emptied.attempts = s.attempts
    BY <1>1 DEF Service
  <2> HIDE DEF emptied, r
  <2>5. Idle(emptied) /\ ControlOf(emptied) = ControlOf(s)
    BY <1>1, <2>2, <2>3, <2>4, SameSeen DEF Idle
  <2>6. Idle(fresh) /\ ControlOf(fresh) = c
    BY <2>2, <2>5 DEF c
  <2> HIDE DEF fresh
  <2>7. ControlOf(r) \in Abstract!Relaunch(c, ready)
    BY <2>1, <2>6, RelaunchSeen
  <2>8. Abstract!Start(c, ready) = Abstract!Relaunch(c, ready)
    BY <1>2, <1>5 DEF Abstract!Start, Abstract!Up, Alive, Up
  <2> QED BY <2>7, <2>8 DEF c, r
<1> QED BY <1>3, <1>4, <1>5 DEF Alive

\* Stopping: what runs is asked to end, what is down is stopped.
LEMMA StopSeen ==
  ASSUME NEW s, NEW t \in Nat, Coherent(s)
  PROVE  ControlOf(Stop(s, t)) \in Abstract!Stop(ControlOf(s))
<1> DEFINE r == Stop(s, t)
           c == ControlOf(s)
<1>1. r \in Service /\ s \in Service
  BY StopCoherent DEF Coherent
<1>2. c \in Abstract!Control /\ c.state = s.state /\ c.child = ChildSeen(s) /\ c.killSent = KillSeen(s)
  BY <1>1, ControlIs
<1> HIDE DEF c
<1>3. CASE s.state \in Up
  <2>1. r = BeginStop(s, t)
    BY <1>3 DEF Stop, Up
  <2> HIDE DEF r
  <2>2. Abstract!Stop(c) = Abstract!BeginStop(c)
    BY <1>2, <1>3 DEF Abstract!Stop, Abstract!Up, Up
  <2>3. ControlOf(r) \in Abstract!BeginStop(c)
    BY <1>3, <2>1, BeginStopSeen DEF c
  <2> QED BY <2>2, <2>3 DEF c, r
<1>4. CASE s.state = "Stopping"
  <2> DEFINE d == [c EXCEPT !.pendingStart = FALSE, !.restartAfterStop = FALSE]
  <2>1. r = [s EXCEPT !.pendingStart = FALSE, !.restartAfterStop = FALSE]
    BY <1>4 DEF Stop, Up
  <2> HIDE DEF r
  <2>2. /\ r.state = s.state /\ r.child = s.child /\ r.killSent = s.killSent
        /\ r.pendingStart = FALSE /\ r.restartAfterStop = FALSE
    BY <1>1, <2>1 DEF Service
  <2>3. /\ d \in Abstract!Control /\ d.state = c.state /\ d.child = c.child /\ d.killSent = c.killSent
        /\ d.pendingStart = FALSE /\ d.restartAfterStop = FALSE
    BY <1>2 DEF Abstract!Control
  <2>4. ChildSeen(r) = ChildSeen(s) /\ KillSeen(r) = KillSeen(s)
    BY <2>2 DEF ChildSeen, KillSeen
  <2> HIDE DEF d
  <2>5. ControlOf(r) = d
    BY <1>1, <1>2, <2>2, <2>3, <2>4, SeenAs
  <2>6. Abstract!Stop(c) = {d}
    BY <1>2, <1>4 DEF Abstract!Stop, Abstract!Up, d
  <2> QED BY <2>5, <2>6 DEF c, r
<1>5. CASE s.state \notin Alive
  <2>1. r = [s EXCEPT !.state = "Stopped"]
    BY <1>5 DEF Stop, Alive, Up
  <2> HIDE DEF r
  <2>2. /\ r.state = "Stopped" /\ r.child = s.child /\ r.killSent = s.killSent
        /\ r.pendingStart = s.pendingStart /\ r.restartAfterStop = s.restartAfterStop
    BY <1>1, <2>1 DEF Service
  <2>3. Abstract!Stop(c) = {[c EXCEPT !.state = "Stopped"]}
    BY <1>2, <1>5 DEF Abstract!Stop, Abstract!Up, Alive, Up
  <2> QED BY <1>1, <2>2, <2>3, StateSeen DEF c, r
<1> QED BY <1>3, <1>4, <1>5 DEF Alive

\* Restarting: what runs is asked to end, with the start queued behind; the rest is started.
LEMMA RestartSeen ==
  ASSUME NEW s, NEW t \in Nat, NEW ready \in BOOLEAN, NEW ok \in BOOLEAN, Coherent(s)
  PROVE  ControlOf(Restart(s, t, ready, ok)) \in Abstract!Restart(ControlOf(s), ready)
<1> DEFINE r == Restart(s, t, ready, ok)
           c == ControlOf(s)
<1>1. r \in Service /\ s \in Service
  BY RestartCoherent DEF Coherent
<1>2. c \in Abstract!Control /\ c.state = s.state
  BY <1>1, ControlIs
<1> HIDE DEF c
<1>3. CASE s.state \in Up
  <2> DEFINE b == BeginStop(s, t)
             e == ControlOf(b)
             d == [e EXCEPT !.pendingStart = TRUE]
  <2>1. r = [b EXCEPT !.pendingStart = TRUE, !.pendingStartIsRestart = TRUE]
    BY <1>3 DEF Restart, Up
  <2>2. b \in Service /\ e \in Abstract!BeginStop(c)
    BY <1>3, BeginStopCoherent, BeginStopSeen DEF Coherent, c
  <2> HIDE DEF r, b
  <2>3. /\ r.state = b.state /\ r.child = b.child /\ r.killSent = b.killSent
        /\ r.pendingStart = TRUE /\ r.restartAfterStop = b.restartAfterStop
    BY <2>1, <2>2 DEF Service
  <2>4. /\ e \in Abstract!Control /\ e.state = b.state /\ e.child = ChildSeen(b) /\ e.killSent = KillSeen(b)
        /\ e.restartAfterStop = b.restartAfterStop
    BY <2>2, ControlIs
  <2> HIDE DEF e
  <2>5. /\ d \in Abstract!Control /\ d.state = e.state /\ d.child = e.child /\ d.killSent = e.killSent
        /\ d.pendingStart = TRUE /\ d.restartAfterStop = e.restartAfterStop
    BY <2>4 DEF Abstract!Control
  <2>6. ChildSeen(r) = ChildSeen(b) /\ KillSeen(r) = KillSeen(b)
    BY <2>3 DEF ChildSeen, KillSeen
  <2> HIDE DEF d
  <2>7. ControlOf(r) = d
    BY <1>1, <2>3, <2>4, <2>5, <2>6, SeenAs
  <2>8. Abstract!Restart(c, ready) = {[x EXCEPT !.pendingStart = TRUE] : x \in Abstract!BeginStop(c)}
    BY <1>2, <1>3 DEF Abstract!Restart, Abstract!Up, Up
  <2> QED BY <2>2, <2>7, <2>8 DEF c, r, d
<1>4. CASE s.state = "Stopping"
  <2> DEFINE q == Start(s, t, ready, ok)
  <2>1. r = [s EXCEPT !.pendingStart = TRUE, !.pendingStartIsRestart = TRUE, !.restartAfterStop = FALSE]
    BY <1>4 DEF Restart, Up
  <2>2. q = [s EXCEPT !.pendingStart = TRUE, !.pendingStartIsRestart = FALSE, !.restartAfterStop = FALSE]
    BY <1>4 DEF Start, Up
  <2>3. q \in Service /\ ControlOf(q) \in Abstract!Start(c, ready)
    BY StartCoherent, StartSeen DEF Coherent, c
  <2> HIDE DEF r, q
  <2>4. /\ r.state = q.state /\ r.child = q.child /\ r.killSent = q.killSent
        /\ r.pendingStart = q.pendingStart /\ r.restartAfterStop = q.restartAfterStop
    BY <1>1, <2>1, <2>2 DEF Service
  <2>5. ControlOf(r) = ControlOf(q)
    BY <1>1, <2>3, <2>4, SameSeen
  <2>6. Abstract!Restart(c, ready) = Abstract!Start(c, ready)
    BY <1>2, <1>4 DEF Abstract!Restart, Abstract!Up
  <2> QED BY <2>3, <2>5, <2>6 DEF c, r
<1>5. CASE s.state \notin Alive
  <2>1. r = Start(s, t, ready, ok)
    BY <1>5 DEF Restart, Alive, Up
  <2> HIDE DEF r
  <2>2. ControlOf(r) \in Abstract!Start(c, ready)
    BY <2>1, StartSeen DEF c
  <2>3. Abstract!Restart(c, ready) = Abstract!Start(c, ready)
    BY <1>2, <1>5 DEF Abstract!Restart, Abstract!Up, Alive, Up
  <2> QED BY <2>2, <2>3 DEF c, r
<1> QED BY <1>3, <1>4, <1>5 DEF Alive

\* Killing: a process there is has been killed, and nothing is queued.
LEMMA KillSeenAs ==
  ASSUME NEW s, NEW t \in Nat, Coherent(s)
  PROVE  ControlOf(Kill(s, t)) \in Abstract!Kill(ControlOf(s))
<1> DEFINE r == Kill(s, t)
           c == ControlOf(s)
           deadline == t + KillGrace
<1>1. r \in Service /\ s \in Service
  BY KillCoherent DEF Coherent
<1>2. c \in Abstract!Control /\ c.state = s.state /\ c.child = ChildSeen(s) /\ c.killSent = KillSeen(s)
  BY <1>1, ControlIs
<1>3. c.child = "none" <=> s.child = "none"
  BY <1>1, <1>2 DEF ChildSeen
<1> HIDE DEF c
<1>4. CASE s.child = "none"
  <2> DEFINE d == [[c EXCEPT !.pendingStart = FALSE, !.restartAfterStop = FALSE] EXCEPT !.state = "Stopped"]
  <2>1. r = [[s EXCEPT !.pendingStart = FALSE, !.restartAfterStop = FALSE] EXCEPT !.state = "Stopped"]
    BY <1>4 DEF Kill
  <2> HIDE DEF r
  <2>2. /\ r.state = "Stopped" /\ r.child = s.child /\ r.killSent = s.killSent
        /\ r.pendingStart = FALSE /\ r.restartAfterStop = FALSE
    BY <1>1, <2>1 DEF Service
  <2>3. /\ d \in Abstract!Control /\ d.state = "Stopped" /\ d.child = c.child /\ d.killSent = c.killSent
        /\ d.pendingStart = FALSE /\ d.restartAfterStop = FALSE
    BY <1>2 DEF Abstract!Control, Abstract!States
  <2>4. ChildSeen(r) = ChildSeen(s) /\ KillSeen(r) = KillSeen(s)
    BY <2>2 DEF ChildSeen, KillSeen
  <2> HIDE DEF d
  <2>5. ControlOf(r) = d
    BY <1>1, <1>2, <2>2, <2>3, <2>4, SeenAs
  <2>6. Abstract!Kill(c) = {d}
    BY <1>3, <1>4 DEF Abstract!Kill, d
  <2> QED BY <2>5, <2>6 DEF c, r
<1>5. CASE s.child # "none"
  <2> DEFINE d == [[c EXCEPT !.pendingStart = FALSE, !.restartAfterStop = FALSE]
                     EXCEPT !.state = "Stopping", !.killSent = TRUE]
  <2>1. r = [[s EXCEPT !.pendingStart = FALSE, !.restartAfterStop = FALSE]
              EXCEPT !.state = "Stopping", !.stopDeadline = t, !.killSent = TRUE, !.killDeadline = deadline]
    BY <1>5 DEF Kill
  <2> HIDE DEF r, deadline
  <2>2. /\ r.state = "Stopping" /\ r.child = s.child /\ r.killSent = TRUE
        /\ r.pendingStart = FALSE /\ r.restartAfterStop = FALSE
    BY <1>1, <2>1 DEF Service
  <2>3. /\ d \in Abstract!Control /\ d.state = "Stopping" /\ d.child = c.child /\ d.killSent = TRUE
        /\ d.pendingStart = FALSE /\ d.restartAfterStop = FALSE
    BY <1>2 DEF Abstract!Control, Abstract!States, Abstract!Alive
  <2>4. ChildSeen(r) = ChildSeen(s) /\ KillSeen(r) = TRUE
    BY <1>1, <1>5, <2>2, KillIs DEF ChildSeen
  <2> HIDE DEF d
  <2>5. ControlOf(r) = d
    BY <1>1, <1>2, <2>2, <2>3, <2>4, SeenAs
  <2>6. Abstract!Kill(c) = {d}
    BY <1>3, <1>5 DEF Abstract!Kill, d
  <2> QED BY <2>5, <2>6 DEF c, r
<1> QED BY <1>4, <1>5

\* A heartbeat, or being given up, is seen in the state alone.
LEMMA HeartbeatSeen ==
  ASSUME NEW s, NEW t \in Nat, Sound(s)
  PROVE  /\ ControlOf(Heartbeat(s, t)) \in Abstract!Heartbeat(ControlOf(s))
         /\ ControlOf(Abandon(s)) \in Abstract!Abandon(ControlOf(s))
<1> DEFINE h == Heartbeat(s, t)
           a == Abandon(s)
           c == ControlOf(s)
<1>1. s \in Service /\ h \in Service /\ a \in Service
  BY HeartbeatSound, AbandonSound DEF Sound, Coherent
<1>2. c.state = s.state
  BY <1>1, ControlIs
<1>3. CASE s.state \in Up
  <2>1. h = [s EXCEPT !.lastBeat = t, !.lastSeen = t, !.switchedOn = FALSE, !.state = "Running"]
    BY <1>3 DEF Heartbeat
  <2> HIDE DEF h
  <2>2. /\ h.state = "Running" /\ h.child = s.child /\ h.killSent = s.killSent
        /\ h.pendingStart = s.pendingStart /\ h.restartAfterStop = s.restartAfterStop
    BY <1>1, <2>1 DEF Service
  <2>3. ControlOf(h) = [c EXCEPT !.state = "Running"]
    BY <1>1, <2>2, StateSeen
  <2> QED BY <1>2, <1>3, <2>3 DEF h, Abstract!Heartbeat, Abstract!Up, Up, Abandon, Abstract!Abandon
<1>4. CASE s.state = "Waiting"
  <2>1. a = [s EXCEPT !.state = "Failed"]
    BY <1>4 DEF Abandon
  <2> HIDE DEF a
  <2>2. /\ a.state = "Failed" /\ a.child = s.child /\ a.killSent = s.killSent
        /\ a.pendingStart = s.pendingStart /\ a.restartAfterStop = s.restartAfterStop
    BY <1>1, <2>1 DEF Service
  <2>3. ControlOf(a) = [c EXCEPT !.state = "Failed"]
    BY <1>1, <2>2, StateSeen
  <2> QED BY <1>2, <1>4, <2>3 DEF a, Heartbeat, Abstract!Heartbeat, Abstract!Up, Up, Abstract!Abandon
<1>5. CASE s.state \notin Up /\ s.state # "Waiting"
  BY <1>2, <1>5 DEF Heartbeat, Abstract!Heartbeat, Abstract!Up, Up, Abandon, Abstract!Abandon
<1> QED BY <1>3, <1>4, <1>5

\* The end of the process is seen to be handled: the policy, what was queued, or nothing more.
LEMMA HandleExitSeen ==
  ASSUME NEW s, NEW t \in Nat, NEW allowed \in BOOLEAN, NEW ready \in BOOLEAN,
         NEW ok \in BOOLEAN, Sound(s), s.child \in {"clean", "unclean"}
  PROVE  ControlOf(HandleExit(s, t, allowed, ready, ok)) \in
           Abstract!HandleExit(ControlOf(s), allowed, ready)
<1> DEFINE r == HandleExit(s, t, allowed, ready, ok)
           c == ControlOf(s)
           gone == [s EXCEPT !.child = "none"]
           cGone == [c EXCEPT !.child = "none", !.killSent = FALSE]
           stopped == [gone EXCEPT !.state = "Stopped", !.pendingStart = FALSE, !.restartAfterStop = FALSE]
           cStopped == [cGone EXCEPT !.state = "Stopped", !.pendingStart = FALSE, !.restartAfterStop = FALSE]
           count == s.restartCount + (IF s.pendingStartIsRestart THEN 1 ELSE 0)
           counted == [stopped EXCEPT !.restartCount = count]
<1>1. s \in Service /\ s.state \in Alive /\ s.restartCount + 1 <= s.attempts
  BY DEF Sound, Coherent
<1>2. count \in Nat /\ count <= s.attempts
  BY <1>1 DEF Service
<1>3. /\ c \in Abstract!Control /\ c.state = s.state
      /\ c.pendingStart = s.pendingStart /\ c.restartAfterStop = s.restartAfterStop
  BY <1>1, ControlIs
<1> HIDE DEF c, count
<1>4. /\ gone \in Service /\ gone.child = "none" /\ gone.state = s.state
      /\ gone.pendingStart = s.pendingStart /\ gone.restartAfterStop = s.restartAfterStop
      /\ gone.restartCount = s.restartCount /\ gone.attempts = s.attempts
  BY <1>1 DEF Service, Children
<1>5. /\ cGone \in Abstract!Control /\ cGone.child = "none" /\ cGone.state = s.state /\ cGone.killSent = FALSE
      /\ cGone.pendingStart = s.pendingStart /\ cGone.restartAfterStop = s.restartAfterStop
  BY <1>3 DEF Abstract!Control
<1>6. /\ stopped \in Service /\ stopped.child = "none" /\ stopped.state = "Stopped"
      /\ stopped.pendingStart = FALSE /\ stopped.restartAfterStop = FALSE
      /\ stopped.restartCount = s.restartCount /\ stopped.attempts = s.attempts
  BY <1>1 DEF Service, Children, States
<1>7. /\ cStopped \in Abstract!Control /\ cStopped.child = "none" /\ cStopped.state = "Stopped"
      /\ cStopped.killSent = FALSE /\ cStopped.pendingStart = FALSE /\ cStopped.restartAfterStop = FALSE
  BY <1>3 DEF Abstract!Control, Abstract!States
<1>8. CASE s.state # "Stopping"
  <2>1. r = ApplyRestartPolicy(gone, t, s.child = "clean")
    BY <1>8 DEF HandleExit
  <2>2. Abstract!HandleExit(c, allowed, ready) = Abstract!ApplyRestartPolicy(cGone, TRUE)
    BY <1>3, <1>8 DEF Abstract!HandleExit
  <2> HIDE DEF gone, cGone, r
  <2>3. ControlOf(gone) = cGone
    BY <1>4, <1>5, SeenAs, KillIs DEF ChildSeen
  <2>4. Idle(gone) /\ gone.restartCount + 1 <= gone.attempts
    <3>1. ~s.pendingStart /\ ~s.restartAfterStop
      BY <1>8 DEF Sound, Coherent
    <3> QED BY <1>1, <1>4, <3>1, SMTT(30) DEF Idle, Service
  <2>5. ControlOf(r) \in Abstract!ApplyRestartPolicy(cGone, s.child = "clean")
    BY <2>1, <2>3, <2>4, ApplyRestartPolicySeen
  <2>6. Abstract!ApplyRestartPolicy(cGone, s.child = "clean") \subseteq Abstract!ApplyRestartPolicy(cGone, TRUE)
    BY DEF Abstract!ApplyRestartPolicy
  <2> QED BY <2>2, <2>5, <2>6 DEF c, r
<1>9. CASE s.state = "Stopping"
  <2>1. ControlOf(stopped) = cStopped
    <3> HIDE DEF stopped, cStopped
    <3> QED BY <1>6, <1>7, SeenAs, KillIs DEF ChildSeen
  <2>2. Idle(stopped) /\ stopped.restartCount + 1 <= stopped.attempts
    <3> HIDE DEF stopped
    <3> QED BY <1>1, <1>6, SMTT(30) DEF Idle, Service
  <2>3. CASE ~allowed \/ (~s.restartAfterStop /\ ~s.pendingStart)
    <3>1. r = stopped
      BY <1>9, <2>3 DEF HandleExit
    <3>2. Abstract!HandleExit(c, allowed, ready) = {cStopped}
      BY <1>3, <1>9, <2>3, Zenon DEF Abstract!HandleExit
    <3> QED BY <2>1, <3>1, <3>2 DEF c
  <2>4. CASE allowed /\ s.restartAfterStop
    <3>1. r = ScheduleRestart(stopped, t)
      BY <1>9, <2>4 DEF HandleExit
    <3>2. Abstract!HandleExit(c, allowed, ready) = Abstract!ScheduleRestart(cStopped)
      BY <1>3, <1>9, <2>4 DEF Abstract!HandleExit
    <3> HIDE DEF stopped, cStopped, r
    <3>3. ControlOf(r) \in Abstract!ScheduleRestart(cStopped)
      BY <2>1, <2>2, <3>1, ScheduleRestartSeen
    <3> QED BY <3>2, <3>3 DEF c, r
  <2>5. CASE allowed /\ ~s.restartAfterStop /\ s.pendingStart
    <3>1. r = Relaunch(counted, t, ready, ok)
      BY <1>9, <2>5 DEF HandleExit, count
    <3>2. Abstract!HandleExit(c, allowed, ready) = Abstract!Relaunch(cStopped, ready)
      BY <1>3, <1>9, <2>5 DEF Abstract!HandleExit
    <3> HIDE DEF stopped, cStopped, r
    <3>3. /\ counted \in Service /\ counted.restartCount = count
          /\ counted.child = stopped.child /\ counted.pendingStart = stopped.pendingStart
          /\ counted.restartAfterStop = stopped.restartAfterStop /\ counted.state = stopped.state
          /\ counted.killSent = stopped.killSent /\ counted.attempts = stopped.attempts
      BY <1>2, <1>6 DEF Service
    <3> HIDE DEF counted
    <3>4. Idle(counted)
      BY <1>2, <1>6, <3>3 DEF Idle
    <3>5. ControlOf(counted) = cStopped
      BY <1>6, <2>1, <3>3, SameSeen
    <3>6. ControlOf(r) \in Abstract!Relaunch(cStopped, ready)
      BY <3>1, <3>4, <3>5, RelaunchSeen
    <3> QED BY <3>2, <3>6 DEF c, r
  <2> QED BY <2>3, <2>4, <2>5
<1> QED BY <1>8, <1>9

\* The restart policy launches nothing.
LEMMA PolicyLaunchesNothing ==
  ASSUME NEW s, NEW t \in Nat, NEW cleanExit \in BOOLEAN, Idle(s), s.restartCount + 1 <= s.attempts
  PROVE  ApplyRestartPolicy(s, t, cleanExit).child = "none" /\ ScheduleRestart(s, t).child = "none"
<1> DEFINE r == ScheduleRestart(s, t)
           history == Recent(s.restartHistory, s.config.restartWindow, t)
           at == t + BackoffDelay(s.config, Len(history))
<1>1. \/ r = [s EXCEPT !.restartHistory = history, !.state = "Failed"]
      \/ r = [s EXCEPT !.restartHistory = Append(history, t), !.restartAt = at, !.state = "Backoff",
                       !.scheduled = Append(@, t)]
  BY DEF ScheduleRestart
<1> HIDE DEF history, at
<1>2. r.child = "none"
  BY <1>1 DEF Idle, Service
<1> HIDE DEF r
<1> QED BY <1>2 DEF ApplyRestartPolicy, Idle, Service, r

\* What is launched is fresh: it starts, and its heartbeats are counted from now on.
Fresh(r, t) == r.child = "running" => r.state = "Starting" /\ r.lastBeat = t /\ r.lastSeen = t /\ ~r.switchedOn

\* A relaunch that succeeds leaves the service fresh.
LEMMA RelaunchFresh ==
  ASSUME NEW s, NEW t \in Nat, NEW ready \in BOOLEAN, NEW ok \in BOOLEAN, Idle(s)
  PROVE  Fresh(Relaunch(s, t, ready, ok), t)
<1> DEFINE n == s.attempts + 1
           q == [s EXCEPT !.attempts = n]
<1>1. CASE ready /\ ok
  BY <1>1 DEF Fresh, Relaunch, Launch, Idle, Service
<1>2. CASE ready /\ ~ok
  <2>1. n \in Nat /\ s.restartCount + 1 <= n
    BY DEF Idle, Service
  <2>2. Relaunch(s, t, ready, ok) = ApplyRestartPolicy(q, t, FALSE)
    BY <1>2 DEF Relaunch, Launch
  <2> HIDE DEF n
  <2>3. Idle(q) /\ q.restartCount + 1 <= q.attempts
    <3>1. /\ q \in Service /\ q.child = "none" /\ ~q.pendingStart /\ ~q.restartAfterStop
          /\ q.attempts = n /\ q.restartCount = s.restartCount
      BY <2>1 DEF Idle, Service
    <3> HIDE DEF q
    <3> QED BY <2>1, <3>1, SMTT(30) DEF Idle, Service
  <2> HIDE DEF q
  <2> QED BY <2>2, <2>3, PolicyLaunchesNothing DEF Fresh
<1>3. CASE ~ready
  BY <1>3 DEF Fresh, Relaunch, Idle, Service
<1> QED BY <1>1, <1>2, <1>3

\* So does the handling of an exit that ends in a launch.
LEMMA HandleExitFresh ==
  ASSUME NEW s, NEW t \in Nat, NEW allowed \in BOOLEAN, NEW ready \in BOOLEAN,
         NEW ok \in BOOLEAN, Sound(s), s.child \in {"clean", "unclean"}
  PROVE  Fresh(HandleExit(s, t, allowed, ready, ok), t)
<1> DEFINE r == HandleExit(s, t, allowed, ready, ok)
           gone == [s EXCEPT !.child = "none"]
           stopped == [gone EXCEPT !.state = "Stopped", !.pendingStart = FALSE, !.restartAfterStop = FALSE]
           count == s.restartCount + (IF s.pendingStartIsRestart THEN 1 ELSE 0)
           counted == [stopped EXCEPT !.restartCount = count]
<1>1. s \in Service /\ s.state \in Alive /\ s.restartCount + 1 <= s.attempts
  BY DEF Sound, Coherent
<1>2. count \in Nat /\ count <= s.attempts
  BY <1>1 DEF Service
<1>3. CASE s.state # "Stopping"
  <2>1. r = ApplyRestartPolicy(gone, t, s.child = "clean")
    BY <1>3 DEF HandleExit
  <2>2. /\ gone \in Service /\ gone.child = "none"
        /\ gone.pendingStart = s.pendingStart /\ gone.restartAfterStop = s.restartAfterStop
        /\ gone.restartCount = s.restartCount /\ gone.attempts = s.attempts
    BY <1>1 DEF Service, Children
  <2> HIDE DEF gone, r
  <2>3. ~s.pendingStart /\ ~s.restartAfterStop
    BY <1>3 DEF Sound, Coherent
  <2>4. Idle(gone) /\ gone.restartCount + 1 <= gone.attempts
    BY <1>1, <2>2, <2>3, SMTT(30) DEF Idle, Service
  <2>5. r.child = "none"
    BY <2>1, <2>4, PolicyLaunchesNothing
  <2> QED BY <2>5 DEF Fresh, r
<1>4. CASE s.state = "Stopping"
  <2>1. /\ stopped \in Service /\ stopped.child = "none" /\ ~stopped.pendingStart /\ ~stopped.restartAfterStop
        /\ stopped.restartCount = s.restartCount /\ stopped.attempts = s.attempts
    BY <1>1 DEF Service, Children, States
  <2>2. /\ counted \in Service /\ counted.child = "none" /\ ~counted.pendingStart /\ ~counted.restartAfterStop
        /\ counted.restartCount = count /\ counted.attempts = s.attempts
    <3> HIDE DEF stopped, count
    <3> QED BY <1>2, <2>1 DEF Service
  <2>3. \/ r = stopped
        \/ r = ScheduleRestart(stopped, t)
        \/ r = Relaunch(counted, t, ready, ok)
    BY <1>4 DEF HandleExit
  <2> HIDE DEF stopped, counted, count, r
  <2>4. Idle(stopped) /\ stopped.restartCount + 1 <= stopped.attempts /\ Idle(counted)
    <3>1. Idle(stopped) /\ stopped.restartCount + 1 <= stopped.attempts
      BY <1>1, <2>1, SMTT(30) DEF Idle, Service
    <3>2. Idle(counted)
      BY <1>2, <2>2 DEF Idle
    <3> QED BY <3>1, <3>2
  <2>5. CASE r = stopped \/ r = ScheduleRestart(stopped, t)
    BY <2>1, <2>4, <2>5, PolicyLaunchesNothing DEF Fresh, r
  <2>6. CASE r = Relaunch(counted, t, ready, ok)
    BY <2>4, <2>6, RelaunchFresh DEF r
  <2> QED BY <2>3, <2>5, <2>6
<1> QED BY <1>3, <1>4

\* A silent service is seen to turn unhealthy or to be stopped for it; nothing else is seen of the check.
LEMMA CheckHeartbeatSeen ==
  ASSUME NEW s, NEW t \in Nat, Sound(s), s.state \in Up
  PROVE  ControlOf(CheckHeartbeat(s, t)) \in Abstract!CheckUp(ControlOf(s))
<1> DEFINE missedBeats == (t - s.lastBeat) \div s.config.heartbeatInterval
           patient == missedBeats < s.config.heartbeatTolerance \/ s.state = "Unhealthy"
           unhealthy == [s EXCEPT !.state = "Unhealthy"]
           b == BeginStop(unhealthy, t)
           r == CheckHeartbeat(s, t)
           c == ControlOf(s)
<1>1. s \in Service /\ r \in Service
  BY CheckHeartbeatSound DEF Sound, Coherent
<1>2. c \in Abstract!Control /\ c.state = s.state
  BY <1>1, ControlIs
<1> HIDE DEF c
<1>3. CASE patient
  <2>1. r = s
    BY <1>3 DEF CheckHeartbeat
  <2> QED BY <2>1 DEF Abstract!CheckUp, Abstract!CheckGrace, c
<1>4. CASE ~patient
  <2>1. /\ unhealthy.child = s.child /\ unhealthy.state = "Unhealthy" /\ unhealthy.killSent = s.killSent
        /\ unhealthy.pendingStart = s.pendingStart /\ unhealthy.restartAfterStop = s.restartAfterStop
        /\ unhealthy.restartCount = s.restartCount /\ unhealthy.attempts = s.attempts
        /\ unhealthy \in Service
    BY <1>1 DEF Service, States, Alive, Up
  <2>2. ControlOf(unhealthy) = [c EXCEPT !.state = "Unhealthy"]
    <3> HIDE DEF unhealthy
    <3> QED BY <1>1, <2>1, StateSeen DEF c
  <2>3. s.state # "Unhealthy"
    BY <1>4
  <2>4. Abstract!CheckUp(c) = Abstract!CheckGrace(c) \cup {[c EXCEPT !.state = "Unhealthy"]}
          \cup {[x EXCEPT !.restartAfterStop = TRUE] : x \in Abstract!BeginStop(c)}
    BY <1>2, <2>3 DEF Abstract!CheckUp
  <2>5. CASE s.config.unhealthyAction # "restart"
    <3>1. r = unhealthy
      BY <1>4, <2>5 DEF CheckHeartbeat
    <3> QED BY <2>2, <2>4, <3>1 DEF c
  <2>6. CASE s.config.unhealthyAction = "restart"
    <3>1. r = [b EXCEPT !.restartAfterStop = TRUE]
      BY <1>4, <2>6 DEF CheckHeartbeat
    <3> HIDE DEF unhealthy
    <3>2. Coherent(unhealthy) /\ unhealthy.state \in Up
      BY <2>1, SameLifeCoherent DEF Sound, Up
    <3>3. b \in Service /\ ControlOf(b) \in Abstract!BeginStop(ControlOf(unhealthy))
      BY <3>2, BeginStopCoherent, BeginStopSeen DEF Coherent
    <3>4. Abstract!BeginStop(ControlOf(unhealthy)) = Abstract!BeginStop(c)
      <4> DEFINE u == [c EXCEPT !.state = "Unhealthy"]
      <4>1. \A k \in BOOLEAN :
              [u EXCEPT !.state = "Stopping", !.pendingStart = FALSE, !.restartAfterStop = FALSE, !.killSent = k]
              = [c EXCEPT !.state = "Stopping", !.pendingStart = FALSE, !.restartAfterStop = FALSE, !.killSent = k]
        BY <1>2 DEF Abstract!Control
      <4> HIDE DEF u
      <4>2. Abstract!BeginStop(u) = Abstract!BeginStop(c)
        BY <4>1, Zenon DEF Abstract!BeginStop
      <4> QED BY <2>2, <4>2 DEF u
    <3> DEFINE e == ControlOf(b)
               d == [e EXCEPT !.restartAfterStop = TRUE]
    <3> HIDE DEF r, b
    <3>5. /\ r.state = b.state /\ r.child = b.child /\ r.killSent = b.killSent
          /\ r.pendingStart = b.pendingStart /\ r.restartAfterStop = TRUE
      BY <3>1, <3>3 DEF Service
    <3>6. /\ e \in Abstract!Control /\ e.state = b.state /\ e.child = ChildSeen(b) /\ e.killSent = KillSeen(b)
          /\ e.pendingStart = b.pendingStart
      BY <3>3, ControlIs
    <3> HIDE DEF e
    <3>7. /\ d \in Abstract!Control /\ d.state = e.state /\ d.child = e.child /\ d.killSent = e.killSent
          /\ d.pendingStart = e.pendingStart /\ d.restartAfterStop = TRUE
      BY <3>6 DEF Abstract!Control
    <3>8. ChildSeen(r) = ChildSeen(b) /\ KillSeen(r) = KillSeen(b)
      BY <3>5 DEF ChildSeen, KillSeen
    <3> HIDE DEF d
    <3>9. ControlOf(r) = d
      BY <1>1, <3>5, <3>6, <3>7, <3>8, SeenAs
    <3>10. e \in Abstract!BeginStop(c)
      BY <3>3, <3>4 DEF e
    <3> QED BY <2>4, <3>9, <3>10 DEF c, r, d
  <2> QED BY <2>5, <2>6
<1> QED BY <1>3, <1>4

\* The start grace is seen to last or to be over.
LEMMA CheckGraceSeen ==
  ASSUME NEW s, NEW t \in Nat, Sound(s), s.state \in Up
  PROVE  ControlOf(CheckGrace(s, t)) \in Abstract!CheckGrace(ControlOf(s))
<1> DEFINE r == CheckGrace(s, t)
<1>1. s \in Service /\ r \in Service
  BY CheckGraceSound DEF Sound, Coherent
<1>2. r = [s EXCEPT !.lastSeen = t] \/ r = [s EXCEPT !.lastSeen = t, !.state = "Running"]
  BY DEF CheckGrace
<1> HIDE DEF r
<1>3. CASE r = [s EXCEPT !.lastSeen = t]
  <2>1. /\ r.state = s.state /\ r.child = s.child /\ r.killSent = s.killSent
        /\ r.pendingStart = s.pendingStart /\ r.restartAfterStop = s.restartAfterStop
    BY <1>1, <1>3 DEF Service
  <2>2. ControlOf(r) = ControlOf(s)
    BY <2>1 DEF ControlOf
  <2> QED BY <2>2 DEF Abstract!CheckGrace, r
<1>4. CASE r = [s EXCEPT !.lastSeen = t, !.state = "Running"]
  <2>1. /\ r.state = "Running" /\ r.child = s.child /\ r.killSent = s.killSent
        /\ r.pendingStart = s.pendingStart /\ r.restartAfterStop = s.restartAfterStop
    BY <1>1, <1>4 DEF Service
  <2> QED BY <1>1, <2>1, StateSeen DEF Abstract!CheckGrace, r
<1> QED BY <1>2, <1>3, <1>4

\* A stop that takes too long is seen in killSent alone.
LEMMA CheckStopSeen ==
  ASSUME NEW s, NEW t \in Nat, Sound(s), s.state = "Stopping"
  PROVE  ControlOf(CheckStop(s, t)) \in {ControlOf(s), [ControlOf(s) EXCEPT !.killSent = TRUE]}
<1> DEFINE r == CheckStop(s, t)
           c == ControlOf(s)
           deadline == t + KillGrace
           d == [c EXCEPT !.killSent = TRUE]
<1>1. s \in Service /\ r \in Service /\ s.child # "none"
  BY CheckStopSound DEF Sound, Coherent, Alive
<1>2. \/ r = s
      \/ r = [s EXCEPT !.killSent = TRUE, !.killDeadline = deadline]
      \/ r = [s EXCEPT !.stuckReported = TRUE]
  BY DEF CheckStop
<1> HIDE DEF r, deadline
<1>3. /\ r.state = s.state /\ r.child = s.child
      /\ r.pendingStart = s.pendingStart /\ r.restartAfterStop = s.restartAfterStop
      /\ r.killSent = s.killSent \/ r.killSent = TRUE
  BY <1>1, <1>2 DEF Service
<1>4. CASE r.killSent = s.killSent
  BY <1>1, <1>3, <1>4, SameSeen DEF r
<1>5. CASE r.killSent = TRUE
  <2>1. /\ c \in Abstract!Control /\ c.state = s.state /\ c.child = ChildSeen(s)
        /\ c.pendingStart = s.pendingStart /\ c.restartAfterStop = s.restartAfterStop
    BY <1>1, ControlIs
  <2> HIDE DEF c
  <2>2. /\ d \in Abstract!Control /\ d.state = c.state /\ d.child = c.child /\ d.killSent = TRUE
        /\ d.pendingStart = c.pendingStart /\ d.restartAfterStop = c.restartAfterStop
    BY <2>1 DEF Abstract!Control
  <2>3. ChildSeen(r) = ChildSeen(s) /\ KillSeen(r) = TRUE
    BY <1>1, <1>3, <1>5, KillIs DEF ChildSeen
  <2> HIDE DEF d
  <2>4. ControlOf(r) = d
    BY <1>1, <1>3, <2>1, <2>2, <2>3, SeenAs
  <2> QED BY <2>4 DEF r, c, d
<1> QED BY <1>3, <1>4, <1>5

\* Supervision after the reaping is seen as one of its branches.
LEMMA SuperviseSeen ==
  ASSUME NEW m, NEW t \in Nat, NEW allowed \in BOOLEAN, NEW ready \in BOOLEAN, NEW ok \in BOOLEAN, Sound(m)
  PROVE  ControlOf(Supervise(m, t, allowed, ready, ok)) \in Abstract!Supervise(ControlOf(m), allowed, ready)
<1> DEFINE r == Supervise(m, t, allowed, ready, ok)
           c == ControlOf(m)
           due == m.state = "Backoff" /\ allowed /\ t >= m.restartAt
<1>1. m \in Service
  BY DEF Sound, Coherent
<1>2. c.state = m.state
  BY <1>1, ControlIs
<1>3. CASE m.state \in Up
  <2>1. r = IF HeartbeatEnabled(m) THEN CheckHeartbeat(m, t) ELSE CheckGrace(m, t)
    BY <1>3 DEF Supervise, Up
  <2> HIDE DEF r
  <2>2. Abstract!Supervise(c, allowed, ready) = Abstract!CheckUp(c)
    <3> HIDE DEF c
    <3> QED BY <1>2, <1>3 DEF Abstract!Supervise, Abstract!Up, Up
  <2>3. Abstract!CheckGrace(c) \subseteq Abstract!CheckUp(c)
    BY DEF Abstract!CheckUp
  <2>4. ControlOf(r) \in Abstract!CheckUp(c)
    BY <1>3, <2>1, <2>3, CheckHeartbeatSeen, CheckGraceSeen
  <2> QED BY <2>2, <2>4 DEF r
<1>4. CASE m.state = "Stopping"
  <2>1. r = CheckStop(m, t)
    BY <1>4 DEF Supervise, Up
  <2> HIDE DEF r
  <2>2. Abstract!Supervise(c, allowed, ready) = {c, [c EXCEPT !.killSent = TRUE]}
    <3> HIDE DEF c
    <3> QED BY <1>2, <1>4 DEF Abstract!Supervise, Abstract!Up
  <2>3. ControlOf(r) \in {c, [c EXCEPT !.killSent = TRUE]}
    BY <1>4, <2>1, CheckStopSeen
  <2> QED BY <2>2, <2>3 DEF r
<1>5. CASE due
  <2> DEFINE count == m.restartCount + 1
             q == [m EXCEPT !.restartCount = count]
  <2>1. r = Relaunch(q, t, ready, ok)
    BY <1>5 DEF Supervise, Up
  <2>2. m.child = "none" /\ ~m.pendingStart /\ ~m.restartAfterStop
    BY <1>5 DEF Sound, Coherent, Alive, Up
  <2>3. count \in Nat /\ count <= m.attempts
    <3>1. m.restartCount \in Nat /\ m.attempts \in Nat /\ m.state = "Backoff"
      BY <1>1, <1>5 DEF Service
    <3>2. m.restartCount + 1 <= m.attempts
      BY <3>1 DEF Sound, Coherent
    <3> QED BY <3>1, <3>2
  <2> HIDE DEF count
  <2>4. /\ q \in Service /\ q.child = m.child /\ q.killSent = m.killSent /\ q.pendingStart = m.pendingStart
        /\ q.restartAfterStop = m.restartAfterStop /\ q.state = m.state
        /\ q.restartCount = count /\ q.attempts = m.attempts
    BY <1>1, <2>3 DEF Service
  <2> HIDE DEF q, r
  <2>5. Idle(q) /\ ControlOf(q) = c
    BY <1>1, <2>2, <2>3, <2>4, SameSeen DEF Idle
  <2>6. ControlOf(r) \in Abstract!Relaunch(c, ready)
    BY <2>1, <2>5, RelaunchSeen
  <2> HIDE DEF c
  <2>7. Abstract!Supervise(c, allowed, ready) = {c} \cup Abstract!Relaunch(c, ready)
    BY <1>2, <1>5 DEF Abstract!Supervise, Abstract!Up
  <2> QED BY <2>6, <2>7 DEF r, c
<1>6. CASE ~due /\ m.state \notin Up /\ m.state # "Stopping"
  <2>1. r = m
    BY <1>6, Zenon DEF Supervise
  <2> HIDE DEF c
  <2>2. c \in Abstract!Supervise(c, allowed, ready)
    <3>1. c.state \notin Abstract!Up /\ c.state # "Stopping"
      BY <1>2, <1>6 DEF Abstract!Up, Up
    <3>2. CASE c.state = "Backoff" /\ allowed
      BY <3>1, <3>2 DEF Abstract!Supervise
    <3>3. CASE ~(c.state = "Backoff" /\ allowed)
      BY <3>1, <3>3, Zenon DEF Abstract!Supervise
    <3> QED BY <3>2, <3>3
  <2> QED BY <2>1, <2>2 DEF c
<1> QED BY <1>3, <1>4, <1>5, <1>6

\* A process launched in this tick is not silent yet.
LEMMA FreshIsNotSilent ==
  ASSUME NEW m, NEW t \in Nat, Sound(m), Fresh(m, t), m.child = "running"
  PROVE  CheckHeartbeat(m, t) = m \/ ~HeartbeatEnabled(m)
<1> DEFINE k == m.config.heartbeatInterval
           missedBeats == (t - m.lastBeat) \div k
<1>1. m.lastBeat = t /\ m.config \in Config
  BY ConfigsAssumption DEF Fresh, Sound, Coherent, Service
<1>2. k \in Nat /\ m.config.heartbeatTolerance \in Nat \ {0}
  BY <1>1 DEF Config
<1>3. CASE k > 0
  <2>1. \A i \in Nat : i > 0 => 0 \div i = 0
    OBVIOUS
  <2>2. t - m.lastBeat = 0
    BY <1>1
  <2>3. missedBeats = 0
    BY <1>2, <1>3, <2>1, <2>2
  <2>4. missedBeats < m.config.heartbeatTolerance
    BY <1>2, <2>3
  <2> QED BY <2>4 DEF CheckHeartbeat
<1>4. CASE ~(k > 0)
  BY <1>4 DEF HeartbeatEnabled
<1> QED BY <1>3, <1>4

\* A tick is seen as the reaping and then the supervision.
LEMMA TickSeen ==
  ASSUME NEW s, NEW t \in Nat, NEW allowed \in BOOLEAN, NEW ready \in BOOLEAN,
         NEW ok1 \in BOOLEAN, NEW ok2 \in BOOLEAN, Sound(s)
  PROVE  ControlOf(Tick(s, t, allowed, ready, ok1, ok2)) \in Abstract!Tick(ControlOf(s), allowed, ready)
<1> DEFINE m == Reap(s, t, allowed, ready, ok1)
           r == Supervise(m, t, allowed, ready, ok2)
           c == ControlOf(s)
           e == ControlOf(m)
           T(x) == IF c.child = "exited" /\ x.child = "running" THEN Abstract!CheckGrace(x)
                   ELSE Abstract!Supervise(x, allowed, ready)
<1>1. Sound(m) /\ m \in Service /\ s \in Service
  <2>1. Sound(m)
    BY HandleExitSound DEF Reap
  <2> HIDE DEF m
  <2> QED BY <2>1 DEF Sound, Coherent
<1>2. c.child = ChildSeen(s) /\ e.child = ChildSeen(m)
  BY <1>1, ControlIs
<1>3. c.child = "exited" <=> s.child \in {"clean", "unclean"}
  BY <1>1, <1>2 DEF ChildSeen, Service, Children
<1>4. e \in Abstract!Reap(c, allowed, ready)
  <2>1. CASE s.child \in {"clean", "unclean"}
    BY <1>3, <2>1, HandleExitSeen DEF Reap, Abstract!Reap
  <2>2. CASE s.child \notin {"clean", "unclean"}
    BY <1>3, <2>2 DEF Reap, Abstract!Reap
  <2> QED BY <2>1, <2>2
<1>5. ControlOf(r) \in T(e)
  <2>1. CASE s.child \in {"clean", "unclean"} /\ m.child = "running"
    <3>1. Fresh(m, t)
      BY <2>1, HandleExitFresh DEF Reap
    <3> HIDE DEF m
    <3>2. m.state \in Up /\ e.child = "running"
      BY <1>2, <2>1, <3>1 DEF Fresh, Up, ChildSeen
    <3>3. r = IF HeartbeatEnabled(m) THEN CheckHeartbeat(m, t) ELSE CheckGrace(m, t)
      BY <3>2 DEF Supervise, Up
    <3> HIDE DEF r
    <3>4. r = m \/ r = CheckGrace(m, t)
      BY <1>1, <2>1, <3>1, <3>3, FreshIsNotSilent
    <3>5. ControlOf(r) \in Abstract!CheckGrace(e)
      BY <1>1, <3>2, <3>4, CheckGraceSeen DEF Abstract!CheckGrace
    <3> HIDE DEF c, e
    <3> QED BY <1>3, <2>1, <3>2, <3>5
  <2>2. CASE ~(s.child \in {"clean", "unclean"} /\ m.child = "running")
    <3> HIDE DEF m
    <3>1. ~(c.child = "exited" /\ e.child = "running")
      BY <1>1, <1>2, <1>3, <2>2 DEF ChildSeen
    <3>2. ControlOf(r) \in Abstract!Supervise(e, allowed, ready)
      BY <1>1, SuperviseSeen
    <3> HIDE DEF c, e, r
    <3> QED BY <3>1, <3>2
  <2> QED BY <2>1, <2>2
<1>6. Abstract!Tick(c, allowed, ready) = UNION {T(x) : x \in Abstract!Reap(c, allowed, ready)}
  BY DEF Abstract!Tick
<1>7. Tick(s, t, allowed, ready, ok1, ok2) = r
  BY DEF Tick
<1> HIDE DEF c, e, r, T
<1>8. ControlOf(r) \in UNION {T(x) : x \in Abstract!Reap(c, allowed, ready)}
  BY <1>4, <1>5, Zenon
<1> QED BY <1>6, <1>7, <1>8 DEF c

----------------------------------------------------------------------------
(* The refinement *)

\* Recording the last order is not seen.
LEMMA OrderIsNotSeen ==
  ASSUME NEW s \in Service, NEW b \in BOOLEAN
  PROVE  ControlOf([s EXCEPT !.wanted = b]) = ControlOf(s)
<1> DEFINE r == [s EXCEPT !.wanted = b]
<1>1. /\ r.child = s.child /\ r.killSent = s.killSent /\ r.state = s.state
      /\ r.pendingStart = s.pendingStart /\ r.restartAfterStop = s.restartAfterStop
  BY DEF Service
<1> HIDE DEF r
<1>2. ControlOf(r) = ControlOf(s)
  BY <1>1 DEF ControlOf
<1> QED BY <1>2 DEF r

\* Every step of the timed service is a step of the abstract one, or is not seen.
LEMMA StepIsAbstract ==
  ASSUME IInv, [Next]_vars
  PROVE  [Abstract!AbstractNext]_(Abstract!abstractVars)
<1> DEFINE c == ControlOf(svc)
           d == ControlOf(svc')
<1>1. Sound(svc) /\ Coherent(svc) /\ svc \in Service /\ now \in Nat /\ launchAllowed \in BOOLEAN
  BY DEF IInv, Sound, Coherent
<1> SUFFICES \/ /\ \/ launchAllowed /\ \E ready \in BOOLEAN :
                        d \in Abstract!Start(c, ready) \cup Abstract!Restart(c, ready)
                   \/ d \in Abstract!Stop(c) \cup Abstract!Heartbeat(c) \cup Abstract!ProcessExits(c)
                   \/ ~launchAllowed /\ d \in Abstract!Kill(c)
                   \/ launchAllowed /\ d \in Abstract!Abandon(c)
                   \/ \E ready \in BOOLEAN : d \in Abstract!Tick(c, launchAllowed, ready)
                /\ UNCHANGED launchAllowed
             \/ launchAllowed /\ launchAllowed' = FALSE /\ d = c
             \/ d = c /\ UNCHANGED launchAllowed
  BY Zenon DEF Abstract!AbstractNext, Abstract!AbstractCall, Abstract!AbstractShutdown, Abstract!abstractVars
<1>2. CASE StartCommand
  <2>1. PICK ready \in BOOLEAN, ok \in BOOLEAN :
          /\ svc' = [Start(svc, now, ready, ok) EXCEPT !.wanted = TRUE]
          /\ launchAllowed /\ UNCHANGED launchAllowed
    BY <1>2 DEF StartCommand, Call
  <2>2. d = ControlOf(Start(svc, now, ready, ok))
    BY <1>1, <2>1, StartCoherent, OrderIsNotSeen DEF Coherent
  <2>3. d \in Abstract!Start(c, ready)
    BY <1>1, <2>2, StartSeen
  <2> QED BY <2>1, <2>3
<1>3. CASE RestartCommand
  <2>1. PICK ready \in BOOLEAN, ok \in BOOLEAN :
          /\ svc' = [Restart(svc, now, ready, ok) EXCEPT !.wanted = TRUE]
          /\ launchAllowed /\ UNCHANGED launchAllowed
    BY <1>3 DEF RestartCommand, Call
  <2>2. d = ControlOf(Restart(svc, now, ready, ok))
    BY <1>1, <2>1, RestartCoherent, OrderIsNotSeen DEF Coherent
  <2>3. d \in Abstract!Restart(c, ready)
    BY <1>1, <2>2, RestartSeen
  <2> QED BY <2>1, <2>3
<1>4. CASE StopCommand
  <2>1. svc' = [Stop(svc, now) EXCEPT !.wanted = FALSE] /\ UNCHANGED launchAllowed
    BY <1>4 DEF StopCommand, Call
  <2>2. d = ControlOf(Stop(svc, now))
    BY <1>1, <2>1, StopCoherent, OrderIsNotSeen DEF Coherent
  <2>3. d \in Abstract!Stop(c)
    BY <1>1, <2>2, StopSeen
  <2> QED BY <2>1, <2>3
<1>5. CASE KillCommand
  <2>1. svc' = [Kill(svc, now) EXCEPT !.wanted = FALSE] /\ ~launchAllowed /\ UNCHANGED launchAllowed
    BY <1>5 DEF KillCommand, Call
  <2>2. d = ControlOf(Kill(svc, now))
    BY <1>1, <2>1, KillCoherent, OrderIsNotSeen DEF Coherent
  <2>3. d \in Abstract!Kill(c)
    BY <1>1, <2>2, KillSeenAs
  <2> QED BY <2>1, <2>3
<1>6. CASE HeartbeatCommand
  <2>1. svc' = Heartbeat(svc, now) /\ UNCHANGED launchAllowed
    BY <1>6 DEF HeartbeatCommand, Call
  <2>2. d \in Abstract!Heartbeat(c)
    BY <1>1, <2>1, HeartbeatSeen
  <2> QED BY <2>1, <2>2
<1>7. CASE ResumeWaiting
  <2>1. PICK ok \in BOOLEAN : svc' = Start(svc, now, TRUE, ok) /\ launchAllowed /\ UNCHANGED launchAllowed
    BY <1>7 DEF ResumeWaiting, Call
  <2>2. d \in Abstract!Start(c, TRUE)
    BY <1>1, <2>1, StartSeen
  <2> QED BY <2>1, <2>2
<1>8. CASE AbandonWaiting
  <2>1. svc' = Abandon(svc) /\ launchAllowed /\ UNCHANGED launchAllowed
    BY <1>8 DEF AbandonWaiting, Call
  <2>2. d \in Abstract!Abandon(c)
    BY <1>1, <2>1, HeartbeatSeen
  <2> QED BY <2>1, <2>2
<1>9. CASE Reload
  <2>1. Reloaded(svc, svc') /\ UNCHANGED launchAllowed
    BY <1>1, <1>9, ReplaceReloads DEF Reload, Call
  <2>2. /\ svc'.child = svc.child /\ svc'.killSent = svc.killSent /\ svc'.state = svc.state
        /\ svc'.pendingStart = svc.pendingStart /\ svc'.restartAfterStop = svc.restartAfterStop
    BY <2>1 DEF Reloaded
  <2>3. d = c
    BY <2>2 DEF ControlOf
  <2> QED BY <2>1, <2>3
<1>10. CASE TickService
  <2>1. PICK ready \in BOOLEAN, ok1 \in BOOLEAN, ok2 \in BOOLEAN :
          svc' = Tick(svc, now, launchAllowed, ready, ok1, ok2) /\ UNCHANGED launchAllowed
    BY <1>10 DEF TickService, Call
  <2>2. d \in Abstract!Tick(c, launchAllowed, ready)
    BY <1>1, <2>1, TickSeen
  <2> QED BY <2>1, <2>2
<1>11. CASE ProcessExits
  <2>1. PICK how \in {"clean", "unclean"} :
          svc' = [svc EXCEPT !.child = how] /\ svc.child = "running" /\ UNCHANGED launchAllowed
    BY <1>11 DEF ProcessExits
  <2>2. /\ svc' \in Service /\ svc'.child = how /\ svc'.killSent = svc.killSent /\ svc'.state = svc.state
        /\ svc'.pendingStart = svc.pendingStart /\ svc'.restartAfterStop = svc.restartAfterStop
    BY <1>1, <2>1 DEF Service, Children
  <2> DEFINE e == [c EXCEPT !.child = "exited"]
  <2>3. /\ c \in Abstract!Control /\ c.state = svc.state /\ c.child = "running" /\ c.killSent = svc.killSent
        /\ c.pendingStart = svc.pendingStart /\ c.restartAfterStop = svc.restartAfterStop
    BY <1>1, <2>1, ControlIs, KillIs DEF ChildSeen
  <2> HIDE DEF c
  <2>4. /\ e \in Abstract!Control /\ e.state = c.state /\ e.child = "exited" /\ e.killSent = c.killSent
        /\ e.pendingStart = c.pendingStart /\ e.restartAfterStop = c.restartAfterStop
    BY <2>3 DEF Abstract!Control
  <2>5. ChildSeen(svc') = "exited" /\ KillSeen(svc') = svc.killSent
    BY <2>2, KillIs DEF ChildSeen
  <2> HIDE DEF e
  <2>6. d = e
    BY <2>2, <2>3, <2>4, <2>5, SeenAs
  <2>7. d \in Abstract!ProcessExits(c)
    BY <2>3, <2>6 DEF Abstract!ProcessExits, e
  <2> QED BY <2>1, <2>7 DEF c
<1>12. CASE BeginShutdown
  BY <1>12 DEF BeginShutdown
<1>13. CASE PassTime \/ UNCHANGED vars
  BY <1>13 DEF PassTime, vars
<1> QED BY <1>2, <1>3, <1>4, <1>5, <1>6, <1>7, <1>8, <1>9, <1>10, <1>11, <1>12, <1>13 DEF Next

\* The timed service implements the abstract one: the manager, which is modelled over the abstract
\* service, has seen every behaviour of its services, whatever their configurations and timers.
THEOREM ServiceIsAbstract == Spec => ImplementsAbstractService
<1>1. Init => Abstract!AbstractInit
  <2> SUFFICES ASSUME Init PROVE ControlOf(svc) = Abstract!NewControl /\ launchAllowed = TRUE
    BY DEF Abstract!AbstractInit
  <2>1. PICK cfg \in Configs : svc = NewService(cfg) /\ launchAllowed = TRUE
    BY DEF Init
  <2>2. /\ svc.child = "none" /\ svc.state = "Stopped" /\ svc.pendingStart = FALSE
        /\ svc.restartAfterStop = FALSE /\ svc.killSent = FALSE
    BY <2>1 DEF NewService
  <2> QED BY <2>1, <2>2 DEF ControlOf, Abstract!NewControl
<1>2. IInv /\ [Next]_vars => [Abstract!AbstractNext]_(Abstract!abstractVars)
  BY StepIsAbstract
<1> QED BY <1>1, <1>2, AlwaysIInv, PTL DEF Spec, ImplementsAbstractService, Abstract!AbstractSpec

----------------------------------------------------------------------------
(* Signs of life and the history of restarts *)

\* h is what remains of S without its first k elements, and those are older than the window w.
Remains(h, S, k, w, t) ==
  /\ Len(S) = k + Len(h)
  /\ \A i \in 1..Len(h) : h[i] = S[k + i]
  /\ \A i \in 1..k : t - S[i] > w

\* Times in their order, the last one t or before.
InOrder(S, t) == \A i \in 1..Len(S) : S[i] <= t /\ \A j \in i..Len(S) : S[i] <= S[j]

\* The restarts that are remembered are the latest that were scheduled, and the forgotten ones are
\* older than the window.
Remembers(s, t) ==
  /\ InOrder(s.scheduled, t)
  /\ \E k \in Nat : Remains(s.restartHistory, s.scheduled, k, s.config.restartWindow, t)

WithinBudget(s, t) ==
  s.config.maxRestarts > 0
    => Cardinality(ScheduledWithin(s, s.config.restartWindow, t)) <= s.config.maxRestarts

\* The next restart is due when the number of those within the window says.
Doubled(s, t) ==
  s.state = "Backoff" =>
    LET k == Cardinality(ScheduledWithin(s, s.config.restartWindow, t)) - 1
    IN  k \in Nat /\ s.restartAt = t + BackoffDelay(s.config, k)

SameBackoff(s, r) == r.state = "Backoff" => s.state = "Backoff" /\ r.restartAt = s.restartAt

\* What a call makes of the signs of life, of the alarms and of the restarts: the last is what a
\* round of supervision does that asks for no heartbeats.
SignsKept(s, r, t) ==
  \/ r.lastBeat = s.lastBeat /\ r.lastSeen = s.lastSeen /\ r.switchedOn = s.switchedOn
  \/ r.lastBeat = t /\ r.lastSeen = t /\ ~r.switchedOn
  \/ r.lastBeat = s.lastBeat /\ r.lastSeen = t /\ r.switchedOn = s.switchedOn /\ ~HeartbeatEnabled(s)

NoAlarm(s, r) ==
  (r.state = "Unhealthy" => s.state = "Unhealthy") /\ (r.restartAfterStop => s.restartAfterStop)

Counted(s, r, t) ==
  /\ r.config = s.config
  /\ Remembers(s, t) =>
       /\ Remembers(r, t)
       /\ \/ r.scheduled = s.scheduled /\ SameBackoff(s, r)
          \/ r.scheduled = <<>>
          \/ WithinBudget(r, t) /\ Doubled(r, t)

Keeps(s, r, t) == SignsKept(s, r, t) /\ NoAlarm(s, r) /\ Counted(s, r, t)

\* One call after the other.
LEMMA CountedTransitive ==
  ASSUME NEW s, NEW m, NEW r, NEW t, Counted(s, m, t), Counted(m, r, t)
  PROVE  Counted(s, r, t)
<1>1. r.config = m.config /\ r.scheduled = m.scheduled /\ WithinBudget(m, t) => WithinBudget(r, t)
  BY DEF WithinBudget, ScheduledWithin
<1>2. r.config = m.config /\ r.scheduled = m.scheduled /\ SameBackoff(m, r) /\ Doubled(m, t) => Doubled(r, t)
  BY DEF Doubled, ScheduledWithin, SameBackoff
<1>3. SameBackoff(s, m) /\ SameBackoff(m, r) => SameBackoff(s, r)
  BY DEF SameBackoff
<1> QED BY <1>1, <1>2, <1>3 DEF Counted

\* Two parts of a call that keep to the rules do so together.
LEMMA KeepsTransitive ==
  ASSUME NEW s, NEW m, NEW r, NEW t, Keeps(s, m, t), Keeps(m, r, t)
  PROVE  Keeps(s, r, t)
<1>1. m.config = s.config
  BY DEF Keeps, Counted
<1>2. SignsKept(s, r, t) /\ NoAlarm(s, r)
  BY <1>1 DEF Keeps, SignsKept, NoAlarm, HeartbeatEnabled
<1> QED BY <1>2, CountedTransitive DEF Keeps

\* What leaves the history alone counts no restart.
LEMMA SameHistoryCounted ==
  ASSUME NEW s, NEW r, NEW t,
         r.config = s.config, r.scheduled = s.scheduled, r.restartHistory = s.restartHistory,
         SameBackoff(s, r)
  PROVE  Counted(s, r, t)
BY DEF Counted, Remembers

\* Every nonempty set of natural numbers has a least element.
LEMMA LeastNatural ==
  ASSUME NEW T \in SUBSET Nat, T # {}
  PROVE  \E x \in T : \A y \in T : x <= y
<1>1. IsWellFoundedOn(OpToRel(<,Nat), Nat)
  BY NatLessThanWellFounded
<1>2. PICK x \in T : \A y \in T : ~ (<<y, x>> \in OpToRel(<,Nat))
  BY <1>1, WFMin, Zenon
<1>3. \A y \in T : ~ (y < x)
  BY <1>2 DEF OpToRel
<1> QED BY <1>3

\* Pruning takes the restarts older than the window from the front of the history, and stops at the
\* first that is not.
LEMMA RecentIs ==
  ASSUME NEW h \in Seq(Nat), NEW w \in Nat, NEW t \in Nat
  PROVE  \E n \in Nat : /\ Remains(Recent(h, w, t), h, n, w, t)
                        /\ n # Len(h) => ~(t - h[n + 1] > w)
<1> DEFINE old == {i \in DOMAIN h : \A j \in 1..i : t - h[j] > w}
           len == Len(h)
<1>1. len \in Nat /\ DOMAIN h = 1..len /\ \A i \in 1..len : h[i] \in Nat
  OBVIOUS
<1> DEFINE Ends == {i \in Nat : i + 1 \notin old}
<1>2. \A i \in old : i \in 1..len /\ \A j \in 1..i : t - h[j] > w
  BY <1>1
<1>3. \A i \in 1..len : (\A j \in 1..i : t - h[j] > w) => i \in old
  BY <1>1
<1> HIDE DEF old, len
<1>4. PICK n \in Ends : \A y \in Ends : n <= y
  <2>1. len \in Ends
    <3>1. len + 1 \notin 1..len
      BY <1>1
    <3> QED BY <1>1, <1>2, <3>1
  <2>2. Ends \subseteq Nat
    OBVIOUS
  <2> HIDE DEF Ends
  <2> QED BY <2>1, <2>2, LeastNatural
<1>5. n \in Nat /\ n + 1 \notin old
  OBVIOUS
<1>6. \A i \in 1..n : i \in old
  <2>1. ASSUME NEW i \in 1..n, i \notin old PROVE FALSE
    <3>1. i - 1 \in Nat /\ (i - 1) + 1 = i
      BY <1>5
    <3>2. i - 1 \in Ends
      BY <2>1, <3>1
    <3>3. n <= i - 1
      BY <1>4, <3>2
    <3> QED BY <1>5, <3>3
  <2> QED BY <2>1
<1>7. n <= len
  <2>1. CASE n = 0
    BY <1>1, <2>1
  <2>2. CASE n # 0
    <3>1. n \in 1..n
      BY <1>5, <2>2
    <3>2. n \in 1..len
      BY <1>2, <1>6, <3>1
    <3> QED BY <1>1, <3>2
  <2> QED BY <2>1, <2>2
<1> HIDE DEF Ends
<1>8. \A i \in old : i \in 1..n
  <2>1. ASSUME NEW i \in old, i > n PROVE FALSE
    <3>1. i \in 1..len /\ \A j \in 1..i : t - h[j] > w
      BY <1>2
    <3>2. n + 1 \in 1..len /\ \A j \in 1..n + 1 : j \in 1..i
      BY <1>1, <1>5, <2>1, <3>1
    <3>3. \A j \in 1..n + 1 : t - h[j] > w
      BY <3>1, <3>2
    <3> QED BY <1>3, <1>5, <3>2, <3>3
  <2>2. \A i \in old : i \in 1..len
    BY <1>2
  <2> QED BY <1>1, <1>5, <2>1, <2>2
<1>9. Cardinality(old) = n
  <2>1. old = 1..n
    BY <1>6, <1>8
  <2> QED BY <1>5, <2>1, FS_Interval
<1>10. Recent(h, w, t) = SubSeq(h, n + 1, len)
  BY <1>9 DEF Recent, old, len
<1>11. /\ len = n + Len(SubSeq(h, n + 1, len))
       /\ \A i \in 1..Len(SubSeq(h, n + 1, len)) : SubSeq(h, n + 1, len)[i] = h[n + i]
  <2> DEFINE m == n + 1
             g == SubSeq(h, m, len)
  <2>1. m \in Int /\ len \in Int /\ \A i \in m .. len : h[i] \in Nat
    <3>1. \A i \in m .. len : i \in 1..len
      BY <1>1, <1>5
    <3> QED BY <1>1, <1>5, <3>1
  <2>a. m = n + 1
    OBVIOUS
  <2> HIDE DEF m
  <2>2. /\ Len(g) = IF m <= len THEN len - m + 1 ELSE 0
        /\ \A i \in 1 .. len - m + 1 : g[i] = h[m + i - 1]
    BY <2>1, SubSeqProperties
  <2> HIDE DEF g
  <2>3. len = n + Len(g)
    BY <1>1, <1>5, <1>7, <2>a, <2>2
  <2>4. \A i \in 1..Len(g) : i \in 1 .. len - m + 1 /\ m + i - 1 = n + i
    BY <1>1, <1>5, <1>7, <2>a, <2>2
  <2>5. \A i \in 1..Len(g) : g[i] = h[n + i]
    BY <2>2, <2>4
  <2> QED BY <2>3, <2>5 DEF g, m
<1>12. \A i \in 1..n : t - h[i] > w
  <2>1. ASSUME NEW i \in 1..n PROVE t - h[i] > w
    <3>1. i \in 1..i
      BY <1>5
    <3> QED BY <1>2, <1>6, <3>1
  <2> QED BY <2>1
<1>13. Len(h) = n + Len(SubSeq(h, n + 1, len))
  BY <1>11 DEF len
<1>14. ASSUME n # len PROVE ~(t - h[n + 1] > w)
  <2>1. n + 1 \in 1..len
    BY <1>1, <1>5, <1>7, <1>14
  <2>2. PICK j \in 1..n + 1 : ~(t - h[j] > w)
    BY <1>3, <1>5, <2>1
  <2>3. j \notin 1..n
    BY <1>12, <2>2
  <2>4. j = n + 1
    BY <1>5, <2>2, <2>3
  <2> QED BY <2>2, <2>4
<1>15. n # Len(h) => ~(t - h[n + 1] > w)
  BY <1>14 DEF len
<1>16. Remains(Recent(h, w, t), h, n, w, t)
  BY <1>5, <1>10, <1>11, <1>12, <1>13, Zenon DEF Remains
<1> QED BY <1>5, <1>15, <1>16

\* Pruning twice is pruning: what the history forgets next was not forgotten yet.
LEMMA RemainsOfRemains ==
  ASSUME NEW g \in Seq(Nat), NEW h \in Seq(Nat), NEW S \in Seq(Nat), NEW w \in Nat, NEW t \in Nat,
         NEW n \in Nat, NEW k \in Nat, Remains(g, h, n, w, t), Remains(h, S, k, w, t)
  PROVE  Remains(g, S, k + n, w, t)
<1> DEFINE a == Len(g)
           b == Len(h)
           c == Len(S)
<1>1. a \in Nat /\ b \in Nat /\ c \in Nat
  OBVIOUS
<1>2. b = n + a /\ (\A i \in 1..a : g[i] = h[n + i]) /\ (\A i \in 1..n : t - h[i] > w)
  BY DEF Remains
<1>3. c = k + b /\ (\A i \in 1..b : h[i] = S[k + i]) /\ (\A i \in 1..k : t - S[i] > w)
  BY DEF Remains
<1> HIDE DEF a, b, c
<1>4. c = (k + n) + a
  BY <1>1, <1>2, <1>3
<1>5. \A i \in 1..a : n + i \in 1..b /\ k + (n + i) = (k + n) + i
  BY <1>1, <1>2
<1>6. \A i \in 1..a : g[i] = S[(k + n) + i]
  BY <1>2, <1>3, <1>5
<1>7. \A i \in 1..k + n : t - S[i] > w
  <2>1. ASSUME NEW i \in 1..k + n PROVE t - S[i] > w
    <3>1. CASE i \in 1..k
      BY <1>3, <3>1
    <3>2. CASE i \notin 1..k
      <4>1. i - k \in 1..n /\ i - k \in 1..b /\ k + (i - k) = i
        BY <1>1, <1>2, <3>2
      <4>2. h[i - k] = S[i] /\ t - h[i - k] > w
        BY <1>2, <1>3, <4>1
      <4> QED BY <4>2
    <3> QED BY <3>1, <3>2
  <2> QED BY <2>1
<1> QED BY <1>4, <1>6, <1>7 DEF Remains, a, c

\* After pruning, what remains is in the window: it comes after what does.
LEMMA RecentIsWithin ==
  ASSUME NEW g \in Seq(Nat), NEW h \in Seq(Nat), NEW S \in Seq(Nat), NEW w \in Nat, NEW t \in Nat,
         NEW n \in Nat, NEW k \in Nat, Remains(g, h, n, w, t), Remains(h, S, k, w, t), InOrder(S, t),
         n # Len(h) => ~(t - h[n + 1] > w)
  PROVE  \A i \in 1..Len(g) : t - g[i] <= w
<1> DEFINE a == Len(g)
           b == Len(h)
           c == Len(S)
<1>1. a \in Nat /\ b \in Nat /\ c \in Nat /\ \A i \in 1..c : S[i] \in Nat
  OBVIOUS
<1>2. b = n + a /\ (\A i \in 1..a : g[i] = h[n + i])
  BY DEF Remains
<1>3. c = k + b /\ (\A i \in 1..b : h[i] = S[k + i])
  BY DEF Remains
<1>4. \A i \in 1..c : \A j \in i..c : S[i] <= S[j]
  BY DEF InOrder
<1>5. n # b => ~(t - h[n + 1] > w)
  OBVIOUS
<1> HIDE DEF a, b, c
<1>6. ASSUME NEW i \in 1..a PROVE t - g[i] <= w
  <2>1. n # b /\ n + 1 \in 1..b /\ n + i \in 1..b
    BY <1>1, <1>2, <1>6
  <2>2. k + (n + 1) \in 1..c /\ k + (n + i) \in (k + (n + 1))..c /\ k + (n + i) \in 1..c
    BY <1>1, <1>2, <1>3, <1>6
  <2>3. S[k + (n + 1)] <= S[k + (n + i)]
    BY <1>4, <2>2
  <2>4. h[n + 1] = S[k + (n + 1)] /\ g[i] = S[k + (n + i)]
    BY <1>2, <1>3, <1>6, <2>1
  <2>5. h[n + 1] \in Nat /\ g[i] \in Nat /\ h[n + 1] <= g[i]
    BY <1>1, <2>2, <2>3, <2>4
  <2>6. ~(t - h[n + 1] > w)
    BY <1>5, <2>1
  <2>7. \A x \in Nat : \A y \in Nat : ~(t - x > w) /\ x <= y => t - y <= w
    OBVIOUS
  <2> QED BY <2>5, <2>6, <2>7, Zenon
<1> QED BY <1>6 DEF a

\* A restart scheduled now comes last.
LEMMA InOrderOneMore ==
  ASSUME NEW S \in Seq(Nat), NEW t \in Nat, InOrder(S, t)
  PROVE  InOrder(Append(S, t), t)
<1> DEFINE c == Len(S)
           T == Append(S, t)
<1>1. /\ c \in Nat /\ Len(T) = c + 1 /\ T[c + 1] = t
      /\ \A i \in 1..c : T[i] = S[i] /\ S[i] \in Nat
  OBVIOUS
<1>2. \A i \in 1..c : S[i] <= t /\ \A j \in i..c : S[i] <= S[j]
  BY DEF InOrder
<1> HIDE DEF c, T
<1>3. ASSUME NEW i \in 1..c + 1 PROVE T[i] <= t /\ \A j \in i..c + 1 : T[i] <= T[j]
  <2>1. CASE i = c + 1
    <3>1. \A j \in i..c + 1 : j = c + 1
      BY <1>1, <2>1
    <3> QED BY <1>1, <2>1, <3>1
  <2>2. CASE i # c + 1
    <3>1. i \in 1..c
      BY <1>1, <2>2
    <3>2. \A j \in i..c + 1 : j = c + 1 \/ (j \in i..c /\ j \in 1..c)
      BY <1>1, <3>1
    <3>3. \A j \in i..c : S[i] <= S[j]
      BY <1>2, <3>1
    <3> QED BY <1>1, <1>2, <3>1, <3>2, <3>3
  <2> QED BY <2>1, <2>2
<1> QED BY <1>1, <1>3 DEF InOrder, T

\* The places of S that lie within the window.
Within(S, w, t) == {i \in DOMAIN S : t - S[i] <= w}

\* A restart scheduled now is remembered, and the restarts within the window are the remembered ones,
\* if those are, and this one.
LEMMA RemainsOneMore ==
  ASSUME NEW h \in Seq(Nat), NEW S \in Seq(Nat), NEW w \in Nat, NEW t \in Nat, NEW k \in Nat,
         Remains(h, S, k, w, t), \A i \in 1..Len(h) : t - h[i] <= w
  PROVE  /\ Remains(Append(h, t), Append(S, t), k, w, t)
         /\ Cardinality(Within(Append(S, t), w, t)) = Len(h) + 1
<1> DEFINE a == Len(h)
           c == Len(S)
           g == Append(h, t)
           T == Append(S, t)
<1>1. a \in Nat /\ c \in Nat /\ \A i \in 1..c : S[i] \in Nat
  OBVIOUS
<1>2. c = k + a /\ (\A i \in 1..a : h[i] = S[k + i]) /\ (\A i \in 1..k : t - S[i] > w)
  BY DEF Remains
<1>3. /\ Len(g) = a + 1 /\ Len(T) = c + 1 /\ DOMAIN T = 1..c + 1
      /\ \A i \in 1..a : g[i] = h[i]
      /\ \A i \in 1..c : T[i] = S[i]
      /\ g[a + 1] = t /\ T[c + 1] = t
  OBVIOUS
<1> HIDE DEF a, c, g, T
<1>4. Len(T) = k + Len(g)
  BY <1>1, <1>2, <1>3
<1>5. \A i \in 1..a + 1 : g[i] = T[k + i]
  <2>1. ASSUME NEW i \in 1..a + 1 PROVE g[i] = T[k + i]
    <3>1. CASE i = a + 1
      <4>1. k + i = c + 1
        BY <1>1, <1>2, <3>1
      <4> QED BY <1>3, <3>1, <4>1
    <3>2. CASE i # a + 1
      <4>1. i \in 1..a /\ k + i \in 1..c
        BY <1>1, <1>2, <3>2
      <4> QED BY <1>2, <1>3, <4>1
    <3> QED BY <3>1, <3>2
  <2> QED BY <2>1
<1>6. \A i \in 1..k : i \in 1..c
  BY <1>1, <1>2
<1>7. \A i \in 1..k : T[i] \in Nat /\ t - T[i] > w
  BY <1>1, <1>2, <1>3, <1>6
<1>8. Remains(g, T, k, w, t)
  BY <1>3, <1>4, <1>5, <1>7 DEF Remains
<1> DEFINE within == Within(T, w, t)
<1>13. within = {i \in DOMAIN T : t - T[i] <= w}
  BY DEF Within
<1> HIDE DEF within
<1>9. within \subseteq k + 1 .. c + 1
  <2>1. ASSUME NEW i \in within PROVE i \in k + 1 .. c + 1
    <3>1. i \in 1..c + 1 /\ t - T[i] <= w
      BY <1>3, <1>13
    <3>2. i \notin 1..k
      <4>1. ASSUME i \in 1..k PROVE FALSE
        <5>1. T[i] \in Nat /\ t - T[i] > w
          BY <1>7, <4>1
        <5> QED BY <3>1, <5>1
      <4> QED BY <4>1
    <3> QED BY <1>1, <3>1, <3>2
  <2> QED BY <2>1
<1>10. k + 1 .. c + 1 \subseteq within
  <2>1. \A i \in 1..a + 1 : g[i] = t \/ t - g[i] <= w
    <3>1. \A i \in 1..a + 1 : i = a + 1 \/ i \in 1..a
      BY <1>1
    <3>2. \A i \in 1..a : t - h[i] <= w
      BY DEF a
    <3> QED BY <1>3, <3>1, <3>2
  <2>2. ASSUME NEW i \in k + 1 .. c + 1 PROVE i \in within
    <3>1. i \in 1..c + 1 /\ i - k \in 1..a + 1 /\ k + (i - k) = i
      BY <1>1, <1>2
    <3>2. T[i] = g[i - k]
      BY <1>5, <3>1
    <3>3. t - T[i] <= w
      BY <2>1, <3>1, <3>2
    <3> QED BY <1>3, <1>13, <3>1, <3>3
  <2> QED BY <2>2
<1>11. Cardinality(k + 1 .. c + 1) = a + 1
  <2>1. k + 1 \in Int /\ c + 1 \in Int /\ k + 1 <= c + 1 /\ (c + 1) - (k + 1) + 1 = a + 1
    BY <1>1, <1>2
  <2> QED BY <2>1, FS_Interval
<1>12. within = k + 1 .. c + 1
  BY <1>9, <1>10
<1> QED BY <1>8, <1>11, <1>12 DEF within, a, g, T

\* A restart is scheduled only while fewer than max_restarts lie in the window.
LEMMA ScheduleRestartKeeps ==
  ASSUME NEW s \in Service, NEW t \in Nat
  PROVE  Keeps(s, ScheduleRestart(s, t), t)
<1> DEFINE h == s.restartHistory
           S == s.scheduled
           w == s.config.restartWindow
           max == s.config.maxRestarts
           history == Recent(h, w, t)
           at == t + BackoffDelay(s.config, Len(history))
           r == ScheduleRestart(s, t)
<1>1. s.config \in Config /\ h \in Seq(Nat) /\ S \in Seq(Nat) /\ w \in Nat /\ max \in Nat
  BY ConfigsAssumption DEF Service, Config
<1>2. /\ history \in Seq(Nat)
      /\ \E n \in Nat : Remains(history, h, n, w, t) /\ (n # Len(h) => ~(t - h[n + 1] > w))
  BY <1>1, RecentIs, RecentIsSeq
<1>3. \/ r = [s EXCEPT !.restartHistory = history, !.state = "Failed"]
      \/ /\ ~(max > 0 /\ Len(history) >= max)
         /\ r = [s EXCEPT !.restartHistory = Append(history, t), !.restartAt = at, !.state = "Backoff",
                          !.scheduled = Append(S, t)]
  BY DEF ScheduleRestart
<1> HIDE DEF r, history, at
<1>4. /\ r.config = s.config /\ r.lastBeat = s.lastBeat /\ r.lastSeen = s.lastSeen /\ r.switchedOn = s.switchedOn
      /\ r.state # "Unhealthy" /\ r.restartAfterStop = s.restartAfterStop
  BY <1>3 DEF Service
<1>5. \/ r.restartHistory = history /\ r.scheduled = S /\ r.state = "Failed"
      \/ /\ ~(max > 0 /\ Len(history) >= max)
         /\ r.restartHistory = Append(history, t) /\ r.scheduled = Append(S, t)
         /\ r.restartAt = at
  BY <1>3 DEF Service
<1>6. ASSUME Remembers(s, t)
      PROVE  /\ Remembers(r, t)
             /\ \/ r.scheduled = S /\ SameBackoff(s, r)
                \/ WithinBudget(r, t) /\ Doubled(r, t)
  <2>1. PICK k \in Nat : Remains(h, S, k, w, t)
    BY <1>6 DEF Remembers
  <2>2. PICK n \in Nat : Remains(history, h, n, w, t) /\ (n # Len(h) => ~(t - h[n + 1] > w))
    BY <1>2
  <2>7. InOrder(S, t)
    BY <1>6 DEF Remembers
  <2>8. r.config = s.config
    BY <1>4
  <2> HIDE DEF h, S, w, max
  <2>9. \A i \in 1..Len(history) : t - history[i] <= w
    BY <1>1, <1>2, <2>1, <2>2, <2>7, RecentIsWithin
  <2>3. Remains(history, S, k + n, w, t) /\ k + n \in Nat
    <3>1. history \in Seq(Nat) /\ h \in Seq(Nat) /\ S \in Seq(Nat) /\ w \in Nat
      BY <1>1, <1>2
    <3>2. Remains(history, S, k + n, w, t)
      BY <2>1, <2>2, <3>1, RemainsOfRemains, Zenon
    <3> QED BY <3>2
  <2>4. r.config.restartWindow = w /\ r.config.maxRestarts = max
    BY <1>4 DEF w, max
  <2>5. CASE r.restartHistory = history /\ r.scheduled = S /\ r.state = "Failed"
    BY <2>3, <2>4, <2>5, <2>7 DEF Remembers, SameBackoff
  <2>6. CASE /\ ~(max > 0 /\ Len(history) >= max)
             /\ r.restartHistory = Append(history, t) /\ r.scheduled = Append(S, t)
             /\ r.restartAt = at
    <3>0. history \in Seq(Nat) /\ S \in Seq(Nat) /\ w \in Nat
      BY <1>1, <1>2
    <3> HIDE DEF history
    <3>a. /\ Remains(Append(history, t), Append(S, t), k + n, w, t)
          /\ Cardinality(Within(Append(S, t), w, t)) = Len(history) + 1
      BY <2>3, <2>9, <3>0, RemainsOneMore
    <3> DEFINE card == Cardinality(Within(Append(S, t), w, t))
               len == Len(history)
    <3>1. Remains(Append(history, t), Append(S, t), k + n, w, t) /\ card = len + 1
      BY <3>a
    <3>2. Cardinality(ScheduledWithin(r, w, t)) = card
      BY <2>6 DEF ScheduledWithin, Within
    <3>3. len \in Nat
      BY <1>2
    <3>8. at = t + BackoffDelay(s.config, len)
      BY DEF at
    <3>9. InOrder(r.scheduled, t)
      BY <1>1, <2>6, <2>7, InOrderOneMore
    <3> HIDE DEF card, len
    <3>4. ~(max > 0 /\ len >= max)
      BY <2>6 DEF len
    <3>5. max > 0 => card <= max
      BY <1>1, <3>1, <3>3, <3>4
    <3>6. Remembers(r, t)
      BY <2>3, <2>4, <2>6, <3>1, <3>9 DEF Remembers
    <3>7. WithinBudget(r, t)
      BY <2>4, <3>2, <3>5 DEF WithinBudget
    <3>10. card - 1 = len
      BY <3>1, <3>3
    <3>11. Doubled(r, t)
      BY <2>4, <2>6, <2>8, <3>2, <3>3, <3>8, <3>10 DEF Doubled
    <3> QED BY <3>6, <3>7, <3>11
  <2> QED BY <1>5, <2>5, <2>6
<1>7. Counted(s, r, t)
  BY <1>4, <1>6 DEF Counted, S
<1>8. SignsKept(s, r, t) /\ NoAlarm(s, r)
  BY <1>4 DEF SignsKept, NoAlarm
<1> QED BY <1>7, <1>8 DEF Keeps, r

\* What changes neither the history nor the signs of life, and raises no alarm, keeps all.
LEMMA QuietKeeps ==
  ASSUME NEW s, NEW r, NEW t,
         r.config = s.config, r.scheduled = s.scheduled, r.restartHistory = s.restartHistory,
         SignsKept(s, r, t), NoAlarm(s, r), SameBackoff(s, r)
  PROVE  Keeps(s, r, t)
BY SameHistoryCounted DEF Keeps

\* The restart policy schedules within the budget and raises no alarm.
LEMMA ApplyRestartPolicyKeeps ==
  ASSUME NEW s \in Service, NEW t \in Nat, NEW cleanExit \in BOOLEAN
  PROVE  Keeps(s, ApplyRestartPolicy(s, t, cleanExit), t)
<1> DEFINE r == ApplyRestartPolicy(s, t, cleanExit)
<1>1. CASE r = ScheduleRestart(s, t)
  BY <1>1, ScheduleRestartKeeps
<1>2. CASE r = [s EXCEPT !.state = IF cleanExit THEN "Stopped" ELSE "Failed"]
  <2> HIDE DEF r
  <2>1. /\ r.config = s.config /\ r.scheduled = s.scheduled /\ r.restartHistory = s.restartHistory
        /\ r.lastBeat = s.lastBeat /\ r.lastSeen = s.lastSeen /\ r.switchedOn = s.switchedOn /\ r.restartAt = s.restartAt
        /\ r.state \notin {"Unhealthy", "Backoff"} /\ r.restartAfterStop = s.restartAfterStop
    BY <1>2 DEF Service
  <2>2. Keeps(s, r, t)
    BY <2>1, QuietKeeps DEF SignsKept, NoAlarm, SameBackoff
  <2> QED BY <2>2 DEF r
<1>3. r = ScheduleRestart(s, t) \/ r = [s EXCEPT !.state = IF cleanExit THEN "Stopped" ELSE "Failed"]
  BY DEF ApplyRestartPolicy
<1> QED BY <1>1, <1>2, <1>3

\* A launch is a sign of life; one that fails is left to the restart policy.
LEMMA RelaunchKeeps ==
  ASSUME NEW s \in Service, NEW t \in Nat, NEW ready \in BOOLEAN, NEW ok \in BOOLEAN
  PROVE  Keeps(s, Relaunch(s, t, ready, ok), t)
<1> DEFINE r == Relaunch(s, t, ready, ok)
           n == s.attempts + 1
           q == [s EXCEPT !.attempts = n]
<1>1. n \in Nat
  BY DEF Service
<1>2. \/ r = [s EXCEPT !.attempts = n, !.lastSeen = t, !.switchedOn = FALSE,
                       !.child = "running", !.state = "Starting", !.launchedAt = t,
                       !.lastBeat = t, !.killSent = FALSE, !.stuckReported = FALSE]
      \/ r = ApplyRestartPolicy(q, t, FALSE)
      \/ r = [s EXCEPT !.state = "Waiting"]
  BY DEF Relaunch, Launch
<1> HIDE DEF r, n
<1>3. CASE r = [s EXCEPT !.attempts = n, !.lastSeen = t, !.switchedOn = FALSE,
                         !.child = "running", !.state = "Starting", !.launchedAt = t,
                         !.lastBeat = t, !.killSent = FALSE, !.stuckReported = FALSE]
  <2>1. /\ r.config = s.config /\ r.scheduled = s.scheduled /\ r.restartHistory = s.restartHistory
        /\ r.lastBeat = t /\ r.lastSeen = t /\ ~r.switchedOn
        /\ r.state \notin {"Unhealthy", "Backoff"} /\ r.restartAfterStop = s.restartAfterStop
    BY <1>3 DEF Service
  <2>2. Keeps(s, r, t)
    BY <2>1, QuietKeeps DEF SignsKept, NoAlarm, SameBackoff
  <2> QED BY <2>2 DEF r
<1>4. CASE r = ApplyRestartPolicy(q, t, FALSE)
  <2>1. /\ q.config = s.config /\ q.scheduled = s.scheduled /\ q.restartHistory = s.restartHistory
        /\ q.lastBeat = s.lastBeat /\ q.lastSeen = s.lastSeen /\ q.switchedOn = s.switchedOn /\ q.restartAt = s.restartAt
        /\ q.state = s.state /\ q.restartAfterStop = s.restartAfterStop
        /\ q \in Service
    BY <1>1 DEF Service
  <2> HIDE DEF q
  <2>2. Keeps(s, q, t)
    BY <2>1, QuietKeeps DEF SignsKept, NoAlarm, SameBackoff
  <2>3. Keeps(q, r, t)
    BY <1>4, <2>1, ApplyRestartPolicyKeeps
  <2>4. Keeps(s, r, t)
    BY <2>2, <2>3, KeepsTransitive
  <2> QED BY <2>4 DEF r
<1>5. CASE r = [s EXCEPT !.state = "Waiting"]
  <2>1. /\ r.config = s.config /\ r.scheduled = s.scheduled /\ r.restartHistory = s.restartHistory
        /\ r.lastBeat = s.lastBeat /\ r.lastSeen = s.lastSeen /\ r.switchedOn = s.switchedOn /\ r.restartAt = s.restartAt
        /\ r.state \notin {"Unhealthy", "Backoff"} /\ r.restartAfterStop = s.restartAfterStop
    BY <1>5 DEF Service
  <2>2. Keeps(s, r, t)
    BY <2>1, QuietKeeps DEF SignsKept, NoAlarm, SameBackoff
  <2> QED BY <2>2 DEF r
<1> QED BY <1>2, <1>3, <1>4, <1>5

\* A stop begins without an alarm.
LEMMA BeginStopKeeps ==
  ASSUME NEW s \in Service, NEW t \in Nat
  PROVE  Keeps(s, BeginStop(s, t), t)
<1> DEFINE r == BeginStop(s, t)
           byKill == (s.config.stopSignal = "kill")
           deadline == t + s.config.stopTimeout
           killDeadline == t + KillGrace
<1>1. r = [s EXCEPT !.state = "Stopping", !.pendingStart = FALSE, !.restartAfterStop = FALSE,
                    !.stopDeadline = deadline, !.killSent = byKill,
                    !.killDeadline = killDeadline, !.stuckReported = FALSE]
  BY DEF BeginStop
<1> HIDE DEF r, byKill, deadline, killDeadline
<1>2. /\ r.config = s.config /\ r.scheduled = s.scheduled /\ r.restartHistory = s.restartHistory
      /\ r.lastBeat = s.lastBeat /\ r.lastSeen = s.lastSeen /\ r.switchedOn = s.switchedOn /\ r.restartAt = s.restartAt
      /\ r.state \notin {"Unhealthy", "Backoff"} /\ ~r.restartAfterStop
  BY <1>1 DEF Service
<1>3. Keeps(s, r, t)
  BY <1>2, QuietKeeps DEF SignsKept, NoAlarm, SameBackoff
<1> QED BY <1>3 DEF r

\* A start forgets the restarts of an earlier life, all of them at once.
LEMMA StartKeeps ==
  ASSUME NEW s \in Service, NEW t \in Nat, NEW ready \in BOOLEAN, NEW ok \in BOOLEAN
  PROVE  Keeps(s, Start(s, t, ready, ok), t)
<1> DEFINE r == Start(s, t, ready, ok)
           emptied == [s EXCEPT !.restartHistory = <<>>, !.scheduled = <<>>]
<1>1. \/ r = s
      \/ r = [s EXCEPT !.pendingStart = TRUE, !.pendingStartIsRestart = FALSE, !.restartAfterStop = FALSE]
      \/ r = Relaunch(s, t, ready, ok)
      \/ r = Relaunch(emptied, t, ready, ok)
  <2>1. CASE s.state \in Up
    BY <2>1 DEF Start, Up
  <2>2. CASE s.state = "Stopping"
    BY <2>2 DEF Start, Up
  <2>3. CASE s.state \notin Alive
    BY <2>3 DEF Start, Alive, Up
  <2> QED BY <2>1, <2>2, <2>3 DEF Alive
<1> HIDE DEF r
<1>2. CASE r = s
  BY <1>2, QuietKeeps DEF SignsKept, NoAlarm, SameBackoff, r
<1>3. CASE r = [s EXCEPT !.pendingStart = TRUE, !.pendingStartIsRestart = FALSE, !.restartAfterStop = FALSE]
  <2>1. /\ r.config = s.config /\ r.scheduled = s.scheduled /\ r.restartHistory = s.restartHistory
        /\ r.lastBeat = s.lastBeat /\ r.lastSeen = s.lastSeen /\ r.switchedOn = s.switchedOn /\ r.restartAt = s.restartAt
        /\ r.state = s.state /\ ~r.restartAfterStop
    BY <1>3 DEF Service
  <2>2. Keeps(s, r, t)
    BY <2>1, QuietKeeps DEF SignsKept, NoAlarm, SameBackoff
  <2> QED BY <2>2 DEF r
<1>4. CASE r = Relaunch(s, t, ready, ok)
  BY <1>4, RelaunchKeeps DEF r
<1>5. CASE r = Relaunch(emptied, t, ready, ok)
  <2>1. <<>> \in Seq(Nat) /\ Len(<<>>) = 0
    OBVIOUS
  <2>3. /\ emptied.config = s.config /\ emptied.scheduled = <<>> /\ emptied.restartHistory = <<>>
        /\ emptied.lastBeat = s.lastBeat /\ emptied.lastSeen = s.lastSeen /\ emptied.switchedOn = s.switchedOn /\ emptied.restartAt = s.restartAt
        /\ emptied.state = s.state /\ emptied.restartAfterStop = s.restartAfterStop
        /\ emptied \in Service
    BY <2>1 DEF Service
  <2> HIDE DEF emptied
  <2>4. Remembers(emptied, t)
    <3>1. Remains(<<>>, <<>>, 0, emptied.config.restartWindow, t)
      BY <2>1 DEF Remains
    <3>2. InOrder(<<>>, t)
      BY <2>1 DEF InOrder
    <3> QED BY <2>3, <3>1, <3>2 DEF Remembers
  <2>5. Keeps(s, emptied, t)
    BY <2>3, <2>4 DEF Keeps, SignsKept, NoAlarm, Counted
  <2>6. Keeps(emptied, r, t)
    BY <1>5, <2>3, RelaunchKeeps
  <2>7. Keeps(s, r, t)
    BY <2>5, <2>6, KeepsTransitive
  <2> QED BY <2>7 DEF r
<1> QED BY <1>1, <1>2, <1>3, <1>4, <1>5

\* A stop keeps the history: only a fresh start clears it.
LEMMA StopKeeps ==
  ASSUME NEW s \in Service, NEW t \in Nat
  PROVE  Keeps(s, Stop(s, t), t)
<1> DEFINE r == Stop(s, t)
<1>1. \/ r = BeginStop(s, t)
      \/ r = [s EXCEPT !.pendingStart = FALSE, !.restartAfterStop = FALSE]
      \/ r = [s EXCEPT !.state = "Stopped"]
  <2>1. CASE s.state \in Up
    BY <2>1 DEF Stop, Up
  <2>2. CASE s.state = "Stopping"
    BY <2>2 DEF Stop, Up
  <2>3. CASE s.state \notin Alive
    BY <2>3 DEF Stop, Alive, Up
  <2> QED BY <2>1, <2>2, <2>3 DEF Alive
<1> HIDE DEF r
<1>2. CASE r = BeginStop(s, t)
  BY <1>2, BeginStopKeeps DEF r
<1>3. CASE \/ r = [s EXCEPT !.pendingStart = FALSE, !.restartAfterStop = FALSE]
           \/ r = [s EXCEPT !.state = "Stopped"]
  <2>1. /\ r.config = s.config /\ r.scheduled = s.scheduled /\ r.restartHistory = s.restartHistory
        /\ r.lastBeat = s.lastBeat /\ r.lastSeen = s.lastSeen /\ r.switchedOn = s.switchedOn /\ r.restartAt = s.restartAt
        /\ r.state = s.state \/ r.state = "Stopped"
        /\ r.restartAfterStop => s.restartAfterStop
    BY <1>3 DEF Service
  <2>2. Keeps(s, r, t)
    BY <2>1, QuietKeeps DEF SignsKept, NoAlarm, SameBackoff
  <2> QED BY <2>2 DEF r
<1> QED BY <1>1, <1>2, <1>3

\* A restart by command counts for nothing in the history while it waits for the stop.
LEMMA RestartKeeps ==
  ASSUME NEW s \in Service, NEW t \in Nat, NEW ready \in BOOLEAN, NEW ok \in BOOLEAN
  PROVE  Keeps(s, Restart(s, t, ready, ok), t)
<1> DEFINE r == Restart(s, t, ready, ok)
           b == BeginStop(s, t)
<1>1. \/ r = [b EXCEPT !.pendingStart = TRUE, !.pendingStartIsRestart = TRUE]
      \/ r = [s EXCEPT !.pendingStart = TRUE, !.pendingStartIsRestart = TRUE, !.restartAfterStop = FALSE]
      \/ r = Start(s, t, ready, ok)
  <2>1. CASE s.state \in Up
    BY <2>1 DEF Restart, Up
  <2>2. CASE s.state = "Stopping"
    BY <2>2 DEF Restart, Up
  <2>3. CASE s.state \notin Alive
    BY <2>3 DEF Restart, Alive, Up
  <2> QED BY <2>1, <2>2, <2>3 DEF Alive
<1> HIDE DEF r
<1>2. CASE r = [b EXCEPT !.pendingStart = TRUE, !.pendingStartIsRestart = TRUE]
  <2> DEFINE byKill == (s.config.stopSignal = "kill")
             deadline == t + s.config.stopTimeout
             killDeadline == t + KillGrace
  <2>1. r = [s EXCEPT !.state = "Stopping", !.pendingStart = TRUE, !.restartAfterStop = FALSE,
                      !.stopDeadline = deadline, !.killSent = byKill,
                      !.killDeadline = killDeadline, !.stuckReported = FALSE,
                      !.pendingStartIsRestart = TRUE]
    <3> HIDE DEF byKill, deadline, killDeadline
    <3>1. b = [s EXCEPT !.state = "Stopping", !.pendingStart = FALSE, !.restartAfterStop = FALSE,
                        !.stopDeadline = deadline, !.killSent = byKill,
                        !.killDeadline = killDeadline, !.stuckReported = FALSE]
      BY DEF BeginStop, byKill, deadline, killDeadline
    <3> HIDE DEF b
    <3> QED BY <1>2, <3>1 DEF Service
  <2> HIDE DEF byKill, deadline, killDeadline
  <2>2. /\ r.config = s.config /\ r.scheduled = s.scheduled /\ r.restartHistory = s.restartHistory
        /\ r.lastBeat = s.lastBeat /\ r.lastSeen = s.lastSeen /\ r.switchedOn = s.switchedOn /\ r.restartAt = s.restartAt
        /\ r.state \notin {"Unhealthy", "Backoff"} /\ ~r.restartAfterStop
    BY <2>1 DEF Service
  <2>3. Keeps(s, r, t)
    BY <2>2, QuietKeeps DEF SignsKept, NoAlarm, SameBackoff
  <2> QED BY <2>3 DEF r
<1>3. CASE r = [s EXCEPT !.pendingStart = TRUE, !.pendingStartIsRestart = TRUE, !.restartAfterStop = FALSE]
  <2>1. /\ r.config = s.config /\ r.scheduled = s.scheduled /\ r.restartHistory = s.restartHistory
        /\ r.lastBeat = s.lastBeat /\ r.lastSeen = s.lastSeen /\ r.switchedOn = s.switchedOn /\ r.restartAt = s.restartAt
        /\ r.state = s.state /\ ~r.restartAfterStop
    BY <1>3 DEF Service
  <2>2. Keeps(s, r, t)
    BY <2>1, QuietKeeps DEF SignsKept, NoAlarm, SameBackoff
  <2> QED BY <2>2 DEF r
<1>4. CASE r = Start(s, t, ready, ok)
  BY <1>4, StartKeeps DEF r
<1> QED BY <1>1, <1>2, <1>3, <1>4

\* A kill raises no alarm.
LEMMA KillKeeps ==
  ASSUME NEW s \in Service, NEW t \in Nat
  PROVE  Keeps(s, Kill(s, t), t)
<1> DEFINE r == Kill(s, t)
           deadline == t + KillGrace
           quiet == [s EXCEPT !.pendingStart = FALSE, !.restartAfterStop = FALSE]
<1>1. \/ r = [quiet EXCEPT !.state = "Stopped"]
      \/ r = [quiet EXCEPT !.state = "Stopping", !.stopDeadline = t, !.killSent = TRUE,
                           !.killDeadline = deadline]
  BY DEF Kill
<1> HIDE DEF r, deadline
<1>2. /\ r.config = s.config /\ r.scheduled = s.scheduled /\ r.restartHistory = s.restartHistory
      /\ r.lastBeat = s.lastBeat /\ r.lastSeen = s.lastSeen /\ r.switchedOn = s.switchedOn /\ r.restartAt = s.restartAt
      /\ r.state \notin {"Unhealthy", "Backoff"} /\ ~r.restartAfterStop
  BY <1>1 DEF Service
<1>3. Keeps(s, r, t)
  BY <1>2, QuietKeeps DEF SignsKept, NoAlarm, SameBackoff
<1> QED BY <1>3 DEF r

\* A heartbeat is a sign of life; a service that waits in vain fails in silence.
LEMMA HeartbeatKeeps ==
  ASSUME NEW s \in Service, NEW t \in Nat
  PROVE  Keeps(s, Heartbeat(s, t), t) /\ Keeps(s, Abandon(s), t)
<1> DEFINE h == Heartbeat(s, t)
           a == Abandon(s)
<1>1. h = s \/ h = [s EXCEPT !.lastBeat = t, !.lastSeen = t, !.switchedOn = FALSE, !.state = "Running"]
  BY DEF Heartbeat
<1>2. a = s \/ a = [s EXCEPT !.state = "Failed"]
  BY DEF Abandon
<1> HIDE DEF h, a
<1>3. /\ h.config = s.config /\ h.scheduled = s.scheduled /\ h.restartHistory = s.restartHistory
      /\ (h.lastBeat = s.lastBeat /\ h.lastSeen = s.lastSeen /\ h.switchedOn = s.switchedOn) \/ (h.lastBeat = t /\ h.lastSeen = t /\ ~h.switchedOn)
      /\ h.state = s.state \/ h.state = "Running"
      /\ h.restartAfterStop = s.restartAfterStop /\ h.restartAt = s.restartAt
  BY <1>1 DEF Service
<1>4. /\ a.config = s.config /\ a.scheduled = s.scheduled /\ a.restartHistory = s.restartHistory
      /\ a.lastBeat = s.lastBeat /\ a.lastSeen = s.lastSeen /\ a.switchedOn = s.switchedOn /\ a.restartAt = s.restartAt
      /\ a.state = s.state \/ a.state = "Failed"
      /\ a.restartAfterStop = s.restartAfterStop
  BY <1>2 DEF Service
<1>5. Keeps(s, h, t)
  BY <1>3, QuietKeeps DEF SignsKept, NoAlarm, SameBackoff
<1>6. Keeps(s, a, t)
  BY <1>4, QuietKeeps DEF SignsKept, NoAlarm, SameBackoff
<1> QED BY <1>5, <1>6 DEF h, a

\* An exit schedules at most one restart, within the budget, and raises no alarm.
LEMMA HandleExitKeeps ==
  ASSUME NEW s \in Service, NEW t \in Nat, NEW allowed \in BOOLEAN, NEW ready \in BOOLEAN,
         NEW ok \in BOOLEAN
  PROVE  Keeps(s, HandleExit(s, t, allowed, ready, ok), t)
<1> DEFINE r == HandleExit(s, t, allowed, ready, ok)
           gone == [s EXCEPT !.child = "none"]
           stopped == [gone EXCEPT !.state = "Stopped", !.pendingStart = FALSE, !.restartAfterStop = FALSE]
           count == s.restartCount + (IF s.pendingStartIsRestart THEN 1 ELSE 0)
           counted == [stopped EXCEPT !.restartCount = count]
           how == s.child = "clean"
<1>1. count \in Nat /\ how \in BOOLEAN
  BY DEF Service
<1>2. \/ r = ApplyRestartPolicy(gone, t, how)
      \/ r = stopped
      \/ r = ScheduleRestart(stopped, t)
      \/ r = Relaunch(counted, t, ready, ok)
  <2>1. CASE s.state # "Stopping"
    BY <2>1 DEF HandleExit
  <2>2. CASE s.state = "Stopping"
    BY <2>2 DEF HandleExit
  <2> QED BY <2>1, <2>2
<1> HIDE DEF r, count, how
<1>3. /\ gone.config = s.config /\ gone.scheduled = s.scheduled /\ gone.restartHistory = s.restartHistory
      /\ gone.lastBeat = s.lastBeat /\ gone.lastSeen = s.lastSeen /\ gone.switchedOn = s.switchedOn /\ gone.restartAt = s.restartAt
      /\ gone.state = s.state /\ gone.restartAfterStop = s.restartAfterStop
      /\ gone \in Service
  BY DEF Service, Children
<1>4. /\ stopped.config = s.config /\ stopped.scheduled = s.scheduled /\ stopped.restartHistory = s.restartHistory
      /\ stopped.lastBeat = s.lastBeat /\ stopped.lastSeen = s.lastSeen /\ stopped.switchedOn = s.switchedOn /\ stopped.restartAt = s.restartAt
      /\ stopped.state = "Stopped" /\ stopped.restartAfterStop = FALSE
      /\ stopped \in Service
  BY DEF Service, Children, States
<1>5. /\ counted.config = s.config /\ counted.scheduled = s.scheduled /\ counted.restartHistory = s.restartHistory
      /\ counted.lastBeat = s.lastBeat /\ counted.lastSeen = s.lastSeen /\ counted.switchedOn = s.switchedOn /\ counted.restartAt = s.restartAt
      /\ counted.state = "Stopped" /\ counted.restartAfterStop = FALSE
      /\ counted \in Service
  <2> HIDE DEF stopped
  <2> QED BY <1>1, <1>4 DEF Service
<1> HIDE DEF gone, stopped, counted
<1>6. Keeps(s, gone, t)
  BY <1>3, QuietKeeps DEF SignsKept, NoAlarm, SameBackoff
<1>7. Keeps(s, stopped, t)
  BY <1>4, QuietKeeps DEF SignsKept, NoAlarm, SameBackoff
<1>8. Keeps(s, counted, t)
  BY <1>5, QuietKeeps DEF SignsKept, NoAlarm, SameBackoff
<1>9. CASE r = ApplyRestartPolicy(gone, t, how)
  <2>1. Keeps(gone, r, t)
    BY <1>1, <1>3, <1>9, ApplyRestartPolicyKeeps
  <2> QED BY <1>6, <2>1, KeepsTransitive DEF r
<1>10. CASE r = stopped
  BY <1>7, <1>10 DEF r
<1>11. CASE r = ScheduleRestart(stopped, t)
  <2>1. Keeps(stopped, r, t)
    BY <1>4, <1>11, ScheduleRestartKeeps
  <2> QED BY <1>7, <2>1, KeepsTransitive DEF r
<1>12. CASE r = Relaunch(counted, t, ready, ok)
  <2>1. Keeps(counted, r, t)
    BY <1>5, <1>12, RelaunchKeeps
  <2> QED BY <1>8, <2>1, KeepsTransitive DEF r
<1> QED BY <1>2, <1>9, <1>10, <1>11, <1>12

\* The heartbeats have been missing for the tolerated number of whole intervals.
Silent(s, t) ==
  /\ HeartbeatEnabled(s)
  /\ (t - s.lastBeat) \div s.config.heartbeatInterval >= s.config.heartbeatTolerance

\* What a tick makes of a service: an alarm is raised about a silent one only.
Watches(s, r, t) ==
  SignsKept(s, r, t) /\ Counted(s, r, t) /\ (NoAlarm(s, r) \/ Silent(s, t))

\* What keeps to the rules raises no alarm.
LEMMA KeptIsWatched ==
  ASSUME NEW s, NEW r, NEW t, Keeps(s, r, t)
  PROVE  Watches(s, r, t)
BY DEF Keeps, Watches

\* The check of the heartbeats raises an alarm about a silent service only.
LEMMA CheckHeartbeatWatches ==
  ASSUME NEW s \in Service, NEW t \in Nat, s.state \in Up, HeartbeatEnabled(s)
  PROVE  Watches(s, CheckHeartbeat(s, t), t)
<1> DEFINE r == CheckHeartbeat(s, t)
           missedBeats == (t - s.lastBeat) \div s.config.heartbeatInterval
           tolerance == s.config.heartbeatTolerance
           patient == missedBeats < tolerance \/ s.state = "Unhealthy"
           unhealthy == [s EXCEPT !.state = "Unhealthy"]
           b == BeginStop(unhealthy, t)
<1>1. missedBeats \in Int /\ tolerance \in Nat
  <2> DEFINE k == s.config.heartbeatInterval
             d == t - s.lastBeat
  <2>1. s.config \in Config
    BY ConfigsAssumption DEF Service
  <2>2. d \in Int /\ k \in Nat /\ k > 0 /\ tolerance \in Nat
    BY <2>1, SMTT(30) DEF Service, Config, HeartbeatEnabled
  <2> HIDE DEF d, k
  <2>3. d \div k \in Int
    BY <2>2
  <2> QED BY <2>2, <2>3 DEF d, k
<1>2. CASE patient
  <2>1. r = s
    BY <1>2 DEF CheckHeartbeat
  <2>2. Keeps(s, s, t)
    BY QuietKeeps DEF SignsKept, NoAlarm, SameBackoff
  <2> QED BY <2>1, <2>2, KeptIsWatched
<1>3. CASE ~patient
  <2>1. r = unhealthy \/ r = [b EXCEPT !.restartAfterStop = TRUE]
    BY <1>3 DEF CheckHeartbeat
  <2>2. missedBeats >= tolerance
    <3> HIDE DEF missedBeats, tolerance
    <3> QED BY <1>1, <1>3
  <2>3. Silent(s, t)
    BY <2>2 DEF Silent
  <2> DEFINE byKill == (unhealthy.config.stopSignal = "kill")
             deadline == t + unhealthy.config.stopTimeout
             killDeadline == t + KillGrace
  <2>4. b = [unhealthy EXCEPT !.state = "Stopping", !.pendingStart = FALSE, !.restartAfterStop = FALSE,
                              !.stopDeadline = deadline, !.killSent = byKill,
                              !.killDeadline = killDeadline, !.stuckReported = FALSE]
    BY DEF BeginStop
  <2> HIDE DEF byKill, deadline, killDeadline, r, b, missedBeats
  <2>5. /\ r.config = s.config /\ r.scheduled = s.scheduled /\ r.restartHistory = s.restartHistory
        /\ r.lastBeat = s.lastBeat /\ r.lastSeen = s.lastSeen /\ r.switchedOn = s.switchedOn /\ r.restartAt = s.restartAt
        /\ r.state # "Backoff"
    BY <2>1, <2>4 DEF Service
  <2>6. Watches(s, r, t)
    BY <2>3, <2>5, SameHistoryCounted DEF Watches, SignsKept, SameBackoff
  <2> QED BY <2>6 DEF r
<1> QED BY <1>2, <1>3

\* The start grace and the deadlines of a stop raise no alarm.
LEMMA ChecksKeep ==
  ASSUME NEW s \in Service, NEW t \in Nat
  PROVE  (~HeartbeatEnabled(s) => Keeps(s, CheckGrace(s, t), t)) /\ Keeps(s, CheckStop(s, t), t)
<1> DEFINE g == CheckGrace(s, t)
           c == CheckStop(s, t)
           deadline == t + KillGrace
<1>1. g = [s EXCEPT !.lastSeen = t] \/ g = [s EXCEPT !.lastSeen = t, !.state = "Running"]
  BY DEF CheckGrace
<1>2. \/ c = s
      \/ c = [s EXCEPT !.killSent = TRUE, !.killDeadline = deadline]
      \/ c = [s EXCEPT !.stuckReported = TRUE]
  BY DEF CheckStop
<1> HIDE DEF g, c, deadline
<1>3. /\ g.config = s.config /\ g.scheduled = s.scheduled /\ g.restartHistory = s.restartHistory
      /\ g.lastBeat = s.lastBeat /\ g.lastSeen = t /\ g.switchedOn = s.switchedOn /\ g.restartAt = s.restartAt
      /\ g.state = s.state \/ g.state = "Running"
      /\ g.restartAfterStop = s.restartAfterStop
  BY <1>1 DEF Service
<1>4. /\ c.config = s.config /\ c.scheduled = s.scheduled /\ c.restartHistory = s.restartHistory
      /\ c.lastBeat = s.lastBeat /\ c.lastSeen = s.lastSeen /\ c.switchedOn = s.switchedOn /\ c.restartAt = s.restartAt
      /\ c.state = s.state /\ c.restartAfterStop = s.restartAfterStop
  BY <1>2 DEF Service
<1>5. ~HeartbeatEnabled(s) => Keeps(s, g, t)
  BY <1>3, QuietKeeps DEF SignsKept, NoAlarm, SameBackoff
<1>6. Keeps(s, c, t)
  BY <1>4, QuietKeeps DEF SignsKept, NoAlarm, SameBackoff
<1> QED BY <1>5, <1>6 DEF g, c

\* Supervision after the reaping.
LEMMA SuperviseWatches ==
  ASSUME NEW m \in Service, NEW t \in Nat, NEW allowed \in BOOLEAN, NEW ready \in BOOLEAN, NEW ok \in BOOLEAN
  PROVE  Watches(m, Supervise(m, t, allowed, ready, ok), t)
<1> DEFINE r == Supervise(m, t, allowed, ready, ok)
           due == m.state = "Backoff" /\ allowed /\ t >= m.restartAt
<1>1. CASE m.state \in Up
  <2>1. r = IF HeartbeatEnabled(m) THEN CheckHeartbeat(m, t) ELSE CheckGrace(m, t)
    BY <1>1 DEF Supervise, Up
  <2>2. CASE HeartbeatEnabled(m)
    BY <1>1, <2>1, <2>2, CheckHeartbeatWatches
  <2>3. CASE ~HeartbeatEnabled(m)
    BY <2>1, <2>3, ChecksKeep, KeptIsWatched
  <2> QED BY <2>2, <2>3
<1>2. CASE m.state = "Stopping"
  <2>1. r = CheckStop(m, t)
    BY <1>2 DEF Supervise, Up
  <2> QED BY <2>1, ChecksKeep, KeptIsWatched
<1>3. CASE due
  <2> DEFINE count == m.restartCount + 1
             q == [m EXCEPT !.restartCount = count]
  <2>1. r = Relaunch(q, t, ready, ok)
    BY <1>3 DEF Supervise, Up
  <2>2. count \in Nat
    BY DEF Service
  <2> HIDE DEF count, r
  <2>3. /\ q.config = m.config /\ q.scheduled = m.scheduled /\ q.restartHistory = m.restartHistory
        /\ q.lastBeat = m.lastBeat /\ q.lastSeen = m.lastSeen /\ q.switchedOn = m.switchedOn /\ q.restartAt = m.restartAt
        /\ q.state = m.state /\ q.restartAfterStop = m.restartAfterStop
        /\ q \in Service
    BY <2>2 DEF Service
  <2> HIDE DEF q
  <2>4. Keeps(m, q, t)
    BY <2>3, QuietKeeps DEF SignsKept, NoAlarm, SameBackoff
  <2>5. Keeps(q, r, t)
    BY <2>1, <2>3, RelaunchKeeps
  <2>6. Watches(m, r, t)
    BY <2>4, <2>5, KeepsTransitive, KeptIsWatched
  <2> QED BY <2>6 DEF r
<1>4. CASE ~due /\ m.state \notin Up /\ m.state # "Stopping"
  <2>1. r = m
    BY <1>4, Zenon DEF Supervise
  <2>2. Keeps(m, m, t)
    BY QuietKeeps DEF SignsKept, NoAlarm, SameBackoff
  <2> QED BY <2>1, <2>2, KeptIsWatched
<1> QED BY <1>1, <1>2, <1>3, <1>4

\* A tick: what the reaping launched is not silent, so only a service silent before is held so.
LEMMA TickWatches ==
  ASSUME NEW s, NEW t \in Nat, NEW allowed \in BOOLEAN, NEW ready \in BOOLEAN,
         NEW ok1 \in BOOLEAN, NEW ok2 \in BOOLEAN, Sound(s)
  PROVE  Watches(s, Tick(s, t, allowed, ready, ok1, ok2), t)
<1> DEFINE m == Reap(s, t, allowed, ready, ok1)
           r == Supervise(m, t, allowed, ready, ok2)
<1>1. s \in Service /\ m \in Service
  <2>1. Sound(m)
    BY HandleExitSound DEF Reap
  <2> HIDE DEF m
  <2> QED BY <2>1 DEF Sound, Coherent
<1>2. Keeps(s, m, t)
  <2>1. Keeps(s, s, t)
    BY QuietKeeps DEF SignsKept, NoAlarm, SameBackoff
  <2> QED BY <1>1, <2>1, HandleExitKeeps DEF Reap
<1> HIDE DEF m
<1>3. Watches(m, r, t)
  BY <1>1, SuperviseWatches
<1>4. Tick(s, t, allowed, ready, ok1, ok2) = r
  BY DEF Tick, m
<1> HIDE DEF r
<1>5. CASE NoAlarm(m, r)
  <2>1. Keeps(m, r, t)
    BY <1>3, <1>5 DEF Watches, Keeps
  <2> QED BY <1>2, <1>4, <2>1, KeepsTransitive, KeptIsWatched
<1>6. CASE Silent(m, t)
  <2>1. SignsKept(s, m, t) /\ Counted(s, m, t) /\ m.config = s.config
    BY <1>2 DEF Keeps, Counted
  <2>2. m.lastBeat # t
    <3> SUFFICES ASSUME m.lastBeat = t PROVE FALSE
      OBVIOUS
    <3> DEFINE k == m.config.heartbeatInterval
    <3>1. m.config \in Config
      BY <1>1, ConfigsAssumption DEF Service
    <3>2. k \in Nat /\ k > 0 /\ m.config.heartbeatTolerance \in Nat \ {0}
      BY <1>6, <3>1 DEF Config, Silent, HeartbeatEnabled
    <3>3. \A i \in Nat : i > 0 => 0 \div i = 0
      OBVIOUS
    <3>4. t - m.lastBeat = 0
      BY <1>1
    <3>5. 0 \div k >= m.config.heartbeatTolerance
      BY <1>6, <3>4 DEF Silent
    <3> QED BY <3>2, <3>3, <3>5
  <2>3. Silent(s, t)
    BY <1>6, <2>1, <2>2 DEF Silent, SignsKept, HeartbeatEnabled
  <2>4. SignsKept(s, r, t)
    BY <1>3, <2>1 DEF Watches, SignsKept, HeartbeatEnabled
  <2>5. Counted(s, r, t)
    BY <1>3, <2>1, CountedTransitive DEF Watches
  <2> QED BY <1>4, <2>3, <2>4, <2>5 DEF Watches
<1> QED BY <1>3, <1>5, <1>6 DEF Watches

----------------------------------------------------------------------------
(* Alarms and the restart budget *)

\* Whole intervals missed are time passed.
LEMMA MissedIsSilence ==
  ASSUME NEW d \in Int, NEW i \in Nat \ {0}, NEW k \in Nat, d \div i >= k
  PROVE  d >= i * k
<1> DEFINE q == d \div i
<1>1. q \in Int /\ i * q <= d
  OBVIOUS
<1>2. q >= k
  OBVIOUS
<1> HIDE DEF q
<1>3. i * k <= i * q
  BY <1>1, <1>2
<1> QED BY <1>1, <1>3

\* Recording the last order touches nothing that is watched.
LEMMA OrderIsWatched ==
  ASSUME NEW s \in Service, NEW r \in Service, NEW t, NEW b \in BOOLEAN, Keeps(s, r, t)
  PROVE  Watches(s, [r EXCEPT !.wanted = b], t)
<1> DEFINE q == [r EXCEPT !.wanted = b]
<1>1. /\ q.config = r.config /\ q.scheduled = r.scheduled /\ q.restartHistory = r.restartHistory
      /\ q.lastBeat = r.lastBeat /\ q.lastSeen = r.lastSeen /\ q.switchedOn = r.switchedOn /\ q.restartAt = r.restartAt
      /\ q.state = r.state /\ q.restartAfterStop = r.restartAfterStop
  BY DEF Service
<1> HIDE DEF q
<1>2. Keeps(r, q, t)
  BY <1>1, QuietKeeps DEF SignsKept, NoAlarm, SameBackoff
<1>3. Watches(s, q, t)
  BY <1>2, KeepsTransitive, KeptIsWatched
<1> QED BY <1>3 DEF q

\* Every step is a call that is watched, a reload, or leaves the object alone.
LEMMA StepWatches ==
  ASSUME IInv, [Next]_vars
  PROVE  \/ Watches(svc, svc', now) /\ now' = now
         \/ Reloaded(svc, svc') /\ now' = now
         \/ svc' = svc /\ (now' = now \/ now' = now + 1)
<1>1. Sound(svc) /\ Coherent(svc) /\ svc \in Service /\ now \in Nat /\ launchAllowed \in BOOLEAN
  BY DEF IInv, Sound, Coherent
<1>2. CASE StartCommand
  <2>1. PICK ready \in BOOLEAN, ok \in BOOLEAN :
          svc' = [Start(svc, now, ready, ok) EXCEPT !.wanted = TRUE] /\ now' = now
    BY <1>2 DEF StartCommand, Call
  <2>2. Start(svc, now, ready, ok) \in Service
    BY <1>1, StartCoherent DEF Coherent
  <2>3. Keeps(svc, Start(svc, now, ready, ok), now)
    BY <1>1, StartKeeps
  <2>4. Watches(svc, svc', now)
    BY <1>1, <2>1, <2>2, <2>3, OrderIsWatched
  <2> QED BY <2>1, <2>4
<1>3. CASE RestartCommand
  <2>1. PICK ready \in BOOLEAN, ok \in BOOLEAN :
          svc' = [Restart(svc, now, ready, ok) EXCEPT !.wanted = TRUE] /\ now' = now
    BY <1>3 DEF RestartCommand, Call
  <2>2. Restart(svc, now, ready, ok) \in Service
    BY <1>1, RestartCoherent DEF Coherent
  <2>3. Keeps(svc, Restart(svc, now, ready, ok), now)
    BY <1>1, RestartKeeps
  <2>4. Watches(svc, svc', now)
    BY <1>1, <2>1, <2>2, <2>3, OrderIsWatched
  <2> QED BY <2>1, <2>4
<1>4. CASE StopCommand
  <2>1. svc' = [Stop(svc, now) EXCEPT !.wanted = FALSE] /\ now' = now
    BY <1>4 DEF StopCommand, Call
  <2>2. Stop(svc, now) \in Service
    BY <1>1, StopCoherent DEF Coherent
  <2>3. Keeps(svc, Stop(svc, now), now)
    BY <1>1, StopKeeps
  <2>4. Watches(svc, svc', now)
    BY <1>1, <2>1, <2>2, <2>3, OrderIsWatched
  <2> QED BY <2>1, <2>4
<1>5. CASE KillCommand
  <2>1. svc' = [Kill(svc, now) EXCEPT !.wanted = FALSE] /\ now' = now
    BY <1>5 DEF KillCommand, Call
  <2>2. Kill(svc, now) \in Service
    BY <1>1, KillCoherent DEF Coherent
  <2>3. Keeps(svc, Kill(svc, now), now)
    BY <1>1, KillKeeps
  <2>4. Watches(svc, svc', now)
    BY <1>1, <2>1, <2>2, <2>3, OrderIsWatched
  <2> QED BY <2>1, <2>4
<1>6. CASE HeartbeatCommand
  <2>1. svc' = Heartbeat(svc, now) /\ now' = now
    BY <1>6 DEF HeartbeatCommand, Call
  <2> QED BY <1>1, <2>1, HeartbeatKeeps, KeptIsWatched
<1>7. CASE ResumeWaiting
  <2>1. PICK ok \in BOOLEAN : svc' = Start(svc, now, TRUE, ok) /\ now' = now
    BY <1>7 DEF ResumeWaiting, Call
  <2> QED BY <1>1, <2>1, StartKeeps, KeptIsWatched
<1>8. CASE AbandonWaiting
  <2>1. svc' = Abandon(svc) /\ now' = now
    BY <1>8 DEF AbandonWaiting, Call
  <2> QED BY <1>1, <2>1, HeartbeatKeeps, KeptIsWatched
<1>9. CASE Reload
  BY <1>1, <1>9, ReplaceReloads DEF Reload, Call
<1>10. CASE TickService
  <2>1. PICK ready \in BOOLEAN, ok1 \in BOOLEAN, ok2 \in BOOLEAN :
          svc' = Tick(svc, now, launchAllowed, ready, ok1, ok2) /\ now' = now
    BY <1>10 DEF TickService, Call
  <2> QED BY <1>1, <2>1, TickWatches
<1>11. CASE ProcessExits
  <2>1. PICK how \in {"clean", "unclean"} : svc' = [svc EXCEPT !.child = how] /\ now' = now
    BY <1>11 DEF ProcessExits
  <2>2. /\ svc'.config = svc.config /\ svc'.scheduled = svc.scheduled
        /\ svc'.restartHistory = svc.restartHistory
        /\ svc'.lastBeat = svc.lastBeat /\ svc'.lastSeen = svc.lastSeen /\ svc'.switchedOn = svc.switchedOn /\ svc'.restartAt = svc.restartAt
        /\ svc'.state = svc.state /\ svc'.restartAfterStop = svc.restartAfterStop
    BY <1>1, <2>1 DEF Service
  <2>3. SignsKept(svc, svc', now) /\ NoAlarm(svc, svc')
    BY <2>2 DEF SignsKept, NoAlarm
  <2>a. SameBackoff(svc, svc')
    BY <2>2 DEF SameBackoff
  <2>4. Watches(svc, svc', now)
    BY <2>2, <2>3, <2>a, QuietKeeps, KeptIsWatched
  <2> QED BY <2>1, <2>4
<1>12. CASE BeginShutdown
  BY <1>12 DEF BeginShutdown
<1>13. CASE PassTime \/ UNCHANGED vars
  BY <1>13 DEF PassTime, vars
<1> QED BY <1>2, <1>3, <1>4, <1>5, <1>6, <1>7, <1>8, <1>9, <1>10, <1>11, <1>12, <1>13 DEF Next

\* While heartbeats are asked of a service, it was last seen when it last beat, unless a reload
\* has switched them on since.
SeenByItsBeats == HeartbeatEnabled(svc) /\ ~svc.switchedOn => svc.lastBeat = svc.lastSeen

\* So it is in every behaviour: no beat is counted that was not one, none is lost, and only rounds
\* that ask for none see a service without one.
LEMMA AlwaysSeenByItsBeats == Spec => []SeenByItsBeats
<1>1. Init => SeenByItsBeats
  BY DEF Init, SeenByItsBeats, NewService
<1>2. IInv /\ SeenByItsBeats /\ [Next]_vars => SeenByItsBeats'
  <2> SUFFICES ASSUME IInv, SeenByItsBeats, [Next]_vars PROVE SeenByItsBeats'
    OBVIOUS
  <2>1. CASE Watches(svc, svc', now)
    <3>1. svc'.config = svc.config
      BY <2>1 DEF Watches, Counted
    <3> QED BY <2>1, <3>1 DEF Watches, SignsKept, SeenByItsBeats, HeartbeatEnabled
  <2>2. CASE Reloaded(svc, svc')
    BY <2>2 DEF SeenByItsBeats, Reloaded
  <2>3. CASE svc' = svc
    BY <2>3 DEF SeenByItsBeats, HeartbeatEnabled
  <2> QED BY <2>1, <2>2, <2>3, StepWatches
<1> QED BY <1>1, <1>2, AlwaysIInv, PTL DEF Spec

\* No service is held unhealthy, or stopped for its silence, before heartbeat_tolerance whole
\* intervals have passed since it was last seen, by its launch, a heartbeat, or a round that asked
\* for none: not by a tick that has just relaunched it, not by a beat that was counted late, and
\* not after any reloads but the one that has switched heartbeats on and awaits the first beat.
THEOREM AlarmsAreDue == Spec => NoFalseAlarm
<1> DEFINE Due == Alarm /\ ~svc.switchedOn
                    => now - svc.lastSeen >= svc.config.heartbeatInterval * svc.config.heartbeatTolerance
<1>1. IInv /\ SeenByItsBeats /\ [Next]_vars => [Due]_vars
  <2> SUFFICES ASSUME IInv, SeenByItsBeats, [Next]_vars, Alarm, ~svc.switchedOn
               PROVE  now - svc.lastSeen >= svc.config.heartbeatInterval * svc.config.heartbeatTolerance
    OBVIOUS
  <2>1. svc \in Service /\ now \in Nat
    BY DEF IInv, Sound, Coherent
  <2>2. CASE Watches(svc, svc', now)
    <3>1. CASE NoAlarm(svc, svc')
      BY <3>1 DEF NoAlarm, Alarm
    <3>2. CASE Silent(svc, now)
      <4> DEFINE i == svc.config.heartbeatInterval
                 k == svc.config.heartbeatTolerance
                 d == now - svc.lastBeat
      <4>1. svc.config \in Config
        BY <2>1, ConfigsAssumption DEF Service
      <4>2. d \in Int
        BY <2>1 DEF Service
      <4>3. i \in Nat /\ i > 0 /\ k \in Nat
        BY <3>2, <4>1 DEF Config, Silent, HeartbeatEnabled
      <4>4. d \div i >= k
        BY <3>2 DEF Silent
      <4>5. d = now - svc.lastSeen
        BY <3>2 DEF SeenByItsBeats, Silent
      <4> HIDE DEF d, i, k
      <4>6. d >= i * k
        BY <4>2, <4>3, <4>4, MissedIsSilence
      <4> QED BY <4>5, <4>6 DEF i, k
    <3> QED BY <2>2, <3>1, <3>2 DEF Watches
  <2>3. CASE Reloaded(svc, svc')
    BY <2>3 DEF Reloaded, Alarm
  <2>4. CASE svc' = svc
    BY <2>4 DEF Alarm
  <2> QED BY <2>2, <2>3, <2>4, StepWatches
<1> QED BY <1>1, AlwaysIInv, AlwaysSeenByItsBeats, PTL DEF Spec, NoFalseAlarm

\* No reload widens the restart window.
NeverWidened == [][svc'.config.restartWindow <= svc.config.restartWindow]_vars

\* What is forgotten is older than the window, now and later, whatever the reloads do that do
\* not widen it.
LEMMA AlwaysRemembers == Spec /\ NeverWidened => []Remembers(svc, now)
<1>1. Init => Remembers(svc, now)
  <2> SUFFICES ASSUME Init PROVE Remembers(svc, now)
    OBVIOUS
  <2>1. svc.restartHistory = <<>> /\ svc.scheduled = <<>>
    BY DEF Init, NewService
  <2>2. Remains(<<>>, <<>>, 0, svc.config.restartWindow, now) /\ InOrder(<<>>, now)
    BY DEF Remains, InOrder
  <2> QED BY <2>1, <2>2 DEF Remembers
<1>2. IInv /\ Remembers(svc, now) /\ [Next]_vars /\ [svc'.config.restartWindow <= svc.config.restartWindow]_vars
        => Remembers(svc, now)'
  <2> SUFFICES ASSUME IInv, Remembers(svc, now), [Next]_vars,
                      [svc'.config.restartWindow <= svc.config.restartWindow]_vars
               PROVE  Remembers(svc, now)'
    OBVIOUS
  <2>1. svc \in Service /\ now \in Nat
    BY DEF IInv, Sound, Coherent
  <2>2. CASE Watches(svc, svc', now) /\ now' = now
    BY <2>2 DEF Watches, Counted
  <2>3. CASE \/ Reloaded(svc, svc') /\ now' = now
             \/ svc' = svc /\ (now' = now \/ now' = now + 1)
    <3> DEFINE w == svc.config.restartWindow
               v == svc'.config.restartWindow
               S == svc.scheduled
               h == svc.restartHistory
    <3>1. /\ svc'.scheduled = S /\ svc'.restartHistory = h
          /\ svc'.config \in Configs /\ svc.config \in Configs
          /\ now' \in Nat /\ now' >= now
      BY <2>1, <2>3 DEF Service, Reloaded
    <3>2. v \in Nat /\ w \in Nat
      BY <3>1, ConfigsAssumption DEF Config
    <3>3. v <= w
      BY <3>2 DEF vars
    <3>4. PICK k \in Nat : Remains(h, S, k, w, now)
      BY DEF Remembers
    <3>7. InOrder(S, now')
      <4>1. InOrder(S, now) /\ S \in Seq(Nat)
        BY <2>1 DEF Remembers, Service
      <4> HIDE DEF S
      <4>2. \A i \in 1..Len(S) : S[i] \in Nat
        BY <4>1
      <4> QED BY <2>1, <3>1, <4>1, <4>2 DEF InOrder
    <3>5. \A i \in 1..k : i \in 1..Len(S) /\ S[i] \in Nat
      <4> DEFINE a == Len(h)
                 c == Len(S)
      <4>1. h \in Seq(Nat) /\ S \in Seq(Nat)
        BY <2>1 DEF Service
      <4>2. a \in Nat /\ c \in Nat /\ \A i \in 1..c : S[i] \in Nat
        BY <4>1
      <4>3. c = k + a
        BY <3>4 DEF Remains
      <4> HIDE DEF a, c
      <4>4. \A i \in 1..k : i \in 1..c
        BY <4>2, <4>3
      <4> QED BY <4>2, <4>4 DEF c
    <3> HIDE DEF w, v, S, h
    <3>6. Remains(h, S, k, v, now')
      <4>1. Len(S) = k + Len(h) /\ (\A i \in 1..Len(h) : h[i] = S[k + i]) /\ (\A i \in 1..k : now - S[i] > w)
        BY <3>4 DEF Remains
      <4>2. \A i \in 1..k : now' - S[i] > v
        BY <2>1, <3>1, <3>2, <3>3, <3>5, <4>1
      <4> QED BY <4>1, <4>2 DEF Remains
    <3> QED BY <3>1, <3>6, <3>7 DEF Remembers, v
  <2> QED BY <2>2, <2>3, StepWatches
<1> QED BY <1>1, <1>2, AlwaysIInv, PTL DEF Spec, NeverWidened

\* Within any restart window a service schedules at most max_restarts restarts since its last
\* fresh start, for every configuration and across reloads that do not widen the window (a wider
\* window would count restarts that the narrower one has already forgotten).
THEOREM RestartsWithinBudget == Spec /\ NeverWidened => RestartBudget
<1> DEFINE Budget == Len(svc'.scheduled) > Len(svc.scheduled) /\ svc'.config.maxRestarts > 0
                       => Cardinality(ScheduledWithin(svc', svc'.config.restartWindow, now))
                            <= svc'.config.maxRestarts
<1>1. IInv /\ Remembers(svc, now) /\ [Next]_vars => [Budget]_vars
  <2> SUFFICES ASSUME IInv, Remembers(svc, now), [Next]_vars PROVE Budget
    OBVIOUS
  <2>1. svc \in Service
    BY DEF IInv, Sound, Coherent
  <2>2. Len(svc.scheduled) \in Nat
    <3>1. svc.scheduled \in Seq(Nat)
      BY <2>1 DEF Service
    <3> QED BY <3>1
  <2>3. CASE Watches(svc, svc', now)
    <3>1. svc'.scheduled = svc.scheduled \/ svc'.scheduled = <<>> \/ WithinBudget(svc', now)
      BY <2>3 DEF Watches, Counted
    <3>2. CASE svc'.scheduled = svc.scheduled
      BY <2>2, <3>2
    <3>3. CASE svc'.scheduled = <<>>
      <4>1. Len(<<>>) = 0
        OBVIOUS
      <4>2. ~(Len(svc'.scheduled) > Len(svc.scheduled))
        BY <2>2, <3>3, <4>1
      <4> QED BY <4>2
    <3>4. CASE WithinBudget(svc', now)
      BY <3>4 DEF WithinBudget
    <3> QED BY <3>1, <3>2, <3>3, <3>4
  <2>4. CASE \/ Reloaded(svc, svc')
             \/ svc' = svc
    <3>1. svc'.scheduled = svc.scheduled
      BY <2>1, <2>4 DEF Reloaded
    <3> QED BY <2>2, <3>1
  <2> QED BY <2>3, <2>4, StepWatches
<1> QED BY <1>1, AlwaysIInv, AlwaysRemembers, PTL DEF Spec, RestartBudget

\* Doubling, or whatever is done again and again to a number, is a function of how often.
LEMMA IteratedExists ==
  ASSUME NEW a \in Nat, NEW next \in [Nat -> Nat], NEW n \in Nat
  PROVE  \E f \in [0..n -> Nat] : f = [i \in 0..n |-> IF i = 0 THEN a ELSE next[f[i - 1]]]
<1> DEFINE Iterates(f, k) == f \in [0..k -> Nat] /\ f = [i \in 0..k |-> IF i = 0 THEN a ELSE next[f[i - 1]]]
           Undefined == {k \in Nat : ~\E f : Iterates(f, k)}
<1>1. SUFFICES ASSUME Undefined # {} PROVE FALSE
  BY DEF Undefined
<1>2. PICK k \in Undefined : \A j \in Undefined : k <= j
  BY <1>1, LeastNatural
<1>3. k \in Nat /\ \A f : ~Iterates(f, k)
  BY <1>2
<1>4. CASE k = 0
  <2> DEFINE f == [i \in 0..0 |-> a]
  <2>1. Iterates(f, k)
    BY <1>4
  <2> QED BY <1>3, <2>1
<1>5. CASE k # 0
  <2>1. k - 1 \in Nat /\ ~(k <= k - 1)
    BY <1>3, <1>5
  <2>2. k - 1 \notin Undefined
    BY <1>2, <2>1
  <2>3. PICK f : Iterates(f, k - 1)
    BY <2>1, <2>2
  <2> DEFINE g == [i \in 0..k |-> IF i = 0 THEN a ELSE next[f[i - 1]]]
  <2>4. \A i \in 0..k : i = 0 \/ i - 1 \in 0..k - 1
    BY <1>3
  <2>5. \A i \in 0..k - 1 : f[i] \in Nat /\ f[i] = IF i = 0 THEN a ELSE next[f[i - 1]]
    BY <2>3
  <2>6. g \in [0..k -> Nat]
    BY <2>4, <2>5
  <2>7. \A i \in 0..k - 1 : i \in 0..k /\ g[i] = f[i]
    BY <1>3, <2>5
  <2>8. \A i \in 0..k : (IF i = 0 THEN a ELSE next[f[i - 1]]) = IF i = 0 THEN a ELSE next[g[i - 1]]
    <3> HIDE DEF g
    <3> QED BY <2>4, <2>7
  <2>9. Iterates(g, k)
    BY <2>6, <2>8
  <2> QED BY <1>3, <2>9
<1> QED BY <1>4, <1>5

\* The powers of two, as the recursive function of PowerOfTwo has them.
LEMMA PowersAre ==
  ASSUME NEW n \in Nat
  PROVE  \E f \in [0..n -> Nat] : /\ PowerOfTwo(n) = f[n]
                                  /\ f[0] = 1
                                  /\ \A i \in 1..n : f[i] = 2 * f[i - 1]
<1> DEFINE Step(f, i) == IF i = 0 THEN 1 ELSE 2 * f[i - 1]
           power == CHOOSE f : f = [i \in 0..n |-> Step(f, i)]
           next == [x \in Nat |-> 2 * x]
<1>1. \E f : f = [i \in 0..n |-> Step(f, i)]
  <2>1. next \in [Nat -> Nat] /\ \A x \in Nat : next[x] = 2 * x
    OBVIOUS
  <2> HIDE DEF next
  <2>2. PICK f \in [0..n -> Nat] : f = [i \in 0..n |-> IF i = 0 THEN 1 ELSE next[f[i - 1]]]
    <3>1. \A b \in Nat : \E f \in [0..n -> Nat] : f = [i \in 0..n |-> IF i = 0 THEN b ELSE next[f[i - 1]]]
      BY <2>1, IteratedExists, ZenonT(60)
    <3>2. 1 \in Nat
      OBVIOUS
    <3> QED BY <3>1, <3>2, Zenon
  <2>3. \A i \in 0..n : f[i] = IF i = 0 THEN 1 ELSE next[f[i - 1]]
    BY <2>2, Zenon
  <2>4. \A i \in 0..n : i # 0 => next[f[i - 1]] = 2 * f[i - 1]
    <3>1. \A i \in 0..n : i # 0 => i - 1 \in 0..n
      OBVIOUS
    <3>2. \A i \in 0..n : i # 0 => f[i - 1] \in Nat
      BY <3>1
    <3> QED BY <2>1, <3>2
  <2>5. \A i \in 0..n : f[i] = Step(f, i)
    BY <2>3, <2>4
  <2>6. f = [i \in 0..n |-> f[i]]
    OBVIOUS
  <2> HIDE DEF Step
  <2>7. f = [i \in 0..n |-> Step(f, i)]
    BY <2>5, <2>6
  <2> QED BY <2>7
<1>2. power = [i \in 0..n |-> Step(power, i)]
  BY <1>1, Zenon
<1>3. PowerOfTwo(n) = power[n]
  BY DEF PowerOfTwo
<1> HIDE DEF power
<1>4. \A i \in 0..n : power[i] = Step(power, i)
  BY <1>2, Zenon
<1>5. power[0] = 1 /\ \A i \in 1..n : power[i] = 2 * power[i - 1]
  BY <1>4
<1>6. \A i \in 0..n : power[i] \in Nat
  <2> DEFINE Bad == {i \in Nat : i <= n /\ power[i] \notin Nat}
  <2>1. SUFFICES ASSUME Bad # {} PROVE FALSE
    OBVIOUS
  <2>2. PICK i \in Bad : \A j \in Bad : i <= j
    BY <2>1, LeastNatural
  <2>3. i \in 1..n
    BY <1>5
  <2>4. i - 1 \in Nat /\ i - 1 <= n /\ ~(i <= i - 1)
    BY <2>3
  <2>5. power[i - 1] \in Nat
    BY <2>2, <2>4
  <2> QED BY <1>5, <2>3, <2>5
<1>7. power \in [0..n -> Nat]
  BY <1>2, <1>6
<1> QED BY <1>3, <1>5, <1>7

\* The delays before the n-th restart, as the loop of BackoffDelay has them.
LEMMA DelaysAre ==
  ASSUME NEW c \in Config, NEW n \in Nat
  PROVE  \E f \in [0..n -> Nat] :
           /\ BackoffDelay(c, n) = Least(f[n], c.restartDelayMax)
           /\ f[0] = c.restartDelay
           /\ \A i \in 1..n : f[i] = IF f[i - 1] < c.restartDelayMax THEN 2 * f[i - 1] ELSE f[i - 1]
<1> DEFINE a == c.restartDelay
           max == c.restartDelayMax
           Step(f, i) == IF i = 0 THEN a ELSE IF f[i - 1] < max THEN 2 * f[i - 1] ELSE f[i - 1]
           delay == CHOOSE f : f = [i \in 0..n |-> Step(f, i)]
           next == [x \in Nat |-> IF x < max THEN 2 * x ELSE x]
<1>0. a \in Nat /\ max \in Nat
  BY DEF Config
<1>3. BackoffDelay(c, n) = IF delay[n] \in 0..max THEN delay[n] ELSE max
  BY DEF BackoffDelay
<1> HIDE DEF a, max
<1>1. \E f : f = [i \in 0..n |-> Step(f, i)]
  <2>1. next \in [Nat -> Nat] /\ \A x \in Nat : next[x] = IF x < max THEN 2 * x ELSE x
    BY <1>0
  <2> HIDE DEF next
  <2>2. PICK f \in [0..n -> Nat] : f = [i \in 0..n |-> IF i = 0 THEN a ELSE next[f[i - 1]]]
    <3>1. \A b \in Nat : \E f \in [0..n -> Nat] : f = [i \in 0..n |-> IF i = 0 THEN b ELSE next[f[i - 1]]]
      BY <2>1, IteratedExists, ZenonT(60)
    <3> QED BY <1>0, <3>1, Zenon
  <2>3. \A i \in 0..n : f[i] = IF i = 0 THEN a ELSE next[f[i - 1]]
    BY <2>2, Zenon
  <2>4. \A i \in 0..n :
          i # 0 => next[f[i - 1]] = IF f[i - 1] < max THEN 2 * f[i - 1] ELSE f[i - 1]
    <3>1. \A i \in 0..n : i # 0 => i - 1 \in 0..n
      OBVIOUS
    <3>2. \A i \in 0..n : i # 0 => f[i - 1] \in Nat
      BY <3>1
    <3> QED BY <2>1, <3>2, Zenon
  <2>5. \A i \in 0..n : f[i] = Step(f, i)
    BY <2>3, <2>4
  <2>6. f = [i \in 0..n |-> f[i]]
    OBVIOUS
  <2> HIDE DEF Step
  <2>7. f = [i \in 0..n |-> Step(f, i)]
    BY <2>5, <2>6
  <2> QED BY <2>7
<1>2. delay = [i \in 0..n |-> Step(delay, i)]
  BY <1>1, Zenon
<1> HIDE DEF delay
<1>4. \A i \in 0..n : delay[i] = Step(delay, i)
  BY <1>2, Zenon
<1>5. /\ delay[0] = a
      /\ \A i \in 1..n : delay[i] = IF delay[i - 1] < max THEN 2 * delay[i - 1] ELSE delay[i - 1]
  BY <1>4
<1>6. \A i \in 0..n : delay[i] \in Nat
  <2> DEFINE Bad == {i \in Nat : i <= n /\ delay[i] \notin Nat}
  <2>1. SUFFICES ASSUME Bad # {} PROVE FALSE
    OBVIOUS
  <2>2. PICK i \in Bad : \A j \in Bad : i <= j
    BY <2>1, LeastNatural
  <2>3. i \in 1..n
    BY <1>0, <1>5
  <2>4. i - 1 \in Nat /\ i - 1 <= n /\ ~(i <= i - 1)
    BY <2>3
  <2>5. delay[i - 1] \in Nat
    BY <2>2, <2>4
  <2> QED BY <1>5, <2>3, <2>5
<1>7. delay \in [0..n -> Nat]
  BY <1>2, <1>6
<1>8. BackoffDelay(c, n) = Least(delay[n], max)
  BY <1>0, <1>3, <1>6 DEF Least
<1> QED BY <1>5, <1>7, <1>8 DEF a, max

\* The loop of BackoffDelay doubles up to the ceiling, however often.
LEMMA DelayIsDoubled ==
  ASSUME NEW c \in Config, NEW n \in Nat
  PROVE  BackoffDelay(c, n) = Least(c.restartDelay * PowerOfTwo(n), c.restartDelayMax)
<1> DEFINE a == c.restartDelay
           max == c.restartDelayMax
<1>1. PICK f \in [0..n -> Nat] :
        /\ BackoffDelay(c, n) = Least(f[n], max)
        /\ f[0] = a
        /\ \A i \in 1..n : f[i] = IF f[i - 1] < max THEN 2 * f[i - 1] ELSE f[i - 1]
  BY DelaysAre
<1>2. PICK p \in [0..n -> Nat] : PowerOfTwo(n) = p[n] /\ p[0] = 1 /\ \A i \in 1..n : p[i] = 2 * p[i - 1]
  BY PowersAre
<1>3. a \in Nat /\ max \in Nat
  BY DEF Config
<1> HIDE DEF a, max
<1> DEFINE Good(i) == f[i] = a * p[i] \/ (f[i] >= max /\ a * p[i] >= max)
           Bad == {i \in Nat : i <= n /\ ~Good(i)}
<1>4. Bad = {}
  <2>1. SUFFICES ASSUME Bad # {} PROVE FALSE
    OBVIOUS
  <2>2. PICK i \in Bad : \A j \in Bad : i <= j
    BY <2>1, LeastNatural
  <2>3. Good(0)
    <3>1. p[0] = 1 /\ f[0] = a /\ a \in Nat
      BY <1>1, <1>2, <1>3
    <3>2. a * 1 = a
      BY <3>1
    <3>3. f[0] = a * p[0]
      BY <3>1, <3>2, Zenon
    <3> QED BY <3>3, Zenon
  <2>4. i \in 1..n
    BY <2>3
  <2>5. i - 1 \in Nat /\ i - 1 <= n /\ ~(i <= i - 1)
    BY <2>4
  <2>6. Good(i - 1)
    BY <2>2, <2>5
  <2> DEFINE x == f[i - 1]
             q == p[i - 1]
  <2> HIDE DEF Good, Bad
  <2>a. i - 1 \in 0..n
    BY <2>4, <2>5
  <2>b. x \in Nat /\ q \in Nat
    BY <2>a
  <2>c. f[i] = IF x < max THEN 2 * x ELSE x
    BY <1>1, <2>4
  <2>d. p[i] = 2 * q
    BY <1>2, <2>4
  <2>7. f[i] = (IF x < max THEN 2 * x ELSE x) /\ p[i] = 2 * q /\ x \in Nat /\ q \in Nat
    BY <2>b, <2>c, <2>d
  <2>8. x = a * q \/ (x >= max /\ a * q >= max)
    BY <2>6 DEF Good
  <2> HIDE DEF x, q
  <2>9. a * q \in Nat /\ a * (2 * q) = 2 * (a * q)
    BY <1>3, <2>7
  <2>10. PICK y \in Nat : y = a * q
    BY <2>9
  <2>11. a * p[i] = 2 * y
    BY <2>7, <2>9, <2>10
  <2>12. f[i] = 2 * y \/ (f[i] >= max /\ 2 * y >= max)
    BY <1>3, <2>7, <2>8, <2>10
  <2>13. Good(i)
    BY <2>11, <2>12 DEF Good
  <2> QED BY <2>13 DEF Bad
<1>5. Good(n)
  <2> HIDE DEF Good
  <2> QED BY <1>4
<1>6. f[n] \in Nat /\ a * p[n] \in Nat
  BY <1>3
<1>7. Least(f[n], max) = Least(a * p[n], max)
  BY <1>3, <1>5, <1>6 DEF Least
<1> QED BY <1>1, <1>2, <1>7 DEF a, max

\* A service that schedules a restart waits for restart_delay_ms, doubled for each of the restarts
\* within the window, and no longer than restart_delay_max_ms: for every configuration, however the
\* earlier restarts came about, and across reloads that do not widen the window.
THEOREM DelaysDouble == Spec /\ NeverWidened => BackoffDoubles
<1> DEFINE Doubles == Len(svc'.scheduled) > Len(svc.scheduled) /\ svc'.state = "Backoff"
                        => LET c == svc'.config
                               k == Cardinality(ScheduledWithin(svc', c.restartWindow, now)) - 1
                           IN  svc'.restartAt = now + Least(c.restartDelay * PowerOfTwo(k), c.restartDelayMax)
<1>1. IInv /\ Remembers(svc, now) /\ [Next]_vars => [Doubles]_vars
  <2> SUFFICES ASSUME IInv, Remembers(svc, now), [Next]_vars,
                      Len(svc'.scheduled) > Len(svc.scheduled), svc'.state = "Backoff"
               PROVE  Doubles
    OBVIOUS
  <2>1. svc \in Service
    BY DEF IInv, Sound, Coherent
  <2>2. Len(svc.scheduled) \in Nat
    <3>1. svc.scheduled \in Seq(Nat)
      BY <2>1 DEF Service
    <3> QED BY <3>1
  <2>3. svc'.scheduled # svc.scheduled /\ svc'.scheduled # <<>>
    <3>1. Len(<<>>) = 0
      OBVIOUS
    <3> QED BY <2>2, <3>1
  <2>4. CASE Watches(svc, svc', now)
    <3>1. Doubled(svc', now) /\ svc'.config = svc.config
      BY <2>3, <2>4 DEF Watches, Counted
    <3> DEFINE c == svc'.config
               k == Cardinality(ScheduledWithin(svc', c.restartWindow, now)) - 1
    <3>2. c \in Config
      BY <2>1, <3>1, ConfigsAssumption DEF Service
    <3>3. k \in Nat /\ svc'.restartAt = now + BackoffDelay(c, k)
      BY <3>1 DEF Doubled
    <3> HIDE DEF c, k
    <3>4. svc'.restartAt = now + Least(c.restartDelay * PowerOfTwo(k), c.restartDelayMax)
      BY <3>2, <3>3, DelayIsDoubled
    <3> QED BY <3>4 DEF c, k
  <2>5. CASE \/ Reloaded(svc, svc')
             \/ svc' = svc
    <3>1. svc'.scheduled = svc.scheduled
      BY <2>5 DEF Reloaded
    <3> QED BY <2>3, <3>1
  <2> QED BY <2>4, <2>5, StepWatches
<1> QED BY <1>1, AlwaysIInv, AlwaysRemembers, PTL DEF Spec, BackoffDoubles

=============================================================================
