--------------------------- MODULE ReportFeedProofs ---------------------------
(***************************************************************************)
(* Proofs about the reports and who looks at them, for all intervals and   *)
(* any lateness of the rounds that the margin of --status allows for; and  *)
(* about what is read of a report, a command or a reply, whatever it says. *)
(***************************************************************************)
EXTENDS ReportFeed, Wire, FiniteSetTheorems, TLAPS

\* What a worker posts to the window.
Posts == [kind : {"connected", "error", "report"}, worker : Nat]

Types ==
  /\ file \in Intervals
  /\ manager \in [up : BOOLEAN, interval : Intervals, due : Int, sender : Senders]
  /\ socket \in [link : {"none", "failed", "joining", "on"}, inbox : Nat]
  /\ status \in [at : {"idle", "waiting", "printing", "refused", "unanswered", "done"}, watch : BOOLEAN,
                 assumed : Nat, timeout : Int, left : Int, promised : BOOLEAN]
  /\ window \in [at : {"closed", "open", "replacing"}, worker : Nat, posted : Seq(Posts)]
  /\ status.at # "idle" => window.at = "closed"

\* A round is never later than a round may be.
OnTime == manager.due >= 0 - Late

\* Who waits for reports has subscribed to them.
Subscribed == status.at \in {"waiting", "printing"} => socket.link \in {"joining", "on"}

\* What is waited for while the manager keeps the pace it is taken for: a report is there, or the
\* next one is due so much before the wait ends as the margin says.  What is published before
\* the socket has joined takes no time.
Promise ==
  status.at = "waiting" /\ status.promised =>
    /\ manager.up
    /\ manager.interval = status.assumed
    /\ status.timeout = WaitTime(status.assumed)
    /\ manager.due <= status.assumed
    /\ status.left > 0
    /\ socket.link = "joining" => status.left = status.timeout
    /\ socket.inbox > 0 \/ status.left - manager.due >= Margin

\* The inductive invariant of --status.
IInv == Types /\ OnTime /\ Subscribed /\ Promise

\* The report that is late is within the margin, and the queue has room for one.
MarginSuffices == Late < Margin /\ 0 < Queue

----------------------------------------------------------------------------
(* Lemmas *)

\* The wait is at least the default and at least the interval with the margin.
LEMMA WaitTimeIs ==
  ASSUME NEW interval \in Nat
  PROVE  /\ WaitTime(interval) \in Nat
         /\ WaitTime(interval) >= interval + Margin
<1> DEFINE a == DefaultTimeout  b == interval + Margin
<1>1. a \in Nat /\ b \in Nat
  BY ReportFeedAssumption
<1> HIDE DEF a, b
<1>2. \E x \in {a, b} : \A y \in {a, b} : x >= y
  <2>1. CASE a >= b
    BY <1>1, <2>1
  <2>2. CASE b >= a
    BY <1>1, <2>2
  <2>3. QED
    BY <1>1, <2>1, <2>2
<1>3. Max({a, b}) \in {a, b} /\ \A y \in {a, b} : Max({a, b}) >= y
  BY <1>2 DEF Max
<1>4. Max({a, b}) \in Nat /\ Max({a, b}) >= b
  BY <1>1, <1>3
<1>5. QED
  BY <1>4 DEF WaitTime, a, b

\* An interval is a positive number.
LEMMA IntervalIs ==
  ASSUME NEW i \in Intervals
  PROVE  i \in Nat /\ i > 0
<1>1. Intervals \subseteq Nat \ {0}
  BY ReportFeedAssumption
<1>2. i \in Nat /\ i # 0
  BY <1>1
<1>3. QED
  BY <1>2

\* The bounds are numbers.
LEMMA BoundsAre == Late \in Nat /\ Margin \in Nat /\ Queue \in Nat /\ DefaultTimeout \in Nat
BY ReportFeedAssumption

\* A round that is not early leaves the next report at most an interval off.
LEMMA NextDueIs ==
  ASSUME Types, NEW due \in Int, due <= manager.interval
  PROVE  /\ NextDue(due) \in Int
         /\ NextDue(due) > 0
         /\ NextDue(due) <= manager.interval
<1> DEFINE i == manager.interval
<1>1. i \in Intervals
  BY DEF Types
<1>2. i \in Nat /\ i > 0
  BY <1>1, IntervalIs
<1>3. NextDue(due) = IF due <= 0 THEN i ELSE due
  BY DEF NextDue
<1> HIDE DEF i
<1>4. due \in Int
  OBVIOUS
<1>5. NextDue(due) \in Int /\ NextDue(due) > 0 /\ NextDue(due) <= i
  <2>1. due <= i
    BY DEF i
  <2>2. QED
    BY <1>2, <1>3, <1>4, <2>1
<1>6. QED
  BY <1>5 DEF i

\* A wait that begins keeps the promise while it lasts.
LEMMA WaitingIs ==
  ASSUME NEW s, s \in [at : {"idle", "waiting", "printing", "refused", "unanswered", "done"},
                  watch : BOOLEAN, assumed : Nat, timeout : Int, left : Int, promised : BOOLEAN]
  PROVE  /\ Waiting(s) \in [at : {"waiting"}, watch : BOOLEAN, assumed : Nat, timeout : Int, left : Int, promised : BOOLEAN]
         /\ Waiting(s).assumed = s.assumed
         /\ Waiting(s).timeout = s.timeout
         /\ Waiting(s).left = s.timeout
         /\ Waiting(s).promised =>
              /\ s.timeout = WaitTime(s.assumed)
              /\ manager.up
              /\ manager.interval = s.assumed
              /\ manager.due <= s.assumed
BY DEF Waiting


----------------------------------------------------------------------------
(* Types *)

\* The records by their fields.
LEMMA RecordsAre ==
  ASSUME Types
  PROVE  /\ manager.interval \in Nat
         /\ manager.interval > 0
         /\ manager.due \in Int
         /\ socket.inbox \in Nat
         /\ socket.link \in {"none", "failed", "joining", "on"}
         /\ status.left \in Int
         /\ status.timeout \in Int
         /\ status.assumed \in Nat
         /\ window.worker \in Nat
         /\ window.posted \in Seq(Posts)
<1>1. manager.interval \in Intervals
  BY DEF Types
<1>2. QED
  BY <1>1, IntervalIs DEF Types

\* What a worker posts is a post.
LEMMA PostIs ==
  ASSUME Types, NEW kind \in {"connected", "error", "report"}, Post(kind)
  PROVE  window' \in [at : {window.at}, worker : {window.worker}, posted : Seq(Posts)]
<1> DEFINE post == [kind |-> kind, worker |-> window.worker]
<1>1. post \in Posts
  BY RecordsAre DEF Posts
<1>2. window.posted \in Seq(Posts)
  BY RecordsAre
<1> HIDE DEF post
<1>3. Append(window.posted, post) \in Seq(Posts)
  BY <1>1, <1>2
<1>4. window' = [window EXCEPT !.posted = Append(@, post)]
  BY DEF Post, post
<1>5. QED
  BY <1>3, <1>4 DEF Types

\* What a socket may be after a delivery, and after its connection has ended.
LEMMA SocketsAre ==
  ASSUME Types
  PROVE  /\ Delivered \in [link : {socket.link}, inbox : Nat]
         /\ Delivered.inbox >= socket.inbox
         /\ socket.link = "on" /\ 0 < Queue => Delivered.inbox > 0
         /\ \A s \in {socket, Delivered} :
              /\ Disconnected(s) \in [link : {"none", "failed", "joining", "on"}, inbox : Nat]
              /\ socket.link \in {"joining", "on"} => Disconnected(s).link \in {"joining", "on"}
<1> DEFINE n == socket.inbox + 1
<1>1. n \in Nat /\ n > 0 /\ n >= socket.inbox
  BY RecordsAre DEF n
<1>2. Delivered = IF socket.link = "on" /\ socket.inbox < Queue THEN [socket EXCEPT !.inbox = n] ELSE socket
  BY DEF Delivered
<1> HIDE DEF n
<1>3. socket \in [link : {"none", "failed", "joining", "on"}, inbox : Nat]
  BY DEF Types
<1>4. Delivered \in [link : {socket.link}, inbox : Nat]
  BY <1>1, <1>2, <1>3
<1>5. Delivered.inbox >= socket.inbox
  BY <1>1, <1>2, <1>3
<1>6. socket.link = "on" /\ 0 < Queue => Delivered.inbox > 0
  <2>1. CASE socket.inbox < Queue
    BY <1>1, <1>2, <1>3, <2>1
  <2>2. CASE ~(socket.inbox < Queue)
    BY <1>2, <1>3, <2>2, BoundsAre
  <2>3. QED
    BY <2>1, <2>2
<1>7. ASSUME NEW s \in {socket, Delivered}
      PROVE  /\ Disconnected(s) \in [link : {"none", "failed", "joining", "on"}, inbox : Nat]
             /\ socket.link \in {"joining", "on"} => Disconnected(s).link \in {"joining", "on"}
  <2>1. s \in [link : {socket.link}, inbox : Nat]
    BY <1>3, <1>4
  <2>2. QED
    BY <1>3, <2>1 DEF Disconnected
<1>8. QED
  BY <1>4, <1>5, <1>6, <1>7

\* The manager's steps.
LEMMA ManagerStepTypes ==
  ASSUME Types, ManagerStep
  PROVE  Types'
<1>1. CASE Publish
  <2> DEFINE d == manager.due + manager.interval
             m == NextDue(d)
  <2>1. d \in Int /\ d <= manager.interval
    BY <1>1, RecordsAre DEF Publish
  <2>2. manager' = [manager EXCEPT !.due = m]
    BY <1>1 DEF Publish
  <2> HIDE DEF d
  <2>3. m \in Int
    BY <2>1, NextDueIs
  <2> HIDE DEF m
  <2>4. manager' \in [up : BOOLEAN, interval : Intervals, due : Int, sender : Senders]
    BY <2>2, <2>3 DEF Types
  <2>5. socket' \in [link : {"none", "failed", "joining", "on"}, inbox : Nat]
    BY <1>1, SocketsAre, RecordsAre DEF Publish
  <2>6. QED
    BY <1>1, <2>4, <2>5 DEF Publish, Types
<1>2. CASE Reload
  <2>1. manager' \in [up : BOOLEAN, interval : Intervals, due : Int, sender : Senders]
    BY <1>2 DEF Reload, Types
  <2>2. status' \in [at : {status.at}, watch : BOOLEAN,
                     assumed : Nat, timeout : Int, left : Int, promised : BOOLEAN]
    BY <1>2 DEF Reload, BreaksPace, Types
  <2>3. QED
    BY <1>2, <2>1, <2>2 DEF Reload, Types
<1>3. CASE EditFile
  BY <1>3 DEF EditFile, subscriberVars, Types
<1>4. CASE ManagerStops
  <2>1. manager' \in [up : BOOLEAN, interval : Intervals, due : Int, sender : Senders]
    <3> DEFINE now == 0
    <3>1. manager' = [manager EXCEPT !.up = FALSE, !.due = now] /\ now \in Int
      BY <1>4 DEF ManagerStops
    <3> HIDE DEF now
    <3>2. manager \in [up : BOOLEAN, interval : Intervals, due : Int, sender : Senders]
      BY DEF Types
    <3>3. QED
      BY <3>1, <3>2
  <2>2. status' \in [at : {status.at}, watch : BOOLEAN,
                     assumed : Nat, timeout : Int, left : Int, promised : BOOLEAN]
    BY <1>4 DEF ManagerStops, BreaksPace, Types
  <2>3. socket' \in [link : {"none", "failed", "joining", "on"}, inbox : Nat]
    BY <1>4, SocketsAre DEF ManagerStops
  <2>4. QED
    BY <1>4, <2>1, <2>2, <2>3 DEF ManagerStops, Types
<1>5. CASE ManagerStarts
  <2>1. manager' \in [up : BOOLEAN, interval : Intervals, due : Int, sender : Senders]
    BY <1>5 DEF ManagerStarts, Types
  <2>2. QED
    BY <1>5, <2>1 DEF ManagerStarts, subscriberVars, Types
<1>6. QED
  BY <1>1, <1>2, <1>3, <1>4, <1>5 DEF ManagerStep

\* The steps of --status.
LEMMA StatusStepTypes ==
  ASSUME Types, StatusStep
  PROVE  Types'
<1> DEFINE Statuses == [at : {"idle", "waiting", "printing", "refused", "unanswered", "done"}, watch : BOOLEAN,
                        assumed : Nat, timeout : Int, left : Int, promised : BOOLEAN]
<1>1. status \in Statuses
  BY DEF Types
<1>2. ASSUME NEW s \in Statuses
      PROVE  Waiting(s) \in Statuses
  BY <1>2, WaitingIs
<1>3. CASE StartStatus
  <2>1. file \in Nat
    BY IntervalIs DEF Types
  <2>2. status' \in Statuses /\ socket' \in [link : {"none", "failed", "joining", "on"}, inbox : Nat]
    <3>1. CASE status' = [status EXCEPT !.at = "refused"] /\ UNCHANGED socket
      BY <1>1, <3>1 DEF Types
    <3>2. CASE ~(status' = [status EXCEPT !.at = "refused"] /\ UNCHANGED socket)
      <4>1. PICK watch \in BOOLEAN, given \in {{}, {1}} :
              \E timeout \in IF given = {} THEN {WaitTime(file)} ELSE given :
                /\ status' = Waiting([status EXCEPT !.watch = watch, !.assumed = file, !.timeout = timeout])
                /\ socket' = [socket EXCEPT !.link = "joining"]
        BY <1>3, <3>2 DEF StartStatus
      <4>2. PICK timeout \in IF given = {} THEN {WaitTime(file)} ELSE given :
              /\ status' = Waiting([status EXCEPT !.watch = watch, !.assumed = file, !.timeout = timeout])
              /\ socket' = [socket EXCEPT !.link = "joining"]
        BY <4>1
      <4>3. timeout \in Int
        BY <2>1, WaitTimeIs
      <4>4. [status EXCEPT !.watch = watch, !.assumed = file, !.timeout = timeout] \in Statuses
        BY <1>1, <2>1, <4>3
      <4>5. status' \in Statuses
        BY <1>2, <4>2, <4>4
      <4>6. QED
        BY <4>2, <4>5 DEF Types
    <3>3. QED
      BY <3>1, <3>2
  <2>3. window.at = "closed" /\ UNCHANGED <<manager, file, window>>
    BY <1>3 DEF StartStatus, ForGui
  <2>4. QED
    BY <2>2, <2>3 DEF Types
<1>4. CASE WaitTimesOut
  <2>1. status' \in Statuses
    <3>1. \/ status' = [status EXCEPT !.at = "unanswered"]
          \/ status' = Waiting(status)
          \/ status' = [status EXCEPT !.at = "done"]
      BY <1>4 DEF WaitTimesOut
    <3>2. QED
      BY <1>1, <1>2, <3>1
  <2>2. window.at = "closed" /\ UNCHANGED <<manager, file, socket, window>>
    BY <1>4 DEF WaitTimesOut, Types
  <2>3. QED
    BY <2>1, <2>2 DEF Types
<1>5. CASE ReceiveReport
  <2> DEFINE n == socket.inbox - 1
             at == IF ~Understood THEN "refused" ELSE IF status.watch THEN "printing" ELSE "done"
  <2>1. n \in Nat
    BY <1>5, RecordsAre DEF ReceiveReport
  <2>2. at \in {"refused", "printing", "done"}
    OBVIOUS
  <2>3. socket' = [socket EXCEPT !.inbox = n] /\ status' = [status EXCEPT !.at = at]
    BY <1>5 DEF ReceiveReport
  <2> HIDE DEF n, at
  <2>4. window.at = "closed" /\ UNCHANGED <<manager, file, window>>
    BY <1>5 DEF ReceiveReport, Types
  <2>5. status' \in Statuses
    BY <1>1, <2>2, <2>3
  <2>6. socket' \in [link : {"none", "failed", "joining", "on"}, inbox : Nat]
    BY <2>1, <2>3 DEF Types
  <2>7. QED
    BY <2>4, <2>5, <2>6 DEF Types
<1>6. CASE PrintTable
  <2>1. status' \in Statuses
    <3>1. \/ status' = Waiting(status)
          \/ status' = [status EXCEPT !.at = "done"]
      BY <1>6 DEF PrintTable
    <3>2. QED
      BY <1>1, <1>2, <3>1
  <2>2. window.at = "closed" /\ UNCHANGED <<manager, file, socket, window>>
    BY <1>6 DEF PrintTable, Types
  <2>3. QED
    BY <2>1, <2>2 DEF Types
<1>7. QED
  BY <1>3, <1>4, <1>5, <1>6 DEF StatusStep

\* The steps of the GUI, during which no call of --status is there.
LEMMA GuiStepTypes ==
  ASSUME Types, GuiStep
  PROVE  Types' /\ status.at = "idle" /\ UNCHANGED <<manager, status>>
<1>1. window.at # "closed" /\ UNCHANGED <<manager, file, status>>
  BY DEF GuiStep, StartWorker, ForwardReport, HandlePosted, Reconnect, WorkerReplaced
<1>2. status.at = "idle"
  BY <1>1 DEF Types
<1> DEFINE Windows == [at : {"closed", "open", "replacing"}, worker : Nat, posted : Seq(Posts)]
           Sockets == [link : {"none", "failed", "joining", "on"}, inbox : Nat]
<1>3. window' \in Windows /\ socket' \in Sockets
  <2>1. CASE StartWorker
    <3>1. Post("connected") \/ Post("error")
      BY <2>1 DEF StartWorker
    <3>2. window' \in Windows
      BY <3>1, PostIs DEF Types
    <3>3. socket' \in Sockets
      BY <2>1 DEF StartWorker, Types
    <3>4. QED
      BY <3>2, <3>3
  <2>2. CASE ForwardReport
    <3> DEFINE n == socket.inbox - 1
    <3>1. n \in Nat /\ Post("report") /\ socket' = [socket EXCEPT !.inbox = n]
      BY <2>2, RecordsAre DEF ForwardReport
    <3> HIDE DEF n
    <3>2. window' \in Windows
      BY <3>1, PostIs DEF Types
    <3>3. QED
      BY <3>1, <3>2 DEF Types
  <2>3. CASE HandlePosted
    <3> DEFINE rest == Tail(window.posted)
    <3>1. window' = [window EXCEPT !.posted = rest] /\ UNCHANGED socket /\ window.posted # <<>>
      BY <2>3 DEF HandlePosted
    <3>2. window.posted \in Seq(Posts)
      BY RecordsAre
    <3>3. rest \in Seq(Posts)
      BY <3>1, <3>2
    <3> HIDE DEF rest
    <3>4. QED
      BY <3>1, <3>3 DEF Types
  <2>4. CASE Reconnect
    <3>1. <<>> \in Seq(Posts)
      OBVIOUS
    <3>2. window' \in Windows
      <4>1. \/ window' = [window EXCEPT !.at = "replacing"]
            \/ window' = [window EXCEPT !.at = "replacing", !.posted = <<>>]
        BY <2>4 DEF Reconnect
      <4>2. window \in Windows
        BY DEF Types
      <4>3. QED
        BY <3>1, <4>1, <4>2
    <3>3. socket' \in Sockets
      BY <2>4 DEF Reconnect
    <3>4. QED
      BY <3>2, <3>3
  <2>5. CASE WorkerReplaced
    <3> DEFINE n == window.worker + 1
    <3>1. n \in Nat /\ window' = [window EXCEPT !.at = "open", !.worker = n] /\ UNCHANGED socket
      BY <2>5, RecordsAre DEF WorkerReplaced
    <3> HIDE DEF n
    <3>2. QED
      BY <3>1 DEF Types
  <2>6. QED
    BY <2>1, <2>2, <2>3, <2>4, <2>5 DEF GuiStep
<1>4. QED
  BY <1>1, <1>2, <1>3 DEF Types

\* A second passes.
LEMMA TickTypes ==
  ASSUME Types, Tick
  PROVE  Types'
<1> DEFINE d == IF manager.up THEN manager.due - 1 ELSE manager.due
           l == IF status.at = "waiting" THEN status.left - 1 ELSE status.left
<1>1. d \in Int /\ l \in Int
  BY RecordsAre
<1>2. /\ manager' = [manager EXCEPT !.due = d]
      /\ status' = [status EXCEPT !.left = l]
      /\ UNCHANGED <<file, socket, window>>
  BY DEF Tick
<1> HIDE DEF d, l
<1>3. QED
  BY <1>1, <1>2 DEF Types

----------------------------------------------------------------------------
(* The promise of --status *)

\* A wait that begins with a subscription is promised a report in time.
LEMMA WaitBeginsWell ==
  ASSUME Types, NEW s, s \in [at : {"idle", "waiting", "printing", "refused", "unanswered", "done"},
                  watch : BOOLEAN, assumed : Nat, timeout : Int, left : Int, promised : BOOLEAN],
         status' = Waiting(s), UNCHANGED manager
  PROVE  Promise'
<1> DEFINE w == Waiting(s)
<1>1. /\ w.left = s.timeout
      /\ w.timeout = s.timeout
      /\ w.assumed = s.assumed
      /\ w.promised => /\ s.timeout = WaitTime(s.assumed)
                       /\ manager.up
                       /\ manager.interval = s.assumed
                       /\ manager.due <= s.assumed
  BY WaitingIs
<1>2. s.assumed \in Nat /\ s.timeout \in Int
  OBVIOUS
<1>3. WaitTime(s.assumed) \in Nat /\ WaitTime(s.assumed) >= s.assumed + Margin
  BY <1>2, WaitTimeIs
<1> HIDE DEF w
<1>4. SUFFICES ASSUME w.promised
               PROVE  /\ manager.up
                      /\ manager.interval = w.assumed
                      /\ w.timeout = WaitTime(w.assumed)
                      /\ manager.due <= w.assumed
                      /\ w.left > 0
                      /\ w.left = w.timeout
                      /\ w.left - manager.due >= Margin
  BY DEF Promise, w
<1>5. /\ manager.up
      /\ manager.interval = s.assumed
      /\ s.timeout = WaitTime(s.assumed)
      /\ manager.due <= s.assumed
  BY <1>1, <1>4
<1>6. manager.interval > 0 /\ manager.due \in Int
  BY RecordsAre
<1>7. s.timeout > 0 /\ s.timeout - manager.due >= Margin
  <2> DEFINE t == s.timeout  a == s.assumed  d == manager.due
  <2>1. t \in Int /\ a \in Nat /\ a > 0 /\ d \in Int /\ d <= a /\ t >= a + Margin
    BY <1>2, <1>3, <1>5, <1>6
  <2> HIDE DEF t, a, d
  <2>2. t > 0 /\ t - d >= Margin
    BY <2>1, BoundsAre
  <2>3. QED
    BY <2>2 DEF t, d
<1>8. QED
  BY <1>1, <1>5, <1>7

\* The manager's steps keep the promise or end it.
LEMMA ManagerStepPromise ==
  ASSUME IInv, MarginSuffices, ManagerStep
  PROVE  OnTime' /\ Subscribed' /\ Promise'
<1> USE DEF IInv
<1>1. CASE Publish
  <2> DEFINE d == manager.due + manager.interval
             m == NextDue(d)
  <2>1. d \in Int /\ d <= manager.interval
    BY <1>1, RecordsAre DEF Publish
  <2>2. manager' = [manager EXCEPT !.due = m] /\ manager.up
    BY <1>1 DEF Publish
  <2> HIDE DEF d
  <2>3. m \in Int /\ m > 0 /\ m <= manager.interval
    BY <2>1, NextDueIs
  <2> HIDE DEF m
  <2>4. /\ manager'.due = m
        /\ manager'.up = manager.up
        /\ manager'.interval = manager.interval
    BY <2>2 DEF Types
  <2>5. UNCHANGED status /\ socket' = Delivered
    BY <1>1 DEF Publish
  <2>6. OnTime'
    BY <2>3, <2>4, BoundsAre DEF OnTime
  <2>7. /\ socket'.link = socket.link
        /\ socket'.inbox >= socket.inbox
        /\ socket.link = "on" => socket'.inbox > 0
        /\ socket'.inbox \in Nat
    BY <2>5, SocketsAre DEF MarginSuffices
  <2>8. Subscribed'
    BY <2>5, <2>7 DEF Subscribed
  <2>9. Promise'
    <3>1. SUFFICES ASSUME status.at = "waiting", status.promised
                   PROVE  /\ manager'.up
                          /\ manager'.interval = status.assumed
                          /\ status.timeout = WaitTime(status.assumed)
                          /\ manager'.due <= status.assumed
                          /\ status.left > 0
                          /\ socket'.link = "joining" => status.left = status.timeout
                          /\ socket'.inbox > 0 \/ status.left - manager'.due >= Margin
      BY <2>5 DEF Promise
    <3>2. /\ manager.interval = status.assumed
          /\ status.timeout = WaitTime(status.assumed)
          /\ status.left > 0
          /\ socket.link = "joining" => status.left = status.timeout
      BY <3>1 DEF Promise
    <3>3. manager'.due <= status.assumed /\ manager'.interval = status.assumed /\ manager'.up
      BY <2>2, <2>3, <2>4, <3>2
    <3>4. socket'.inbox > 0 \/ status.left - manager'.due >= Margin
      <4>1. CASE socket.link = "on"
        BY <2>7, <4>1
      <4>2. CASE socket.link # "on"
        <5>1. socket.link = "joining"
          BY <3>1, <4>2 DEF Subscribed
        <5> DEFINE l == status.left  a == status.assumed
        <5>2. l >= a + Margin /\ l \in Int /\ a \in Nat
          BY <3>2, <5>1, WaitTimeIs, RecordsAre
        <5>3. m <= a
          BY <2>4, <3>3
        <5> HIDE DEF l, a
        <5>4. l - m >= Margin
          BY <2>3, <5>2, <5>3, BoundsAre
        <5>5. QED
          BY <2>4, <5>4 DEF l
      <4>3. QED
        BY <4>1, <4>2
    <3>5. QED
      BY <2>7, <3>2, <3>3, <3>4
  <2>10. QED
    BY <2>6, <2>8, <2>9
<1>2. CASE Reload \/ ManagerStops
  <2>1. BreaksPace
    BY <1>2 DEF Reload, ManagerStops
  <2>2. ~status'.promised /\ status'.at = status.at
    BY <2>1 DEF BreaksPace, Types
  <2>3. manager'.due \in {0, manager.due}
    BY <1>2 DEF Reload, ManagerStops, Types
  <2>4. socket.link \in {"joining", "on"} => socket'.link \in {"joining", "on"}
    <3>1. CASE Reload
      BY <3>1 DEF Reload
    <3>2. CASE ManagerStops
      BY <3>2, SocketsAre DEF ManagerStops
    <3>3. QED
      BY <1>2, <3>1, <3>2
  <2>5. OnTime'
    BY <2>3, BoundsAre, RecordsAre DEF OnTime
  <2>6. Subscribed'
    BY <2>2, <2>4 DEF Subscribed
  <2>7. Promise'
    BY <2>2 DEF Promise
  <2>8. QED
    BY <2>5, <2>6, <2>7
<1>3. CASE EditFile
  BY <1>3 DEF EditFile, subscriberVars, OnTime, Subscribed, Promise
<1>4. CASE ManagerStarts
  <2>1. UNCHANGED <<socket, status>> /\ ~manager.up /\ manager'.due = manager.due
    BY <1>4 DEF ManagerStarts, subscriberVars, Types
  <2>2. ~(status.at = "waiting" /\ status.promised)
    BY <2>1 DEF Promise
  <2>3. QED
    BY <2>1, <2>2 DEF OnTime, Subscribed, Promise
<1>5. QED
  BY <1>1, <1>2, <1>3, <1>4 DEF ManagerStep

\* Once joined, what is due comes.
LEMMA JoinsPromise ==
  ASSUME IInv, Joins
  PROVE  Types' /\ OnTime' /\ Subscribed' /\ Promise'
<1> USE DEF IInv
<1>1. socket' = [socket EXCEPT !.link = "on"] /\ UNCHANGED <<manager, file, status, window>> /\ socket.link = "joining"
  BY DEF Joins
<1>2. socket' \in [link : {"on"}, inbox : Nat] /\ socket'.inbox = socket.inbox
  BY <1>1 DEF Types
<1>3. Types'
  BY <1>1, <1>2 DEF Types
<1>4. OnTime' /\ Subscribed'
  BY <1>1, <1>2 DEF OnTime, Subscribed
<1>5. Promise'
  BY <1>1, <1>2 DEF Promise
<1>6. QED
  BY <1>3, <1>4, <1>5

\* A call's steps.
LEMMA StatusStepPromise ==
  ASSUME IInv, StatusStep
  PROVE  OnTime' /\ Subscribed' /\ Promise'
<1> USE DEF IInv
<1> DEFINE Statuses == [at : {"idle", "waiting", "printing", "refused", "unanswered", "done"}, watch : BOOLEAN,
                        assumed : Nat, timeout : Int, left : Int, promised : BOOLEAN]
<1>1. status \in Statuses
  BY DEF Types
<1>2. UNCHANGED manager
  BY DEF StatusStep, StartStatus, WaitTimesOut, ReceiveReport, PrintTable
<1>3. OnTime'
  BY <1>2 DEF OnTime
<1>4. CASE StartStatus
  <2>1. CASE status' = [status EXCEPT !.at = "refused"]
    <3>1. status'.at = "refused"
      BY <1>1, <2>1
    <3>2. QED
      BY <1>3, <3>1 DEF Subscribed, Promise
  <2>2. CASE status' # [status EXCEPT !.at = "refused"]
    <3>1. PICK watch \in BOOLEAN, given \in {{}, {1}} :
            \E timeout \in IF given = {} THEN {WaitTime(file)} ELSE given :
              /\ status' = Waiting([status EXCEPT !.watch = watch, !.assumed = file, !.timeout = timeout])
              /\ socket' = [socket EXCEPT !.link = "joining"]
      BY <1>4, <2>2 DEF StartStatus
    <3>2. PICK timeout \in IF given = {} THEN {WaitTime(file)} ELSE given :
            /\ status' = Waiting([status EXCEPT !.watch = watch, !.assumed = file, !.timeout = timeout])
            /\ socket' = [socket EXCEPT !.link = "joining"]
      BY <3>1
    <3>3. file \in Nat
      BY IntervalIs DEF Types
    <3>4. timeout \in Int
      BY <3>3, WaitTimeIs
    <3> DEFINE s == [status EXCEPT !.watch = watch, !.assumed = file, !.timeout = timeout]
    <3>5. s \in Statuses
      BY <1>1, <3>3, <3>4
    <3>6. status' = Waiting(s)
      BY <3>2
    <3> HIDE DEF s
    <3>7. Promise'
      BY <1>2, <3>5, <3>6, WaitBeginsWell
    <3>8. socket'.link = "joining"
      BY <3>2 DEF Types
    <3>9. QED
      BY <1>3, <3>7, <3>8 DEF Subscribed
  <2>3. QED
    BY <2>1, <2>2
<1>5. CASE WaitTimesOut \/ PrintTable
  <2>1. UNCHANGED socket /\ socket.link \in {"joining", "on"}
    BY <1>5 DEF WaitTimesOut, PrintTable, Subscribed
  <2>2. \/ \E at \in {"unanswered", "done"} : status' = [status EXCEPT !.at = at]
        \/ status' = Waiting(status)
    BY <1>5 DEF WaitTimesOut, PrintTable
  <2>3. CASE \E at \in {"unanswered", "done"} : status' = [status EXCEPT !.at = at]
    <3>1. status'.at \in {"unanswered", "done"}
      BY <1>1, <2>3
    <3>2. QED
      BY <1>3, <3>1 DEF Subscribed, Promise
  <2>4. CASE status' = Waiting(status)
    <3>1. Promise'
      BY <1>1, <1>2, <2>4, WaitBeginsWell
    <3>2. QED
      BY <1>3, <2>1, <3>1 DEF Subscribed
  <2>5. QED
    BY <2>2, <2>3, <2>4
<1>6. CASE ReceiveReport
  <2> DEFINE at == IF ~Understood THEN "refused" ELSE IF status.watch THEN "printing" ELSE "done"
  <2>1. at \in {"refused", "printing", "done"}
    OBVIOUS
  <2>2. status' = [status EXCEPT !.at = at] /\ socket' = [socket EXCEPT !.inbox = @ - 1] /\ status.at = "waiting"
    BY <1>6 DEF ReceiveReport
  <2> HIDE DEF at
  <2>3. status'.at = at /\ socket'.link = socket.link
    BY <1>1, <2>2 DEF Types
  <2>4. QED
    BY <1>3, <2>1, <2>2, <2>3 DEF Subscribed, Promise
<1>7. QED
  BY <1>4, <1>5, <1>6 DEF StatusStep

\* The GUI makes no call.
LEMMA GuiStepPromise ==
  ASSUME IInv, GuiStep
  PROVE  Types' /\ OnTime' /\ Subscribed' /\ Promise'
BY GuiStepTypes DEF IInv, OnTime, Subscribed, Promise

\* A second passes: what is due comes a second nearer too, and a round is never later than may be.
LEMMA TickPromise ==
  ASSUME IInv, MarginSuffices, Tick
  PROVE  OnTime' /\ Subscribed' /\ Promise'
<1> USE DEF IInv
<1> DEFINE d == IF manager.up THEN manager.due - 1 ELSE manager.due
           l == IF status.at = "waiting" THEN status.left - 1 ELSE status.left
<1>1. d \in Int /\ l \in Int
  BY RecordsAre
<1>2. /\ manager' = [manager EXCEPT !.due = d]
      /\ status' = [status EXCEPT !.left = l]
      /\ UNCHANGED <<file, socket, window>>
  BY DEF Tick
<1>3. manager.up => manager.due > 0 - Late /\ socket.link # "joining"
  BY DEF Tick, NothingAtOnce
<1>4. status.at = "waiting" => status.left > 0 /\ socket.inbox = 0
  BY DEF Tick, NothingAtOnce
<1>5. d >= 0 - Late
  <2>1. CASE manager.up
    BY <1>3, <2>1, BoundsAre, RecordsAre
  <2>2. CASE ~manager.up
    BY <2>2 DEF OnTime
  <2>3. QED
    BY <2>1, <2>2
<1>6. ASSUME status.at = "waiting", status.promised
      PROVE  /\ manager.up
             /\ manager.interval = status.assumed
             /\ status.timeout = WaitTime(status.assumed)
             /\ d <= status.assumed
             /\ l > 0
             /\ socket.link # "joining"
             /\ l - d >= Margin
  <2> DEFINE left == status.left  due == manager.due  assumed == status.assumed
  <2>1. left \in Int /\ due \in Int /\ assumed \in Nat
    BY RecordsAre
  <2>2. /\ manager.up
        /\ manager.interval = status.assumed
        /\ status.timeout = WaitTime(status.assumed)
        /\ due <= assumed
        /\ socket.inbox > 0 \/ left - due >= Margin
    BY <1>6 DEF Promise
  <2>3. left - due >= Margin
    BY <1>4, <1>6, <2>2, RecordsAre
  <2>4. d = due - 1 /\ l = left - 1
    BY <1>6, <2>2
  <2> HIDE DEF left, due, assumed, d, l
  <2>5. l - d >= Margin /\ l > 0 /\ d <= assumed
    BY <1>5, <2>1, <2>2, <2>3, <2>4, BoundsAre DEF MarginSuffices
  <2>6. QED
    BY <1>3, <2>2, <2>5 DEF assumed
<1> HIDE DEF d, l
<1>7. /\ manager'.due = d
      /\ manager'.up = manager.up
      /\ manager'.interval = manager.interval
      /\ status'.left = l
      /\ status'.at = status.at
      /\ status'.promised = status.promised
      /\ status'.assumed = status.assumed
      /\ status'.timeout = status.timeout
  BY <1>2 DEF Types
<1>8. OnTime'
  BY <1>5, <1>7 DEF OnTime
<1>9. Subscribed'
  BY <1>2, <1>7 DEF Subscribed
<1>10. Promise'
  BY <1>2, <1>6, <1>7 DEF Promise
<1>11. QED
  BY <1>8, <1>9, <1>10

----------------------------------------------------------------------------
(* The calls *)

\* Nothing is promised at first.
LEMMA InitIInv == Init => IInv
<1> SUFFICES ASSUME Init
             PROVE  IInv
  OBVIOUS
<1>1. file \in Intervals /\ manager \in [up : BOOLEAN, interval : Intervals, due : {0}, sender : Senders]
  BY DEF Init
<1>2. window \in [at : {"closed", "open"}, worker : {1}, posted : {<<>>}]
  BY DEF Init
<1>3. <<>> \in Seq(Posts) /\ 1 \in Nat
  OBVIOUS
<1>4. window \in [at : {"closed", "open", "replacing"}, worker : Nat, posted : Seq(Posts)]
  BY <1>2, <1>3
<1>5. /\ socket = [link |-> "none", inbox |-> 0]
      /\ status = [at |-> "idle", watch |-> FALSE, assumed |-> 0, timeout |-> 0, left |-> 0, promised |-> FALSE]
  BY DEF Init
<1>6. Types
  BY <1>1, <1>4, <1>5 DEF Types
<1>7. OnTime
  BY <1>1, BoundsAre DEF OnTime
<1>8. QED
  BY <1>5, <1>6, <1>7 DEF IInv, Subscribed, Promise

\* Every step keeps it.
LEMMA NextIInv ==
  ASSUME IInv, MarginSuffices, [Next]_vars
  PROVE  IInv'
<1>1. CASE ManagerStep
  BY <1>1, ManagerStepTypes, ManagerStepPromise DEF IInv
<1>2. CASE Joins
  BY <1>2, JoinsPromise DEF IInv
<1>3. CASE StatusStep
  BY <1>3, StatusStepTypes, StatusStepPromise DEF IInv
<1>4. CASE GuiStep
  BY <1>4, GuiStepPromise DEF IInv
<1>5. CASE Tick
  BY <1>5, TickTypes, TickPromise DEF IInv
<1>6. CASE UNCHANGED vars
  BY <1>6 DEF vars, subscriberVars, IInv, Types, OnTime, Subscribed, Promise
<1>7. QED
  BY <1>1, <1>2, <1>3, <1>4, <1>5, <1>6 DEF Next

\* If a round is never later than the margin allows, --status outwaits every manager that goes by the
\* interval in the file, however long that is, whenever the call comes and its socket joins
\* (WaitForReport of ManagerClient.cpp, RunStatus of main.cpp, Run of Daemon.cpp).
THEOREM CallsAreAnswered == MarginSuffices => (Spec => []StatusAnswered)
<1> SUFFICES ASSUME MarginSuffices
             PROVE  Spec => []StatusAnswered
  OBVIOUS
<1>1. Init => IInv
  BY InitIInv
<1>2. IInv /\ [Next]_vars => IInv'
  BY NextIInv
<1>3. IInv => StatusAnswered
  BY DEF IInv, Promise, StatusAnswered
<1>4. QED
  BY <1>1, <1>2, <1>3, PTL DEF Spec

----------------------------------------------------------------------------
(* The order of what is posted *)

\* The fields of the feed.
Feeds == feed \in [connected : BOOLEAN, waited : {feed.waited}, age : {feed.age}, gaps : {feed.gaps},
                   received : BOOLEAN, by : Nat, from : Nat, steady : BOOLEAN]

\* What comes after the first n posts comes over the connection of the worker w: it was posted
\* behind that worker's connecting, or what is posted and the connection are all its own.
Follows(n, w) ==
  \/ \E j \in 1..n : /\ window.posted[j].kind = "connected"
                     /\ \A k \in j..n : window.posted[k].worker = w
  \/ /\ \A k \in 1..n : window.posted[k].worker = w
     /\ feed.connected => feed.by = w

Connects == socket.link \in {"joining", "on"}

\* Every report posted follows its worker's connecting.
PostsFollow ==
  \A i \in 1..Len(window.posted) :
    window.posted[i].kind = "report" => Follows(i - 1, window.posted[i].worker)

\* So will those still in the socket, which only the worker there is has.
SocketFollows ==
  /\ ForGui /\ Connects => Follows(Len(window.posted), window.worker)
  /\ ForGui /\ socket.inbox > 0 => Connects
  /\ window.at = "replacing" => socket.link = "none"

\* The report that counts came over the connection.
ReceivedIsOwn == feed.connected /\ feed.received => feed.from = feed.by

Ordered == Types /\ Feeds /\ PostsFollow /\ SocketFollows /\ ReceivedIsOwn

\* What a post follows it still follows if those before it stay, and the connection does or ends.
LEMMA FollowsKept ==
  ASSUME NEW n \in Nat, NEW w, Follows(n, w),
         \A k \in 1..n : window'.posted[k] = window.posted[k],
         feed'.connected => feed.connected /\ feed'.by = feed.by
  PROVE  Follows(n, w)'
<1>1. CASE \E j \in 1..n : /\ window.posted[j].kind = "connected"
                           /\ \A k \in j..n : window.posted[k].worker = w
  <2>1. PICK j \in 1..n : /\ window.posted[j].kind = "connected"
                          /\ \A k \in j..n : window.posted[k].worker = w
    BY <1>1
  <2>2. window'.posted[j].kind = "connected"
    BY <2>1
  <2>3. \A k \in j..n : window'.posted[k].worker = w
    BY <2>1
  <2>4. QED
    BY <2>2, <2>3 DEF Follows
<1>2. CASE /\ \A k \in 1..n : window.posted[k].worker = w
           /\ feed.connected => feed.by = w
  <2>1. \A k \in 1..n : window'.posted[k].worker = w
    BY <1>2
  <2>2. feed'.connected => feed'.by = w
    BY <1>2
  <2>3. QED
    BY <2>1, <2>2 DEF Follows
<1>3. QED
  BY <1>1, <1>2 DEF Follows

\* The first post is handled: what follows it follows the connection it has left.
LEMMA FollowsOn ==
  ASSUME NEW n \in Nat, n > 0, NEW w, Follows(n, w),
         \A k \in 1..n - 1 : window'.posted[k] = window.posted[k + 1],
         window.posted[1].kind = "connected" /\ feed'.connected => feed'.by = window.posted[1].worker,
         window.posted[1].kind # "connected" /\ feed'.connected => feed.connected /\ feed'.by = feed.by
  PROVE  Follows(n - 1, w)'
<1> DEFINE m == n - 1
<1>1. m \in Nat /\ n = m + 1
  OBVIOUS
<1>2. \A k \in 1..m : window'.posted[k] = window.posted[k + 1]
  OBVIOUS
<1> HIDE DEF m
<1>3. CASE \E j \in 2..n : /\ window.posted[j].kind = "connected"
                           /\ \A k \in j..n : window.posted[k].worker = w
  <2>1. PICK j \in 2..n : /\ window.posted[j].kind = "connected"
                          /\ \A k \in j..n : window.posted[k].worker = w
    BY <1>3
  <2> DEFINE i == j - 1
  <2>2. i \in 1..m /\ j = i + 1
    BY <1>1
  <2> HIDE DEF i
  <2>3. window'.posted[i].kind = "connected"
    BY <1>2, <2>1, <2>2
  <2>4. ASSUME NEW k \in i..m
        PROVE  window'.posted[k].worker = w
    <3>1. k + 1 \in j..n /\ k \in 1..m
      BY <1>1, <2>2
    <3>2. QED
      BY <1>2, <2>1, <3>1
  <2>5. Follows(m, w)'
    BY <2>2, <2>3, <2>4 DEF Follows
  <2>6. QED
    BY <2>5 DEF m
<1>4. CASE \A k \in 1..n : window.posted[k].worker = w
  <2>1. window.posted[1].worker = w
    BY <1>1, <1>4
  <2>2. ASSUME NEW k \in 1..m
        PROVE  window'.posted[k].worker = w
    <3>1. k + 1 \in 1..n
      BY <1>1
    <3>2. QED
      BY <1>2, <1>4, <3>1
  <2>3. CASE window.posted[1].kind = "connected"
    <3>1. feed'.connected => feed'.by = w
      BY <2>1, <2>3
    <3>2. Follows(m, w)'
      BY <2>2, <3>1 DEF Follows
    <3>3. QED
      BY <3>2 DEF m
  <2>4. CASE window.posted[1].kind # "connected" /\ (feed.connected => feed.by = w)
    <3>1. feed'.connected => feed'.by = w
      BY <2>4
    <3>2. Follows(m, w)'
      BY <2>2, <3>1 DEF Follows
    <3>3. QED
      BY <3>2 DEF m
  <2>5. CASE window.posted[1].kind # "connected" /\ ~(feed.connected => feed.by = w)
    <3>1. PICK j \in 1..n : /\ window.posted[j].kind = "connected"
                            /\ \A k \in j..n : window.posted[k].worker = w
      BY <2>5 DEF Follows
    <3>2. j # 1
      BY <2>5, <3>1
    <3>3. j \in 2..n
      BY <3>2
    <3>4. QED
      BY <1>3, <3>1, <3>3
  <2>6. QED
    BY <2>3, <2>4, <2>5
<1>5. ASSUME ~(\A k \in 1..n : window.posted[k].worker = w)
      PROVE  \E j \in 2..n : /\ window.posted[j].kind = "connected"
                             /\ \A k \in j..n : window.posted[k].worker = w
  <2>1. PICK j \in 1..n : /\ window.posted[j].kind = "connected"
                          /\ \A k \in j..n : window.posted[k].worker = w
    BY <1>5 DEF Follows
  <2>2. j # 1
    BY <1>5, <2>1
  <2>3. j \in 2..n
    BY <2>2
  <2>4. QED
    BY <2>1, <2>3
<1>6. QED
  BY <1>3, <1>4, <1>5

\* The feed's operations, by what they leave of it.
LEMMA FeedIs ==
  ASSUME Feeds, NEW worker \in Nat
  PROVE  /\ feed' = OnConnected(worker) =>
              Feeds' /\ ~feed'.received /\ feed'.by = worker
         /\ feed' = OnDisconnected =>
              Feeds' /\ ~feed'.connected
         /\ feed' = OnReport(worker) =>
              /\ Feeds'
              /\ feed'.connected = feed.connected
              /\ feed'.by = feed.by
              /\ feed'.from = worker
<1>1. ASSUME feed' = OnConnected(worker)
      PROVE  Feeds' /\ ~feed'.received /\ feed'.by = worker
  <2> DEFINE steady == manager.up /\ Len(window.posted) = 1 /\ socket.inbox = 0
             zero == 0
             none == GapsOnConnect
  <2>1. feed' = [feed EXCEPT !.connected = TRUE, !.waited = zero, !.gaps = none, !.received = FALSE,
                             !.by = worker, !.steady = steady]
    BY <1>1 DEF OnConnected
  <2>2. steady \in BOOLEAN
    OBVIOUS
  <2> HIDE DEF steady, zero, none
  <2>3. QED
    BY <2>1, <2>2 DEF Feeds
<1>2. ASSUME feed' = OnDisconnected
      PROVE  Feeds' /\ ~feed'.connected
  BY <1>2 DEF OnDisconnected, Feeds
<1>3. ASSUME feed' = OnReport(worker)
      PROVE  /\ Feeds'
             /\ feed'.connected = feed.connected
             /\ feed'.by = feed.by
             /\ feed'.from = worker
  <2> DEFINE gaps == IF feed.received THEN LastGaps(Append(feed.gaps, feed.age)) ELSE feed.gaps
             zero == 0
  <2>1. feed' = [feed EXCEPT !.gaps = gaps, !.age = zero, !.waited = zero, !.received = feed.connected,
                             !.from = worker]
    BY <1>3 DEF OnReport
  <2> HIDE DEF gaps, zero
  <2>2. QED
    BY <2>1 DEF Feeds
<1>4. QED
  BY <1>1, <1>2, <1>3

\* What changes neither the posts nor whose the connection is keeps the order, if only a socket that
\* connects receives.
LEMMA OthersKeepOrder ==
  ASSUME Ordered, Types', Feeds',
         UNCHANGED <<window, feed.connected, feed.received, feed.by, feed.from>>,
         ForGui => /\ Connects' => Connects
                   /\ socket'.inbox > 0 => Connects'
                   /\ socket.link = "none" => socket'.link = "none"
  PROVE  Ordered'
<1> USE DEF Ordered
<1>1. ForGui' = ForGui
  BY DEF ForGui
<1>2. ASSUME NEW n \in Nat, NEW w, Follows(n, w)
      PROVE  Follows(n, w)'
  BY <1>2, FollowsKept
<1>3. PostsFollow'
  <2>1. SUFFICES ASSUME NEW i \in 1..Len(window.posted), window.posted[i].kind = "report"
                 PROVE  Follows(i - 1, window.posted[i].worker)'
    BY DEF PostsFollow
  <2>2. Follows(i - 1, window.posted[i].worker)
    BY <2>1 DEF PostsFollow
  <2>3. i - 1 \in Nat
    BY RecordsAre
  <2>4. QED
    BY <1>2, <2>2, <2>3
<1>4. SocketFollows'
  <2>1. ASSUME ForGui, Connects'
        PROVE  Follows(Len(window.posted), window.worker)'
    <3>1. Follows(Len(window.posted), window.worker)
      BY <2>1 DEF SocketFollows
    <3>2. Len(window.posted) \in Nat
      BY RecordsAre
    <3>3. QED
      BY <1>2, <3>1, <3>2
  <2>2. window.at = "replacing" => socket'.link = "none"
    BY DEF SocketFollows, ForGui
  <2>3. QED
    BY <1>1, <2>1, <2>2 DEF SocketFollows
<1>5. ReceivedIsOwn'
  BY DEF ReceivedIsOwn
<1>6. QED
  BY <1>3, <1>4, <1>5

\* A post comes behind the others.
LEMMA PostedIs ==
  ASSUME Types, NEW kind \in {"connected", "error", "report"}, Post(kind)
  PROVE  /\ Len(window'.posted) = Len(window.posted) + 1
         /\ \A k \in 1..Len(window.posted) : window'.posted[k] = window.posted[k]
         /\ window'.posted[Len(window.posted) + 1] = [kind |-> kind, worker |-> window.worker]
         /\ window'.worker = window.worker
         /\ window'.at = window.at
<1> DEFINE post == [kind |-> kind, worker |-> window.worker]
           posted == window.posted
           n == Len(posted)
<1>1. posted \in Seq(Posts) /\ post \in Posts
  BY RecordsAre DEF Posts
<1>2. window' = [window EXCEPT !.posted = Append(posted, post)]
  BY DEF Post
<1> HIDE DEF post, posted
<1>3. window'.posted = Append(posted, post) /\ window'.worker = window.worker /\ window'.at = window.at
  BY <1>2 DEF Types
<1>4. /\ Len(Append(posted, post)) = n + 1
      /\ \A k \in 1..n : Append(posted, post)[k] = posted[k]
      /\ Append(posted, post)[n + 1] = post
  BY <1>1
<1>5. QED
  BY <1>3, <1>4 DEF post, posted

\* A post that is no report, or follows as one must, keeps what is posted in order.
LEMMA PostKeepsOrder ==
  ASSUME Ordered, NEW kind \in {"connected", "error", "report"}, Post(kind), UNCHANGED feed,
         kind = "report" => Follows(Len(window.posted), window.worker)
  PROVE  /\ PostsFollow'
         /\ kind = "connected" => Follows(Len(window.posted), window.worker)'
         /\ kind = "report" => Follows(Len(window.posted), window.worker)'
<1> USE DEF Ordered
<1>1. PICK n \in Nat : n = Len(window.posted)
  BY RecordsAre
<1>2. /\ Len(window'.posted) = n + 1
      /\ \A k \in 1..n : window'.posted[k] = window.posted[k]
      /\ window'.posted[n + 1].kind = kind
      /\ window'.posted[n + 1].worker = window.worker
      /\ window'.worker = window.worker
  BY <1>1, PostedIs
<1>3. ASSUME NEW m \in 0..n, NEW w, Follows(m, w)
      PROVE  Follows(m, w)'
  <2>1. m \in Nat /\ \A k \in 1..m : k \in 1..n
    BY <1>1
  <2>2. QED
    BY <1>2, <1>3, <2>1, FollowsKept
<1>4. PostsFollow'
  <2>1. SUFFICES ASSUME NEW i \in 1..Len(window'.posted), window'.posted[i].kind = "report"
                 PROVE  Follows(i - 1, window.posted[i].worker)'
    BY DEF PostsFollow
  <2>2. CASE i \in 1..n
    <3>1. window'.posted[i] = window.posted[i]
      BY <1>2, <2>2
    <3>2. Follows(i - 1, window.posted[i].worker)
      BY <1>1, <2>1, <2>2, <3>1 DEF PostsFollow
    <3>3. i - 1 \in 0..n
      BY <1>1, <2>2
    <3>4. QED
      BY <1>3, <3>1, <3>2, <3>3
  <2>3. CASE i = n + 1
    <3>1. i - 1 = n /\ n \in 0..n
      BY <1>1, <2>3
    <3>2. Follows(n, window.worker)
      BY <1>1, <1>2, <2>1, <2>3
    <3>3. window'.posted[i].worker = window.worker
      BY <1>2, <2>3
    <3>4. QED
      BY <1>3, <3>1, <3>2, <3>3
  <2>4. QED
    BY <1>1, <1>2, <2>2, <2>3
<1>5. ASSUME kind = "connected"
      PROVE  Follows(n + 1, window.worker)'
  <2> DEFINE j == n + 1
  <2>1. j \in 1..n + 1 /\ \A k \in j..n + 1 : k = n + 1
    BY <1>1
  <2>2. window'.posted[j].kind = "connected"
    BY <1>2, <1>5
  <2>3. \A k \in j..n + 1 : window'.posted[k].worker = window.worker
    BY <1>2, <2>1
  <2>4. QED
    BY <1>2, <2>1, <2>2, <2>3 DEF Follows
<1>6. ASSUME kind = "report"
      PROVE  Follows(n + 1, window.worker)'
  <2>1. Follows(n, window.worker)
    BY <1>1, <1>6
  <2>2. \A k \in 1..n + 1 : k \in 1..n \/ k = n + 1
    BY <1>1
  <2>3. CASE \E j \in 1..n : /\ window.posted[j].kind = "connected"
                             /\ \A k \in j..n : window.posted[k].worker = window.worker
    <3>1. PICK j \in 1..n : /\ window.posted[j].kind = "connected"
                            /\ \A k \in j..n : window.posted[k].worker = window.worker
      BY <2>3
    <3>2. j \in 1..n + 1 /\ window'.posted[j].kind = "connected"
      BY <1>1, <1>2, <3>1
    <3>3. ASSUME NEW k \in j..n + 1
          PROVE  window'.posted[k].worker = window.worker
      <4>1. (k \in 1..n /\ k \in j..n) \/ k = n + 1
        BY <1>1
      <4>2. QED
        BY <1>2, <3>1, <4>1
    <3>4. QED
      BY <1>2, <3>2, <3>3 DEF Follows
  <2>4. CASE /\ \A k \in 1..n : window.posted[k].worker = window.worker
             /\ feed.connected => feed.by = window.worker
    <3>1. \A k \in 1..n + 1 : window'.posted[k].worker = window.worker
      BY <1>2, <2>2, <2>4
    <3>2. QED
      BY <1>2, <2>4, <3>1 DEF Follows
  <2>5. QED
    BY <2>1, <2>3, <2>4 DEF Follows
<1>7. Follows(Len(window.posted), window.worker)' <=> Follows(n + 1, window.worker)'
  BY <1>2
<1>8. QED
  BY <1>4, <1>5, <1>6, <1>7

\* The manager, libzmq, a call and the clock tell the window nothing.
LEMMA OtherStepsOrder ==
  ASSUME Ordered, ManagerStep \/ Joins \/ StatusStep \/ Tick
  PROVE  Ordered'
<1> USE DEF Ordered
<1>1. socket \in [link : {"none", "failed", "joining", "on"}, inbox : Nat]
  BY DEF Types
<1>2. CASE Publish
  <2>1. Types'
    BY <1>2, ManagerStepTypes DEF ManagerStep
  <2>2. UNCHANGED <<status, window, feed>> /\ socket' = Delivered
    BY <1>2 DEF Publish
  <2>3. socket'.link = socket.link
    BY <2>2, SocketsAre
  <2>4. socket' # socket => socket.link = "on"
    BY <2>2 DEF Delivered
  <2>5. ForGui => /\ Connects' => Connects
                  /\ socket'.inbox > 0 => Connects'
                  /\ socket.link = "none" => socket'.link = "none"
    BY <2>3, <2>4 DEF Connects, SocketFollows
  <2>6. QED
    BY <2>1, <2>2, <2>5, OthersKeepOrder DEF Feeds
<1>3. CASE Reload \/ ManagerStops
  <2>1. Types'
    BY <1>3, ManagerStepTypes DEF ManagerStep
  <2>2. UNCHANGED window /\ BreaksPace
    BY <1>3 DEF Reload, ManagerStops
  <2>3. Feeds' /\ UNCHANGED <<feed.connected, feed.received, feed.by, feed.from>>
    BY <2>2 DEF BreaksPace, Feeds
  <2>4. \/ UNCHANGED socket
        \/ \E s \in {socket, Delivered} : socket' = Disconnected(s)
    BY <1>3 DEF Reload, ManagerStops
  <2>5. CASE UNCHANGED socket
    <3>1. ForGui => /\ Connects' => Connects
                    /\ socket'.inbox > 0 => Connects'
                    /\ socket.link = "none" => socket'.link = "none"
      BY <2>5 DEF Connects, SocketFollows
    <3>2. QED
      BY <2>1, <2>2, <2>3, <3>1, OthersKeepOrder
  <2>6. CASE \E s \in {socket, Delivered} : socket' = Disconnected(s)
    <3>1. PICK s \in {socket, Delivered} : socket' = Disconnected(s)
      BY <2>6
    <3>2. s \in [link : {socket.link}, inbox : Nat] /\ (s # socket => socket.link = "on")
      <4>1. Delivered \in [link : {socket.link}, inbox : Nat]
        BY SocketsAre
      <4>2. Delivered # socket => socket.link = "on"
        BY DEF Delivered
      <4>3. QED
        BY <1>1, <4>1, <4>2
    <3>3. /\ socket'.link = IF socket.link = "on" THEN "joining" ELSE socket.link
          /\ socket'.inbox = s.inbox
      BY <3>1, <3>2 DEF Disconnected
    <3>4. ForGui => /\ Connects' => Connects
                    /\ socket'.inbox > 0 => Connects'
                    /\ socket.link = "none" => socket'.link = "none"
      <4>1. Connects' <=> Connects
        BY <3>3 DEF Connects
      <4>2. ASSUME ForGui, socket'.inbox > 0
            PROVE  Connects
        BY <3>2, <3>3, <4>2 DEF Connects, SocketFollows
      <4>3. QED
        BY <3>3, <4>1, <4>2
    <3>5. QED
      BY <2>1, <2>2, <2>3, <3>4, OthersKeepOrder
  <2>7. QED
    BY <2>4, <2>5, <2>6
<1>4. CASE EditFile \/ ManagerStarts
  <2>1. Types'
    BY <1>4, ManagerStepTypes DEF ManagerStep
  <2>2. UNCHANGED <<socket, status, window, feed>>
    BY <1>4 DEF EditFile, ManagerStarts, subscriberVars
  <2>3. ForGui => /\ Connects' => Connects
                  /\ socket'.inbox > 0 => Connects'
                  /\ socket.link = "none" => socket'.link = "none"
    BY <2>2 DEF Connects, SocketFollows
  <2>4. QED
    BY <2>1, <2>2, <2>3, OthersKeepOrder DEF Feeds
<1>5. CASE Joins
  <2>1. socket' = [socket EXCEPT !.link = "on"] /\ socket.link = "joining" /\ UNCHANGED <<manager, file, status, window, feed>>
    BY <1>5 DEF Joins
  <2>2. socket' \in [link : {"on"}, inbox : {socket.inbox}]
    BY <1>1, <2>1
  <2>3. Types'
    BY <1>1, <2>1, <2>2 DEF Types
  <2>4. ForGui => /\ Connects' => Connects
                  /\ socket'.inbox > 0 => Connects'
                  /\ socket.link = "none" => socket'.link = "none"
    BY <2>1, <2>2 DEF Connects
  <2>5. QED
    BY <2>1, <2>3, <2>4, OthersKeepOrder DEF Feeds
<1>6. CASE StatusStep
  <2>1. Types'
    BY <1>6, StatusStepTypes
  <2>2. UNCHANGED <<window, feed>> /\ ~ForGui
    BY <1>6 DEF StatusStep, StartStatus, WaitTimesOut, ReceiveReport, PrintTable, Types, ForGui
  <2>3. QED
    BY <2>1, <2>2, OthersKeepOrder DEF Feeds
<1>7. CASE Tick
  <2>1. Types'
    BY <1>7, TickTypes
  <2>2. UNCHANGED <<window, socket>>
    BY <1>7 DEF Tick
  <2> DEFINE age == Older(feed.age)
             waited == IF feed.connected /\ ~feed.received THEN Older(feed.waited) ELSE feed.waited
  <2>3. feed' = [feed EXCEPT !.age = age, !.waited = waited]
    BY <1>7 DEF Tick
  <2> HIDE DEF age, waited
  <2>4. Feeds' /\ UNCHANGED <<feed.connected, feed.received, feed.by, feed.from>>
    BY <2>3 DEF Feeds
  <2>5. ForGui => /\ Connects' => Connects
                  /\ socket'.inbox > 0 => Connects'
                  /\ socket.link = "none" => socket'.link = "none"
    BY <2>2 DEF Connects, SocketFollows
  <2>6. QED
    BY <2>1, <2>2, <2>4, <2>5, OthersKeepOrder
<1>8. QED
  BY <1>2, <1>3, <1>4, <1>5, <1>6, <1>7 DEF ManagerStep

\* What the worker and the window do keeps what is posted in order.
LEMMA GuiStepOrder ==
  ASSUME Ordered, GuiStep
  PROVE  Ordered'
<1> USE DEF Ordered
<1>1. Types'
  BY GuiStepTypes
<1>2. socket \in [link : {"none", "failed", "joining", "on"}, inbox : Nat]
  BY DEF Types
<1>3. CASE StartWorker
  <2>1. UNCHANGED feed /\ socket.link = "none" /\ window.at = "open"
    BY <1>3 DEF StartWorker
  <2>2. ~(socket.inbox > 0)
    BY <2>1 DEF SocketFollows, Connects, ForGui
  <2>3. CASE Post("connected") /\ socket' = [socket EXCEPT !.link = "joining"]
    <3>1. PostsFollow' /\ Follows(Len(window.posted), window.worker)'
      BY <2>1, <2>3, PostKeepsOrder
    <3>2. window'.at = "open"
      BY <2>1, <2>3, PostedIs
    <3>3. socket'.link = "joining"
      BY <1>2, <2>3
    <3>4. SocketFollows'
      BY <3>1, <3>2, <3>3 DEF SocketFollows, Connects
    <3>5. QED
      BY <1>1, <2>1, <3>1, <3>4 DEF Feeds, ReceivedIsOwn
  <2>4. CASE Post("error") /\ socket' = [socket EXCEPT !.link = "failed"]
    <3>1. PostsFollow'
      BY <2>1, <2>4, PostKeepsOrder
    <3>2. window'.at = "open"
      BY <2>1, <2>4, PostedIs
    <3>3. socket'.link = "failed" /\ socket'.inbox = socket.inbox
      BY <1>2, <2>4
    <3>4. SocketFollows'
      BY <2>2, <3>2, <3>3 DEF SocketFollows, Connects
    <3>5. QED
      BY <1>1, <2>1, <3>1, <3>4 DEF Feeds, ReceivedIsOwn
  <2>5. QED
    BY <1>3, <2>3, <2>4 DEF StartWorker
<1>4. CASE ForwardReport
  <2> DEFINE n == socket.inbox - 1
  <2>1. /\ UNCHANGED feed
        /\ socket.inbox > 0
        /\ window.at = "open"
        /\ Post("report")
        /\ socket' = [socket EXCEPT !.inbox = n]
    BY <1>4 DEF ForwardReport
  <2> HIDE DEF n
  <2>2. Connects
    BY <2>1 DEF SocketFollows, ForGui
  <2>3. Follows(Len(window.posted), window.worker)
    BY <2>1, <2>2 DEF SocketFollows, ForGui
  <2>4. PostsFollow' /\ Follows(Len(window.posted), window.worker)'
    BY <2>1, <2>3, PostKeepsOrder
  <2>5. window'.at = "open"
    BY <2>1, PostedIs
  <2>6. socket'.link = socket.link
    BY <1>2, <2>1
  <2>7. SocketFollows'
    BY <2>2, <2>4, <2>5, <2>6 DEF SocketFollows, Connects
  <2>8. QED
    BY <1>1, <2>1, <2>4, <2>7 DEF Feeds, ReceivedIsOwn
<1>5. CASE HandlePosted
  <2> DEFINE first == window.posted[1]
  <2>1. PICK len \in Nat : len = Len(window.posted)
    BY RecordsAre
  <2>2. window.posted \in Seq(Posts) /\ window.posted # <<>>
    BY <1>5, RecordsAre DEF HandlePosted
  <2>3. len > 0 /\ first \in Posts /\ first = Head(window.posted)
    BY <2>1, <2>2
  <2>4. Len(Tail(window.posted)) = len - 1 /\ \A k \in 1..len - 1 : Tail(window.posted)[k] = window.posted[k + 1]
    BY <2>1, <2>2, <2>3
  <2>5. window' = [window EXCEPT !.posted = Tail(window.posted)] /\ UNCHANGED socket
    BY <1>5 DEF HandlePosted
  <2>6. window'.posted = Tail(window.posted) /\ window'.at = window.at /\ window'.worker = window.worker
    BY <2>5 DEF Types
  <2>7. Len(window'.posted) = len - 1 /\ \A k \in 1..len - 1 : window'.posted[k] = window.posted[k + 1]
    BY <2>4, <2>6
  <2>8. /\ first.kind = "connected" => feed' = OnConnected(first.worker)
        /\ first.kind = "error" => feed' = OnDisconnected
        /\ first.kind = "report" => feed' = OnReport(first.worker)
    <3>1. feed' = CASE first.kind = "connected" -> OnConnected(first.worker)
                  []   first.kind = "error" -> OnDisconnected
                  []   first.kind = "report" -> OnReport(first.worker)
      BY <1>5, <2>3 DEF HandlePosted
    <3>2. QED
      BY <3>1
  <2>9. first.worker \in Nat /\ first.kind \in {"connected", "error", "report"}
    BY <2>3 DEF Posts
  <2>10. Feeds'
    BY <2>8, <2>9, FeedIs
  <2>11. /\ first.kind = "connected" => feed'.by = first.worker /\ ~feed'.received
         /\ first.kind = "error" => ~feed'.connected
         /\ first.kind = "report" => /\ feed'.connected = feed.connected
                                     /\ feed'.by = feed.by
                                     /\ feed'.from = first.worker
    BY <2>8, <2>9, FeedIs
  <2>12. ASSUME NEW n \in 1..len, NEW w, Follows(n, w)
         PROVE  Follows(n - 1, w)'
    <3>1. n \in Nat /\ n > 0 /\ \A k \in 1..n - 1 : k \in 1..len - 1
      BY <2>1
    <3>2. \A k \in 1..n - 1 : window'.posted[k] = window.posted[k + 1]
      BY <2>7, <3>1
    <3>3. /\ first.kind = "connected" /\ feed'.connected => feed'.by = first.worker
          /\ first.kind # "connected" /\ feed'.connected => feed.connected /\ feed'.by = feed.by
      BY <2>9, <2>11
    <3>4. QED
      BY <2>12, <3>1, <3>2, <3>3, FollowsOn
  <2>13. PostsFollow'
    <3>1. SUFFICES ASSUME NEW i \in 1..len - 1, window'.posted[i].kind = "report"
                   PROVE  Follows(i - 1, window.posted[i].worker)'
      BY <2>7 DEF PostsFollow
    <3> DEFINE j == i + 1
    <3>2. j \in 1..len /\ j - 1 \in 1..len /\ i = j - 1
      BY <2>1
    <3>3. window'.posted[i] = window.posted[j]
      BY <2>7
    <3> HIDE DEF j
    <3>4. Follows(j - 1, window.posted[j].worker)
      BY <2>1, <3>1, <3>2, <3>3 DEF PostsFollow
    <3>5. PICK w : w = window.posted[j].worker
      OBVIOUS
    <3>6. Follows(i, w)
      BY <3>2, <3>4, <3>5
    <3>7. Follows(i - 1, w)'
      BY <2>12, <3>2, <3>6
    <3>8. QED
      BY <3>3, <3>5, <3>7
  <2>14. SocketFollows'
    <3>1. ASSUME ForGui, Connects
          PROVE  Follows(Len(window.posted), window.worker)'
      <4>1. PICK w : w = window.worker
        OBVIOUS
      <4>2. Follows(len, w)
        BY <2>1, <3>1, <4>1 DEF SocketFollows
      <4>3. len \in 1..len
        BY <2>3
      <4>4. Follows(len - 1, w)'
        BY <2>12, <4>2, <4>3
      <4>5. QED
        BY <2>6, <2>7, <4>1, <4>4
    <3>2. ForGui' = ForGui /\ Connects' = Connects
      BY <2>5, <2>6 DEF ForGui, Connects
    <3>3. QED
      BY <2>5, <2>6, <3>1, <3>2 DEF SocketFollows
  <2>15. ReceivedIsOwn'
    <3>1. CASE first.kind \in {"connected", "error"}
      BY <2>11, <3>1 DEF ReceivedIsOwn
    <3>2. CASE first.kind = "report"
      <4>1. Follows(0, first.worker)
        BY <2>1, <2>3, <3>2 DEF PostsFollow
      <4>2. feed.connected => feed.by = first.worker
        BY <4>1 DEF Follows
      <4>3. QED
        BY <2>11, <3>2, <4>2 DEF ReceivedIsOwn
    <3>3. QED
      BY <2>9, <3>1, <3>2
  <2>16. QED
    BY <1>1, <2>10, <2>13, <2>14, <2>15
<1>6. CASE Reconnect
  <2>1. /\ feed' = OnDisconnected
        /\ socket' = [link |-> "none", inbox |-> 0]
        /\ window' = [window EXCEPT !.at = "replacing"] \/ window' = [window EXCEPT !.at = "replacing", !.posted = <<>>]
    BY <1>6 DEF Reconnect
  <2>2. Feeds' /\ ~feed'.connected
    BY <2>1, FeedIs
  <2>3. socket'.link = "none" /\ ~(socket'.inbox > 0)
    BY <2>1
  <2>4. window'.posted = window.posted \/ window'.posted = <<>>
    BY <2>1 DEF Types
  <2>5. PostsFollow'
    <3>1. CASE window'.posted = <<>>
      BY <3>1 DEF PostsFollow
    <3>2. CASE window'.posted = window.posted
      <4>1. SUFFICES ASSUME NEW i \in 1..Len(window.posted), window.posted[i].kind = "report"
                     PROVE  Follows(i - 1, window.posted[i].worker)'
        BY <3>2 DEF PostsFollow
      <4>2. PICK w : w = window.posted[i].worker
        OBVIOUS
      <4>3. Follows(i - 1, w) /\ i - 1 \in Nat
        BY <4>1, <4>2, RecordsAre DEF PostsFollow
      <4>4. Follows(i - 1, w)'
        BY <2>2, <3>2, <4>3, FollowsKept
      <4>5. QED
        BY <3>2, <4>2, <4>4
    <3>3. QED
      BY <2>4, <3>1, <3>2
  <2>6. SocketFollows'
    BY <2>3 DEF SocketFollows, Connects
  <2>7. QED
    BY <1>1, <2>2, <2>5, <2>6 DEF ReceivedIsOwn
<1>7. CASE WorkerReplaced
  <2>1. window.at = "replacing" /\ window' = [window EXCEPT !.at = "open", !.worker = @ + 1] /\ UNCHANGED <<socket, feed>>
    BY <1>7 DEF WorkerReplaced
  <2>2. socket.link = "none" /\ ~(socket.inbox > 0)
    BY <2>1 DEF SocketFollows, Connects, ForGui
  <2>3. window'.posted = window.posted /\ window'.at = "open"
    BY <2>1 DEF Types
  <2>4. PostsFollow'
    <3>1. SUFFICES ASSUME NEW i \in 1..Len(window.posted), window.posted[i].kind = "report"
                   PROVE  Follows(i - 1, window.posted[i].worker)'
      BY <2>3 DEF PostsFollow
    <3>2. PICK w : w = window.posted[i].worker
      OBVIOUS
    <3>3. Follows(i - 1, w) /\ i - 1 \in Nat
      BY <3>1, <3>2, RecordsAre DEF PostsFollow
    <3>4. Follows(i - 1, w)'
      BY <2>1, <2>3, <3>3, FollowsKept
    <3>5. QED
      BY <2>3, <3>2, <3>4
  <2>5. SocketFollows'
    BY <2>1, <2>2, <2>3 DEF SocketFollows, Connects
  <2>6. QED
    BY <1>1, <2>1, <2>4, <2>5 DEF Feeds, ReceivedIsOwn
<1>8. QED
  BY <1>3, <1>4, <1>5, <1>6, <1>7 DEF GuiStep

\* At first nothing is posted or shown.
LEMMA InitOrdered == Init => Ordered
<1> SUFFICES ASSUME Init
             PROVE  Ordered
  OBVIOUS
<1>1. Types
  BY InitIInv DEF IInv
<1>2. window.posted = <<>> /\ window.at # "replacing" /\ socket = [link |-> "none", inbox |-> 0]
  BY DEF Init
<1>3. feed = [connected |-> FALSE, waited |-> 0, age |-> TooOld, gaps |-> <<>>, received |-> FALSE,
              by |-> 0, from |-> 0, steady |-> FALSE]
  BY DEF Init
<1>4. Feeds /\ ReceivedIsOwn
  BY <1>3 DEF Feeds, ReceivedIsOwn
<1>5. PostsFollow /\ SocketFollows
  BY <1>2 DEF PostsFollow, SocketFollows, Connects
<1>6. QED
  BY <1>1, <1>4, <1>5 DEF Ordered

\* However often the user reconnects, and whatever earlier workers still have posted, the GUI shows a
\* connection live only by a report that came over it (ZmqWorker, FeedMonitor and _reconnect of
\* process_monitor_gui.py).
THEOREM LiveByItsOwnReports == Spec => []LiveIsOwn
<1>1. Init => Ordered
  BY InitOrdered
<1>2. Ordered /\ [Next]_vars => Ordered'
  <2> SUFFICES ASSUME Ordered, [Next]_vars
               PROVE  Ordered'
    OBVIOUS
  <2>1. CASE UNCHANGED vars
    BY <2>1 DEF vars, subscriberVars, Ordered, Types, Feeds, PostsFollow, SocketFollows, ReceivedIsOwn,
                Follows, Connects, ForGui
  <2>2. QED
    BY <2>1, OtherStepsOrder, GuiStepOrder DEF Next
<1>3. Ordered => LiveIsOwn
  BY DEF Ordered, ReceivedIsOwn, LiveIsOwn, Shown
<1>4. QED
  BY <1>1, <1>2, <1>3, PTL DEF Spec

----------------------------------------------------------------------------
(* The pace of the reports *)

\* Fields of the feed that time and reports change.
Measures == feed.age \in Nat /\ feed.gaps \in Seq(Nat)

\* A worker that cannot connect says so last of all.
FailureTold ==
  /\ socket.link \in {"none", "failed"} => socket.inbox = 0
  /\ socket.link = "failed" =>
       \/ ~feed.connected /\ window.posted = <<>>
       \/ window.posted # <<>> /\ window.posted[Len(window.posted)].kind = "error"

\* How much of an interval lies between a round and the next, or a late one.
Shortest == manager.interval - Late

\* The reports on their way to the feed.
Underway == socket.inbox + Len(window.posted)

\* While reports come: one is on its way at most, and then the next is not due yet; with the age of
\* the last one that gives how long the manager was between two.
Timed ==
  /\ socket.link = "on"
  /\ \A i \in 1..Len(window.posted) : window.posted[i].kind = "report"
  /\ Underway <= 1
  /\ Underway = 1 => /\ manager.due > 0 /\ manager.due >= Shortest /\ manager.due <= manager.interval
                     /\ feed.received => feed.age >= Shortest /\ feed.age <= manager.interval + Late
  /\ Underway = 0 /\ feed.received =>
       feed.age + manager.due >= Shortest /\ feed.age + manager.due <= manager.interval

\* Before that: a connection of an earlier worker is shown, the next one's is posted, or the socket
\* has not joined.
Awaited ==
  /\ ~feed.received
  /\ \/ window.posted # <<>> /\ window.posted[1].kind # "report"
     \/ socket.link \in {"none", "joining"} /\ window.posted = <<>> /\ socket.inbox = 0

\* What a steady feed is: the manager is up and its gaps are not too short.
Paced ==
  feed.connected /\ feed.steady =>
    /\ manager.up
    /\ window.at = "open"
    /\ feed.gaps # <<>> => feed.received
    /\ \A i \in 1..Len(feed.gaps) : feed.gaps[i] >= Shortest
    /\ Awaited \/ Timed

SteadyInv == Types /\ OnTime /\ Feeds /\ Measures /\ FailureTold /\ Paced

\* A round is late by half its interval at most, or the reports are young enough all the same.
SlackSuffices == \A i \in Intervals : i + Late <= StaleAfter \/ 2 * Late <= i

\* Every nonempty set of natural numbers has a least element.
LEMMA LeastNatural ==
  ASSUME NEW T \in SUBSET Nat, T # {}
  PROVE  \E x \in T : \A y \in T : x <= y
<1>1. IsWellFoundedOn(OpToRel(<,Nat), Nat)
  BY NatLessThanWellFounded
<1>2. PICK x \in T : \A y \in T : ~ (<<y, x>> \in OpToRel(<,Nat))
  BY <1>1, WFMin, Zenon
<1>3. \A y \in T : ~ (y < x)
  BY <1>2 DEF OpToRel
<1>4. QED
  BY <1>3

\* Among finitely many numbers one is the greatest: the least number of them of which none is has one
\* more than a number of them of which one is.
LEMMA GreatestOf ==
  ASSUME NEW n \in Nat, n > 0, NEW f \in [1..n -> Nat]
  PROVE  \E k \in 1..n : \A i \in 1..n : f[i] <= f[k]
<1> DEFINE Good(m) == \E k \in 1..m : \A i \in 1..m : f[i] <= f[k]
           Bad == {m \in Nat : m > 0 /\ m <= n /\ ~Good(m)}
<1>1. SUFFICES ASSUME ~Good(n)
               PROVE  FALSE
  OBVIOUS
<1>2. PICK m \in Bad : \A j \in Bad : m <= j
  <2>1. n \in Bad
    BY <1>1
  <2>2. Bad \in SUBSET Nat
    OBVIOUS
  <2> HIDE DEF Bad
  <2>3. QED
    BY <2>1, <2>2, LeastNatural
<1>3. m \in Nat /\ m > 0 /\ m <= n
  OBVIOUS
<1>4. m # 1
  <2>1. 1 \in 1..n /\ f[1] \in Nat
    BY <1>3
  <2>2. 1 \in 1..1 /\ \A i \in 1..1 : f[i] <= f[1]
    BY <2>1
  <2>3. Good(1)
    BY <2>2
  <2>4. QED
    BY <2>3
<1>5. m - 1 \in Nat /\ m - 1 > 0 /\ m - 1 <= n /\ ~(m <= m - 1)
  BY <1>3, <1>4
<1>6. m - 1 \notin Bad
  BY <1>2, <1>5
<1>7. Good(m - 1)
  BY <1>5, <1>6
<1>8. PICK k \in 1..m - 1 : \A i \in 1..m - 1 : f[i] <= f[k]
  BY <1>7
<1>9. /\ \A i \in 1..m : i = m \/ i \in 1..m - 1
      /\ \A i \in 1..m : f[i] \in Nat
      /\ k \in 1..m /\ m \in 1..m
  BY <1>3
<1>10. CASE f[m] <= f[k]
  <2>1. \A i \in 1..m : f[i] <= f[k]
    BY <1>8, <1>9, <1>10
  <2>2. QED
    BY <1>9, <2>1
<1>11. CASE f[k] <= f[m]
  <2>1. \A i \in 1..m - 1 : f[i] <= f[m]
    <3>1. \A i \in 1..m - 1 : i \in 1..m
      BY <1>3
    <3>2. QED
      BY <1>8, <1>9, <1>11, <3>1
  <2>2. \A i \in 1..m : f[i] <= f[m]
    BY <1>9, <2>1
  <2>3. QED
    BY <1>9, <2>2
<1>12. QED
  BY <1>9, <1>10, <1>11

\* A finite set of numbers has a greatest.
LEMMA GreatestNatural ==
  ASSUME NEW S \in SUBSET Nat, IsFiniteSet(S), S # {}
  PROVE  \E x \in S : \A y \in S : x >= y
<1> DEFINE n == Cardinality(S)
<1>1. n \in Nat /\ n > 0 /\ ExistsBijection(1..n, S)
  <2>1. n \in Nat /\ ExistsBijection(1..n, S)
    BY FS_CardinalityType
  <2>2. n # 0
    BY FS_EmptySet
  <2>3. QED
    BY <2>1, <2>2
<1> HIDE DEF n
<1>2. PICK f \in [1..n -> S] : \A y \in S : \E i \in 1..n : f[i] = y
  BY <1>1 DEF ExistsBijection, Bijection, Surjection
<1>3. f \in [1..n -> Nat]
  OBVIOUS
<1>4. PICK k \in 1..n : \A i \in 1..n : f[i] <= f[k]
  BY <1>1, <1>3, GreatestOf
<1>5. ASSUME NEW y \in S
      PROVE  f[k] >= y
  <2>1. PICK i \in 1..n : f[i] = y
    BY <1>2
  <2>2. f[i] <= f[k] /\ f[k] \in Nat /\ y \in Nat
    BY <1>4
  <2>3. QED
    BY <2>1, <2>2
<1>6. QED
  BY <1>5

\* No age is counted beyond any interval and its lateness.
LEMMA TooOldIs ==
  ASSUME NEW i \in Intervals
  PROVE  TooOld \in Nat /\ i + Late < TooOld
<1> DEFINE m == Max(Intervals)
           a == 3 * (m + Late)
           S == {StaleAfter, a}
<1>1. m \in Nat /\ m >= i
  <2>1. PICK x \in Intervals : \A y \in Intervals : x >= y
    BY ReportFeedAssumption, GreatestNatural
  <2>2. m \in Intervals /\ \A y \in Intervals : m >= y
    BY <2>1 DEF Max
  <2>3. QED
    BY <2>2, IntervalIs
<1>2. a \in Nat /\ a >= i + Late
  BY <1>1, BoundsAre, IntervalIs
<1>3. StaleAfter \in Nat
  BY ReportFeedAssumption
<1> HIDE DEF m, a
<1>4. \E x \in S : \A y \in S : x >= y
  BY <1>2, <1>3
<1>5. Max(S) \in S /\ Max(S) >= a
  BY <1>4 DEF Max
<1>6. TooOld = Max(S) + 1
  BY DEF TooOld, m, a
<1> HIDE DEF S
<1>7. Max(S) \in Nat
  BY <1>2, <1>3, <1>5 DEF S
<1>8. i \in Nat /\ Late \in Nat
  BY IntervalIs, BoundsAre
<1>9. QED
  BY <1>2, <1>5, <1>6, <1>7, <1>8

\* Each of the ranks is taken by one of the gaps.
LEMMA RankedIs ==
  ASSUME NEW gaps \in Seq(Nat), NEW k \in 1..Len(gaps)
  PROVE  \E i \in 1..Len(gaps) : Ranked(gaps, k) = gaps[i]
<1> DEFINE n == Len(gaps)
           Below(gap) == {i \in DOMAIN gaps : gaps[i] <= gap}
           T == {gap \in ToSet(gaps) : k <= Cardinality(Below(gap))}
<1>1. n \in Nat /\ n > 0 /\ DOMAIN gaps = 1..n /\ gaps \in [1..n -> Nat]
  OBVIOUS
<1>2. ToSet(gaps) = {gaps[i] : i \in 1..n}
  BY <1>1 DEF ToSet
<1> HIDE DEF n
<1>3. PICK j \in 1..n : \A i \in 1..n : gaps[i] <= gaps[j]
  BY <1>1, GreatestOf
<1>4. Cardinality(Below(gaps[j])) = n
  <2>1. Below(gaps[j]) = 1..n
    BY <1>1, <1>3
  <2>2. Cardinality(1..n) = n
    BY <1>1, FS_Interval
  <2>3. QED
    BY <2>1, <2>2
<1>5. gaps[j] \in T
  <2>1. k <= n
    BY DEF n
  <2>2. QED
    BY <1>2, <1>4, <2>1
<1>6. T \subseteq Nat
  BY <1>1, <1>2
<1>7. \E x \in T : \A y \in T : x <= y
  <2> HIDE DEF T
  <2>1. QED
    BY <1>5, <1>6, LeastNatural
<1>8. Min(T) \in T
  <2> HIDE DEF T
  <2>1. QED
    BY <1>7, Zenon DEF Min
<1>9. Ranked(gaps, k) = Min(T)
  BY DEF Ranked
<1>10. Min(T) \in ToSet(gaps)
  BY <1>8
<1>11. QED
  BY <1>2, <1>9, <1>10 DEF n

\* The median is at least what every gap is.
LEMMA MedianIs ==
  ASSUME NEW gaps \in Seq(Nat), gaps # <<>>, NEW least \in Int,
         \A i \in 1..Len(gaps) : gaps[i] >= least
  PROVE  TwiceMedian(gaps) \in Nat /\ TwiceMedian(gaps) >= 2 * least
<1> DEFINE n == Len(gaps)
           low == (n + 1) \div 2
           high == n \div 2 + 1
<1>1. n \in Nat /\ n > 0
  OBVIOUS
<1>2. low \in 1..n /\ high \in 1..n
  <2> HIDE DEF n
  <2>1. QED
    BY <1>1
<1>3. TwiceMedian(gaps) = Ranked(gaps, low) + Ranked(gaps, high)
  BY DEF TwiceMedian
<1> HIDE DEF low, high
<1>4. PICK i \in 1..n : Ranked(gaps, low) = gaps[i]
  BY <1>2, RankedIs
<1>5. PICK j \in 1..n : Ranked(gaps, high) = gaps[j]
  BY <1>2, RankedIs
<1>6. gaps[i] \in Nat /\ gaps[j] \in Nat /\ gaps[i] >= least /\ gaps[j] >= least
  OBVIOUS
<1>7. QED
  BY <1>3, <1>4, <1>5, <1>6

\* The quantities of the pace.
LEMMA PaceIs ==
  ASSUME Types, Measures
  PROVE  /\ Late \in Nat
         /\ manager.interval \in Nat
         /\ manager.due \in Int
         /\ Shortest \in Int
         /\ Shortest = manager.interval - Late
         /\ Shortest <= manager.interval
         /\ Len(window.posted) \in Nat
         /\ socket.inbox \in Nat
         /\ feed.age \in Nat
<1>1. Late \in Nat /\ manager.interval \in Nat /\ manager.due \in Int /\ socket.inbox \in Nat
      /\ window.posted \in Seq(Posts)
  BY BoundsAre, RecordsAre
<1> DEFINE i == manager.interval
<1>2. Shortest = i - Late
  BY DEF Shortest
<1>3. i \in Nat
  BY <1>1
<1> HIDE DEF i
<1>4. Shortest \in Int /\ Shortest <= i
  BY <1>1, <1>2, <1>3
<1>5. QED
  BY <1>1, <1>2, <1>4 DEF Measures, i

\* What a step that leaves the GUI's side alone leaves of it.
LEMMA MeasuresStay ==
  ASSUME Feeds, Measures, FailureTold, NEW steady \in BOOLEAN,
         feed' = [feed EXCEPT !.steady = steady]
  PROVE  /\ Feeds'
         /\ Measures'
         /\ feed'.connected = feed.connected
         /\ feed'.received = feed.received
         /\ feed'.age = feed.age
         /\ feed'.gaps = feed.gaps
         /\ feed'.steady = steady
BY DEF Feeds, Measures

\* A round publishes: the report before it has been shown as long as it was due.
LEMMA PublishPace ==
  ASSUME SteadyInv, 0 < Queue, Publish
  PROVE  SteadyInv'
<1> DEFINE i == manager.interval
           due == manager.due
           d == due + i
           m == NextDue(d)
           n == Len(window.posted)
           age == feed.age
<1>1. /\ manager.up /\ due <= 0 /\ manager' = [manager EXCEPT !.due = m]
      /\ socket' = Delivered /\ UNCHANGED <<file, changes, status, window, feed>>
  BY DEF Publish
<1>2. Types'
  BY ManagerStepTypes DEF SteadyInv, ManagerStep
<1>3. /\ Late \in Nat /\ i \in Nat /\ i > 0 /\ due \in Int /\ n \in Nat /\ age \in Nat
      /\ Shortest = i - Late
  BY PaceIs, RecordsAre DEF SteadyInv
<1>4. d \in Int /\ d <= i
  <2> HIDE DEF i, due
  <2>1. QED
    BY <1>1, <1>3
<1>5. m \in Int /\ m > 0 /\ m <= i
  <2> HIDE DEF d
  <2>1. QED
    BY <1>4, NextDueIs DEF SteadyInv
<1>6. due >= 0 - Late
  BY DEF SteadyInv, OnTime
<1>7. m >= i - Late
  <2>1. m = IF d <= 0 THEN i ELSE d
    BY DEF NextDue
  <2> HIDE DEF m, i, due
  <2>2. CASE d <= 0
    BY <1>3, <2>1, <2>2
  <2>3. CASE ~(d <= 0)
    <3>1. m = due + i
      BY <2>1, <2>3
    <3>2. QED
      BY <1>3, <1>6, <3>1
  <2>4. QED
    BY <2>2, <2>3
<1>8. /\ manager'.due = m /\ manager'.up /\ manager'.interval = i
  <2> HIDE DEF m
  <2>1. QED
    BY <1>1 DEF SteadyInv, Types
<1> HIDE DEF d, m
<1>9. OnTime'
  <2> HIDE DEF i, due
  <2>1. manager'.due >= 0 - Late
    BY <1>3, <1>5, <1>8
  <2>2. QED
    BY <2>1 DEF OnTime
<1>10. Feeds' /\ Measures'
  BY <1>1 DEF SteadyInv, Feeds, Measures
<1>11. socket'.link = socket.link /\ (socket.link # "on" => socket' = socket)
  BY <1>1, SocketsAre DEF Delivered, SteadyInv, Types
<1>12. FailureTold'
  BY <1>1, <1>11 DEF SteadyInv, FailureTold
<1>13. ASSUME feed.connected, feed.steady
       PROVE  Awaited' \/ Timed'
  <2>1. Awaited \/ Timed
    BY <1>13 DEF SteadyInv, Paced
  <2>2. CASE Awaited
    BY <1>1, <1>11, <2>2 DEF Awaited
  <2>3. CASE Timed
    <3>1. ~(Underway = 1) /\ Underway <= 1
      BY <1>1, <1>3, <2>3 DEF Timed
    <3>2. Underway = socket.inbox + n /\ socket.inbox \in Nat
      BY RecordsAre DEF Underway, SteadyInv
    <3>3. Underway = 0 /\ socket.inbox = 0 /\ n = 0
      <4> HIDE DEF n
      <4>1. QED
        BY <1>3, <3>1, <3>2
    <3>4. Delivered = [socket EXCEPT !.inbox = 1]
      BY <2>3, <3>3 DEF Delivered, Timed
    <3>5. socket'.link = "on" /\ socket'.inbox = 1
      BY <1>1, <2>3, <3>4 DEF SteadyInv, Types, Timed
    <3>6. Underway' = 1
      BY <1>1, <3>3, <3>5 DEF Underway
    <3>7. Shortest' = i - Late
      BY <1>8 DEF Shortest
    <3>8. feed.received => age >= i - Late /\ age <= i + Late
      <4>1. feed.received => age + due >= i - Late /\ age + due <= i
        BY <1>3, <2>3, <3>3 DEF Timed
      <4> HIDE DEF i, due, age
      <4>2. QED
        BY <1>1, <1>3, <1>6, <4>1
    <3>9. window'.posted = window.posted /\ \A k \in 1..Len(window.posted) : window.posted[k].kind = "report"
      BY <1>1, <2>3 DEF Timed
    <3> HIDE DEF i, due, age, n
    <3>10. feed' = feed
      BY <1>1
    <3>11. QED
      BY <1>3, <1>5, <1>7, <1>8, <3>5, <3>6, <3>7, <3>8, <3>9, <3>10 DEF Timed, age
  <2>4. QED
    BY <2>1, <2>2, <2>3
<1>14. Shortest' = Shortest
  BY <1>8 DEF Shortest
<1>15. Paced'
  BY <1>1, <1>8, <1>13, <1>14 DEF SteadyInv, Paced
<1>16. QED
  BY <1>2, <1>9, <1>10, <1>12, <1>15 DEF SteadyInv

\* The manager's other steps break the pace, or are not of one that keeps it.
LEMMA ManagerPace ==
  ASSUME SteadyInv, 0 < Queue, ManagerStep
  PROVE  SteadyInv'
<1>1. Types'
  BY ManagerStepTypes DEF SteadyInv
<1>2. Types /\ OnTime /\ Feeds /\ Measures /\ FailureTold /\ Paced
  BY DEF SteadyInv
<1>3. CASE Publish
  BY <1>3, PublishPace
<1>4. CASE Reload
  <2>1. /\ feed' = [feed EXCEPT !.steady = FALSE] /\ UNCHANGED <<socket, window>>
        /\ manager' = [manager EXCEPT !.interval = file]
    BY <1>4 DEF Reload, BreaksPace
  <2>2. Feeds' /\ Measures' /\ feed'.connected = feed.connected /\ ~feed'.steady
    BY <1>2, <2>1, MeasuresStay
  <2>3. OnTime'
    BY <1>2, <2>1 DEF OnTime, Types
  <2>4. FailureTold' /\ Paced'
    BY <1>2, <2>1, <2>2 DEF FailureTold, Paced
  <2>5. QED
    BY <1>1, <2>2, <2>3, <2>4 DEF SteadyInv
<1>5. CASE EditFile
  BY <1>1, <1>2, <1>5 DEF EditFile, subscriberVars, SteadyInv, OnTime, Feeds, Measures, FailureTold, Paced,
     Awaited, Timed, Underway, Shortest
<1>6. CASE ManagerStops
  <2>1. /\ feed' = [feed EXCEPT !.steady = FALSE] /\ UNCHANGED window
        /\ socket' \in {Disconnected(Delivered), Disconnected(socket)}
    BY <1>6 DEF ManagerStops, BreaksPace
  <2>2. Feeds' /\ Measures' /\ feed'.connected = feed.connected /\ ~feed'.steady
    BY <1>2, <2>1, MeasuresStay
  <2>3. manager'.due = 0
    BY <1>2, <1>6 DEF ManagerStops, Types
  <2>4. OnTime'
    BY <2>3, BoundsAre DEF OnTime
  <2>5. socket'.link = "failed" => socket.link = "failed"
    BY <1>2, <2>1 DEF Disconnected, Delivered, Types
  <2>6. socket'.link \in {"none", "failed"} => socket' = socket
    BY <1>2, <2>1 DEF Disconnected, Delivered, Types
  <2>7. FailureTold' /\ Paced'
    BY <1>2, <2>1, <2>2, <2>5, <2>6 DEF FailureTold, Paced
  <2>8. QED
    BY <1>1, <2>2, <2>4, <2>7 DEF SteadyInv
<1>7. CASE ManagerStarts
  <2>1. /\ ~manager.up /\ UNCHANGED <<socket, window, feed>>
        /\ manager' = [manager EXCEPT !.up = TRUE, !.interval = file]
    BY <1>7 DEF ManagerStarts, subscriberVars
  <2>2. OnTime'
    BY <1>2, <2>1 DEF OnTime, Types
  <2>3. ~(feed.connected /\ feed.steady)
    BY <1>2, <2>1 DEF Paced
  <2>4. FailureTold' /\ Paced' /\ Feeds' /\ Measures'
    BY <1>2, <2>1, <2>3 DEF FailureTold, Paced, Feeds, Measures
  <2>5. QED
    BY <1>1, <2>2, <2>4 DEF SteadyInv
<1>8. QED
  BY <1>3, <1>4, <1>5, <1>6, <1>7 DEF ManagerStep

\* The socket joins between two reports.
LEMMA JoinsPace ==
  ASSUME SteadyInv, Joins
  PROVE  SteadyInv'
<1>1. Types /\ OnTime /\ Feeds /\ Measures /\ FailureTold /\ Paced
  BY DEF SteadyInv
<1>2. /\ socket.link = "joining" /\ socket' = [socket EXCEPT !.link = "on"]
      /\ UNCHANGED <<manager, file, changes, status, window, feed>>
  BY DEF Joins
<1>3. socket'.link = "on" /\ socket'.inbox = socket.inbox
  BY <1>1, <1>2 DEF Types
<1>4. Types'
  BY <1>1, <1>2 DEF Types
<1>5. OnTime' /\ Feeds' /\ Measures'
  BY <1>1, <1>2 DEF OnTime, Feeds, Measures
<1>6. FailureTold'
  BY <1>3 DEF FailureTold
<1>7. ASSUME feed.connected, feed.steady
      PROVE  Awaited' \/ Timed'
  <2>1. Awaited
    BY <1>1, <1>2, <1>7 DEF Paced, Timed
  <2>2. CASE window.posted # <<>> /\ window.posted[1].kind # "report"
    BY <1>2, <2>1, <2>2 DEF Awaited
  <2>3. CASE window.posted = <<>> /\ socket.inbox = 0
    <3>1. Underway' = 0 /\ window'.posted = <<>>
      BY <1>2, <1>3, <2>3 DEF Underway
    <3>2. Timed'
      BY <1>2, <1>3, <2>1, <3>1 DEF Timed, Awaited
    <3>3. QED
      BY <3>2
  <2>4. QED
    BY <2>1, <2>2, <2>3 DEF Awaited
<1>8. Paced'
  BY <1>1, <1>2, <1>7 DEF Paced, Shortest
<1>9. QED
  BY <1>4, <1>5, <1>6, <1>8 DEF SteadyInv

\* Where a call of --status waits there is no window.
LEMMA StatusPace ==
  ASSUME SteadyInv, StatusStep
  PROVE  SteadyInv'
<1>1. Types /\ OnTime /\ Feeds /\ Measures /\ FailureTold /\ Paced
  BY DEF SteadyInv
<1>2. Types'
  BY <1>1, StatusStepTypes
<1>3. window.at = "closed" /\ UNCHANGED <<manager, file, window, feed>>
  BY <1>1 DEF StatusStep, StartStatus, WaitTimesOut, ReceiveReport, PrintTable, Types, ForGui
<1>4. OnTime' /\ Feeds' /\ Measures'
  BY <1>1, <1>3 DEF OnTime, Feeds, Measures
<1>5. ~(feed.connected /\ feed.steady)
  BY <1>1, <1>3 DEF Paced
<1>6. Paced'
  BY <1>3, <1>5 DEF Paced
<1>7. \/ socket' = socket
      \/ socket'.link = "joining"
      \/ socket'.link = socket.link /\ socket.inbox > 0
  BY <1>1 DEF StatusStep, StartStatus, WaitTimesOut, ReceiveReport, PrintTable, Types
<1>8. FailureTold'
  <2>1. ~(socket.inbox > 0 /\ socket.link \in {"none", "failed"})
    BY <1>1 DEF FailureTold
  <2>2. QED
    BY <1>1, <1>3, <1>7, <2>1 DEF FailureTold
<1>9. QED
  BY <1>2, <1>4, <1>6, <1>8 DEF SteadyInv

\* What is left of the posts when the first has been handled.
LEMMA TailIs ==
  ASSUME NEW posted \in Seq(Posts), posted # <<>>
  PROVE  /\ Tail(posted) \in Seq(Posts)
         /\ Head(posted) = posted[1]
         /\ Len(Tail(posted)) = Len(posted) - 1
         /\ Len(posted) \in Nat /\ Len(posted) > 0
         /\ Tail(posted) # <<>> => Tail(posted)[Len(Tail(posted))] = posted[Len(posted)] /\ Len(posted) > 1
         /\ Len(posted) = 1 => Tail(posted) = <<>>
         /\ Head(posted).kind \in {"connected", "error", "report"} /\ Head(posted).worker \in Nat
<1>1. /\ Len(posted) \in Nat /\ Len(posted) > 0 /\ Len(Tail(posted)) = Len(posted) - 1
      /\ Tail(posted) \in Seq(Posts) /\ Head(posted) = posted[1] /\ posted[1] \in Posts
  OBVIOUS
<1>2. \A k \in 1..Len(posted) - 1 : Tail(posted)[k] = posted[k + 1]
  OBVIOUS
<1>3. ASSUME Tail(posted) # <<>>
      PROVE  Tail(posted)[Len(Tail(posted))] = posted[Len(posted)] /\ Len(posted) > 1
  <2> DEFINE n == Len(posted)
  <2>1. n - 1 # 0
    BY <1>1, <1>3
  <2>2. n \in Nat /\ n > 0
    BY <1>1
  <2>3. n - 1 \in 1..n - 1 /\ n > 1 /\ (n - 1) + 1 = n
    <3> HIDE DEF n
    <3>1. QED
      BY <2>1, <2>2
  <2>4. Tail(posted)[n - 1] = posted[n]
    BY <1>2, <2>3
  <2>5. QED
    BY <1>1, <2>3, <2>4
<1>4. Len(posted) = 1 => Tail(posted) = <<>>
  <2> DEFINE rest == Tail(posted)
  <2>1. rest \in Seq(Posts) /\ (Len(posted) = 1 => Len(rest) = 0)
    BY <1>1
  <2> HIDE DEF rest
  <2>2. Len(posted) = 1 => rest = <<>>
    BY <2>1
  <2>3. QED
    BY <2>2 DEF rest
<1>5. QED
  BY <1>1, <1>3, <1>4 DEF Posts

\* What is posted comes last.
LEMMA PostPace ==
  ASSUME Types, NEW kind \in {"connected", "error", "report"}, Post(kind)
  PROVE  /\ window'.posted # <<>>
         /\ window'.posted[Len(window'.posted)].kind = kind
         /\ Len(window'.posted) = Len(window.posted) + 1
         /\ window.posted # <<>> => window'.posted[1] = window.posted[1]
         /\ window.posted = <<>> => window'.posted[1].kind = kind
         /\ kind = "report" /\ (\A k \in 1..Len(window.posted) : window.posted[k].kind = "report") =>
              \A k \in 1..Len(window'.posted) : window'.posted[k].kind = "report"
         /\ window'.at = window.at
<1> DEFINE n == Len(window.posted)
<1>1. n \in Nat /\ window.posted \in Seq(Posts)
  BY RecordsAre
<1>2. /\ Len(window'.posted) = n + 1
      /\ \A k \in 1..n : window'.posted[k] = window.posted[k]
      /\ window'.posted[n + 1].kind = kind
      /\ window'.at = window.at
  BY PostedIs
<1>3. window.posted # <<>> => n > 0
  BY <1>1
<1>4. window.posted = <<>> => n = 0
  BY <1>1
<1> HIDE DEF n
<1>5. window'.posted # <<>>
  BY <1>1, <1>2
<1>6. window.posted # <<>> => window'.posted[1] = window.posted[1]
  BY <1>1, <1>2, <1>3
<1>7. window.posted = <<>> => window'.posted[1].kind = kind
  BY <1>1, <1>2, <1>4
<1>8. ASSUME kind = "report", \A k \in 1..n : window.posted[k].kind = "report",
             NEW k \in 1..n + 1
      PROVE  window'.posted[k].kind = "report"
  <2>1. k \in 1..n \/ k = n + 1
    BY <1>1
  <2>2. QED
    BY <1>2, <1>8, <2>1
<1>9. QED
  BY <1>2, <1>5, <1>6, <1>7, <1>8 DEF n

\* The worker connects, or says last of all that it cannot.
LEMMA StartWorkerPace ==
  ASSUME SteadyInv, StartWorker
  PROVE  SteadyInv'
<1>1. Types /\ OnTime /\ Feeds /\ Measures /\ FailureTold /\ Paced
  BY DEF SteadyInv
<1>2. Types'
  BY <1>1, GuiStepTypes DEF GuiStep
<1>3. socket.link = "none" /\ UNCHANGED <<manager, file, changes, status, feed>>
  BY DEF StartWorker
<1>4. PICK kind \in {"connected", "error"} :
        /\ Post(kind)
        /\ socket' = [socket EXCEPT !.link = IF kind = "connected" THEN "joining" ELSE "failed"]
  BY DEF StartWorker
<1>5. socket.inbox = 0 /\ socket'.inbox = 0 /\ (socket'.link = "failed" => kind = "error")
  BY <1>1, <1>3, <1>4 DEF Types, FailureTold
<1>6. /\ window'.posted # <<>> /\ window'.posted[Len(window'.posted)].kind = kind
      /\ window.posted # <<>> => window'.posted[1] = window.posted[1]
      /\ window.posted = <<>> => window'.posted[1].kind = kind
      /\ window'.at = window.at
  BY <1>1, <1>4, PostPace
<1>7. OnTime' /\ Feeds' /\ Measures'
  BY <1>1, <1>3 DEF OnTime, Feeds, Measures
<1>8. FailureTold'
  BY <1>5, <1>6 DEF FailureTold
<1>9. ASSUME feed.connected, feed.steady
      PROVE  Awaited'
  <2>1. Awaited
    BY <1>1, <1>3, <1>9 DEF Paced, Timed
  <2>2. window'.posted[1].kind # "report"
    BY <1>6, <2>1 DEF Awaited
  <2>3. QED
    BY <1>3, <1>6, <2>1, <2>2 DEF Awaited
<1>10. Paced'
  BY <1>1, <1>3, <1>6, <1>9 DEF Paced, Shortest
<1>11. QED
  BY <1>2, <1>7, <1>8, <1>10 DEF SteadyInv

\* A report goes from the socket to the window.
LEMMA ForwardPace ==
  ASSUME SteadyInv, ForwardReport
  PROVE  SteadyInv'
<1> DEFINE left == socket.inbox - 1
<1>1. Types /\ OnTime /\ Feeds /\ Measures /\ FailureTold /\ Paced
  BY DEF SteadyInv
<1>2. Types'
  BY <1>1, GuiStepTypes DEF GuiStep
<1>3. /\ socket.inbox > 0 /\ socket' = [socket EXCEPT !.inbox = left] /\ Post("report")
      /\ UNCHANGED <<manager, file, changes, status, feed>>
  BY DEF ForwardReport
<1>4. socket.inbox \in Nat /\ Len(window.posted) \in Nat
  BY <1>1, PaceIs
<1> HIDE DEF left
<1>5. socket'.inbox = left /\ socket'.link = socket.link
  BY <1>1, <1>3 DEF Types
<1>6. socket.link \notin {"none", "failed"}
  BY <1>1, <1>3 DEF FailureTold
<1>7. /\ window'.posted # <<>> /\ Len(window'.posted) = Len(window.posted) + 1
      /\ window.posted # <<>> => window'.posted[1] = window.posted[1]
      /\ (\A k \in 1..Len(window.posted) : window.posted[k].kind = "report") =>
           \A k \in 1..Len(window'.posted) : window'.posted[k].kind = "report"
      /\ window'.at = window.at
  BY <1>1, <1>3, PostPace
<1>8. OnTime' /\ Feeds' /\ Measures'
  BY <1>1, <1>3 DEF OnTime, Feeds, Measures
<1>9. FailureTold'
  BY <1>5, <1>6 DEF FailureTold
<1>10. Underway' = Underway
  <2> DEFINE n == Len(window.posted)
             inbox == socket.inbox
  <2>1. Underway' = (inbox - 1) + (n + 1)
    BY <1>5, <1>7, Zenon DEF Underway, left
  <2>2. n \in Nat /\ inbox \in Nat
    BY <1>4
  <2> HIDE DEF n, inbox
  <2>3. Underway' = inbox + n
    BY <2>1, <2>2
  <2>4. QED
    BY <2>3 DEF Underway, n, inbox
<1>11. ASSUME feed.connected, feed.steady
       PROVE  Awaited' \/ Timed'
  <2>1. CASE Awaited
    <3>1. window.posted # <<>> /\ window.posted[1].kind # "report"
      BY <1>3, <2>1 DEF Awaited
    <3>2. QED
      BY <1>3, <1>7, <2>1, <3>1 DEF Awaited
  <2>2. CASE Timed
    BY <1>3, <1>5, <1>7, <1>10, <2>2 DEF Timed, Shortest
  <2>3. QED
    BY <1>1, <1>11, <2>1, <2>2 DEF Paced
<1>12. Paced'
  BY <1>1, <1>3, <1>7, <1>11 DEF Paced, Shortest
<1>13. QED
  BY <1>2, <1>8, <1>9, <1>12 DEF SteadyInv

\* The gaps that are kept are gaps there were.
LEMMA LastGapsAre ==
  ASSUME NEW gaps \in Seq(Nat), NEW age \in Nat
  PROVE  /\ LastGaps(Append(gaps, age)) \in Seq(Nat)
         /\ \A i \in 1..Len(LastGaps(Append(gaps, age))) :
              \/ LastGaps(Append(gaps, age))[i] = age
              \/ \E j \in 1..Len(gaps) : LastGaps(Append(gaps, age))[i] = gaps[j]
<1> DEFINE more == Append(gaps, age)
           n == Len(gaps)
<1>1. /\ n \in Nat /\ more \in Seq(Nat) /\ Len(more) = n + 1 /\ more # <<>>
      /\ \A i \in 1..n : more[i] = gaps[i]
      /\ more[n + 1] = age
  OBVIOUS
<1> HIDE DEF more
<1>2. \A i \in 1..n + 1 : more[i] = age \/ \E j \in 1..n : more[i] = gaps[j]
  <2> HIDE DEF n
  <2>1. \A i \in 1..n + 1 : i \in 1..n \/ i = n + 1
    BY <1>1
  <2>2. ASSUME NEW i \in 1..n + 1
        PROVE  more[i] = age \/ \E j \in 1..n : more[i] = gaps[j]
    <3>1. CASE i \in 1..n
      <4>1. more[i] = gaps[i]
        BY <1>1, <3>1
      <4>2. QED
        BY <3>1, <4>1
    <3>2. CASE i = n + 1
      BY <1>1, <3>2
    <3>3. QED
      BY <2>1, <3>1, <3>2
  <2>3. QED
    BY <2>2
<1>3. Tail(more) \in Seq(Nat) /\ Len(Tail(more)) = n /\ \A i \in 1..n : Tail(more)[i] = more[i + 1]
  BY <1>1
<1>4. LastGaps(more) = more \/ LastGaps(more) = Tail(more)
  BY DEF LastGaps
<1>5. CASE LastGaps(more) = more
  BY <1>1, <1>2, <1>5 DEF more
<1>6. CASE LastGaps(more) = Tail(more)
  <2>1. \A i \in 1..n : i + 1 \in 1..n + 1
    BY <1>1
  <2>2. \A i \in 1..n : Tail(more)[i] = age \/ \E j \in 1..n : Tail(more)[i] = gaps[j]
    BY <1>2, <1>3, <2>1
  <2>3. QED
    BY <1>3, <1>6, <2>2 DEF more
<1>7. QED
  BY <1>4, <1>5, <1>6

\* The window handles what is posted: the report that is shown comes as long after the last one as
\* the manager was between the two.
LEMMA HandlePace ==
  ASSUME SteadyInv, HandlePosted
  PROVE  SteadyInv'
<1> DEFINE posted == window.posted
           rest == Tail(posted)
           n == Len(posted)
           kind == Head(posted).kind
           worker == Head(posted).worker
<1>1. Types /\ OnTime /\ Feeds /\ Measures /\ FailureTold /\ Paced
  BY DEF SteadyInv
<1>2. Types'
  BY <1>1, GuiStepTypes DEF GuiStep
<1>3. /\ window.at = "open" /\ posted # <<>> /\ window' = [window EXCEPT !.posted = rest]
      /\ UNCHANGED <<manager, file, changes, socket, status>>
      /\ feed' = CASE kind = "connected" -> OnConnected(worker)
                 []   kind = "error" -> OnDisconnected
                 []   kind = "report" -> OnReport(worker)
  BY DEF HandlePosted
<1>4. posted \in Seq(Posts)
  BY <1>1, RecordsAre
<1> HIDE DEF posted
<1>5. /\ rest \in Seq(Posts) /\ Head(posted) = posted[1] /\ Len(rest) = n - 1 /\ n \in Nat /\ n > 0
      /\ rest # <<>> => rest[Len(rest)] = posted[n] /\ n > 1
      /\ n = 1 => rest = <<>>
      /\ kind \in {"connected", "error", "report"} /\ worker \in Nat
  BY <1>3, <1>4, TailIs
<1> HIDE DEF rest
<1>6. window'.posted = rest /\ window'.at = "open"
  BY <1>1, <1>3 DEF Types
<1>7. socket.link = "failed" => posted[n].kind = "error"
  BY <1>1, <1>3 DEF FailureTold, posted
<1>8. OnTime'
  BY <1>1, <1>3 DEF OnTime
<1>9. ASSUME socket.link = "failed", kind # "error"
      PROVE  rest # <<>> /\ rest[Len(rest)].kind = "error"
  <2>1. n # 1
    BY <1>5, <1>7, <1>9
  <2>2. rest # <<>>
    BY <1>5, <2>1
  <2>3. QED
    BY <1>5, <1>7, <1>9, <2>2
<1>10. ASSUME rest # <<>>, socket.link = "failed"
       PROVE  rest[Len(rest)].kind = "error"
  BY <1>5, <1>7, <1>10
<1>11. socket' = socket /\ manager' = manager
  BY <1>3
<1>12. socket.link \in {"none", "failed"} => socket.inbox = 0
  BY <1>1 DEF FailureTold
<1>13. CASE kind = "connected"
  <2> DEFINE steady == manager.up /\ n = 1 /\ socket.inbox = 0
             zero == 0
             none == GapsOnConnect
  <2>1. feed' = [feed EXCEPT !.connected = TRUE, !.waited = zero, !.gaps = none, !.received = FALSE,
                             !.by = worker, !.steady = steady]
    BY <1>3, <1>13 DEF OnConnected, posted
  <2>2. none = <<>>
    BY DEF GapsOnConnect
  <2>3. steady \in BOOLEAN
    OBVIOUS
  <2> HIDE DEF steady, zero, none, n, kind, worker
  <2>4. /\ Feeds' /\ ~feed'.received /\ feed'.gaps = <<>> /\ feed'.age = feed.age /\ feed'.steady = steady
    BY <1>1, <1>5, <2>1, <2>2, <2>3 DEF Feeds
  <2>5. Measures'
    BY <1>1, <2>4 DEF Measures
  <2>6. FailureTold'
    BY <1>6, <1>9, <1>11, <1>12, <1>13 DEF FailureTold
  <2>7. ASSUME steady
        PROVE  Awaited' \/ Timed'
    <3>1. rest = <<>> /\ socket.inbox = 0 /\ socket.link # "failed"
      BY <1>5, <1>9, <1>13, <2>7 DEF steady
    <3>2. socket.link \in {"none", "joining", "on"}
      BY <1>1, <3>1 DEF Types
    <3>3. CASE socket.link = "on"
      <4>1. Underway' = 0
        BY <1>6, <1>11, <3>1 DEF Underway
      <4>2. Timed'
        BY <1>6, <1>11, <2>4, <3>1, <3>3, <4>1 DEF Timed
      <4>3. QED
        BY <4>2
    <3>4. CASE socket.link # "on"
      BY <1>6, <1>11, <2>4, <3>1, <3>2, <3>4 DEF Awaited
    <3>5. QED
      BY <3>3, <3>4
  <2>8. Paced'
    <3>1. steady => manager'.up
      BY <1>11 DEF steady
    <3>2. Len(feed'.gaps) = 0
      BY <2>4
    <3>3. QED
      BY <1>6, <2>4, <2>7, <3>1, <3>2 DEF Paced
  <2>9. QED
    BY <1>2, <1>8, <2>4, <2>5, <2>6, <2>8 DEF SteadyInv
<1>14. CASE kind = "error"
  <2>1. feed' = OnDisconnected
    BY <1>3, <1>14
  <2>2. Feeds' /\ ~feed'.connected /\ feed'.age = feed.age /\ feed'.gaps = feed.gaps
    BY <1>1, <2>1 DEF OnDisconnected, Feeds
  <2>3. Measures' /\ Paced'
    BY <1>1, <2>2 DEF Measures, Paced
  <2>4. FailureTold'
    BY <1>6, <1>10, <1>11, <1>12, <2>2 DEF FailureTold
  <2>5. QED
    BY <1>2, <1>8, <2>2, <2>3, <2>4 DEF SteadyInv
<1>15. CASE kind = "report"
  <2> DEFINE age == feed.age
             gaps == IF feed.received THEN LastGaps(Append(feed.gaps, age)) ELSE feed.gaps
             zero == 0
  <2>1. feed' = [feed EXCEPT !.gaps = gaps, !.age = zero, !.waited = zero, !.received = feed.connected,
                             !.from = worker]
    BY <1>3, <1>15 DEF OnReport
  <2>2. age \in Nat /\ feed.gaps \in Seq(Nat)
    BY <1>1 DEF Measures
  <2>3. gaps \in Seq(Nat)
    BY <2>2, LastGapsAre
  <2>4. /\ feed.received =>
             \A k \in 1..Len(gaps) : gaps[k] = age \/ \E j \in 1..Len(feed.gaps) : gaps[k] = feed.gaps[j]
        /\ ~feed.received => gaps = feed.gaps
    BY <2>2, LastGapsAre
  <2> HIDE DEF gaps, zero, n, kind, worker
  <2>5. /\ Feeds' /\ feed'.received = feed.connected /\ feed'.gaps = gaps /\ feed'.age = zero
        /\ feed'.connected = feed.connected /\ feed'.steady = feed.steady
    BY <1>1, <1>5, <2>1 DEF Feeds
  <2>6. zero = 0
    BY DEF zero
  <2>7. Measures'
    BY <2>3, <2>5, <2>6 DEF Measures
  <2>8. FailureTold'
    BY <1>6, <1>9, <1>11, <1>12, <1>15 DEF FailureTold
  <2>9. ASSUME feed.connected, feed.steady
        PROVE  /\ Timed'
               /\ \A k \in 1..Len(gaps) : gaps[k] >= Shortest
    <3>1. posted[1].kind = "report"
      BY <1>5, <1>15 DEF kind
    <3>2. ~Awaited
      <4>1. ~(posted # <<>> /\ posted[1].kind # "report") /\ posted # <<>>
        BY <1>3, <3>1
      <4>2. QED
        BY <4>1 DEF Awaited, posted
    <3>3. Timed /\ \A j \in 1..Len(feed.gaps) : feed.gaps[j] >= Shortest
      BY <1>1, <2>9, <3>2 DEF Paced
    <3>4. Underway = socket.inbox + n /\ Underway <= 1 /\ socket.inbox \in Nat
      BY <1>1, <3>3, RecordsAre DEF Timed, Underway, posted, n
    <3>5. Underway = 1 /\ n = 1 /\ socket.inbox = 0
      BY <1>5, <3>4
    <3>6. rest = <<>> /\ Underway' = 0
      BY <1>5, <1>6, <1>11, <3>5 DEF Underway
    <3>7. /\ manager.due >= Shortest /\ manager.due <= manager.interval
          /\ feed.received => age >= Shortest
      BY <3>3, <3>5 DEF Timed
    <3>8. Shortest' = Shortest
      BY <1>11 DEF Shortest
    <3>9. manager.due \in Int /\ Shortest \in Int
      BY <1>1, PaceIs
    <3>10. feed'.age + manager'.due = manager.due
      BY <1>11, <2>5, <2>6, <3>9
    <3>11. Timed'
      BY <1>6, <1>11, <3>3, <3>6, <3>7, <3>8, <3>10 DEF Timed
    <3> HIDE DEF age
    <3>12. \A k \in 1..Len(gaps) : gaps[k] >= Shortest
      BY <2>4, <3>3, <3>7
    <3>13. QED
      BY <3>11, <3>12
  <2>10. Shortest' = Shortest
    BY <1>11 DEF Shortest
  <2>11. Paced'
    BY <1>1, <1>6, <1>11, <2>5, <2>9, <2>10 DEF Paced
  <2>12. QED
    BY <1>2, <1>8, <2>5, <2>7, <2>8, <2>11 DEF SteadyInv
<1>16. QED
  BY <1>5, <1>13, <1>14, <1>15

\* The GUI's steps.
LEMMA GuiPace ==
  ASSUME SteadyInv, GuiStep
  PROVE  SteadyInv'
<1>1. Types /\ OnTime /\ Feeds /\ Measures /\ FailureTold /\ Paced
  BY DEF SteadyInv
<1>2. Types'
  BY <1>1, GuiStepTypes
<1>3. CASE Reconnect
  <2>1. /\ feed' = OnDisconnected /\ socket' = [link |-> "none", inbox |-> 0]
        /\ UNCHANGED <<manager, file, changes, status>>
    BY <1>3 DEF Reconnect
  <2>2. Feeds' /\ ~feed'.connected /\ feed'.age = feed.age /\ feed'.gaps = feed.gaps
    BY <1>1, <2>1 DEF OnDisconnected, Feeds
  <2>3. OnTime' /\ Measures' /\ Paced' /\ FailureTold'
    BY <1>1, <2>1, <2>2 DEF OnTime, Measures, Paced, FailureTold
  <2>4. QED
    BY <1>2, <2>2, <2>3 DEF SteadyInv
<1>4. CASE WorkerReplaced
  <2> DEFINE next == window.worker + 1
  <2>1. /\ window.at = "replacing" /\ window' = [window EXCEPT !.at = "open", !.worker = next]
        /\ UNCHANGED <<manager, file, changes, socket, status, feed>>
    BY <1>4 DEF WorkerReplaced
  <2> HIDE DEF next
  <2>2. window'.posted = window.posted
    BY <1>1, <2>1 DEF Types
  <2>3. ~(feed.connected /\ feed.steady)
    BY <1>1, <2>1 DEF Paced
  <2>4. Feeds' /\ OnTime' /\ Measures' /\ Paced' /\ FailureTold'
    BY <1>1, <2>1, <2>2, <2>3 DEF Feeds, OnTime, Measures, Paced, FailureTold
  <2>5. QED
    BY <1>2, <2>4 DEF SteadyInv
<1>5. QED
  BY <1>3, <1>4, StartWorkerPace, ForwardPace, HandlePace DEF GuiStep

\* A second passes: the report that is shown is as much older as the next one is nearer.
LEMMA TickPace ==
  ASSUME SteadyInv, Tick
  PROVE  SteadyInv'
<1> DEFINE i == manager.interval
           due == manager.due
           age == feed.age
           d == IF manager.up THEN due - 1 ELSE due
           w == IF feed.connected /\ ~feed.received THEN Older(feed.waited) ELSE feed.waited
           o == Older(age)
<1>1. Types /\ OnTime /\ Feeds /\ Measures /\ FailureTold /\ Paced
  BY DEF SteadyInv
<1>2. Types'
  BY <1>1, TickTypes
<1>3. /\ NothingAtOnce /\ manager' = [manager EXCEPT !.due = d] /\ UNCHANGED <<file, changes, socket, window>>
      /\ feed' = [feed EXCEPT !.age = o, !.waited = w]
  BY DEF Tick
<1>4. Late \in Nat /\ i \in Nat /\ due \in Int /\ age \in Nat /\ i \in Intervals
  BY <1>1, PaceIs DEF Types
<1>5. TooOld \in Nat /\ i + Late < TooOld
  <2> HIDE DEF i
  <2>1. QED
    BY <1>4, TooOldIs
<1>6. o \in Nat /\ (age + 1 <= i + Late => o = age + 1)
  <2> DEFINE next == age + 1
             S == {next, TooOld}
  <2>1. next \in Nat
    BY <1>4
  <2>2. o = Min(S)
    BY DEF Older
  <2> HIDE DEF next, i, o
  <2>3. \E x \in S : \A y \in S : x <= y
    <3>1. CASE next <= TooOld
      BY <1>5, <2>1, <3>1
    <3>2. CASE TooOld <= next
      BY <1>5, <2>1, <3>2
    <3>3. QED
      BY <1>5, <2>1, <3>1, <3>2
  <2>4. Min(S) \in S /\ \A y \in S : Min(S) <= y
    <3> HIDE DEF S
    <3>1. QED
      BY <2>3, Zenon DEF Min
  <2>5. o \in Nat
    BY <1>5, <2>1, <2>2, <2>4
  <2>6. ASSUME next <= i + Late
        PROVE  o = next
    <3>1. o <= next /\ o \in {next, TooOld}
      BY <2>2, <2>4
    <3>2. ~(TooOld <= next)
      BY <1>4, <1>5, <2>1, <2>6
    <3>3. QED
      BY <3>1, <3>2
  <2>7. QED
    BY <2>5, <2>6 DEF next
<1> HIDE DEF d, w, o
<1>7. /\ manager'.due = d /\ manager'.up = manager.up /\ manager'.interval = i
      /\ socket' = socket /\ window' = window
  BY <1>1, <1>3 DEF Types
<1>8. /\ feed'.age = o /\ feed'.gaps = feed.gaps /\ feed'.received = feed.received
      /\ feed'.connected = feed.connected /\ feed'.steady = feed.steady /\ Feeds'
  BY <1>1, <1>3 DEF Feeds
<1>9. manager.up => due > 0 - Late /\ socket.link # "joining"
  BY <1>3 DEF NothingAtOnce
<1>10. OnTime'
  <2>1. d >= 0 - Late
    <3>1. CASE manager.up
      <4>1. d = due - 1
        BY <3>1 DEF d
      <4> HIDE DEF due
      <4>2. QED
        BY <1>4, <1>9, <3>1, <4>1
    <3>2. CASE ~manager.up
      BY <1>1, <3>2 DEF d, OnTime
    <3>3. QED
      BY <3>1, <3>2
  <2>2. QED
    BY <1>7, <2>1 DEF OnTime
<1>11. Measures'
  BY <1>1, <1>6, <1>8 DEF Measures
<1>12. FailureTold'
  BY <1>1, <1>7, <1>8 DEF FailureTold
<1>13. ASSUME feed.connected, feed.steady
       PROVE  Timed'
  <2>1. manager.up /\ window.at = "open"
    BY <1>1, <1>13 DEF Paced
  <2>2. socket.inbox = 0 /\ window.posted = <<>> /\ socket.link # "none" /\ socket.link # "joining"
    BY <1>3, <2>1 DEF NothingAtOnce
  <2>3. Timed
    BY <1>1, <1>13, <2>2 DEF Paced, Awaited
  <2>4. Underway = 0 /\ Underway' = 0
    BY <1>7, <2>2 DEF Underway
  <2>5. Shortest = i - Late /\ Shortest' = i - Late
    BY <1>7 DEF Shortest
  <2>6. feed.received => age + due >= i - Late /\ age + due <= i
    BY <2>3, <2>4, <2>5 DEF Timed
  <2>7. d = due - 1
    BY <2>1 DEF d
  <2>8. due > 0 - Late
    BY <1>9, <2>1
  <2>9. feed.received => o + d >= i - Late /\ o + d <= i
    <3> HIDE DEF i, due, age
    <3>1. ASSUME feed.received
          PROVE  o = age + 1
      BY <1>4, <1>6, <2>6, <2>8, <3>1
    <3>2. QED
      BY <1>4, <2>6, <2>7, <3>1
  <2> HIDE DEF i, due, age
  <2>10. QED
    BY <1>7, <1>8, <2>2, <2>3, <2>4, <2>5, <2>9 DEF Timed
<1>14. Shortest' = Shortest
  BY <1>7 DEF Shortest
<1>15. Paced'
  BY <1>1, <1>7, <1>8, <1>13, <1>14 DEF Paced
<1>16. QED
  BY <1>2, <1>8, <1>10, <1>11, <1>12, <1>15 DEF SteadyInv

\* At first nothing is shown.
LEMMA InitPace == Init => SteadyInv
<1> SUFFICES ASSUME Init
             PROVE  SteadyInv
  OBVIOUS
<1>1. Types /\ OnTime /\ Feeds
  BY InitIInv, InitOrdered DEF IInv, Ordered
<1>2. window.posted = <<>> /\ socket = [link |-> "none", inbox |-> 0]
  BY DEF Init
<1>3. feed.age = TooOld /\ feed.gaps = <<>> /\ ~feed.connected
  BY DEF Init
<1>4. TooOld \in Nat
  BY <1>1, TooOldIs DEF Types
<1>5. Measures /\ FailureTold /\ Paced
  BY <1>2, <1>3, <1>4 DEF Measures, FailureTold, Paced
<1>6. QED
  BY <1>1, <1>5 DEF SteadyInv

\* What is steady is shown live: the last report is no older than an interval and its lateness, and
\* the gaps, of which half or more are as long as the median, are no shorter than the one less the
\* other.
LEMMA SteadyIsShown ==
  ASSUME SteadyInv, SlackSuffices, feed.connected, feed.steady, feed.gaps # <<>>
  PROVE  Shown = "live"
<1> DEFINE i == manager.interval
           due == manager.due
           age == feed.age
           median == TwiceMedian(feed.gaps)
           a == 2 * StaleAfter
           b == 3 * median
           S == {a, b}
<1>1. Types /\ OnTime /\ Feeds /\ Measures /\ Paced
  BY DEF SteadyInv
<1>2. /\ feed.received
      /\ \A k \in 1..Len(feed.gaps) : feed.gaps[k] >= Shortest
      /\ Timed
  BY <1>1 DEF Paced, Awaited
<1>3. /\ Late \in Nat /\ i \in Nat /\ due \in Int /\ age \in Nat /\ Shortest = i - Late /\ Shortest \in Int
      /\ Len(window.posted) \in Nat /\ socket.inbox \in Nat
  BY <1>1, PaceIs
<1>4. age <= i + Late
  <2>1. CASE Underway = 1
    BY <1>2, <2>1 DEF Timed
  <2>2. CASE Underway # 1
    <3>1. Underway = 0
      <4>1. Underway \in Nat /\ Underway <= 1
        BY <1>2, <1>3 DEF Underway, Timed
      <4>2. QED
        BY <2>2, <4>1
    <3>2. age + due <= i
      BY <1>2, <3>1 DEF Timed
    <3>3. due >= 0 - Late
      BY <1>1 DEF OnTime
    <3> HIDE DEF i, due, age
    <3>4. QED
      BY <1>3, <3>2, <3>3
  <2>3. QED
    BY <2>1, <2>2
<1>5. median \in Nat /\ median >= 2 * Shortest
  BY <1>1, <1>2, <1>3, MedianIs DEF Measures
<1>6. i + Late <= StaleAfter \/ 2 * Late <= i
  BY <1>1 DEF SlackSuffices, Types
<1>7. StaleAfter \in Nat
  BY ReportFeedAssumption
<1> HIDE DEF i, due, age, median
<1>8. a \in Nat /\ b \in Nat
  BY <1>5, <1>7
<1>9. 2 * age <= a \/ 2 * age <= b
  <2>1. CASE i + Late <= StaleAfter
    BY <1>3, <1>4, <1>7, <2>1
  <2>2. CASE 2 * Late <= i
    <3>1. b >= 6 * i - 6 * Late
      BY <1>3, <1>5
    <3>2. QED
      BY <1>3, <1>4, <1>8, <2>2, <3>1
  <2>3. QED
    BY <1>6, <2>1, <2>2
<1> HIDE DEF a, b
<1>10. \E x \in S : \A y \in S : x >= y
  <2>1. CASE a >= b
    BY <1>8, <2>1
  <2>2. CASE b >= a
    BY <1>8, <2>2
  <2>3. QED
    BY <1>8, <2>1, <2>2
<1>11. Max(S) \in S /\ \A y \in S : Max(S) >= y
  <2> HIDE DEF S
  <2>1. QED
    BY <1>10, Zenon DEF Max
<1>12. Max(S) \in Nat /\ Max(S) >= a /\ Max(S) >= b
  BY <1>8, <1>11
<1> HIDE DEF S
<1>13. ~(2 * age > Max(S))
  BY <1>3, <1>8, <1>9, <1>12
<1>14. TooOldFor(feed.age) <=> 2 * age > Max(S)
  BY DEF TooOldFor, S, a, b, median, age
<1>15. QED
  BY <1>2, <1>13, <1>14 DEF Shown

\* However slow the manager is and whatever came before, the GUI shows a connection live only by its
\* own reports, and never stale once two have come of a manager that keeps its pace, if its rounds are
\* late by half an interval at most or the interval is short (Publish of Daemon.cpp, FeedMonitor
\* of process_monitor_gui.py).
THEOREM SteadyIsLive == SlackSuffices /\ 0 < Queue => (Spec => []FeedHonest)
<1> SUFFICES ASSUME SlackSuffices, 0 < Queue
             PROVE  Spec => []FeedHonest
  OBVIOUS
<1>1. Init => SteadyInv
  BY InitPace
<1>2. SteadyInv /\ [Next]_vars => SteadyInv'
  <2> SUFFICES ASSUME SteadyInv, [Next]_vars
               PROVE  SteadyInv'
    OBVIOUS
  <2>1. CASE UNCHANGED vars
    BY <2>1 DEF vars, subscriberVars, SteadyInv, Types, OnTime, Feeds, Measures, FailureTold, Paced, Awaited,
                Timed, Underway, Shortest
  <2>2. QED
    BY <2>1, ManagerPace, JoinsPace, StatusPace, GuiPace, TickPace DEF Next
<1>3. SteadyInv /\ LiveIsOwn => FeedHonest
  BY SteadyIsShown DEF FeedHonest
<1>4. Spec => []LiveIsOwn
  BY LiveByItsOwnReports
<1>5. QED
  BY <1>1, <1>2, <1>3, <1>4, PTL DEF Spec

----------------------------------------------------------------------------
(* What a payload says: ReadAsSent, for all reports, commands and replies *)

\* A span lies between two places, or has nothing of what is between them.
Within(span, lo, hi) == span.at \in Nat /\ span.width \in Nat /\ lo <= span.at /\ Reach(span) <= hi
Misses(span, lo, hi) == span.at \in Nat /\ span.width \in Nat /\ (Reach(span) <= lo \/ hi <= span.at)

\* The fields of a layout lie between two offsets and apart from each other.
Apart(layout) ==
  \A i, j \in DOMAIN layout : i # j =>
    layout[i][2] + layout[i][3] <= layout[j][2] \/ layout[j][2] + layout[j][3] <= layout[i][2]
Distinct(layout) == \A i, j \in DOMAIN layout : layout[i][1] = layout[j][1] => i = j
Between(layout, lo, hi) ==
  \A i \in DOMAIN layout :
    /\ layout[i][2] \in Nat /\ layout[i][3] \in Nat /\ layout[i][3] > 0
    /\ lo <= layout[i][2] /\ layout[i][2] + layout[i][3] <= hi
WellLaid(layout, lo, hi) == Apart(layout) /\ Distinct(layout) /\ Between(layout, lo, hi)

\* The value written for a field.
Written(width, value) == IF IsText(width) THEN FitUtf8(value, width - 1) ELSE value

\* A record as its fields hold it.
Encoded(layout, record) ==
  [field \in Fields(layout) |->
     Written(layout[CHOOSE i \in DOMAIN layout : layout[i][1] = field][3], record[field])]

\* What is written at a place is read there while nothing else reaches into it.
LEMMA ReadBack ==
  ASSUME NEW payload, NEW base \in Nat, NEW size \in Nat, NEW offset \in Nat, NEW width \in Nat,
         NEW value, width > 0, payload.size \in Nat,
         base + offset + width <= payload.size, offset + width <= size,
         Span(base + offset, width, value) \in payload.spans,
         \A t \in payload.spans :
           t = Span(base + offset, width, value) \/ Misses(t, base + offset, base + offset + width)
  PROVE  Read(payload, base, size, offset, width) = value
<1> DEFINE here == base + offset
           s == Span(here, width, value)
           touched == {t \in payload.spans : here < Reach(t) /\ t.at < here + width}
           there == {t \in touched : t.at = here /\ t.width = width}
<1>1. here \in Nat /\ s.at = here /\ s.width = width /\ s.value = value /\ Reach(s) = here + width
  BY DEF Span, Reach
<1>2. ~(offset + width > Available(payload, base, size))
  <2> DEFINE left == payload.size - base
             a == Min({size, left})
  <2>1. ~(base >= payload.size) /\ left \in Nat /\ offset + width <= left
    OBVIOUS
  <2> HIDE DEF left
  <2>2. \E x \in {size, left} : \A y \in {size, left} : x <= y
    BY <2>1
  <2>3. a \in {size, left}
    BY <2>2 DEF Min
  <2> HIDE DEF a
  <2>4. ~(offset + width > a)
    BY <2>1, <2>3
  <2>5. Available(payload, base, size) = a
    BY <2>1 DEF Available, a, left
  <2>6. QED
    BY <2>4, <2>5
<1>3. touched = {s}
  <2>1. s \in touched
    BY <1>1
  <2>2. ASSUME NEW t \in touched, t # s
        PROVE  FALSE
    <3>1. Misses(t, here, here + width)
      BY <2>2
    <3>2. Reach(t) \in Nat /\ t.at \in Nat
      BY <3>1 DEF Misses, Reach
    <3>3. QED
      BY <1>1, <3>1, <3>2 DEF Misses
  <2>3. QED
    BY <2>1, <2>2
<1>4. s \in there
  BY <1>1, <1>3
<1>5. Read(payload, base, size, offset, width)
        = IF offset + width > Available(payload, base, size) \/ touched = {} THEN Zero
          ELSE IF \E span \in there : touched = {span} THEN (CHOOSE span \in touched : TRUE).value
          ELSE Garbage
  BY DEF Read
<1>6. (CHOOSE span \in touched : TRUE) = s
  BY <1>3
<1> HIDE DEF touched, there, s
<1>7. Read(payload, base, size, offset, width) = s.value
  BY <1>2, <1>3, <1>4, <1>5, <1>6
<1>8. QED
  BY <1>1, <1>7

\* The fields of a record lie where its layout does.
LEMMA FieldsWithin ==
  ASSUME NEW layout, NEW record, NEW base \in Nat, NEW lo \in Nat, NEW hi \in Nat,
         NEW t \in EncodeFields(layout, record, base), Between(layout, lo, hi)
  PROVE  Within(t, base + lo, base + hi)
<1>1. PICK i \in DOMAIN layout : t = Span(base + layout[i][2], layout[i][3],
             IF IsText(layout[i][3]) THEN FitUtf8(record[layout[i][1]], layout[i][3] - 1)
             ELSE record[layout[i][1]])
  BY DEF EncodeFields
<1>2. t.at = base + layout[i][2] /\ t.width = layout[i][3]
  BY <1>1 DEF Span
<1>3. QED
  BY <1>2 DEF Between, Within, Reach

\* A payload has the fields of a record at a place, and nothing else there.
Carries(payload, layout, record, base, lo, hi) ==
  /\ payload.size \in Nat
  /\ base + hi <= payload.size
  /\ EncodeFields(layout, record, base) \subseteq payload.spans
  /\ \A t \in payload.spans :
       t \in EncodeFields(layout, record, base) \/ Misses(t, base + lo, base + hi)

\* The record is read there as it was written.
LEMMA FieldsBack ==
  ASSUME NEW layout, NEW record, NEW payload, NEW base \in Nat, NEW size \in Nat,
         NEW lo \in Nat, NEW hi \in Nat,
         WellLaid(layout, lo, hi), hi <= size, Carries(payload, layout, record, base, lo, hi)
  PROVE  DecodeFields(layout, payload, base, size) = Encoded(layout, record)
<1> DEFINE At(i) == base + layout[i][2]
           Value(i) == Written(layout[i][3], record[layout[i][1]])
           Field(i) == Span(At(i), layout[i][3], Value(i))
<1>0. /\ payload.size \in Nat /\ base + hi <= payload.size
      /\ EncodeFields(layout, record, base) \subseteq payload.spans
      /\ \A t \in payload.spans :
           t \in EncodeFields(layout, record, base) \/ Misses(t, base + lo, base + hi)
  BY DEF Carries
<1>1. EncodeFields(layout, record, base) = {Field(i) : i \in DOMAIN layout}
  BY DEF EncodeFields, Written
<1>2. ASSUME NEW i \in DOMAIN layout
      PROVE  Read(payload, base, size, layout[i][2], layout[i][3]) = Value(i)
  <2>1. /\ layout[i][2] \in Nat /\ layout[i][3] \in Nat /\ layout[i][3] > 0
        /\ lo <= layout[i][2] /\ layout[i][2] + layout[i][3] <= hi
    BY DEF WellLaid, Between
  <2>2. Span(base + layout[i][2], layout[i][3], Value(i)) \in payload.spans
    BY <1>0, <1>1
  <2>3. ASSUME NEW t \in payload.spans
        PROVE  t = Field(i) \/ Misses(t, At(i), At(i) + layout[i][3])
    <3>1. CASE t \in EncodeFields(layout, record, base)
      <4>1. PICK j \in DOMAIN layout : t = Field(j)
        BY <1>1, <3>1
      <4>2. CASE i = j
        BY <4>1, <4>2
      <4>3. CASE i # j
        <5>1. t.at = At(j) /\ t.width = layout[j][3]
          BY <4>1 DEF Span
        <5>2. layout[j][2] \in Nat /\ layout[j][3] \in Nat
          BY DEF WellLaid, Between
        <5>3. \/ layout[i][2] + layout[i][3] <= layout[j][2]
              \/ layout[j][2] + layout[j][3] <= layout[i][2]
          BY <4>3 DEF WellLaid, Apart
        <5>4. QED
          BY <2>1, <5>1, <5>2, <5>3 DEF Misses, Reach
      <4>4. QED
        BY <4>2, <4>3
    <3>2. CASE Misses(t, base + lo, base + hi)
      BY <2>1, <3>2 DEF Misses, Reach
    <3>3. QED
      BY <1>0, <3>1, <3>2
  <2>4. /\ base + layout[i][2] + layout[i][3] <= payload.size /\ layout[i][2] + layout[i][3] <= size
        /\ payload.size \in Nat
    BY <1>0, <2>1
  <2> HIDE DEF Value
  <2>5. QED
    BY <2>1, <2>2, <2>3, <2>4, ReadBack
<1>3. ASSUME NEW field \in Fields(layout)
      PROVE  LET entry == layout[CHOOSE i \in DOMAIN layout : layout[i][1] = field]
             IN  Read(payload, base, size, entry[2], entry[3]) = Written(entry[3], record[field])
  <2> DEFINE i == CHOOSE i \in DOMAIN layout : layout[i][1] = field
  <2>1. i \in DOMAIN layout /\ layout[i][1] = field
    BY DEF Fields
  <2>2. QED
    BY <1>2, <2>1
<1>4. QED
  BY <1>3 DEF DecodeFields, Encoded

\* Products grow with their factor.
LEMMA TimesMore ==
  ASSUME NEW a \in Nat, NEW b \in Nat, NEW s \in Nat, a <= b
  PROVE  a * s \in Nat /\ b * s \in Nat /\ a * s <= b * s
<1>1. PICK d \in Nat : b = a + d
  <2>1. b - a \in Nat /\ b = a + (b - a)
    OBVIOUS
  <2>2. QED
    BY <2>1
<1>2. b * s = a * s + d * s /\ d * s \in Nat /\ a * s \in Nat
  BY <1>1
<1>3. QED
  BY <1>2

\* The one of records back to back that begins at base + (i - 1) * size.
LEMMA RecordPlace ==
  ASSUME NEW base \in Nat, NEW n \in Nat, NEW size \in Nat, NEW i \in 1..n
  PROVE  /\ (i - 1) * size \in Nat
         /\ base + (i - 1) * size \in Nat
         /\ base <= base + (i - 1) * size
         /\ base + (i - 1) * size + size <= base + n * size
         /\ n * size \in Nat
         /\ \A j \in 1..n : j < i => base + (j - 1) * size + size <= base + (i - 1) * size
<1>1. (i - 1) * size \in Nat /\ i * size \in Nat /\ n * size \in Nat /\ i * size <= n * size
  BY TimesMore
<1>2. (i - 1) * size + size = i * size
  OBVIOUS
<1>3. ASSUME NEW j \in 1..n, j < i
      PROVE  base + (j - 1) * size + size <= base + (i - 1) * size
  <2>1. j \in Nat /\ i - 1 \in Nat /\ j <= i - 1 /\ j - 1 \in Nat
    BY <1>3
  <2>2. j * size <= (i - 1) * size /\ j * size \in Nat
    BY <2>1, TimesMore
  <2>3. (j - 1) * size + size = j * size /\ (j - 1) * size \in Nat
    BY <2>1, TimesMore
  <2>4. QED
    BY <1>1, <2>2, <2>3
<1>4. QED
  BY <1>1, <1>2, <1>3

\* Records lie between where the first begins and where the last ends.
LEMMA RecordsWithin ==
  ASSUME NEW layout, NEW records, NEW n \in Nat, NEW base \in Nat, NEW own \in Nat, NEW size \in Nat,
         NEW t \in EncodeRecords(layout, records, base, size),
         DOMAIN records = 1..n, Between(layout, 0, own), own <= size
  PROVE  Within(t, base, base + n * size)
<1>1. PICK i \in 1..n : t \in EncodeFields(layout, records[i], base + (i - 1) * size)
  BY DEF EncodeRecords
<1> DEFINE b == base + (i - 1) * size
<1>2. b \in Nat /\ base <= b /\ b + size <= base + n * size /\ n * size \in Nat
  BY RecordPlace
<1> HIDE DEF b
<1>3. t \in EncodeFields(layout, records[i], b)
  BY <1>1 DEF b
<1>4. Within(t, b + 0, b + own)
  BY <1>2, <1>3, FieldsWithin
<1>5. QED
  BY <1>2, <1>4 DEF Within, Reach

\* Where the i-th of records back to back begins.
RecordAt(base, i, size) == base + (i - 1) * size

\* A payload has the records at a place, and nothing else there.
Holds(payload, layout, records, base, size, n) ==
  /\ payload.size \in Nat
  /\ base + n * size <= payload.size
  /\ EncodeRecords(layout, records, base, size) \subseteq payload.spans
  /\ \A t \in payload.spans :
       t \in EncodeRecords(layout, records, base, size) \/ Misses(t, base, base + n * size)

\* Each of them is read as it was written.
LEMMA RecordsBack ==
  ASSUME NEW layout, NEW records, NEW n \in Nat, NEW base \in Nat, NEW own \in Nat, NEW size \in Nat,
         NEW payload, NEW i \in 1..n,
         DOMAIN records = 1..n, WellLaid(layout, 0, own), own <= size,
         Holds(payload, layout, records, base, size, n)
  PROVE  DecodeFields(layout, payload, RecordAt(base, i, size), size) = Encoded(layout, records[i])
<1> DEFINE At(j) == base + (j - 1) * size
<1>0. /\ payload.size \in Nat /\ base + n * size <= payload.size
      /\ EncodeRecords(layout, records, base, size) \subseteq payload.spans
      /\ \A t \in payload.spans :
           t \in EncodeRecords(layout, records, base, size) \/ Misses(t, base, base + n * size)
  BY DEF Holds
<1>1. \A j \in 1..n : At(j) \in Nat /\ base <= At(j) /\ At(j) + size <= base + n * size /\ n * size \in Nat
  BY RecordPlace
<1>2. \A j \in 1..n : \A k \in 1..n : k < j => At(k) + size <= At(j)
  BY RecordPlace
<1>3. EncodeRecords(layout, records, base, size)
        = UNION {EncodeFields(layout, records[j], At(j)) : j \in 1..n}
  BY DEF EncodeRecords
<1> HIDE DEF At
<1>4. EncodeFields(layout, records[i], At(i)) \subseteq payload.spans
  BY <1>0, <1>3
<1>5. ASSUME NEW t \in payload.spans
      PROVE  t \in EncodeFields(layout, records[i], At(i)) \/ Misses(t, At(i) + 0, At(i) + own)
  <2>0. At(i) \in Nat /\ base <= At(i) /\ At(i) + size <= base + n * size /\ n * size \in Nat
    BY <1>1
  <2>1. CASE t \in EncodeRecords(layout, records, base, size)
    <3>1. PICK j \in 1..n : t \in EncodeFields(layout, records[j], At(j))
      BY <1>3, <2>1
    <3>2. CASE j = i
      BY <3>1, <3>2
    <3>3. CASE j # i
      <4>1. At(j) \in Nat /\ (At(j) + size <= At(i) \/ At(i) + size <= At(j))
        BY <1>1, <1>2, <3>3
      <4>2. Within(t, At(j) + 0, At(j) + own)
        BY <3>1, <4>1, FieldsWithin DEF WellLaid
      <4>3. At(i) \in Nat
        BY <2>0
      <4>4. /\ t.at \in Nat /\ t.width \in Nat /\ At(j) <= t.at
            /\ t.at + t.width <= At(j) + own
        BY <4>1, <4>2 DEF Within, Reach
      <4>5. t.at + t.width <= At(i) + 0 \/ At(i) + own <= t.at
        BY <4>1, <4>3, <4>4
      <4>6. QED
        BY <4>4, <4>5 DEF Misses, Reach
    <3>4. QED
      BY <3>2, <3>3
  <2>2. CASE Misses(t, base, base + n * size)
    BY <2>0, <2>2 DEF Misses, Reach
  <2>3. QED
    BY <1>0, <2>1, <2>2
<1>6. At(i) \in Nat /\ At(i) + own <= payload.size /\ payload.size \in Nat
  <2> DEFINE end == base + n * size
  <2>1. At(i) \in Nat /\ At(i) + size <= end /\ end <= payload.size /\ payload.size \in Nat /\ end \in Nat
    BY <1>0, <1>1
  <2> HIDE DEF end
  <2>2. QED
    BY <2>1
<1>7. Carries(payload, layout, records[i], At(i), 0, own)
  BY <1>4, <1>5, <1>6 DEF Carries
<1>8. DecodeFields(layout, payload, At(i), size) = Encoded(layout, records[i])
  BY <1>6, <1>7, FieldsBack
<1>9. QED
  BY <1>8 DEF At, RecordAt

\* The fields of a layout that lists them in order are apart.
LEMMA InOrderApart ==
  ASSUME NEW layout, NEW n \in Nat, DOMAIN layout = 1..n,
         \A i \in 1..n : layout[i][2] \in Nat /\ layout[i][3] \in Nat,
         \A i \in 1..(n - 1) : layout[i][2] + layout[i][3] <= layout[i + 1][2]
  PROVE  Apart(layout)
<1>1. ASSUME NEW i \in 1..n, NEW j \in 1..n, i < j
      PROVE  layout[i][2] + layout[i][3] <= layout[j][2]
  <2> DEFINE Good(k) == layout[i][2] + layout[i][3] <= layout[k][2]
             Bad == {k \in Nat : i < k /\ k <= n /\ ~Good(k)}
  <2>1. SUFFICES ASSUME ~Good(j)
                 PROVE  FALSE
    OBVIOUS
  <2>2. PICK k \in Bad : \A m \in Bad : k <= m
    <3>1. j \in Bad /\ Bad \in SUBSET Nat
      BY <1>1, <2>1
    <3> HIDE DEF Bad
    <3>2. QED
      BY <3>1, LeastNatural
  <2>3. k \in Nat /\ i < k /\ k <= n /\ ~Good(k)
    OBVIOUS
  <2>4. k - 1 \in 1..(n - 1) /\ (k - 1) + 1 = k /\ k - 1 \in 1..n /\ k \in 1..n
    BY <1>1, <2>3
  <2>5. layout[k - 1][2] + layout[k - 1][3] <= layout[k][2]
    BY <2>4
  <2>6. k - 1 # i
    BY <2>3, <2>5
  <2>7. k - 1 \notin Bad /\ i < k - 1
    BY <2>2, <2>3, <2>6
  <2>8. Good(k - 1)
    BY <2>4, <2>7
  <2>9. layout[k - 1][2] \in Nat /\ layout[k - 1][3] \in Nat /\ layout[k][2] \in Nat /\ layout[i][2] \in Nat
        /\ layout[i][3] \in Nat
    BY <2>4
  <2>10. Good(k)
    BY <2>5, <2>8, <2>9
  <2>11. QED
    BY <2>3, <2>10
<1>2. QED
  BY <1>1 DEF Apart

\* The layouts keep their fields apart.
LEMMA HeaderLaid == WellLaid(CheckedHeader, 0, 20) /\ WellLaid(ReportHeader, 20, 192)
<1>1. WellLaid(CheckedHeader, 0, 20)
  <2>1. Apart(CheckedHeader) /\ Distinct(CheckedHeader)
    BY DEF Apart, Distinct, CheckedHeader
  <2>2. Between(CheckedHeader, 0, 20)
    BY DEF Between, CheckedHeader
  <2>3. QED
    BY <2>1, <2>2 DEF WellLaid
<1>2. WellLaid(ReportHeader, 20, 192)
  <2>1. Apart(ReportHeader)
    BY DEF Apart, ReportHeader
  <2>2. Distinct(ReportHeader)
    BY DEF Distinct, ReportHeader
  <2>3. Between(ReportHeader, 20, 192)
    BY DEF Between, ReportHeader
  <2>4. QED
    BY <2>1, <2>2, <2>3 DEF WellLaid
<1>3. QED
  BY <1>1, <1>2

\* The fields of a service lie side by side, within its record.
LEMMA ServiceLaid == WellLaid(ServiceRecord, 0, 368)
<1>1. DOMAIN ServiceRecord = 1..28
  BY DEF ServiceRecord
<1>2. Between(ServiceRecord, 0, 368)
  <2>1. \A i \in 1..28 : ServiceRecord[i][2] \in Nat /\ ServiceRecord[i][2] >= 0
    BY DEF ServiceRecord
  <2>2. \A i \in 1..28 : ServiceRecord[i][3] \in Nat /\ ServiceRecord[i][3] > 0
    BY DEF ServiceRecord
  <2>3. \A i \in 1..28 : ServiceRecord[i][2] + ServiceRecord[i][3] <= 368
    BY DEF ServiceRecord
  <2>4. QED
    BY <1>1, <2>1, <2>2, <2>3 DEF Between
<1>3. \A i \in 1..(28 - 1) : ServiceRecord[i][2] + ServiceRecord[i][3] <= ServiceRecord[i + 1][2]
  BY DEF ServiceRecord
<1>4. \A i \in 1..28 : ServiceRecord[i][2] \in Nat /\ ServiceRecord[i][3] \in Nat
  BY <1>1, <1>2 DEF Between
<1>5. Apart(ServiceRecord)
  BY <1>1, <1>3, <1>4, InOrderApart
<1>6. Distinct(ServiceRecord)
  BY SMTT(30) DEF Distinct, ServiceRecord
<1>7. QED
  BY <1>2, <1>5, <1>6 DEF WellLaid

\* And those of a GPU.
LEMMA GpuLaid == WellLaid(GpuRecord, 0, 160)
<1>1. Apart(GpuRecord) /\ Distinct(GpuRecord)
  BY DEF Apart, Distinct, GpuRecord
<1>2. Between(GpuRecord, 0, 160)
  BY DEF Between, GpuRecord
<1>3. QED
  BY <1>1, <1>2 DEF WellLaid

\* And those of a health record.
LEMMA HealthLaid == WellLaid(HealthRecord, 0, 128)
<1>1. Apart(HealthRecord) /\ Distinct(HealthRecord)
  BY DEF Apart, Distinct, HealthRecord
<1>2. Between(HealthRecord, 0, 128)
  BY DEF Between, HealthRecord
<1>3. QED
  BY <1>1, <1>2 DEF WellLaid

\* And those of a command and of its reply.
LEMMA MessagesLaid == WellLaid(CommandMessage, 0, 65) /\ WellLaid(CommandReply, 0, 128)
<1>1. Apart(CommandMessage) /\ Distinct(CommandMessage) /\ Between(CommandMessage, 0, 65)
  BY DEF Apart, Distinct, Between, CommandMessage
<1>2. Apart(CommandReply) /\ Distinct(CommandReply) /\ Between(CommandReply, 0, 128)
  BY DEF Apart, Distinct, Between, CommandReply
<1>3. QED
  BY <1>1, <1>2 DEF WellLaid

----------------------------------------------------------------------------
(* The texts *)

\* What Max is of a set of numbers with a greatest one.
LEMMA MaxOf ==
  ASSUME NEW S \in SUBSET Nat, NEW x \in S, \A y \in S : x >= y
  PROVE  Max(S) = x
<1> DEFINE m == Max(S)
<1>1. m \in S /\ \A y \in S : m >= y
  BY DEF Max
<1> HIDE DEF m
<1>2. m >= x /\ x >= m /\ m \in Nat /\ x \in Nat
  BY <1>1
<1>3. m = x
  BY <1>2
<1>4. QED
  BY <1>3 DEF m

\* FitUtf8 keeps all the characters that the field has room for.
LEMMA FitIs ==
  ASSUME NEW text, IsUtf8(text), NEW width \in Nat, width > 1
  PROVE  FitUtf8(text, width - 1) = Fitted(text, width)
<1> DEFINE cuts == {n \in 0..Len(text) : n < width /\ (n < Len(text) => text[n + 1] # Continued)}
           ends == {0} \cup {end \in 1..(width - 1) : text[end + 1] # Continued}
<1>0. text \in Seq({Whole, Lead, Continued}) /\ Len(text) \in Nat
  BY DEF IsUtf8
<1>1. CASE Len(text) <= width - 1
  <2>1. Len(text) \in cuts /\ \A y \in cuts : Len(text) >= y
    BY <1>0, <1>1
  <2>2. cuts \in SUBSET Nat
    BY <1>0
  <2> HIDE DEF cuts
  <2>3. Max(cuts) = Len(text)
    BY <2>1, <2>2, MaxOf
  <2>4. SubSeq(text, 1, Len(text)) = text
    BY <1>0
  <2>5. Fitted(text, width) = SubSeq(text, 1, Max(cuts))
    BY DEF Fitted, cuts
  <2>6. FitUtf8(text, width - 1) = text
    BY <1>1 DEF FitUtf8
  <2>7. QED
    BY <2>3, <2>4, <2>5, <2>6
<1>2. CASE ~(Len(text) <= width - 1)
  <2>1. width <= Len(text)
    BY <1>0, <1>2
  <2>2. text # <<>> /\ text[0 + 1] # Continued
    BY <1>0, <2>1 DEF IsUtf8
  <2>3. cuts = {n \in 0..Len(text) : n < width /\ text[n + 1] # Continued}
    BY <1>0, <2>1
  <2>4. cuts = ends
    <3>1. ASSUME NEW n \in cuts
          PROVE  n \in ends
      BY <2>3
    <3>2. ASSUME NEW n \in ends
          PROVE  n \in cuts
      BY <1>0, <2>1, <2>2, <2>3
    <3>3. QED
      BY <3>1, <3>2
  <2>5. Fitted(text, width) = SubSeq(text, 1, Max(cuts))
    BY DEF Fitted
  <2>6. FitUtf8(text, width - 1) = SubSeq(text, 1, Max(ends))
    BY <1>2 DEF FitUtf8
  <2> HIDE DEF cuts, ends
  <2>7. QED
    BY <2>4, <2>5, <2>6
<1>3. QED
  BY <1>1, <1>2

\* The GUI cuts a text where the manager does.
LEMMA GuiFitIs ==
  ASSUME NEW text, IsUtf8(text), NEW room \in Nat, room > 0
  PROVE  GuiFit(text, room) = FitUtf8(text, room)
<1> DEFINE raw == SubSeq(text, 1, IF Len(text) < room THEN Len(text) ELSE room)
           begins == {0} \cup {i \in DOMAIN raw : raw[i] # Continued}
           begin == Max(begins)
           split == Len(raw) < Len(text) /\ begin > 0 /\ text[Len(raw) + 1] = Continued
           ends == {0} \cup {end \in 1..room : text[end + 1] # Continued}
<1>0. text \in Seq({Whole, Lead, Continued}) /\ Len(text) \in Nat
  BY DEF IsUtf8
<1>1. GuiFit(text, room) = IF split THEN SubSeq(raw, 1, begin - 1) ELSE raw
  BY DEF GuiFit
<1>2. CASE Len(text) <= room
  <2>1. SubSeq(text, 1, Len(text)) = text
    BY <1>0
  <2>2. raw = text
    <3>1. (IF Len(text) < room THEN Len(text) ELSE room) = Len(text)
      BY <1>0, <1>2
    <3>2. QED
      BY <2>1, <3>1
  <2> HIDE DEF begin, raw
  <2>3. ~split
    BY <1>0, <2>2
  <2> HIDE DEF split
  <2>4. QED
    BY <1>1, <1>2, <2>2, <2>3 DEF FitUtf8
<1>3. CASE ~(Len(text) <= room)
  <2>1. room < Len(text) /\ raw = SubSeq(text, 1, room)
    BY <1>0, <1>3
  <2>2. FitUtf8(text, room) = SubSeq(text, 1, Max(ends))
    BY <1>3 DEF FitUtf8
  <2>3. Len(raw) = room /\ DOMAIN raw = 1..room /\ \A i \in 1..room : raw[i] = text[i]
    <3>1. Len(SubSeq(text, 1, room)) = room /\ DOMAIN SubSeq(text, 1, room) = 1..room
          /\ \A i \in 1..room : SubSeq(text, 1, room)[i] = text[i]
      BY <1>0, <2>1
    <3> HIDE DEF raw
    <3>2. QED
      BY <2>1, <3>1
  <2>4. text[1] # Continued
    BY <1>0, <2>1 DEF IsUtf8
  <2> HIDE DEF raw
  <2>5. begins = {0} \cup {i \in 1..room : text[i] # Continued}
    BY <2>3
  <2>6. begin \in begins /\ \A i \in begins : begin >= i
    <3>1. begins \in SUBSET Nat /\ IsFiniteSet(begins) /\ begins # {}
      <4>1. begins \subseteq 0..room
        BY <2>5
      <4>2. IsFiniteSet(0..room)
        BY FS_Interval
      <4>3. QED
        BY <4>1, <4>2, FS_Subset
    <3> HIDE DEF begins
    <3>2. \E x \in begins : \A y \in begins : x >= y
      BY <3>1, GreatestNatural
    <3>3. QED
      BY <3>2 DEF Max
  <2>7. begin \in 1..room /\ text[begin] # Continued /\ \A i \in 1..room : text[i] # Continued => i <= begin
    <3>1. 1 \in begins
      BY <2>4, <2>5
    <3> HIDE DEF begin
    <3>2. begin >= 1 /\ begin \in {0} \cup {i \in 1..room : text[i] # Continued}
      BY <2>5, <2>6, <3>1
    <3>3. \A i \in 1..room : text[i] # Continued => begin >= i
      BY <2>5, <2>6
    <3>4. QED
      BY <3>2, <3>3
  <2> HIDE DEF begin
  <2>8. ends \in SUBSET Nat
    OBVIOUS
  <2>9. CASE text[room + 1] # Continued
    <3>1. room \in ends /\ \A y \in ends : room >= y
      BY <2>9
    <3> HIDE DEF ends
    <3>2. Max(ends) = room
      BY <2>8, <3>1, MaxOf
    <3>3. ~split
      BY <2>3, <2>9
    <3> HIDE DEF split
    <3>4. QED
      BY <1>1, <2>1, <2>2, <3>2, <3>3
  <2>10. CASE text[room + 1] = Continued
    <3>1. split
      BY <2>1, <2>3, <2>7, <2>10
    <3>2. begin - 1 \in ends
      BY <2>7
    <3>3. ASSUME NEW y \in ends
          PROVE  begin - 1 >= y
      <4>1. CASE y = 0
        BY <2>7, <4>1
      <4>2. CASE y # 0
        <5>1. y \in 1..room /\ text[y + 1] # Continued
          BY <4>2
        <5>2. y # room
          BY <2>10, <5>1
        <5>3. y + 1 \in 1..room
          BY <5>1, <5>2
        <5>4. QED
          BY <2>7, <5>1, <5>3
      <4>3. QED
        BY <4>1, <4>2
    <3> HIDE DEF ends
    <3>4. Max(ends) = begin - 1
      BY <2>7, <2>8, <3>2, <3>3, MaxOf
    <3>5. SubSeq(raw, 1, begin - 1) = SubSeq(text, 1, begin - 1)
      <4> DEFINE m == begin - 1
                 one == SubSeq(SubSeq(text, 1, room), 1, m)
                 two == SubSeq(text, 1, m)
      <4>1. m \in Nat /\ m <= room
        BY <2>7
      <4> HIDE DEF m
      <4>2. one = [i \in 1..m |-> text[i]] /\ two = [i \in 1..m |-> text[i]]
        BY <1>0, <2>1, <4>1
      <4>3. QED
        BY <2>1, <4>2 DEF m
    <3> HIDE DEF split
    <3>6. QED
      BY <1>1, <2>2, <3>1, <3>4, <3>5
  <2>11. QED
    BY <2>9, <2>10
<1>4. QED
  BY <1>2, <1>3

\* A record of UTF-8 texts is written as it is meant.
LEMMA EncodedIsMeant ==
  ASSUME NEW layout, NEW record, NEW lo, NEW hi, WellLaid(layout, lo, hi), IsRecord(layout, record)
  PROVE  Encoded(layout, record) = Meant(layout, record)
<1>1. ASSUME NEW field \in Fields(layout)
      PROVE  LET width == layout[CHOOSE i \in DOMAIN layout : layout[i][1] = field][3]
             IN  Written(width, record[field])
                   = IF IsText(width) THEN Fitted(record[field], width) ELSE record[field]
  <2> DEFINE i == CHOOSE i \in DOMAIN layout : layout[i][1] = field
             width == layout[i][3]
  <2>1. i \in DOMAIN layout /\ layout[i][1] = field
    BY DEF Fields
  <2>2. width \in Nat
    BY <2>1 DEF WellLaid, Between
  <2>3. ASSUME IsText(width)
        PROVE  FitUtf8(record[field], width - 1) = Fitted(record[field], width)
    <3>1. IsUtf8(record[field]) /\ width > 1
      BY <2>1, <2>2, <2>3 DEF IsRecord, IsText
    <3> HIDE DEF width
    <3>2. QED
      BY <2>2, <3>1, FitIs
  <2>4. QED
    BY <2>3 DEF Written
<1>2. QED
  BY <1>1 DEF Encoded, Meant

\* A field as wide as a number is meant as it is.
LEMMA MeantNumber ==
  ASSUME NEW layout, NEW record, NEW lo, NEW hi, WellLaid(layout, lo, hi),
         NEW i \in DOMAIN layout, ~IsText(layout[i][3])
  PROVE  /\ Meant(layout, record)[layout[i][1]] = record[layout[i][1]]
         /\ Encoded(layout, record)[layout[i][1]] = record[layout[i][1]]
<1> DEFINE field == layout[i][1]
           j == CHOOSE k \in DOMAIN layout : layout[k][1] = field
<1>1. j \in DOMAIN layout /\ layout[j][1] = layout[i][1]
  OBVIOUS
<1>2. j = i
  BY <1>1 DEF WellLaid, Distinct
<1>3. field \in Fields(layout)
  BY DEF Fields
<1> HIDE DEF j
<1>4. Meant(layout, record)[field]
        = IF IsText(layout[j][3]) THEN Fitted(record[field], layout[j][3]) ELSE record[field]
  BY <1>3 DEF Meant, j
<1>5. Encoded(layout, record)[field] = Written(layout[j][3], record[field])
  BY <1>3 DEF Encoded, j
<1>6. QED
  BY <1>2, <1>4, <1>5 DEF Written

\* Numbers are what they are.
LEMMA NumberIs ==
  ASSUME NEW n \in Nat
  PROVE  AsNumber(Number(n)) = n
<1>1. CASE n = 0
  BY <1>1 DEF AsNumber, Number
<1>2. CASE n # 0
  <2>1. <<n>> # <<>> /\ <<n>>[1] = n
    OBVIOUS
  <2>2. QED
    BY <1>2, <2>1 DEF AsNumber, Number, Zero
<1>3. QED
  BY <1>1, <1>2

\* Nothing of what is written is left out of a payload as long as it.
LEMMA PayloadIs ==
  ASSUME NEW size \in Nat, NEW spans, \A t \in spans : \E lo \in Nat : Within(t, lo, size)
  PROVE  Payload(size, spans) = [size |-> size, spans |-> spans]
<1>1. \A t \in spans : Reach(t) <= size
  BY DEF Within
<1>2. {t \in spans : Reach(t) <= size} = spans
  BY <1>1
<1>3. QED
  BY <1>2 DEF Payload

----------------------------------------------------------------------------
(* The layouts of the GUI *)

\* Where the members of a struct lie.
LEMMA StructIs ==
  ASSUME NEW members, NEW n \in Nat, DOMAIN members = 1..n, NEW at \in [1..n -> Nat],
         \A k \in 1..n :
           at[k] = (((IF k = 1 THEN 0 ELSE at[k - 1] + members[k - 1][2]) + members[k][3] - 1)
                      \div members[k][3]) * members[k][3]
  PROVE  StructLayout(members) = [i \in 1..n |-> <<members[i][1], at[i], members[i][2]>>]
<1> DEFINE Round(x, to) == ((x + to - 1) \div to) * to
           Step(F) == [k \in 1..n |-> Round(IF k = 1 THEN 0 ELSE F[k - 1] + members[k - 1][2], members[k][3])]
           From == CHOOSE F : F = Step(F)
<1>1. StructLayout(members) = [i \in 1..n |-> <<members[i][1], From[i], members[i][2]>>]
  BY DEF StructLayout
<1>2. at = Step(at)
  OBVIOUS
<1>3. From = Step(From)
  <2> HIDE DEF Step
  <2>1. QED
    BY <1>2
<1> HIDE DEF From
<1>4. \A k \in 1..n : From[k] = Round(IF k = 1 THEN 0 ELSE From[k - 1] + members[k - 1][2], members[k][3])
  BY <1>3
<1>5. \A k \in 1..n : at[k] = Round(IF k = 1 THEN 0 ELSE at[k - 1] + members[k - 1][2], members[k][3])
  OBVIOUS
<1> HIDE DEF Round, Step
<1>6. ASSUME NEW k \in 1..n, From[k] # at[k]
      PROVE  FALSE
  <2> DEFINE Bad == {m \in Nat : m \in 1..n /\ From[m] # at[m]}
  <2>1. PICK m \in Bad : \A j \in Bad : m <= j
    <3>1. k \in Bad /\ Bad \in SUBSET Nat
      BY <1>6
    <3> HIDE DEF Bad
    <3>2. QED
      BY <3>1, LeastNatural
  <2>2. m \in 1..n /\ From[m] # at[m]
    OBVIOUS
  <2>3. CASE m = 1
    BY <1>4, <1>5, <2>2, <2>3
  <2>4. CASE m # 1
    <3>1. m - 1 \in 1..n /\ m - 1 \in Nat /\ ~(m <= m - 1)
      BY <2>2, <2>4
    <3>2. From[m - 1] = at[m - 1]
      BY <2>1, <3>1
    <3>3. QED
      BY <1>4, <1>5, <2>2, <2>4, <3>2
  <2>5. QED
    BY <2>3, <2>4
<1>7. QED
  BY <1>1, <1>6

\* They are the manager's.
LEMMA GuiLayouts ==
  /\ GuiHealthReport = HealthRecord
  /\ GuiCommandMessage = CommandMessage
  /\ GuiCommandReply = CommandReply
<1>1. GuiHealthReport = HealthRecord
  <2> DEFINE m == <<<<"processName", 64, 1>>, <<"pid", 4, 4>>, <<"memoryUsageInBytes", 8, 8>>,
                    <<"cpuUsageInUsec", 8, 8>>, <<"state", 1, 8>>, <<"startTime", 8, 8>>,
                    <<"lastSeen", 8, 8>>, <<"missedBeats", 4, 4>>, <<"restartCount", 4, 4>>,
                    <<"snapshotTime", 8, 8>>>>
             at == <<0, 64, 72, 80, 88, 96, 104, 112, 116, 120>>
  <2>1. DOMAIN m = 1..10 /\ at \in [1..10 -> Nat]
    OBVIOUS
  <2>2. \A k \in 1..10 :
          at[k] = (((IF k = 1 THEN 0 ELSE at[k - 1] + m[k - 1][2]) + m[k][3] - 1) \div m[k][3]) * m[k][3]
    OBVIOUS
  <2>3. HealthRecord = [i \in 1..10 |-> <<m[i][1], at[i], m[i][2]>>]
    BY DEF HealthRecord
  <2>4. GuiHealthReport = StructLayout(m)
    BY DEF GuiHealthReport
  <2> HIDE DEF m, at
  <2>5. StructLayout(m) = [i \in 1..10 |-> <<m[i][1], at[i], m[i][2]>>]
    <3>1. 10 \in Nat
      OBVIOUS
    <3>2. QED
      BY <2>1, <2>2, <3>1, StructIs
  <2>6. QED
    BY <2>3, <2>4, <2>5
<1>2. GuiCommandMessage = CommandMessage
  <2> DEFINE m == <<<<"command", 1, 1>>, <<"serviceName", 32, 1>>, <<"args", 32, 1>>>>
             at == <<0, 1, 33>>
  <2>1. DOMAIN m = 1..3 /\ at \in [1..3 -> Nat]
    OBVIOUS
  <2>2. \A k \in 1..3 :
          at[k] = (((IF k = 1 THEN 0 ELSE at[k - 1] + m[k - 1][2]) + m[k][3] - 1) \div m[k][3]) * m[k][3]
    OBVIOUS
  <2>3. CommandMessage = [i \in 1..3 |-> <<m[i][1], at[i], m[i][2]>>]
    BY DEF CommandMessage
  <2>4. GuiCommandMessage = StructLayout(m)
    BY DEF GuiCommandMessage
  <2> HIDE DEF m, at
  <2>5. StructLayout(m) = [i \in 1..3 |-> <<m[i][1], at[i], m[i][2]>>]
    <3>1. 3 \in Nat
      OBVIOUS
    <3>2. QED
      BY <2>1, <2>2, <3>1, StructIs
  <2>6. QED
    BY <2>3, <2>4, <2>5
<1>3. GuiCommandReply = CommandReply
  <2> DEFINE m == <<<<"command", 1, 1>>, <<"result", 1, 1>>, <<"serviceName", 32, 1>>, <<"message", 94, 1>>>>
             at == <<0, 1, 2, 34>>
  <2>1. DOMAIN m = 1..4 /\ at \in [1..4 -> Nat]
    OBVIOUS
  <2>2. \A k \in 1..4 :
          at[k] = (((IF k = 1 THEN 0 ELSE at[k - 1] + m[k - 1][2]) + m[k][3] - 1) \div m[k][3]) * m[k][3]
    OBVIOUS
  <2>3. CommandReply = [i \in 1..4 |-> <<m[i][1], at[i], m[i][2]>>]
    BY DEF CommandReply
  <2>4. GuiCommandReply = StructLayout(m)
    BY DEF GuiCommandReply
  <2> HIDE DEF m, at
  <2>5. StructLayout(m) = [i \in 1..4 |-> <<m[i][1], at[i], m[i][2]>>]
    <3>1. 4 \in Nat
      OBVIOUS
    <3>2. QED
      BY <2>1, <2>2, <3>1, StructIs
  <2>6. QED
    BY <2>3, <2>4, <2>5
<1>4. QED
  BY <1>1, <1>2, <1>3

----------------------------------------------------------------------------
(* Commands and their replies *)

\* A message of one record is read as it was meant.
LEMMA MessageBack ==
  ASSUME NEW layout, NEW record, NEW size \in Nat, WellLaid(layout, 0, size), IsRecord(layout, record)
  PROVE  LET payload == Payload(size, EncodeFields(layout, record, 0))
         IN  payload.size = size /\ DecodeFields(layout, payload, 0, size) = Meant(layout, record)
<1> DEFINE spans == EncodeFields(layout, record, 0)
           payload == Payload(size, spans)
<1>1. \A t \in spans : Within(t, 0 + 0, 0 + size)
  BY FieldsWithin DEF WellLaid
<1>2. \A t \in spans : \E lo \in Nat : Within(t, lo, size)
  BY <1>1
<1> HIDE DEF spans
<1>3. payload = [size |-> size, spans |-> spans]
  BY <1>2, PayloadIs
<1>4. payload.size = size /\ payload.spans = spans
  BY <1>3
<1> HIDE DEF payload
<1>5. DecodeFields(layout, payload, 0, size) = Encoded(layout, record)
  <2>1. Carries(payload, layout, record, 0, 0, size)
    BY <1>4 DEF Carries, spans
  <2>2. QED
    BY <2>1, FieldsBack
<1>6. QED
  BY <1>4, <1>5, EncodedIsMeant DEF payload, spans

\* The GUI writes the commands that the manager does.
LEMMA GuiCommandIs ==
  ASSUME NEW message, IsRecord(CommandMessage, message)
  PROVE  GuiEncodeCommand(message) = EncodeCommand(message)
<1> DEFINE layout == CommandMessage
           Ours(i) == Span(0 + layout[i][2], layout[i][3],
                           IF IsText(layout[i][3]) THEN FitUtf8(message[layout[i][1]], layout[i][3] - 1)
                           ELSE message[layout[i][1]])
           Theirs(i) == Span(layout[i][2], layout[i][3],
                             IF IsText(layout[i][3]) THEN GuiFit(message[layout[i][1]], layout[i][3] - 1)
                             ELSE message[layout[i][1]])
<1>1. ASSUME NEW i \in DOMAIN layout
      PROVE  Ours(i) = Theirs(i)
  <2>1. layout[i][2] \in Nat /\ layout[i][3] \in Nat
    BY MessagesLaid DEF WellLaid, Between
  <2>2. 0 + layout[i][2] = layout[i][2]
    BY <2>1
  <2>3. ASSUME IsText(layout[i][3])
        PROVE  FitUtf8(message[layout[i][1]], layout[i][3] - 1) = GuiFit(message[layout[i][1]], layout[i][3] - 1)
    <3>1. IsUtf8(message[layout[i][1]]) /\ layout[i][3] - 1 \in Nat /\ layout[i][3] - 1 > 0
      BY <2>1, <2>3 DEF IsRecord, IsText
    <3> HIDE DEF layout
    <3>2. QED
      BY <3>1, GuiFitIs
  <2>4. QED
    BY <2>2, <2>3
<1>2. EncodeFields(layout, message, 0) = {Ours(i) : i \in DOMAIN layout}
  BY DEF EncodeFields
<1>3. GuiEncodeCommand(message) = Payload(CommandSize, {Theirs(i) : i \in DOMAIN layout})
  BY GuiLayouts DEF GuiEncodeCommand
<1> HIDE DEF Ours, Theirs
<1>4. {Ours(i) : i \in DOMAIN layout} = {Theirs(i) : i \in DOMAIN layout}
  BY <1>1
<1>5. QED
  BY <1>2, <1>3, <1>4 DEF EncodeCommand

\* What a reader of a payload reads is what is meant by it.
Good(sent) ==
  /\ sent.kind \in {"report", "health", "command", "reply"}
  /\ ReadersOf(sent.payload)[sent.kind] = {sent.meant}

\* Each reader of a command takes what was sent of it.
LEMMA CommandsGood == ASSUME NEW sent \in CommandCases PROVE Good(sent)
<1>1. PICK message \in Commands :
        \/ \E payload \in {EncodeCommand(message), GuiEncodeCommand(message)} :
             sent = Sent("command", payload, Taken(Meant(CommandMessage, message)))
        \/ \E length \in Lengths \ {CommandSize} :
             sent = Sent("command", Resized(EncodeCommand(message), length), Refused)
  BY DEF CommandCases
<1>2. IsRecord(CommandMessage, message) /\ Lengths \subseteq Nat
  BY WireAssumption
<1>3. /\ EncodeCommand(message).size = 65
      /\ DecodeFields(CommandMessage, EncodeCommand(message), 0, 65) = Meant(CommandMessage, message)
  BY <1>2, MessageBack, MessagesLaid DEF EncodeCommand, CommandSize
<1>4. DecodeCommand(EncodeCommand(message)) = Taken(Meant(CommandMessage, message))
  BY <1>3 DEF DecodeCommand, CommandSize
<1>5. CASE \E payload \in {EncodeCommand(message), GuiEncodeCommand(message)} :
             sent = Sent("command", payload, Taken(Meant(CommandMessage, message)))
  <2>1. sent = Sent("command", EncodeCommand(message), Taken(Meant(CommandMessage, message)))
    BY <1>2, <1>5, GuiCommandIs
  <2>2. QED
    BY <1>4, <2>1 DEF Good, Sent, ReadersOf
<1>6. CASE \E length \in Lengths \ {CommandSize} :
             sent = Sent("command", Resized(EncodeCommand(message), length), Refused)
  <2>1. PICK length \in Lengths \ {CommandSize} :
          sent = Sent("command", Resized(EncodeCommand(message), length), Refused)
    BY <1>6
  <2>2. Resized(EncodeCommand(message), length).size = length
    BY DEF Resized, Payload
  <2>3. DecodeCommand(Resized(EncodeCommand(message), length)) = Refused
    BY <2>1, <2>2 DEF DecodeCommand
  <2>4. QED
    BY <2>1, <2>3 DEF Good, Sent, ReadersOf
<1>7. QED
  BY <1>1, <1>5, <1>6

\* A result the reader knows is kept.
LEMMA ResultKept ==
  ASSUME NEW reply, NEW n \in 0..8, reply.result = Number(n)
  PROVE  KnownResult(Meant(CommandReply, reply)) = Meant(CommandReply, reply)
<1> DEFINE meant == Meant(CommandReply, reply)
<1>1. 2 \in DOMAIN CommandReply /\ CommandReply[2][1] = "result" /\ ~IsText(CommandReply[2][3])
  BY DEF CommandReply, IsText
<1>2. meant.result = Number(n)
  BY <1>1, MeantNumber, MessagesLaid
<1>3. ~(AsNumber(meant.result) > 8)
  BY <1>2, NumberIs
<1>4. meant = [field \in DOMAIN meant |-> meant[field]]
  BY DEF Meant
<1>5. KnownResult(meant) = [meant EXCEPT !.result = meant.result]
  BY <1>3 DEF KnownResult
<1> HIDE DEF meant
<1>6. [meant EXCEPT !.result = meant.result] = meant
  BY <1>4
<1>7. QED
  BY <1>5, <1>6 DEF meant

\* Each reader of a reply takes what was sent of it.
LEMMA RepliesGood == ASSUME NEW sent \in ReplyCases PROVE Good(sent)
<1>1. PICK reply \in Replies :
        \/ sent = Sent("reply", EncodeReply(reply), Taken(Meant(CommandReply, reply)))
        \/ \E length \in Lengths \ {ReplySize} :
             sent = Sent("reply", Resized(EncodeReply(reply), length), Refused)
  BY DEF ReplyCases
<1>2. IsRecord(CommandReply, reply) /\ reply.result \in {Number(n) : n \in 0..8}
  BY WireAssumption
<1>3. /\ EncodeReply(reply).size = 128
      /\ DecodeFields(CommandReply, EncodeReply(reply), 0, 128) = Meant(CommandReply, reply)
  BY <1>2, MessageBack, MessagesLaid DEF EncodeReply, ReplySize
<1>4. KnownResult(Meant(CommandReply, reply)) = Meant(CommandReply, reply)
  BY <1>2, ResultKept
<1>5. CASE sent = Sent("reply", EncodeReply(reply), Taken(Meant(CommandReply, reply)))
  <2>1. DecodeReply(EncodeReply(reply)) = Taken(Meant(CommandReply, reply))
    BY <1>3, <1>4 DEF DecodeReply, ReplySize
  <2>2. ParseCommandReply(EncodeReply(reply)) = Taken(Meant(CommandReply, reply))
    BY <1>3, GuiLayouts DEF ParseCommandReply, ReplySize
  <2>3. QED
    BY <1>5, <2>1, <2>2 DEF Good, Sent, ReadersOf
<1>6. CASE \E length \in Lengths \ {ReplySize} :
             sent = Sent("reply", Resized(EncodeReply(reply), length), Refused)
  <2>1. PICK length \in Lengths \ {ReplySize} :
          sent = Sent("reply", Resized(EncodeReply(reply), length), Refused)
    BY <1>6
  <2>2. Resized(EncodeReply(reply), length).size = length
    BY DEF Resized, Payload
  <2>3. /\ DecodeReply(Resized(EncodeReply(reply), length)) = Refused
        /\ ParseCommandReply(Resized(EncodeReply(reply), length)) = Refused
    BY <2>1, <2>2 DEF DecodeReply, ParseCommandReply
  <2>4. QED
    BY <2>1, <2>3 DEF Good, Sent, ReadersOf
<1>7. QED
  BY <1>1, <1>5, <1>6

----------------------------------------------------------------------------
(* The health of the services *)

\* What a sequence made by index holds, and how long it is.
LEMMA ListIs ==
  ASSUME NEW list, IsList(list)
  PROVE  Len(list) \in Nat /\ DOMAIN list = 1..Len(list)
<1>1. list \in Seq(ToSet(list))
  BY DEF IsList
<1> HIDE DEF ToSet
<1>2. QED
  BY <1>1

\* A sequence by its elements.
LEMMA ListOf ==
  ASSUME NEW n \in Nat, NEW f, DOMAIN f = 1..n, f = [i \in 1..n |-> f[i]]
  PROVE  Len(f) = n /\ f \in Seq({f[i] : i \in 1..n})
<1> DEFINE S == {f[i] : i \in 1..n}
<1>1. f \in [1..n -> S]
  OBVIOUS
<1> HIDE DEF S
<1>2. f \in Seq(S) /\ Len(f) = n
  BY <1>1
<1>3. QED
  BY <1>2 DEF S

\* What a manager's health records hold.
LEMMA HealthRecordsAre ==
  ASSUME NEW snapshot \in Snapshots
  PROVE  LET records == HealthOf(snapshot)
             n == Len(snapshot.statuses)
         IN  /\ n \in Nat /\ DOMAIN records = 1..n /\ Len(records) = n
             /\ \A i \in 1..n : IsRecord(HealthRecord, records[i])
             /\ \A i \in 1..n : \E k \in 0..4 : records[i].state = Number(k)
<1> DEFINE statuses == snapshot.statuses
           records == HealthOf(snapshot)
           n == Len(statuses)
           time == snapshot.header.snapshotTime
<1>1. n \in Nat /\ DOMAIN statuses = 1..n /\ \A i \in 1..n : IsStatus(statuses[i])
  <2>1. IsSnapshot(snapshot)
    BY WireAssumption
  <2>2. IsList(statuses) /\ \A i \in DOMAIN statuses : IsStatus(statuses[i])
    BY <2>1 DEF IsSnapshot
  <2> HIDE DEF statuses
  <2>3. QED
    BY <2>2, ListIs
<1>2. records = [i \in DOMAIN statuses |-> ToHealthRecord(statuses[i], time)]
  BY DEF HealthOf, BuildHealth
<1> HIDE DEF records, statuses, time
<1>3. records = [i \in 1..n |-> ToHealthRecord(statuses[i], time)]
  BY <1>1, <1>2
<1> HIDE DEF n
<1>4. DOMAIN records = 1..n /\ Len(records) = n
  <2>1. DOMAIN records = 1..n /\ records = [i \in 1..n |-> records[i]]
    BY <1>3
  <2>2. QED
    BY <1>1, <2>1, ListOf
<1>5. ASSUME NEW i \in 1..n
      PROVE  IsRecord(HealthRecord, records[i]) /\ \E k \in 0..4 : records[i].state = Number(k)
  <2> DEFINE own == statuses[i].fields
  <2>1. IsStatus(statuses[i])
    BY <1>1
  <2>2. records[i].processName = own.name /\ records[i].state = ToRuntimeState(own.state)
    BY <1>3 DEF ToHealthRecord
  <2>3. IsUtf8(own.name)
    <3>1. IsRecord(ServiceRecord, own)
      BY <2>1 DEF IsStatus
    <3>2. 1 \in DOMAIN ServiceRecord /\ ServiceRecord[1][1] = "name" /\ IsText(ServiceRecord[1][3])
      BY DEF ServiceRecord, IsText
    <3>3. IsUtf8(own[ServiceRecord[1][1]])
      BY <3>1, <3>2 DEF IsRecord
    <3>4. QED
      BY <3>2, <3>3
  <2>4. \A j \in DOMAIN HealthRecord : IsText(HealthRecord[j][3]) => HealthRecord[j][1] = "processName"
    BY DEF HealthRecord, IsText
  <2>5. IsRecord(HealthRecord, records[i])
    BY <2>2, <2>3, <2>4 DEF IsRecord
  <2>6. PICK s \in 0..7 : own.state = Number(s)
    BY <2>1 DEF IsStatus
  <2>7. AsNumber(own.state) = s
    BY <2>6, NumberIs
  <2>8. <<3, 1, 1, 2, 4, 3, 1, 4>>[s + 1] \in 0..4
    OBVIOUS
  <2>9. \E k \in 0..4 : records[i].state = Number(k)
    BY <2>2, <2>7, <2>8 DEF ToRuntimeState
  <2>10. QED
    BY <2>5, <2>9
<1>6. QED
  BY <1>1, <1>4, <1>5 DEF n, records, statuses

\* A state the reader knows is kept.
LEMMA HealthKept ==
  ASSUME NEW record, NEW n \in 0..4, record.state = Number(n)
  PROVE  KnownHealth(Meant(HealthRecord, record)) = Meant(HealthRecord, record)
<1> DEFINE meant == Meant(HealthRecord, record)
<1>1. 5 \in DOMAIN HealthRecord /\ HealthRecord[5][1] = "state" /\ ~IsText(HealthRecord[5][3])
  BY DEF HealthRecord, IsText
<1>2. meant.state = Number(n)
  BY <1>1, MeantNumber, HealthLaid
<1>3. ~(AsNumber(meant.state) > 4)
  BY <1>2, NumberIs
<1>4. meant = [field \in DOMAIN meant |-> meant[field]]
  BY DEF Meant
<1>5. KnownHealth(meant) = [meant EXCEPT !.state = meant.state]
  BY <1>3 DEF KnownHealth
<1> HIDE DEF meant
<1>6. [meant EXCEPT !.state = meant.state] = meant
  BY <1>4
<1>7. QED
  BY <1>5, <1>6 DEF meant

\* Records of 128 bytes, counted.
LEMMA HealthCount ==
  ASSUME NEW n \in Nat
  PROVE  /\ n * 128 \in Nat
         /\ (n * 128) % 128 = 0 /\ (n * 128) \div 128 = n
         /\ n * 128 - 4 >= 0 => (n * 128 - 4) % 128 # 0
         /\ (4 + n * 128) - 4 = n * 128
  OBVIOUS

\* The health records are read from where they are.
LEMMA HealthBack ==
  ASSUME NEW snapshot \in Snapshots, NEW base \in Nat, NEW payload,
         Holds(payload, HealthRecord, HealthOf(snapshot), base, 128, Len(snapshot.statuses))
  PROVE  [i \in 1..Len(snapshot.statuses) |->
            KnownHealth(DecodeFields(HealthRecord, payload, base + (i - 1) * 128, 128))]
           = MeantAll(HealthRecord, HealthOf(snapshot))
<1> DEFINE n == Len(snapshot.statuses)
           records == HealthOf(snapshot)
<1>1. /\ n \in Nat /\ DOMAIN records = 1..n /\ \A i \in 1..n : IsRecord(HealthRecord, records[i])
      /\ \A i \in 1..n : \E k \in 0..4 : records[i].state = Number(k)
  BY HealthRecordsAre
<1>2. Holds(payload, HealthRecord, records, base, 128, n)
  OBVIOUS
<1> HIDE DEF n, records
<1>3. ASSUME NEW i \in 1..n
      PROVE  KnownHealth(DecodeFields(HealthRecord, payload, base + (i - 1) * 128, 128))
               = Meant(HealthRecord, records[i])
  <2>1. DecodeFields(HealthRecord, payload, base + (i - 1) * 128, 128) = Encoded(HealthRecord, records[i])
    <3> DEFINE size == 128
    <3>1. size \in Nat /\ size <= size /\ WellLaid(HealthRecord, 0, size)
      BY HealthLaid
    <3>2. Holds(payload, HealthRecord, records, base, size, n)
      BY <1>2
    <3> HIDE DEF size
    <3>3. DecodeFields(HealthRecord, payload, RecordAt(base, i, size), size) = Encoded(HealthRecord, records[i])
      BY <1>1, <3>1, <3>2, RecordsBack
    <3>4. QED
      BY <3>3 DEF size, RecordAt
  <2>2. Encoded(HealthRecord, records[i]) = Meant(HealthRecord, records[i])
    BY <1>1, HealthLaid, EncodedIsMeant
  <2>3. QED
    BY <1>1, <2>1, <2>2, HealthKept
<1>4. MeantAll(HealthRecord, records) = [i \in 1..n |-> Meant(HealthRecord, records[i])]
  BY <1>1 DEF MeantAll
<1>5. QED
  BY <1>3, <1>4 DEF n, records

\* As the manager sends them.
LEMMA SentHealthRead ==
  ASSUME NEW snapshot \in Snapshots
  PROVE  DecodeHealthRecords(SentHealth(snapshot)) = Taken(MeantAll(HealthRecord, HealthOf(snapshot)))
<1> DEFINE n == Len(snapshot.statuses)
           records == HealthOf(snapshot)
           spans == EncodeRecords(HealthRecord, records, 0, 128)
           payload == SentHealth(snapshot)
<1>1. n \in Nat /\ DOMAIN records = 1..n /\ Len(records) = n
  BY HealthRecordsAre
<1>2. n * 128 \in Nat
  BY <1>1, HealthCount
<1>3. \A t \in spans : Within(t, 0, 0 + n * 128)
  <2> DEFINE zero == 0
  <2>1. zero \in Nat /\ Between(HealthRecord, 0, 128) /\ spans = EncodeRecords(HealthRecord, records, zero, 128)
    BY HealthLaid DEF WellLaid
  <2> HIDE DEF n, records, spans, zero
  <2>2. \A t \in spans : Within(t, zero, zero + n * 128)
    BY <1>1, <2>1, RecordsWithin
  <2>3. QED
    BY <2>2 DEF zero
<1>4. payload = [size |-> n * 128, spans |-> spans]
  <2>1. \A t \in spans : \E lo \in Nat : Within(t, lo, n * 128)
    BY <1>2, <1>3
  <2> HIDE DEF spans, n
  <2>2. Payload(n * 128, spans) = [size |-> n * 128, spans |-> spans]
    BY <1>2, <2>1, PayloadIs
  <2>3. payload = Payload(n * 128, spans)
    BY <1>1 DEF SentHealth, EncodeHealthRecords, HealthSize, spans
  <2>4. QED
    BY <2>2, <2>3
<1>5. payload.size = n * 128 /\ payload.spans = spans
  BY <1>4
<1> HIDE DEF payload
<1>6. [i \in 1..n |-> KnownHealth(DecodeFields(HealthRecord, payload, 0 + (i - 1) * 128, 128))]
        = MeantAll(HealthRecord, records)
  <2>1. Holds(payload, HealthRecord, records, 0, 128, n)
    BY <1>2, <1>5 DEF Holds
  <2>2. QED
    BY <2>1, HealthBack
<1>7. PrefixedCount(payload) = -1
  <2>1. n * 128 - 4 >= 0 => (n * 128 - 4) % 128 # 0
    BY <1>1, HealthCount
  <2>2. ~(payload.size - 4 >= 0 /\ (payload.size - 4) % 128 = 0)
    BY <1>5, <2>1
  <2>3. QED
    BY <2>2 DEF PrefixedCount, CountPrefix, HealthSize
<1> HIDE DEF n, records
<1>8. DecodeHealthBy(HealthRecord, payload)
        = Taken([i \in 1..n |-> KnownHealth(DecodeFields(HealthRecord, payload, 0 + (i - 1) * 128, 128))])
  <2>1. (n * 128) % 128 = 0 /\ (n * 128) \div 128 = n
    BY <1>1, HealthCount
  <2>2. ~(PrefixedCount(payload) >= 0) /\ PrefixedCount(payload) < 0
    BY <1>7
  <2>3. QED
    BY <1>5, <2>1, <2>2 DEF DecodeHealthBy, HealthSize
<1>9. QED
  BY <1>6, <1>8 DEF DecodeHealthRecords, payload, records

\* The payload of the records after their count.
LEMMA CountedIs ==
  ASSUME NEW snapshot \in Snapshots
  PROVE  LET n == Len(snapshot.statuses)
             prefix == Span(0, 4, Number(n))
             spans == EncodeRecords(HealthRecord, HealthOf(snapshot), 4, 128)
         IN  /\ n \in Nat /\ n * 128 \in Nat
             /\ Counted(snapshot) = [size |-> 4 + n * 128, spans |-> {prefix} \cup spans]
             /\ Within(prefix, 0, 4)
             /\ \A t \in spans : Within(t, 4, 4 + n * 128)
<1> DEFINE n == Len(snapshot.statuses)
           records == HealthOf(snapshot)
           prefix == Span(0, 4, Number(n))
           spans == EncodeRecords(HealthRecord, records, 4, 128)
<1>1. n \in Nat /\ DOMAIN records = 1..n /\ Len(records) = n
  BY HealthRecordsAre
<1>2. n * 128 \in Nat
  BY <1>1, HealthCount
<1>3. \A t \in spans : Within(t, 4, 4 + n * 128)
  BY <1>1, RecordsWithin, HealthLaid DEF WellLaid
<1>4. Within(prefix, 0, 4)
  BY DEF Within, Span, Reach
<1>5. Counted(snapshot) = Payload(4 + n * 128, {prefix} \cup spans)
  BY <1>1 DEF Counted, CountPrefix, HealthSize
<1> HIDE DEF n, prefix, spans
<1>6. \A t \in {prefix} \cup spans : \E lo \in Nat : Within(t, lo, 4 + n * 128)
  <2>1. Within(prefix, 0, 4 + n * 128)
    BY <1>2, <1>4 DEF Within, Reach
  <2>2. QED
    BY <1>3, <2>1
<1>7. Payload(4 + n * 128, {prefix} \cup spans) = [size |-> 4 + n * 128, spans |-> {prefix} \cup spans]
  <2>1. 4 + n * 128 \in Nat
    BY <1>2
  <2>2. QED
    BY <1>6, <2>1, PayloadIs
<1>8. QED
  BY <1>1, <1>2, <1>3, <1>4, <1>5, <1>7 DEF n, prefix, spans

\* The count is read where it stands, however much of the payload has come.
LEMMA PrefixBack ==
  ASSUME NEW snapshot \in Snapshots, NEW length \in Nat, 4 <= length
  PROVE  Read(Payload(length, Counted(snapshot).spans), 0, 4, 0, 4) = Number(Len(snapshot.statuses))
<1> DEFINE n == Len(snapshot.statuses)
           prefix == Span(0 + 0, 4, Number(n))
           spans == EncodeRecords(HealthRecord, HealthOf(snapshot), 4, 128)
           payload == Payload(length, Counted(snapshot).spans)
<1>1. /\ n \in Nat /\ n * 128 \in Nat
      /\ Counted(snapshot) = [size |-> 4 + n * 128, spans |-> {prefix} \cup spans]
      /\ Within(prefix, 0, 4)
      /\ \A t \in spans : Within(t, 4, 4 + n * 128)
  BY CountedIs
<1>2. payload.size = length /\ payload.spans = {t \in {prefix} \cup spans : Reach(t) <= length}
  BY <1>1 DEF Payload
<1>3. Reach(prefix) = 4
  BY DEF Reach, Span
<1> HIDE DEF n, spans, payload
<1>4. prefix \in payload.spans
  BY <1>2, <1>3
<1>5. \A t \in payload.spans : t = prefix \/ Misses(t, 0 + 0, 0 + 0 + 4)
  BY <1>1, <1>2 DEF Within, Misses, Reach
<1>6. Read(payload, 0, 4, 0, 4) = Number(n)
  <2> DEFINE zero == 0
             four == 4
  <2>1. zero \in Nat /\ four \in Nat /\ four > 0 /\ zero + zero + four <= payload.size /\ zero + four <= four
    BY <1>2
  <2>2. payload.size \in Nat /\ prefix = Span(zero + zero, four, Number(n))
    BY <1>2
  <2>3. \A t \in payload.spans : t = prefix \/ Misses(t, zero + zero, zero + zero + four)
    BY <1>5
  <2> HIDE DEF zero, four, prefix
  <2>4. Read(payload, zero, four, zero, four) = Number(n)
    BY <1>4, <2>1, <2>2, <2>3, ReadBack
  <2>5. QED
    BY <2>4 DEF zero, four
<1>7. QED
  BY <1>6 DEF payload, n

\* After their count.
LEMMA CountedRead ==
  ASSUME NEW snapshot \in Snapshots, Len(snapshot.statuses) < MaxHealthRecords
  PROVE  DecodeHealthRecords(Counted(snapshot)) = Taken(MeantAll(HealthRecord, HealthOf(snapshot)))
<1> DEFINE n == Len(snapshot.statuses)
           records == HealthOf(snapshot)
           prefix == Span(0, 4, Number(n))
           spans == EncodeRecords(HealthRecord, records, 4, 128)
           payload == Counted(snapshot)
<1>1. /\ n \in Nat /\ n * 128 \in Nat
      /\ payload = [size |-> 4 + n * 128, spans |-> {prefix} \cup spans]
      /\ Within(prefix, 0, 4)
      /\ \A t \in spans : Within(t, 4, 4 + n * 128)
  BY CountedIs
<1>2. payload.size = 4 + n * 128 /\ payload.spans = {prefix} \cup spans
  BY <1>1
<1>3. Read(payload, 0, 4, 0, 4) = Number(n)
  <2>1. Read(Payload(4 + n * 128, payload.spans), 0, 4, 0, 4) = Number(n)
    <3> DEFINE length == 4 + n * 128
    <3>1. length \in Nat /\ 4 <= length
      BY <1>1
    <3> HIDE DEF length
    <3>2. Read(Payload(length, payload.spans), 0, 4, 0, 4) = Number(n)
      BY <3>1, PrefixBack
    <3>3. QED
      BY <3>2 DEF length
  <2>2. \A t \in payload.spans : Reach(t) <= 4 + n * 128
    BY <1>1, <1>2 DEF Within, Reach
  <2>3. Payload(4 + n * 128, payload.spans) = payload
    BY <1>1, <1>2, <2>2 DEF Payload
  <2>4. QED
    BY <2>1, <2>3
<1> HIDE DEF payload
<1>4. [i \in 1..n |-> KnownHealth(DecodeFields(HealthRecord, payload, 4 + (i - 1) * 128, 128))]
        = MeantAll(HealthRecord, records)
  <2>1. Misses(prefix, 4, 4 + n * 128)
    BY <1>1 DEF Within, Misses
  <2>2. payload.size \in Nat
    BY <1>1, <1>2
  <2>3. 4 + n * 128 <= payload.size
    BY <1>1, <1>2
  <2>4. spans \subseteq payload.spans
    BY <1>2
  <2>5. \A t \in payload.spans : t \in spans \/ Misses(t, 4, 4 + n * 128)
    BY <1>2, <2>1
  <2>6. Holds(payload, HealthRecord, records, 4, 128, n)
    BY <2>2, <2>3, <2>4, <2>5 DEF Holds
  <2>7. QED
    BY <2>6, HealthBack
<1>5. n < 10000
  BY DEF MaxHealthRecords
<1> HIDE DEF n, records, prefix, spans
<1>6. PrefixedCount(payload) = n
  <2>1. payload.size - 4 = n * 128 /\ (n * 128) % 128 = 0 /\ (n * 128) \div 128 = n
    BY <1>1, <1>2, HealthCount
  <2>2. n * 128 >= 0
    BY <1>1
  <2>3. QED
    BY <1>3, <1>5, <2>1, <2>2 DEF PrefixedCount, CountPrefix, HealthSize, MaxHealthRecords
<1>7. DecodeHealthBy(HealthRecord, payload)
        = Taken([i \in 1..n |-> KnownHealth(DecodeFields(HealthRecord, payload, 4 + (i - 1) * 128, 128))])
  <2>1. PrefixedCount(payload) >= 0 /\ ~(PrefixedCount(payload) < 0)
    BY <1>1, <1>6
  <2>2. QED
    BY <1>6, <2>1 DEF DecodeHealthBy, HealthSize, CountPrefix
<1>8. QED
  BY <1>4, <1>7 DEF DecodeHealthRecords, payload, records

\* Payloads that are neither.
LEMMA DamagedHealthRefused ==
  ASSUME NEW snapshot \in Snapshots, NEW payload \in DamagedHealth(snapshot)
  PROVE  DecodeHealthRecords(payload) = Refused
<1> DEFINE n == Len(snapshot.statuses)
<1>1. PICK length \in Lengths :
        /\ length % 128 # 0
        /\ \/ length % 128 # 4 /\ payload = Resized(SentHealth(snapshot), length)
           \/ length # Counted(snapshot).size /\ payload = Resized(Counted(snapshot), length)
  BY DEF DamagedHealth, HealthSize, CountPrefix
<1>2. length \in Nat /\ payload.size = length
  BY <1>1, WireAssumption DEF Resized, Payload
<1>3. n \in Nat /\ Counted(snapshot).size = 4 + n * 128
  BY CountedIs
<1>4. PrefixedCount(payload) = -1
  <2>1. SUFFICES ASSUME /\ length - 4 >= 0 /\ (length - 4) % 128 = 0
                        /\ Read(payload, 0, 4, 0, 4) = Number((length - 4) \div 128)
                 PROVE  FALSE
    BY <1>2 DEF PrefixedCount, CountPrefix, HealthSize
  <2> DEFINE count == (length - 4) \div 128
  <2>2. count \in Nat /\ length = 4 + count * 128 /\ length % 128 = 4
    BY <1>2, <2>1
  <2>3. length # Counted(snapshot).size /\ payload = Resized(Counted(snapshot), length)
    BY <1>1, <2>2
  <2>4. Read(payload, 0, 4, 0, 4) = Number(n)
    BY <1>2, <2>1, <2>3, PrefixBack DEF Resized
  <2> HIDE DEF count, n
  <2>5. Number(n) = Number(count)
    BY <2>1, <2>4 DEF count
  <2>6. n = count
    BY <1>3, <2>2, <2>5, NumberIs
  <2>7. QED
    BY <1>3, <2>2, <2>3, <2>6
<1>5. QED
  BY <1>1, <1>2, <1>4 DEF DecodeHealthRecords, DecodeHealthBy, HealthSize

\* Each reader of health records takes what was sent of them.
LEMMA HealthGood == ASSUME NEW sent \in HealthCases PROVE Good(sent)
<1> DEFINE Meaning(snapshot) == Taken(MeantAll(HealthRecord, HealthOf(snapshot)))
<1>1. PICK snapshot \in Snapshots :
        \/ \E payload \in HealthPayloads(snapshot) : sent = Sent("health", payload, Meaning(snapshot))
        \/ \E payload \in DamagedHealth(snapshot) : sent = Sent("health", payload, Refused)
  BY DEF HealthCases
<1>2. \A payload : ParseHealthReports(payload) = DecodeHealthRecords(payload)
  BY GuiLayouts DEF ParseHealthReports, DecodeHealthRecords
<1>3. \A payload, meant :
        DecodeHealthRecords(payload) = meant => Good(Sent("health", payload, meant))
  BY <1>2 DEF Good, Sent, ReadersOf
<1>4. \A payload \in HealthPayloads(snapshot) : DecodeHealthRecords(payload) = Meaning(snapshot)
  BY SentHealthRead, CountedRead DEF HealthPayloads
<1>5. \A payload \in DamagedHealth(snapshot) : DecodeHealthRecords(payload) = Refused
  BY DamagedHealthRefused
<1> HIDE DEF Meaning
<1>6. QED
  BY <1>1, <1>3, <1>4, <1>5

----------------------------------------------------------------------------
(* The reports *)

\* The records of a later version are no smaller.
FitSizes(sizes) ==
  /\ sizes.header \in Nat /\ sizes.service \in Nat /\ sizes.gpu \in Nat
  /\ sizes.header >= 192 /\ sizes.service >= 368 /\ sizes.gpu >= 160

\* The parts of a report of n services and m GPUs: the fields that are checked and the others of
\* the header, the services, and the GPUs.
CheckedPart(checked) == EncodeFields(CheckedHeader, checked, 0)
HeaderPart(report) == EncodeFields(ReportHeader, report.header, 0)
ServicePart(sizes, report) == EncodeRecords(ServiceRecord, report.services, sizes.header, sizes.service)
GpuPart(sizes, report) ==
  EncodeRecords(GpuRecord, report.gpus, ReportSize(sizes, Len(report.services), 0), sizes.gpu)
ReportSpans(checked, sizes, report) ==
  CheckedPart(checked) \cup HeaderPart(report) \cup ServicePart(sizes, report) \cup GpuPart(sizes, report)

Counts(report, n, m) ==
  /\ n \in Nat /\ DOMAIN report.services = 1..n /\ Len(report.services) = n
  /\ m \in Nat /\ DOMAIN report.gpus = 1..m /\ Len(report.gpus) = m

\* Where the services and the GPUs end.
LEMMA PlacesAre ==
  ASSUME NEW sizes, NEW n \in Nat, NEW m \in Nat, FitSizes(sizes)
  PROVE  /\ n * sizes.service \in Nat /\ m * sizes.gpu \in Nat
         /\ ReportSize(sizes, n, 0) = sizes.header + n * sizes.service
         /\ ReportSize(sizes, n, m) = sizes.header + n * sizes.service + m * sizes.gpu
         /\ ReportSize(sizes, n, 0) \in Nat /\ ReportSize(sizes, n, m) \in Nat
         /\ 192 <= sizes.header /\ sizes.header <= ReportSize(sizes, n, 0)
         /\ ReportSize(sizes, n, 0) <= ReportSize(sizes, n, m)
         /\ \A j \in Nat : ReportSize(sizes, n, j) = ReportSize(sizes, n, 0) + j * sizes.gpu
<1> DEFINE S == n * sizes.service
           G == m * sizes.gpu
<1>0. sizes.header \in Nat /\ sizes.service \in Nat /\ sizes.gpu \in Nat /\ sizes.header >= 192
  BY DEF FitSizes
<1>1. S \in Nat /\ G \in Nat
  BY <1>0, TimesMore
<1>2. 0 * sizes.gpu = 0
  BY <1>0
<1>3. ReportSize(sizes, n, 0) = sizes.header + S + 0 /\ ReportSize(sizes, n, m) = sizes.header + S + G
  BY <1>2 DEF ReportSize
<1>4. ASSUME NEW j \in Nat
      PROVE  ReportSize(sizes, n, j) = ReportSize(sizes, n, 0) + j * sizes.gpu
  <2>1. ReportSize(sizes, n, j) = sizes.header + S + j * sizes.gpu /\ j * sizes.gpu \in Nat
    BY <1>0, TimesMore DEF ReportSize
  <2> HIDE DEF S
  <2>2. QED
    BY <1>0, <1>1, <1>3, <2>1
<1> HIDE DEF S, G
<1>5. /\ ReportSize(sizes, n, 0) = sizes.header + S /\ ReportSize(sizes, n, m) = sizes.header + S + G
      /\ ReportSize(sizes, n, 0) \in Nat /\ ReportSize(sizes, n, m) \in Nat
      /\ 192 <= sizes.header /\ sizes.header <= ReportSize(sizes, n, 0)
      /\ ReportSize(sizes, n, 0) <= ReportSize(sizes, n, m)
  BY <1>0, <1>1, <1>3
<1>6. QED
  BY <1>1, <1>4, <1>5 DEF S, G

\* Each part lies in a place of its own.
LEMMA PartsAre ==
  ASSUME NEW sizes, NEW report, NEW checked, NEW n, NEW m, FitSizes(sizes), Counts(report, n, m)
  PROVE  /\ \A t \in CheckedPart(checked) : Within(t, 0, 20)
         /\ \A t \in HeaderPart(report) : Within(t, 20, 192)
         /\ \A t \in ServicePart(sizes, report) : Within(t, sizes.header, ReportSize(sizes, n, 0))
         /\ \A t \in GpuPart(sizes, report) : Within(t, ReportSize(sizes, n, 0), ReportSize(sizes, n, m))
<1>0. /\ n \in Nat /\ DOMAIN report.services = 1..n /\ Len(report.services) = n
      /\ m \in Nat /\ DOMAIN report.gpus = 1..m
  BY DEF Counts
<1>1. \A t \in CheckedPart(checked) : Within(t, 0, 20)
  <2>1. \A t \in CheckedPart(checked) : Within(t, 0 + 0, 0 + 20)
    BY HeaderLaid, FieldsWithin DEF CheckedPart, WellLaid
  <2>2. QED
    BY <2>1
<1>2. \A t \in HeaderPart(report) : Within(t, 20, 192)
  <2>1. \A t \in HeaderPart(report) : Within(t, 0 + 20, 0 + 192)
    BY HeaderLaid, FieldsWithin DEF HeaderPart, WellLaid
  <2>2. QED
    BY <2>1
<1>3. \A t \in ServicePart(sizes, report) : Within(t, sizes.header, ReportSize(sizes, n, 0))
  <2> DEFINE base == sizes.header
             size == sizes.service
             records == report.services
  <2>1. base \in Nat /\ size \in Nat /\ 368 \in Nat /\ 368 <= size /\ Between(ServiceRecord, 0, 368)
    BY ServiceLaid DEF FitSizes, WellLaid
  <2>2. ServicePart(sizes, report) = EncodeRecords(ServiceRecord, records, base, size)
    BY DEF ServicePart
  <2>3. ReportSize(sizes, n, 0) = base + n * size
    BY <1>0, PlacesAre
  <2>4. DOMAIN records = 1..n
    BY <1>0
  <2> HIDE DEF base, size, records
  <2>5. \A t \in EncodeRecords(ServiceRecord, records, base, size) : Within(t, base, base + n * size)
    BY <1>0, <2>1, <2>4, RecordsWithin
  <2>6. \A t \in ServicePart(sizes, report) : Within(t, base, ReportSize(sizes, n, 0))
    BY <2>2, <2>3, <2>5
  <2>7. QED
    BY <2>6 DEF base
<1>4. \A t \in GpuPart(sizes, report) : Within(t, ReportSize(sizes, n, 0), ReportSize(sizes, n, m))
  <2> DEFINE base == ReportSize(sizes, n, 0)
             size == sizes.gpu
             records == report.gpus
  <2>1. base \in Nat /\ size \in Nat /\ 160 \in Nat /\ 160 <= size /\ Between(GpuRecord, 0, 160)
    BY <1>0, GpuLaid, PlacesAre DEF FitSizes, WellLaid
  <2>2. GpuPart(sizes, report) = EncodeRecords(GpuRecord, records, base, size)
    BY <1>0 DEF GpuPart
  <2>3. ReportSize(sizes, n, m) = base + m * size
    BY <1>0, PlacesAre
  <2>4. DOMAIN records = 1..m
    BY <1>0
  <2> HIDE DEF base, size, records
  <2>5. \A t \in EncodeRecords(GpuRecord, records, base, size) : Within(t, base, base + m * size)
    BY <1>0, <2>1, <2>4, RecordsWithin
  <2>6. \A t \in GpuPart(sizes, report) : Within(t, base, ReportSize(sizes, n, m))
    BY <2>2, <2>3, <2>5
  <2>7. QED
    BY <2>6 DEF base
<1>5. QED
  BY <1>1, <1>2, <1>3, <1>4

\* The payload is of all of them.
LEMMA ReportIs ==
  ASSUME NEW sizes, NEW report, NEW checked, NEW n, NEW m, FitSizes(sizes), Counts(report, n, m)
  PROVE  /\ EncodeStating(checked, sizes, report)
              = [size |-> ReportSize(sizes, n, m), spans |-> ReportSpans(checked, sizes, report)]
         /\ EncodeStating(checked, sizes, report)
              = Payload(ReportSize(sizes, n, m), ReportSpans(checked, sizes, report))
<1> DEFINE size == ReportSize(sizes, n, m)
           spans == ReportSpans(checked, sizes, report)
           mid == ReportSize(sizes, n, 0)
<1>0. n \in Nat /\ m \in Nat /\ Len(report.services) = n /\ Len(report.gpus) = m
  BY DEF Counts
<1>1. EncodeStating(checked, sizes, report) = Payload(size, spans)
  BY <1>0 DEF EncodeStating, ReportSpans, CheckedPart, HeaderPart, ServicePart, GpuPart
<1>2. size \in Nat /\ mid \in Nat /\ sizes.header \in Nat /\ 192 <= sizes.header /\ sizes.header <= mid /\ mid <= size
  BY <1>0, PlacesAre DEF FitSizes
<1>3. ASSUME NEW t \in spans
      PROVE  \E lo \in Nat : Within(t, lo, size)
  <2>1. Within(t, 0, 20) \/ Within(t, 20, 192) \/ Within(t, sizes.header, mid) \/ Within(t, mid, size)
    BY PartsAre DEF ReportSpans
  <2> HIDE DEF size, mid
  <2>2. Within(t, 0, size)
    BY <1>2, <2>1 DEF Within, Reach
  <2>3. QED
    BY <2>2
<1> HIDE DEF size, spans
<1>4. Payload(size, spans) = [size |-> size, spans |-> spans]
  BY <1>2, <1>3, PayloadIs
<1>5. QED
  BY <1>1, <1>4 DEF size, spans

\* What a payload states of itself is read while its header is there.
LEMMA StatedIs ==
  ASSUME NEW sizes, NEW report, NEW checked, NEW n, NEW m, NEW length \in Nat,
         FitSizes(sizes), Counts(report, n, m), 192 <= length
  PROVE  LET stated == Stated(Payload(length, ReportSpans(checked, sizes, report)))
         IN  /\ stated.magic = checked.magic /\ stated.version = checked.version
             /\ stated.headerSize = checked.headerSize /\ stated.recordSize = checked.recordSize
             /\ stated.gpuSize = checked.gpuSize /\ stated.serviceCount = checked.serviceCount
             /\ stated.gpuCount = checked.gpuCount
<1> DEFINE spans == ReportSpans(checked, sizes, report)
           payload == Payload(length, spans)
<1>0. n \in Nat /\ m \in Nat
  BY DEF Counts
<1>1. payload.size = length /\ payload.spans = {t \in spans : Reach(t) <= length}
  BY DEF Payload
<1>2. ASSUME NEW t \in spans
      PROVE  t \in CheckedPart(checked) \/ Misses(t, 0, 20)
  <2>1. 192 <= sizes.header /\ sizes.header <= ReportSize(sizes, n, 0)
    BY <1>0, PlacesAre
  <2>2. \/ t \in CheckedPart(checked) \/ Within(t, 20, 192)
        \/ Within(t, sizes.header, ReportSize(sizes, n, 0))
        \/ Within(t, ReportSize(sizes, n, 0), ReportSize(sizes, n, m))
    BY PartsAre DEF ReportSpans
  <2>3. sizes.header \in Nat /\ ReportSize(sizes, n, 0) \in Nat
    BY <1>0, PlacesAre DEF FitSizes
  <2>4. QED
    BY <2>1, <2>2, <2>3 DEF Within, Misses
<1>3. CheckedPart(checked) \subseteq payload.spans
  <2>1. CheckedPart(checked) \subseteq spans
    BY DEF ReportSpans
  <2>2. \A t \in CheckedPart(checked) : Reach(t) <= length
    <3>1. \A t \in CheckedPart(checked) : Within(t, 0, 20)
      BY PartsAre
    <3>2. QED
      BY <3>1 DEF Within, Reach
  <2>3. QED
    BY <1>1, <2>1, <2>2
<1> HIDE DEF payload
<1>4. DecodeFields(CheckedHeader, payload, 0, payload.size) = Encoded(CheckedHeader, checked)
  <2>1. \A t \in payload.spans : t \in EncodeFields(CheckedHeader, checked, 0) \/ Misses(t, 0 + 0, 0 + 20)
    BY <1>1, <1>2 DEF CheckedPart
  <2>2. EncodeFields(CheckedHeader, checked, 0) \subseteq payload.spans
    BY <1>3 DEF CheckedPart
  <2>3. payload.size \in Nat /\ 0 + 20 <= payload.size /\ 20 <= payload.size
    BY <1>1
  <2>4. Carries(payload, CheckedHeader, checked, 0, 0, 20)
    BY <2>1, <2>2, <2>3 DEF Carries
  <2>5. QED
    BY <2>3, <2>4, HeaderLaid, FieldsBack
<1>5. \A i \in DOMAIN CheckedHeader :
        Encoded(CheckedHeader, checked)[CheckedHeader[i][1]] = checked[CheckedHeader[i][1]]
  <2>1. \A i \in DOMAIN CheckedHeader : ~IsText(CheckedHeader[i][3])
    BY DEF CheckedHeader, IsText
  <2>2. QED
    BY <2>1, HeaderLaid, MeantNumber
<1>6. /\ DOMAIN CheckedHeader = 1..7 /\ CheckedHeader[1][1] = "magic" /\ CheckedHeader[2][1] = "version"
      /\ CheckedHeader[3][1] = "headerSize" /\ CheckedHeader[4][1] = "recordSize"
      /\ CheckedHeader[5][1] = "gpuSize" /\ CheckedHeader[6][1] = "serviceCount"
      /\ CheckedHeader[7][1] = "gpuCount"
  BY DEF CheckedHeader
<1> DEFINE stated == Encoded(CheckedHeader, checked)
<1>7. /\ stated["magic"] = checked["magic"] /\ stated["version"] = checked["version"]
      /\ stated["headerSize"] = checked["headerSize"] /\ stated["recordSize"] = checked["recordSize"]
      /\ stated["gpuSize"] = checked["gpuSize"] /\ stated["serviceCount"] = checked["serviceCount"]
      /\ stated["gpuCount"] = checked["gpuCount"]
  <2>1. 1 \in 1..7 /\ 2 \in 1..7 /\ 3 \in 1..7 /\ 4 \in 1..7 /\ 5 \in 1..7 /\ 6 \in 1..7 /\ 7 \in 1..7
    OBVIOUS
  <2> HIDE DEF stated
  <2>2. \A i \in 1..7 : stated[CheckedHeader[i][1]] = checked[CheckedHeader[i][1]]
    BY <1>5, <1>6 DEF stated
  <2>3. QED
    BY <1>6, <2>1, <2>2
<1>8. Stated(payload) = stated
  BY <1>4 DEF Stated
<1> HIDE DEF stated
<1>9. QED
  BY <1>7, <1>8 DEF payload

\* What an accepted payload states.
LEMMA FaultlessIs ==
  ASSUME NEW payload, ReportFault(payload) = "Ok"
  PROVE  LET stated == Stated(payload)
         IN  /\ ~(payload.size < 192)
             /\ stated.magic = Number(ReportMagic) /\ stated.version = Number(ReportVersion)
             /\ payload.size = AsNumber(stated.headerSize) + AsNumber(stated.serviceCount) * AsNumber(stated.recordSize)
                                 + AsNumber(stated.gpuCount) * AsNumber(stated.gpuSize)
<1> DEFINE stated == Stated(payload)
<1>1. /\ ~(payload.size < OwnSizes.header)
      /\ stated.magic = Number(ReportMagic) /\ stated.version = Number(ReportVersion)
      /\ RightSize(payload, StatedSizes(stated), AsNumber(stated.serviceCount), AsNumber(stated.gpuCount))
  BY DEF ReportFault
<1>2. OwnSizes.header = 192
  BY DEF OwnSizes
<1> HIDE DEF stated
<1>3. QED
  BY <1>1, <1>2 DEF RightSize, ReportSize, StatedSizes, stated

\* The record of a service holds the texts of its status, and a state and a mode the reader knows.
LEMMA ServiceRecordIs ==
  ASSUME NEW service, IsStatus(service)
  PROVE  /\ IsRecord(ServiceRecord, ToServiceRecord(service))
         /\ \E k \in 0..7 : ToServiceRecord(service).state = Number(k)
         /\ \E k \in 0..2 : ToServiceRecord(service).restartMode = Number(k)
<1> DEFINE record == ToServiceRecord(service)
           taken == {"name", "binary", "description", "state", "restartMode"}
<1>1. taken \subseteq Fields(ServiceRecord)
  <2>1. /\ DOMAIN ServiceRecord = 1..28 /\ ServiceRecord[1][1] = "name" /\ ServiceRecord[2][1] = "binary"
        /\ ServiceRecord[3][1] = "description" /\ ServiceRecord[5][1] = "state"
        /\ ServiceRecord[6][1] = "restartMode"
    BY DEF ServiceRecord
  <2>2. QED
    BY <2>1 DEF Fields
<1>2. ASSUME NEW field \in taken
      PROVE  record[field] = service.fields[field]
  <2>1. field \in Fields(ServiceRecord)
    BY <1>1
  <2>2. field \notin UsageFields /\ field # "flags" /\ field # "gpuPercent" /\ field # "gpuMemoryBytes"
    BY DEF UsageFields
  <2>3. QED
    BY <2>1, <2>2 DEF ToServiceRecord
<1>3. /\ IsRecord(ServiceRecord, service.fields)
      /\ \E k \in 0..7 : service.fields.state = Number(k)
      /\ \E k \in 0..2 : service.fields.restartMode = Number(k)
  BY DEF IsStatus
<1>4. \A i \in DOMAIN ServiceRecord :
        IsText(ServiceRecord[i][3]) => ServiceRecord[i][1] \in {"name", "binary", "description"}
  <2>1. DOMAIN ServiceRecord = 1..28
    BY DEF ServiceRecord
  <2>2. \A i \in 4..28 : ServiceRecord[i][3] \in {1, 4, 8}
    BY DEF ServiceRecord
  <2>3. /\ ServiceRecord[1][1] = "name" /\ ServiceRecord[2][1] = "binary"
        /\ ServiceRecord[3][1] = "description"
    BY DEF ServiceRecord
  <2>4. QED
    BY <2>1, <2>2, <2>3 DEF IsText
<1> HIDE DEF record
<1>5. IsRecord(ServiceRecord, record)
  BY <1>2, <1>3, <1>4 DEF IsRecord
<1>6. record["state"] = service.fields["state"] /\ record["restartMode"] = service.fields["restartMode"]
  BY <1>2
<1>7. QED
  BY <1>3, <1>5, <1>6 DEF record

\* The state and the restart mode of a service are among those that its decoder knows.
LEMMA ServiceKept ==
  ASSUME NEW record, NEW k \in 0..7, record.state = Number(k),
         NEW l \in 0..2, record.restartMode = Number(l)
  PROVE  Known(Meant(ServiceRecord, record)) = Meant(ServiceRecord, record)
<1> DEFINE meant == Meant(ServiceRecord, record)
<1>1. /\ 5 \in DOMAIN ServiceRecord /\ ServiceRecord[5][1] = "state" /\ ~IsText(ServiceRecord[5][3])
      /\ 6 \in DOMAIN ServiceRecord /\ ServiceRecord[6][1] = "restartMode" /\ ~IsText(ServiceRecord[6][3])
  BY DEF ServiceRecord, IsText
<1>2. meant.state = Number(k) /\ meant.restartMode = Number(l)
  <2>1. /\ meant[ServiceRecord[5][1]] = record[ServiceRecord[5][1]]
        /\ meant[ServiceRecord[6][1]] = record[ServiceRecord[6][1]]
    BY <1>1, MeantNumber, ServiceLaid
  <2> HIDE DEF meant
  <2>2. QED
    BY <1>1, <2>1
<1>3. ~(AsNumber(meant.state) > 7) /\ ~(AsNumber(meant.restartMode) > 2)
  <2>1. AsNumber(Number(k)) = k /\ AsNumber(Number(l)) = l
    BY NumberIs
  <2> HIDE DEF meant
  <2>2. QED
    BY <1>2, <2>1
<1>4. meant = [field \in DOMAIN meant |-> meant[field]]
  BY DEF Meant
<1> HIDE DEF meant
<1>5. Known(meant) = [meant EXCEPT !.state = meant.state, !.restartMode = meant.restartMode]
  BY <1>3, <1>4 DEF Known
<1>6. [meant EXCEPT !.state = meant.state, !.restartMode = meant.restartMode] = meant
  BY <1>4
<1>7. QED
  BY <1>5, <1>6 DEF meant

\* What a manager reports.
LEMMA SnapshotIs ==
  ASSUME NEW snapshot \in Snapshots
  PROVE  LET report == ReportOf(snapshot)
             n == Len(snapshot.statuses)
             m == Len(snapshot.gpus)
         IN  /\ FitSizes(snapshot.sizes) /\ Counts(report, n, m)
             /\ n <= MaxReportRecords /\ m <= MaxReportRecords
             /\ DOMAIN snapshot.statuses = 1..n
             /\ report.header = snapshot.header /\ report.gpus = snapshot.gpus
             /\ IsRecord(ReportHeader, report.header)
             /\ \A i \in 1..n : IsRecord(ServiceRecord, report.services[i])
             /\ \A i \in 1..n : \E k \in 0..7 : report.services[i].state = Number(k)
             /\ \A i \in 1..n : \E k \in 0..2 : report.services[i].restartMode = Number(k)
             /\ \A i \in 1..m : IsRecord(GpuRecord, report.gpus[i])
<1> DEFINE report == ReportOf(snapshot)
           statuses == snapshot.statuses
           gpus == snapshot.gpus
           n == Len(statuses)
           m == Len(gpus)
           services == [i \in DOMAIN statuses |-> ToServiceRecord(statuses[i])]
<1>1. IsSnapshot(snapshot)
  BY WireAssumption
<1>2. report = [header |-> snapshot.header, services |-> services, gpus |-> gpus]
  BY DEF ReportOf, BuildReport
<1>3. report.header = snapshot.header /\ report.services = services /\ report.gpus = gpus
  BY <1>2
<1>4. FitSizes(snapshot.sizes)
  <2>1. \A part \in DOMAIN OwnSizes : snapshot.sizes[part] \in Nat /\ snapshot.sizes[part] >= OwnSizes[part]
    BY <1>1 DEF IsSnapshot
  <2>2. /\ "header" \in DOMAIN OwnSizes /\ "service" \in DOMAIN OwnSizes /\ "gpu" \in DOMAIN OwnSizes
        /\ OwnSizes["header"] = 192 /\ OwnSizes["service"] = 368 /\ OwnSizes["gpu"] = 160
    BY DEF OwnSizes
  <2>3. /\ snapshot.sizes["header"] \in Nat /\ snapshot.sizes["header"] >= 192
        /\ snapshot.sizes["service"] \in Nat /\ snapshot.sizes["service"] >= 368
        /\ snapshot.sizes["gpu"] \in Nat /\ snapshot.sizes["gpu"] >= 160
    BY <2>1, <2>2
  <2>4. QED
    BY <2>3 DEF FitSizes
<1>5. /\ n \in Nat /\ DOMAIN statuses = 1..n /\ m \in Nat /\ DOMAIN gpus = 1..m
      /\ n <= MaxReportRecords /\ m <= MaxReportRecords
      /\ \A i \in 1..n : IsStatus(statuses[i])
      /\ \A i \in 1..m : IsRecord(GpuRecord, gpus[i])
      /\ IsRecord(ReportHeader, snapshot.header)
  <2>1. /\ IsList(statuses) /\ Len(statuses) <= MaxReportRecords
        /\ \A i \in DOMAIN statuses : IsStatus(statuses[i])
        /\ IsList(gpus) /\ Len(gpus) <= MaxReportRecords
        /\ \A i \in DOMAIN gpus : IsRecord(GpuRecord, gpus[i])
        /\ IsRecord(ReportHeader, snapshot.header)
    BY <1>1 DEF IsSnapshot
  <2>2. DOMAIN statuses = 1..Len(statuses) /\ Len(statuses) \in Nat
    BY <2>1, ListIs
  <2>3. DOMAIN gpus = 1..Len(gpus) /\ Len(gpus) \in Nat
    BY <2>1, ListIs
  <2>4. QED
    BY <2>1, <2>2, <2>3
<1> HIDE DEF report, statuses, gpus, n, m
<1>6. DOMAIN services = 1..n /\ Len(services) = n
  <2>1. DOMAIN services = 1..n /\ services = [i \in 1..n |-> services[i]]
    BY <1>5
  <2> HIDE DEF services
  <2>2. QED
    BY <1>5, <2>1, ListOf
<1>7. Counts(report, n, m)
  BY <1>3, <1>5, <1>6 DEF Counts, m
<1>8. ASSUME NEW i \in 1..n
      PROVE  /\ IsRecord(ServiceRecord, services[i])
             /\ \E k \in 0..7 : services[i].state = Number(k)
             /\ \E k \in 0..2 : services[i].restartMode = Number(k)
  <2>1. services[i] = ToServiceRecord(statuses[i]) /\ IsStatus(statuses[i])
    BY <1>5
  <2> HIDE DEF services
  <2>2. QED
    BY <2>1, ServiceRecordIs
<1> HIDE DEF services
<1>9. QED
  BY <1>3, <1>4, <1>5, <1>7, <1>8 DEF report, n, m, statuses, gpus

\* The size of its payload.
ReportPayload(snapshot) == ReportSize(snapshot.sizes, Len(snapshot.statuses), Len(snapshot.gpus))

\* A report that is sent: its size, its header and its records.
LEMMA SentReportIs ==
  ASSUME NEW snapshot \in Snapshots
  PROVE  LET sizes == snapshot.sizes
             report == ReportOf(snapshot)
             n == Len(snapshot.statuses)
             m == Len(snapshot.gpus)
             checked == Checked(ReportVersion, sizes, report)
             payload == SentReport(snapshot)
         IN  /\ payload = [size |-> ReportPayload(snapshot), spans |-> ReportSpans(checked, sizes, report)]
             /\ payload = Payload(ReportPayload(snapshot), ReportSpans(checked, sizes, report))
             /\ ReportPayload(snapshot) \in Nat /\ 192 <= ReportPayload(snapshot)
             /\ checked.magic = Number(ReportMagic) /\ checked.version = Number(ReportVersion)
             /\ checked.headerSize = Number(sizes.header) /\ checked.recordSize = Number(sizes.service)
             /\ checked.gpuSize = Number(sizes.gpu) /\ checked.serviceCount = Number(n)
             /\ checked.gpuCount = Number(m)
             /\ Stated(payload).magic = checked.magic /\ Stated(payload).version = checked.version
             /\ AsNumber(Stated(payload).headerSize) = sizes.header
             /\ AsNumber(Stated(payload).recordSize) = sizes.service
             /\ AsNumber(Stated(payload).gpuSize) = sizes.gpu
             /\ AsNumber(Stated(payload).serviceCount) = n
             /\ AsNumber(Stated(payload).gpuCount) = m
<1> DEFINE sizes == snapshot.sizes
           report == ReportOf(snapshot)
           n == Len(snapshot.statuses)
           m == Len(snapshot.gpus)
           checked == Checked(ReportVersion, sizes, report)
           payload == SentReport(snapshot)
           size == ReportPayload(snapshot)
           spans == ReportSpans(checked, sizes, report)
<1>1. FitSizes(sizes) /\ Counts(report, n, m)
  BY SnapshotIs
<1>2. size = ReportSize(sizes, n, m)
  BY DEF ReportPayload
<1>3. payload = EncodeStating(checked, sizes, report)
  BY DEF SentReport, EncodeAs
<1>4. Len(report.services) = n /\ Len(report.gpus) = m /\ n \in Nat /\ m \in Nat
  BY <1>1 DEF Counts
<1>5. /\ checked.magic = Number(ReportMagic) /\ checked.version = Number(ReportVersion)
      /\ checked.headerSize = Number(sizes.header) /\ checked.recordSize = Number(sizes.service)
      /\ checked.gpuSize = Number(sizes.gpu) /\ checked.serviceCount = Number(n)
      /\ checked.gpuCount = Number(m)
  BY <1>4 DEF Checked
<1> HIDE DEF sizes, report, n, m, checked, payload, size
<1>6. payload = [size |-> size, spans |-> spans] /\ payload = Payload(size, spans)
  BY <1>1, <1>2, <1>3, ReportIs
<1>7. size \in Nat /\ 192 <= size
  <2>1. /\ ReportSize(sizes, n, m) \in Nat /\ ReportSize(sizes, n, 0) \in Nat /\ 192 <= sizes.header
        /\ sizes.header <= ReportSize(sizes, n, 0) /\ ReportSize(sizes, n, 0) <= ReportSize(sizes, n, m)
    BY <1>1, <1>4, PlacesAre
  <2>2. sizes.header \in Nat
    BY <1>1 DEF FitSizes
  <2>3. QED
    BY <1>2, <2>1, <2>2
<1>8. LET stated == Stated(Payload(size, spans))
      IN  /\ stated.magic = checked.magic /\ stated.version = checked.version
          /\ stated.headerSize = checked.headerSize /\ stated.recordSize = checked.recordSize
          /\ stated.gpuSize = checked.gpuSize /\ stated.serviceCount = checked.serviceCount
          /\ stated.gpuCount = checked.gpuCount
  BY <1>1, <1>7, StatedIs
<1> HIDE DEF spans
<1>9. /\ Stated(payload).magic = checked.magic /\ Stated(payload).version = checked.version
      /\ Stated(payload).headerSize = Number(sizes.header) /\ Stated(payload).recordSize = Number(sizes.service)
      /\ Stated(payload).gpuSize = Number(sizes.gpu) /\ Stated(payload).serviceCount = Number(n)
      /\ Stated(payload).gpuCount = Number(m)
  BY <1>5, <1>6, <1>8
<1>10. /\ AsNumber(Number(sizes.header)) = sizes.header /\ AsNumber(Number(sizes.service)) = sizes.service
       /\ AsNumber(Number(sizes.gpu)) = sizes.gpu /\ AsNumber(Number(n)) = n /\ AsNumber(Number(m)) = m
  BY <1>1, <1>4, NumberIs DEF FitSizes
<1>11. /\ AsNumber(Stated(payload).headerSize) = sizes.header
       /\ AsNumber(Stated(payload).recordSize) = sizes.service
       /\ AsNumber(Stated(payload).gpuSize) = sizes.gpu
       /\ AsNumber(Stated(payload).serviceCount) = n
       /\ AsNumber(Stated(payload).gpuCount) = m
  BY <1>9, <1>10
<1>12. QED
  BY <1>5, <1>6, <1>7, <1>9, <1>11 DEF sizes, report, n, m, checked, payload, size, spans

\* It is without fault.
LEMMA SentReportFaultless ==
  ASSUME NEW snapshot \in Snapshots
  PROVE  ReportFault(SentReport(snapshot)) = "Ok"
<1> DEFINE n == Len(snapshot.statuses)
           m == Len(snapshot.gpus)
           sizes == snapshot.sizes
           payload == SentReport(snapshot)
           stated == Stated(payload)
           own == StatedSizes(stated)
<1>1. /\ payload.size = ReportSize(sizes, n, m) /\ payload.size \in Nat /\ 192 <= payload.size
      /\ stated.magic = Number(ReportMagic) /\ stated.version = Number(ReportVersion)
      /\ AsNumber(stated.headerSize) = sizes.header /\ AsNumber(stated.recordSize) = sizes.service
      /\ AsNumber(stated.gpuSize) = sizes.gpu /\ AsNumber(stated.serviceCount) = n
      /\ AsNumber(stated.gpuCount) = m
  BY SentReportIs DEF ReportPayload
<1>2. FitSizes(sizes) /\ n \in Nat /\ m \in Nat /\ n <= MaxReportRecords /\ m <= MaxReportRecords
  BY SnapshotIs DEF Counts
<1> HIDE DEF n, m, sizes, payload, stated
<1>3. own = [header |-> sizes.header, service |-> sizes.service, gpu |-> sizes.gpu]
  BY <1>1 DEF StatedSizes
<1>4. own.header = sizes.header /\ own.service = sizes.service /\ own.gpu = sizes.gpu
  BY <1>3
<1>5. ~ \E part \in DOMAIN own : own[part] < OwnSizes[part]
  <2>1. DOMAIN own = {"header", "service", "gpu"}
    BY <1>3
  <2>2. /\ ~(own["header"] < OwnSizes["header"]) /\ ~(own["service"] < OwnSizes["service"])
        /\ ~(own["gpu"] < OwnSizes["gpu"])
    BY <1>2, <1>4 DEF OwnSizes, FitSizes
  <2> HIDE DEF own
  <2>3. QED
    BY <2>1, <2>2
<1>6. RightSize(payload, own, n, m)
  BY <1>1, <1>4 DEF RightSize, ReportSize
<1>7. ~(Max({n, m}) > MaxReportRecords)
  <2>1. \E x \in {n, m} : \A y \in {n, m} : x >= y
    BY <1>2
  <2>2. Max({n, m}) \in {n, m}
    BY <2>1 DEF Max
  <2>3. QED
    BY <1>2, <2>2 DEF MaxReportRecords
<1>8. ~(payload.size < OwnSizes.header)
  BY <1>1 DEF OwnSizes
<1> HIDE DEF own
<1>9. ReportFault(payload) = "Ok"
  BY <1>1, <1>5, <1>6, <1>7, <1>8 DEF ReportFault, own, stated
<1>10. QED
  BY <1>9 DEF payload

\* The report is read as it is meant.
LEMMA SentReportRead ==
  ASSUME NEW snapshot \in Snapshots
  PROVE  ReadReport(SentReport(snapshot)) = MeantReport(snapshot)
<1> DEFINE n == Len(snapshot.statuses)
           m == Len(snapshot.gpus)
           sizes == snapshot.sizes
           report == ReportOf(snapshot)
           checked == Checked(ReportVersion, sizes, report)
           payload == SentReport(snapshot)
           stated == Stated(payload)
           own == StatedSizes(stated)
           mid == ReportSize(sizes, n, 0)
           size == ReportSize(sizes, n, m)
           services == report.services
           gpus == report.gpus
<1>1. /\ payload.size = size
      /\ payload.spans = CheckedPart(checked) \cup HeaderPart(report) \cup ServicePart(sizes, report)
                           \cup GpuPart(sizes, report)
      /\ AsNumber(stated.headerSize) = sizes.header /\ AsNumber(stated.recordSize) = sizes.service
      /\ AsNumber(stated.gpuSize) = sizes.gpu /\ AsNumber(stated.serviceCount) = n
      /\ AsNumber(stated.gpuCount) = m
  <2>1. payload = [size |-> size, spans |-> ReportSpans(checked, sizes, report)]
    BY SentReportIs DEF ReportPayload
  <2>2. /\ AsNumber(stated.headerSize) = sizes.header /\ AsNumber(stated.recordSize) = sizes.service
        /\ AsNumber(stated.gpuSize) = sizes.gpu /\ AsNumber(stated.serviceCount) = n
        /\ AsNumber(stated.gpuCount) = m
    BY SentReportIs
  <2> HIDE DEF checked, stated, n, m, sizes, report, payload, size
  <2>3. QED
    BY <2>1, <2>2 DEF ReportSpans
<1>2. /\ FitSizes(sizes) /\ Counts(report, n, m)
      /\ report.header = snapshot.header /\ report.gpus = snapshot.gpus
      /\ IsRecord(ReportHeader, report.header)
      /\ \A i \in 1..n : IsRecord(ServiceRecord, services[i])
      /\ \A i \in 1..n : \E k \in 0..7 : services[i].state = Number(k)
      /\ \A i \in 1..n : \E k \in 0..2 : services[i].restartMode = Number(k)
      /\ \A i \in 1..m : IsRecord(GpuRecord, gpus[i])
  BY SnapshotIs
<1>3. MeantReport(snapshot) = [header |-> Meant(ReportHeader, report.header),
                               services |-> MeantAll(ServiceRecord, services),
                               gpus |-> MeantAll(GpuRecord, gpus)]
  BY <1>2 DEF MeantReport
<1> HIDE DEF n, m, sizes, report, checked, payload, stated
<1>4. /\ n \in Nat /\ m \in Nat /\ DOMAIN services = 1..n /\ DOMAIN gpus = 1..m
      /\ Len(report.services) = n
  BY <1>2 DEF Counts
<1>5. own.header = sizes.header /\ own.service = sizes.service /\ own.gpu = sizes.gpu
  BY <1>1 DEF StatedSizes
<1>6. /\ n * sizes.service \in Nat /\ m * sizes.gpu \in Nat
      /\ mid = sizes.header + n * sizes.service
      /\ size = mid + m * sizes.gpu
      /\ mid \in Nat /\ size \in Nat
      /\ 192 <= sizes.header /\ sizes.header <= mid /\ mid <= size
      /\ \A j \in Nat : ReportSize(sizes, n, j) = mid + j * sizes.gpu
      /\ sizes.header \in Nat /\ sizes.service \in Nat /\ sizes.gpu \in Nat
      /\ sizes.service >= 368 /\ sizes.gpu >= 160
  BY <1>2, <1>4, PlacesAre DEF FitSizes
<1>7. /\ \A t \in CheckedPart(checked) : Within(t, 0, 20)
      /\ \A t \in HeaderPart(report) : Within(t, 20, 192)
      /\ \A t \in ServicePart(sizes, report) : Within(t, sizes.header, mid)
      /\ \A t \in GpuPart(sizes, report) : Within(t, mid, size)
  BY <1>2, PartsAre
<1> HIDE DEF own, mid, size, services, gpus
<1>8. DecodeFields(ReportHeader, payload, 0, payload.size) = Meant(ReportHeader, report.header)
  <2>1. ASSUME NEW t \in payload.spans
        PROVE  t \in EncodeFields(ReportHeader, report.header, 0) \/ Misses(t, 0 + 20, 0 + 192)
    <3>1. t \in HeaderPart(report) \/ Within(t, 0, 20) \/ Within(t, sizes.header, mid) \/ Within(t, mid, size)
      BY <1>1, <1>7
    <3>2. QED
      BY <1>6, <3>1 DEF HeaderPart, Within, Misses, Reach
  <2>2. EncodeFields(ReportHeader, report.header, 0) \subseteq payload.spans
    BY <1>1 DEF HeaderPart
  <2>3. payload.size \in Nat /\ 0 + 192 <= payload.size /\ 192 <= payload.size
    BY <1>1, <1>6
  <2>4. DecodeFields(ReportHeader, payload, 0, payload.size) = Encoded(ReportHeader, report.header)
    <3>1. Carries(payload, ReportHeader, report.header, 0, 20, 192)
      BY <2>1, <2>2, <2>3 DEF Carries
    <3>2. QED
      BY <2>3, <3>1, HeaderLaid, FieldsBack
  <2>5. QED
    BY <1>2, <2>4, HeaderLaid, EncodedIsMeant
<1>9. Holds(payload, ServiceRecord, services, sizes.header, sizes.service, n)
  <2>1. ServicePart(sizes, report) = EncodeRecords(ServiceRecord, services, sizes.header, sizes.service)
    BY DEF ServicePart, services
  <2>2. ASSUME NEW t \in payload.spans
        PROVE  t \in ServicePart(sizes, report) \/ Misses(t, sizes.header, mid)
    <3>1. t \in ServicePart(sizes, report) \/ Within(t, 0, 20) \/ Within(t, 20, 192) \/ Within(t, mid, size)
      BY <1>1, <1>7
    <3>2. QED
      BY <1>6, <3>1 DEF Within, Misses, Reach
  <2>3. QED
    BY <1>1, <1>6, <2>1, <2>2 DEF Holds
<1>10. Holds(payload, GpuRecord, gpus, mid, sizes.gpu, m)
  <2>1. GpuPart(sizes, report) = EncodeRecords(GpuRecord, gpus, mid, sizes.gpu)
    BY <1>4 DEF GpuPart, gpus, mid
  <2>2. ASSUME NEW t \in payload.spans
        PROVE  t \in GpuPart(sizes, report) \/ Misses(t, mid, size)
    <3>1. \/ t \in GpuPart(sizes, report) \/ Within(t, 0, 20) \/ Within(t, 20, 192)
          \/ Within(t, sizes.header, mid)
      BY <1>1, <1>7
    <3>2. QED
      BY <1>6, <3>1 DEF Within, Misses, Reach
  <2>3. QED
    BY <1>1, <1>6, <2>1, <2>2 DEF Holds
<1>11. ASSUME NEW i \in 1..n
       PROVE  Known(DecodeFields(ServiceRecord, payload, sizes.header + (i - 1) * sizes.service, sizes.service))
                = Meant(ServiceRecord, services[i])
  <2> DEFINE base == sizes.header
             step == sizes.service
  <2>1. 368 \in Nat /\ 368 <= step /\ base \in Nat /\ step \in Nat
    BY <1>6
  <2>2. Holds(payload, ServiceRecord, services, base, step, n)
    BY <1>9
  <2> HIDE DEF base, step
  <2>3. DecodeFields(ServiceRecord, payload, RecordAt(base, i, step), step) = Encoded(ServiceRecord, services[i])
    BY <1>4, <2>1, <2>2, ServiceLaid, RecordsBack
  <2>4. Encoded(ServiceRecord, services[i]) = Meant(ServiceRecord, services[i])
    BY <1>2, ServiceLaid, EncodedIsMeant DEF services
  <2>5. Known(Meant(ServiceRecord, services[i])) = Meant(ServiceRecord, services[i])
    BY <1>2, ServiceKept DEF services
  <2>6. QED
    BY <2>3, <2>4, <2>5 DEF base, step, RecordAt
<1>12. ASSUME NEW i \in 1..m
       PROVE  DecodeFields(GpuRecord, payload, ReportSize(sizes, n, i - 1), sizes.gpu) = Meant(GpuRecord, gpus[i])
  <2> DEFINE step == sizes.gpu
  <2>1. 160 \in Nat /\ 160 <= step /\ step \in Nat
    BY <1>6
  <2>2. Holds(payload, GpuRecord, gpus, mid, step, m)
    BY <1>10
  <2>3. RecordAt(mid, i, step) = ReportSize(sizes, n, i - 1)
    <3>1. i - 1 \in Nat
      BY <1>4
    <3>2. QED
      BY <1>6, <3>1 DEF RecordAt
  <2> HIDE DEF step
  <2>4. DecodeFields(GpuRecord, payload, RecordAt(mid, i, step), step) = Encoded(GpuRecord, gpus[i])
    <3>1. mid \in Nat /\ m \in Nat /\ DOMAIN gpus = 1..m
      BY <1>4, <1>6
    <3>2. QED
      BY <2>1, <2>2, <3>1, GpuLaid, RecordsBack
  <2>5. Encoded(GpuRecord, gpus[i]) = Meant(GpuRecord, gpus[i])
    BY <1>2, GpuLaid, EncodedIsMeant DEF gpus
  <2>6. QED
    BY <2>3, <2>4, <2>5 DEF step
<1>13. MeantAll(ServiceRecord, services) = [i \in 1..n |-> Meant(ServiceRecord, services[i])]
  BY <1>4 DEF MeantAll
<1>14. MeantAll(GpuRecord, gpus) = [i \in 1..m |-> Meant(GpuRecord, gpus[i])]
  BY <1>4 DEF MeantAll
<1>15. ReadReport(payload)
         = [header |-> DecodeFields(ReportHeader, payload, 0, payload.size),
            services |-> [i \in 1..n |->
              Known(DecodeFields(ServiceRecord, payload, sizes.header + (i - 1) * sizes.service, sizes.service))],
            gpus |-> [i \in 1..m |->
              DecodeFields(GpuRecord, payload, ReportSize(sizes, n, i - 1), sizes.gpu)]]
  <2>1. \A i \in 1..m : ReportSize(own, n, i - 1) = ReportSize(sizes, n, i - 1)
    BY <1>5 DEF ReportSize
  <2>2. ReadReport(payload)
          = [header |-> DecodeFields(ReportHeader, payload, 0, payload.size),
             services |-> [i \in 1..n |->
               Known(DecodeFields(ServiceRecord, payload, own.header + (i - 1) * own.service, own.service))],
             gpus |-> [i \in 1..m |->
               DecodeFields(GpuRecord, payload, ReportSize(own, n, i - 1), own.gpu)]]
    BY <1>1 DEF ReadReport, own, stated
  <2>3. QED
    BY <1>5, <2>1, <2>2
<1>16. ReadReport(payload) = MeantReport(snapshot)
  BY <1>3, <1>8, <1>11, <1>12, <1>13, <1>14, <1>15
<1>17. QED
  BY <1>16 DEF payload

----------------------------------------------------------------------------
(* Damaged reports *)

\* Factors of the same product.
LEMMA SameFactor ==
  ASSUME NEW a \in Nat, NEW b \in Nat, NEW c \in Nat, c > 0, a * c = b * c
  PROVE  a = b
<1>1. ASSUME NEW x \in Nat, NEW y \in Nat, x < y
      PROVE  x * c < y * c
  <2>1. x + 1 <= y /\ x + 1 \in Nat
    BY <1>1
  <2>2. (x + 1) * c <= y * c /\ (x + 1) * c \in Nat /\ y * c \in Nat
    BY <2>1, TimesMore
  <2>3. (x + 1) * c = x * c + c /\ x * c \in Nat
    BY TimesMore
  <2>4. QED
    BY <2>2, <2>3
<1>2. a * c \in Nat /\ b * c \in Nat
  BY TimesMore
<1>3. ~(a < b) /\ ~(b < a)
  <2>1. ASSUME a < b
        PROVE  FALSE
    BY <1>1, <1>2, <2>1
  <2>2. ASSUME b < a
        PROVE  FALSE
    BY <1>1, <1>2, <2>2
  <2>3. QED
    BY <2>1, <2>2
<1>4. QED
  BY <1>3

\* A report of another length is refused.
LEMMA ResizedReportRefused ==
  ASSUME NEW snapshot \in Snapshots, NEW length \in Nat, length # SentReport(snapshot).size
  PROVE  DecodeReport(Resized(SentReport(snapshot), length)) = Refused
<1> DEFINE n == Len(snapshot.statuses)
           m == Len(snapshot.gpus)
           sizes == snapshot.sizes
           report == ReportOf(snapshot)
           checked == Checked(ReportVersion, sizes, report)
           payload == Payload(length, ReportSpans(checked, sizes, report))
           stated == Stated(payload)
<1>1. /\ SentReport(snapshot).size = ReportSize(sizes, n, m)
      /\ SentReport(snapshot).spans = ReportSpans(checked, sizes, report)
      /\ checked.headerSize = Number(sizes.header) /\ checked.recordSize = Number(sizes.service)
      /\ checked.gpuSize = Number(sizes.gpu) /\ checked.serviceCount = Number(n)
      /\ checked.gpuCount = Number(m)
  BY SentReportIs DEF ReportPayload
<1>2. Resized(SentReport(snapshot), length) = payload
  BY <1>1 DEF Resized
<1>3. FitSizes(sizes) /\ Counts(report, n, m)
  BY SnapshotIs
<1>4. payload.size = length
  BY DEF Payload
<1>5. ReportFault(payload) # "Ok"
  <2>1. SUFFICES ASSUME ReportFault(payload) = "Ok"
                 PROVE  FALSE
    OBVIOUS
  <2>2. /\ 192 <= length
        /\ length = AsNumber(stated.headerSize) + AsNumber(stated.serviceCount) * AsNumber(stated.recordSize)
                      + AsNumber(stated.gpuCount) * AsNumber(stated.gpuSize)
    <3> HIDE DEF payload
    <3>1. /\ ~(payload.size < 192)
          /\ payload.size = AsNumber(stated.headerSize) + AsNumber(stated.serviceCount) * AsNumber(stated.recordSize)
                              + AsNumber(stated.gpuCount) * AsNumber(stated.gpuSize)
      BY <2>1, FaultlessIs
    <3> HIDE DEF stated
    <3>2. QED
      BY <1>4, <3>1
  <2>3. /\ stated.headerSize = checked.headerSize /\ stated.recordSize = checked.recordSize
        /\ stated.gpuSize = checked.gpuSize /\ stated.serviceCount = checked.serviceCount
        /\ stated.gpuCount = checked.gpuCount
    <3> HIDE DEF checked, sizes, report, n, m
    <3>1. QED
      BY <1>3, <2>2, StatedIs
  <2>4. /\ AsNumber(Number(sizes.header)) = sizes.header /\ AsNumber(Number(sizes.service)) = sizes.service
        /\ AsNumber(Number(sizes.gpu)) = sizes.gpu /\ AsNumber(Number(n)) = n /\ AsNumber(Number(m)) = m
    BY <1>3, NumberIs DEF FitSizes, Counts
  <2> HIDE DEF stated, checked, sizes, report, n, m
  <2>5. length = sizes.header + n * sizes.service + m * sizes.gpu
    BY <1>1, <2>2, <2>3, <2>4
  <2>6. QED
    BY <1>1, <2>5 DEF ReportSize
<1>6. QED
  BY <1>2, <1>5 DEF DecodeReport

\* So is one that states something else of itself.
LEMMA RestatedReportRefused ==
  ASSUME NEW snapshot \in Snapshots, NEW field \in Tells(snapshot), NEW number \in Nat,
         Restated(snapshot, field, number) # SentReport(snapshot)
  PROVE  DecodeReport(Restated(snapshot, field, number)) = Refused
<1> DEFINE n == Len(snapshot.statuses)
           m == Len(snapshot.gpus)
           sizes == snapshot.sizes
           report == ReportOf(snapshot)
           checked == Checked(ReportVersion, sizes, report)
           other == [checked EXCEPT ![field] = Number(number)]
           payload == Restated(snapshot, field, number)
           stated == Stated(payload)
           size == ReportSize(sizes, n, m)
<1>1. /\ checked.magic = Number(ReportMagic) /\ checked.version = Number(ReportVersion)
      /\ checked.headerSize = Number(sizes.header) /\ checked.recordSize = Number(sizes.service)
      /\ checked.gpuSize = Number(sizes.gpu) /\ checked.serviceCount = Number(n)
      /\ checked.gpuCount = Number(m) /\ 192 <= size /\ size \in Nat
  BY SentReportIs DEF ReportPayload
<1>2. FitSizes(sizes) /\ Counts(report, n, m)
  BY SnapshotIs
<1>3. payload = EncodeStating(other, sizes, report) /\ SentReport(snapshot) = EncodeStating(checked, sizes, report)
  BY DEF Restated, SentReport, EncodeAs
<1>4. /\ DOMAIN checked = {"magic", "version", "headerSize", "recordSize", "gpuSize", "serviceCount", "gpuCount"}
      /\ checked = [f \in DOMAIN checked |-> checked[f]]
  BY DEF Checked
<1>5. /\ field \in DOMAIN checked
      /\ field = "recordSize" => n # 0
      /\ field = "gpuSize" => m # 0
  <2>1. Fields(CheckedHeader) = DOMAIN checked
    <3>1. /\ DOMAIN CheckedHeader = 1..7 /\ CheckedHeader[1][1] = "magic" /\ CheckedHeader[2][1] = "version"
          /\ CheckedHeader[3][1] = "headerSize" /\ CheckedHeader[4][1] = "recordSize"
          /\ CheckedHeader[5][1] = "gpuSize" /\ CheckedHeader[6][1] = "serviceCount"
          /\ CheckedHeader[7][1] = "gpuCount"
      BY DEF CheckedHeader
    <3> HIDE DEF checked
    <3>2. QED
      BY <1>4, <3>1 DEF Fields
  <2>2. n = 0 => snapshot.statuses = <<>>
    <3>1. snapshot.statuses \in Seq(ToSet(snapshot.statuses))
      BY WireAssumption DEF IsSnapshot, IsList
    <3> HIDE DEF ToSet
    <3>2. QED
      BY <3>1
  <2>3. m = 0 => snapshot.gpus = <<>>
    <3>1. snapshot.gpus \in Seq(ToSet(snapshot.gpus))
      BY WireAssumption DEF IsSnapshot, IsList
    <3> HIDE DEF ToSet
    <3>2. QED
      BY <3>1
  <2>4. /\ field \in Fields(CheckedHeader)
        /\ snapshot.statuses = <<>> => field # "recordSize"
        /\ snapshot.gpus = <<>> => field # "gpuSize"
    BY DEF Tells
  <2> HIDE DEF checked, n, m
  <2>5. QED
    BY <2>1, <2>2, <2>3, <2>4
<1> HIDE DEF checked
<1>6. Number(number) # checked[field]
  <2>1. other # checked
    BY <1>3
  <2>2. Number(number) = checked[field] => other = checked
    BY <1>4
  <2>3. QED
    BY <2>1, <2>2
<1>7. other[field] = Number(number) /\ \A f \in DOMAIN checked : f # field => other[f] = checked[f]
  BY <1>4, <1>5
<1> HIDE DEF other
<1>8. payload = Payload(size, ReportSpans(other, sizes, report)) /\ payload.size = size
  <2>1. /\ payload = [size |-> size, spans |-> ReportSpans(other, sizes, report)]
        /\ payload = Payload(size, ReportSpans(other, sizes, report))
    <3> HIDE DEF payload, sizes, report, n, m
    <3>1. QED
      BY <1>2, <1>3, ReportIs
  <2>2. QED
    BY <2>1
<1> HIDE DEF payload
<1>9. /\ stated.magic = other.magic /\ stated.version = other.version
      /\ stated.headerSize = other.headerSize /\ stated.recordSize = other.recordSize
      /\ stated.gpuSize = other.gpuSize /\ stated.serviceCount = other.serviceCount
      /\ stated.gpuCount = other.gpuCount
  <2> HIDE DEF sizes, report, n, m, size
  <2>1. LET read == Stated(Payload(size, ReportSpans(other, sizes, report)))
        IN  /\ read.magic = other.magic /\ read.version = other.version
            /\ read.headerSize = other.headerSize /\ read.recordSize = other.recordSize
            /\ read.gpuSize = other.gpuSize /\ read.serviceCount = other.serviceCount
            /\ read.gpuCount = other.gpuCount
    BY <1>1, <1>2, StatedIs
  <2>2. QED
    BY <1>8, <2>1
<1>10. ReportFault(payload) # "Ok"
  <2>1. SUFFICES ASSUME ReportFault(payload) = "Ok"
                 PROVE  FALSE
    OBVIOUS
  <2>2. /\ stated.magic = Number(ReportMagic) /\ stated.version = Number(ReportVersion)
        /\ payload.size = AsNumber(stated.headerSize) + AsNumber(stated.serviceCount) * AsNumber(stated.recordSize)
                            + AsNumber(stated.gpuCount) * AsNumber(stated.gpuSize)
    BY <2>1, FaultlessIs
  <2>3. /\ sizes.header \in Nat /\ sizes.service \in Nat /\ sizes.gpu \in Nat /\ n \in Nat /\ m \in Nat
        /\ sizes.service > 0 /\ sizes.gpu > 0
    BY <1>2 DEF FitSizes, Counts
  <2>4. /\ AsNumber(Number(sizes.header)) = sizes.header /\ AsNumber(Number(sizes.service)) = sizes.service
        /\ AsNumber(Number(sizes.gpu)) = sizes.gpu /\ AsNumber(Number(n)) = n /\ AsNumber(Number(m)) = m
        /\ AsNumber(Number(number)) = number
    BY <2>3, NumberIs
  <2>5. n * sizes.service \in Nat /\ m * sizes.gpu \in Nat
    BY <2>3, TimesMore
  <2> HIDE DEF stated, sizes, report, n, m
  <2>6. size = sizes.header + n * sizes.service + m * sizes.gpu
    BY DEF ReportSize
  <2>7. /\ "magic" \in DOMAIN checked /\ "version" \in DOMAIN checked /\ "headerSize" \in DOMAIN checked
        /\ "recordSize" \in DOMAIN checked /\ "gpuSize" \in DOMAIN checked
        /\ "serviceCount" \in DOMAIN checked /\ "gpuCount" \in DOMAIN checked
    BY <1>4
  <2> HIDE DEF size
  <2>8. CASE field \in {"magic", "version"}
    BY <1>1, <1>6, <1>7, <1>9, <2>2, <2>8
  <2>9. CASE field = "headerSize"
    <3>1. /\ other.headerSize = Number(number) /\ other.recordSize = Number(sizes.service)
          /\ other.gpuSize = Number(sizes.gpu) /\ other.serviceCount = Number(n) /\ other.gpuCount = Number(m)
      BY <1>1, <1>7, <2>7, <2>9
    <3>2. size = number + n * sizes.service + m * sizes.gpu
      BY <1>8, <1>9, <2>2, <2>4, <3>1
    <3>3. number = sizes.header
      <4> DEFINE a == n * sizes.service
                 b == m * sizes.gpu
      <4>1. a \in Nat /\ b \in Nat /\ size = sizes.header + a + b /\ size = number + a + b
        BY <2>5, <2>6, <3>2
      <4> HIDE DEF a, b
      <4>2. QED
        BY <2>3, <4>1
    <3>4. QED
      BY <1>1, <1>6, <2>9, <3>3
  <2>10. CASE field = "recordSize"
    <3>1. /\ other.headerSize = Number(sizes.header) /\ other.recordSize = Number(number)
          /\ other.gpuSize = Number(sizes.gpu) /\ other.serviceCount = Number(n) /\ other.gpuCount = Number(m)
      BY <1>1, <1>7, <2>7, <2>10
    <3>2. size = sizes.header + n * number + m * sizes.gpu
      BY <1>8, <1>9, <2>2, <2>4, <3>1
    <3>3. n * number = n * sizes.service /\ number * n = n * number /\ sizes.service * n = n * sizes.service
      <4>1. n * number \in Nat
        BY <2>3, TimesMore
      <4>2. number * n = n * number /\ sizes.service * n = n * sizes.service
        BY <2>3
      <4>3. QED
        BY <2>3, <2>5, <2>6, <3>2, <4>1, <4>2
    <3>4. n > 0 /\ number * n = sizes.service * n
      BY <1>5, <2>3, <2>10, <3>3
    <3>5. number = sizes.service
      BY <2>3, <3>4, SameFactor
    <3>6. QED
      BY <1>1, <1>6, <2>10, <3>5
  <2>11. CASE field = "gpuSize"
    <3>1. /\ other.headerSize = Number(sizes.header) /\ other.recordSize = Number(sizes.service)
          /\ other.gpuSize = Number(number) /\ other.serviceCount = Number(n) /\ other.gpuCount = Number(m)
      BY <1>1, <1>7, <2>7, <2>11
    <3>2. size = sizes.header + n * sizes.service + m * number
      BY <1>8, <1>9, <2>2, <2>4, <3>1
    <3>3. m * number = m * sizes.gpu /\ number * m = m * number /\ sizes.gpu * m = m * sizes.gpu
      <4>1. m * number \in Nat
        BY <2>3, TimesMore
      <4>2. number * m = m * number /\ sizes.gpu * m = m * sizes.gpu
        BY <2>3
      <4>3. QED
        BY <2>3, <2>5, <2>6, <3>2, <4>1, <4>2
    <3>4. m > 0 /\ number * m = sizes.gpu * m
      BY <1>5, <2>3, <2>11, <3>3
    <3>5. number = sizes.gpu
      BY <2>3, <3>4, SameFactor
    <3>6. QED
      BY <1>1, <1>6, <2>11, <3>5
  <2>12. CASE field = "serviceCount"
    <3>1. /\ other.headerSize = Number(sizes.header) /\ other.recordSize = Number(sizes.service)
          /\ other.gpuSize = Number(sizes.gpu) /\ other.serviceCount = Number(number) /\ other.gpuCount = Number(m)
      BY <1>1, <1>7, <2>7, <2>12
    <3>2. size = sizes.header + number * sizes.service + m * sizes.gpu
      BY <1>8, <1>9, <2>2, <2>4, <3>1
    <3>3. number * sizes.service = n * sizes.service
      <4>1. number * sizes.service \in Nat
        BY <2>3, TimesMore
      <4>2. QED
        BY <2>3, <2>5, <2>6, <3>2, <4>1
    <3>4. number = n
      BY <2>3, <3>3, SameFactor
    <3>5. QED
      BY <1>1, <1>6, <2>12, <3>4
  <2>13. CASE field = "gpuCount"
    <3>1. /\ other.headerSize = Number(sizes.header) /\ other.recordSize = Number(sizes.service)
          /\ other.gpuSize = Number(sizes.gpu) /\ other.serviceCount = Number(n) /\ other.gpuCount = Number(number)
      BY <1>1, <1>7, <2>7, <2>13
    <3>2. size = sizes.header + n * sizes.service + number * sizes.gpu
      BY <1>8, <1>9, <2>2, <2>4, <3>1
    <3>3. number * sizes.gpu = m * sizes.gpu
      <4>1. number * sizes.gpu \in Nat
        BY <2>3, TimesMore
      <4>2. QED
        BY <2>3, <2>5, <2>6, <3>2, <4>1
    <3>4. number = m
      BY <2>3, <3>3, SameFactor
    <3>5. QED
      BY <1>1, <1>6, <2>13, <3>4
  <2>14. QED
    BY <1>4, <1>5, <2>8, <2>9, <2>10, <2>11, <2>12, <2>13
<1>11. QED
  BY <1>10 DEF DecodeReport, payload

\* The reader of a report takes what was sent of it.
LEMMA ReportsGood == ASSUME NEW sent \in ReportCases PROVE Good(sent)
<1>1. \A payload, meant : DecodeReport(payload) = meant => Good(Sent("report", payload, meant))
  BY DEF Good, Sent, ReadersOf
<1>2. \/ \E snapshot \in Snapshots : sent = Sent("report", SentReport(snapshot), Taken(MeantReport(snapshot)))
      \/ \E snapshot \in Snapshots : \E payload \in DamagedReports(snapshot) : sent = Sent("report", payload, Refused)
  BY DEF ReportCases
<1>3. ASSUME NEW snapshot \in Snapshots
      PROVE  DecodeReport(SentReport(snapshot)) = Taken(MeantReport(snapshot))
  BY SentReportFaultless, SentReportRead DEF DecodeReport
<1>4. ASSUME NEW snapshot \in Snapshots, NEW payload \in DamagedReports(snapshot)
      PROVE  DecodeReport(payload) = Refused
  <2>1. Lengths \subseteq Nat /\ Numbers \subseteq Nat
    BY WireAssumption
  <2>2. CASE \E length \in Lengths \ {SentReport(snapshot).size} : payload = Resized(SentReport(snapshot), length)
    BY <2>1, <2>2, ResizedReportRefused
  <2>3. CASE \E field \in Tells(snapshot), number \in Numbers :
               payload = Restated(snapshot, field, number) /\ payload # SentReport(snapshot)
    BY <2>1, <2>3, RestatedReportRefused
  <2>4. QED
    BY <2>2, <2>3 DEF DamagedReports
<1>5. QED
  BY <1>1, <1>2, <1>3, <1>4

----------------------------------------------------------------------------

\* A payload is on its way, or what was read of it is what was meant.
WireInv == wire \in Cases \/ (wire.kind = "read" /\ wire.read = {wire.meant})

\* So it is for each payload that may be on its way.
LEMMA CasesGood == ASSUME NEW sent \in Cases PROVE Good(sent)
  BY ReportsGood, HealthGood, CommandsGood, RepliesGood DEF Cases

\* And so it stays as the payload is read.
LEMMA ReadWireGood == ASSUME WireInv, ReadWire PROVE WireInv'
<1>1. wire \in Cases
  BY DEF WireInv, ReadWire
<1>2. ReadersOf(wire.payload)[wire.kind] = {wire.meant}
  BY <1>1, CasesGood DEF Good
<1>3. wire' = [kind |-> "read", meant |-> wire.meant, read |-> {wire.meant}]
  BY <1>2 DEF ReadWire
<1>4. wire'.kind = "read" /\ wire'.read = {wire'.meant}
  BY <1>3
<1>5. QED
  BY <1>4 DEF WireInv

\* Every reader takes just what was sent of every payload: a report of any number of services and
\* GPUs that the format allows, of this version or of one that has appended to it, the health of the
\* services, a command or a reply, with any texts and numbers in them; and nothing of one that is cut
\* short, too long, or states another version, size or number of its records.
THEOREM PayloadsAreReadAsSent == WireSpec => []ReadAsSent
<1>1. wire \in Cases => WireInv
  BY DEF WireInv
<1>2. WireInv /\ [ReadWire]_wire => WireInv'
  <2>1. SUFFICES ASSUME WireInv, [ReadWire]_wire
                 PROVE  WireInv'
    OBVIOUS
  <2>2. CASE ReadWire
    BY <2>1, <2>2, ReadWireGood
  <2>3. CASE UNCHANGED wire
    <3>1. Cases' = Cases
      BY DEF Cases, ReportCases, HealthCases, CommandCases, ReplyCases
    <3>2. QED
      BY <2>1, <2>3, <3>1 DEF WireInv
  <2>4. QED
    BY <2>1, <2>2, <2>3
<1>3. WireInv => ReadAsSent
  <2>1. ASSUME wire \in Cases
        PROVE  wire.kind # "read"
    BY <2>1, CasesGood DEF Good
  <2>2. QED
    BY <2>1 DEF WireInv, ReadAsSent
<1>4. QED
  BY <1>1, <1>2, <1>3, PTL DEF WireSpec

=============================================================================
