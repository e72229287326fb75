------------------------------ MODULE ReportFeed ------------------------------
(***************************************************************************)
(* The way of the reports to who looks at them: Publish of Daemon.cpp and  *)
(* ReportPublisher.cpp, which the manager's rounds call; WaitForReport of  *)
(* ManagerClient.cpp under RunStatus of main.cpp; and FeedMonitor of the   *)
(* GUI under its worker thread and "Reconnect".                            *)
(*                                                                         *)
(* A behaviour follows one subscriber, a call of --status or the GUI.      *)
(* Time is counted in seconds.  What a socket that has not joined would    *)
(* have received is lost, as is what its queue has no room for; the file   *)
(* is edited, reloaded, and the manager stops, dies and starts again.      *)
(***************************************************************************)
EXTENDS WireRecord

CONSTANTS
  Intervals,       \* publish_interval_ms
  Late,            \* a round is at most so long behind its time
  Margin,          \* report_wait_margin
  DefaultTimeout,  \* of the command line
  StaleAfter,      \* STALE_AFTER_SEC
  GapsKept,        \* of FeedMonitor
  Queue,           \* receive high water of the socket
  Senders,         \* versions the manager may have, by what a payload states
  MaxChanges,      \* bound: edits of the file and stops of the manager
  MaxWorkers       \* bound: connections of the GUI

ASSUME ReportFeedAssumption ==
  /\ Intervals \subseteq Nat \ {0} /\ IsFiniteSet(Intervals)
  /\ {Late, Margin, DefaultTimeout, StaleAfter, GapsKept, Queue, MaxChanges, MaxWorkers} \subseteq Nat

VARIABLES
  manager,   \* up; interval: the one it goes by; due: seconds until nextPublish; sender
  file,      \* publish_interval_ms there
  changes,
  socket,    \* link: "none", "joining" or "on"; inbox: the reports in its queue
  status,    \* at; watch; assumed: the interval it goes by; timeout; left: of it; and
             \* promised: history, the manager has kept the assumed interval since the wait began
  window,    \* at: "closed", "open" or "replacing" its worker; worker: its number; posted: what its
             \* workers have told it and it has not handled
  feed       \* connected, waited, age: of the last report, gaps; received: since it connected; and
             \* by, from, steady: history, the workers of the connection and of the last report, the
             \* manager has kept its pace

subscriberVars == <<socket, status, window, feed>>
vars == <<manager, file, changes, subscriberVars>>

\* Ages are not told apart from here on.
TooOld == Max({StaleAfter, 3 * (Max(Intervals) + Late)}) + 1

Init ==
  /\ file \in Intervals
  /\ manager \in [up : BOOLEAN, interval : {file}, due : {0}, sender : Senders]
  /\ changes = 0
  /\ socket = [link |-> "none", inbox |-> 0]
  /\ status = [at |-> "idle", watch |-> FALSE, assumed |-> 0, timeout |-> 0, left |-> 0, promised |-> FALSE]
  /\ window \in {[at |-> at, worker |-> 1, posted |-> <<>>] : at \in {"closed", "open"}}
  /\ feed = [connected |-> FALSE, waited |-> 0, age |-> TooOld, gaps |-> <<>>, received |-> FALSE,
             by |-> 0, from |-> 0, steady |-> FALSE]

ForGui == window.at # "closed"

----------------------------------------------------------------------------
(* The manager *)

\* The manager keeps its pace only while nothing is said to the contrary.
BreaksPace ==
  /\ status' = [status EXCEPT !.promised = FALSE]
  /\ feed' = [feed EXCEPT !.steady = FALSE]

Delivered == IF socket.link = "on" /\ socket.inbox < Queue THEN [socket EXCEPT !.inbox = @ + 1] ELSE socket

\* The next report is an interval after this one was due, or from now if that has passed too.
NextDue(due) == IF due <= 0 THEN manager.interval ELSE due

Publish ==
  /\ manager.up
  /\ manager.due <= 0
  /\ manager' = [manager EXCEPT !.due = NextDue(@ + manager.interval)]
  /\ socket' = Delivered
  /\ UNCHANGED <<file, changes, status, window, feed>>

\* The report that is due stays due when it was.
Reload ==
  /\ manager.up
  /\ manager.interval # file
  /\ manager' = [manager EXCEPT !.interval = file]
  /\ BreaksPace
  /\ UNCHANGED <<file, changes, socket, window>>

EditFile ==
  /\ changes < MaxChanges
  /\ changes' = changes + 1
  /\ file' \in Intervals \ {file}
  /\ UNCHANGED <<manager, subscriberVars>>

Disconnected(s) == [s EXCEPT !.link = IF @ = "on" THEN "joining" ELSE @]

\* A shutdown publishes once more, a death does not.
ManagerStops ==
  /\ manager.up
  /\ changes < MaxChanges
  /\ changes' = changes + 1
  /\ manager' = [manager EXCEPT !.up = FALSE, !.due = 0]
  /\ socket' \in {Disconnected(Delivered), Disconnected(socket)}
  /\ BreaksPace
  /\ UNCHANGED <<file, window>>

\* The first report is due at once.
ManagerStarts ==
  /\ ~manager.up
  /\ manager' = [manager EXCEPT !.up = TRUE, !.interval = file]
  /\ UNCHANGED <<file, changes, subscriberVars>>

\* libzmq connects, again and again while there is nobody.
Joins ==
  /\ manager.up
  /\ socket.link = "joining"
  /\ socket' = [socket EXCEPT !.link = "on"]
  /\ UNCHANGED <<manager, file, changes, status, window, feed>>

----------------------------------------------------------------------------
(* berayprocessmanager --status *)

\* Mutant: the default does not look at the interval.
WaitDefault(interval) == DefaultTimeout

WaitTime(interval) == Max({DefaultTimeout, interval + Margin})

\* A wait begins; the manager is on time if the report that is due is no further off than it says.
Waiting(s) ==
  [s EXCEPT !.at = "waiting", !.left = s.timeout,
            !.promised = /\ s.timeout = WaitTime(s.assumed)
                         /\ manager.up
                         /\ manager.interval = s.assumed
                         /\ manager.due <= s.assumed]

\* The call reads the file for the endpoint and the interval; the endpoint may be no good.
StartStatus ==
  /\ ~ForGui
  /\ status.at = "idle"
  /\ \E watch \in BOOLEAN, given \in {{}, {1}} :
       \E timeout \in IF given = {} THEN {WaitTime(file)} ELSE given :
         \/ /\ status' = Waiting([status EXCEPT !.watch = watch, !.assumed = file, !.timeout = timeout])
            /\ socket' = [socket EXCEPT !.link = "joining"]
         \/ status' = [status EXCEPT !.at = "refused"] /\ UNCHANGED socket
  /\ UNCHANGED <<manager, file, changes, window, feed>>

\* A watch goes on: it says so and waits again, unless it was asked to stop.
WaitTimesOut ==
  /\ status.at = "waiting"
  /\ status.left = 0
  /\ \/ ~status.watch /\ status' = [status EXCEPT !.at = "unanswered"]
     \/ status.watch /\ status' \in {Waiting(status), [status EXCEPT !.at = "done"]}
  /\ UNCHANGED <<manager, file, changes, socket, window, feed>>

\* A manager with no services, as its version sends it.
Sample(sender) ==
  EncodeAs(sender.version, sender.sizes,
           [header |-> [field \in Fields(ReportHeader) |-> IF field \in {"hostName", "managerVersion"}
                                                           THEN <<Whole>> ELSE Number(5)],
            services |-> <<>>, gpus |-> <<>>])

Understood == DecodeReport(Sample(manager.sender)) # Refused

ReceiveReport ==
  /\ status.at = "waiting"
  /\ status.left > 0
  /\ socket.inbox > 0
  /\ socket' = [socket EXCEPT !.inbox = @ - 1]
  /\ status' = [status EXCEPT !.at = IF ~Understood THEN "refused" ELSE IF status.watch THEN "printing" ELSE "done"]
  /\ UNCHANGED <<manager, file, changes, window, feed>>

\* Printing takes as long as the terminal likes.
PrintTable ==
  /\ status.at = "printing"
  /\ status' \in {Waiting(status), [status EXCEPT !.at = "done"]}
  /\ UNCHANGED <<manager, file, changes, socket, window, feed>>

----------------------------------------------------------------------------
(* The GUI: the worker thread *)

Post(kind) == window' = [window EXCEPT !.posted = Append(@, [kind |-> kind, worker |-> window.worker])]

\* The worker connects, or cannot.
StartWorker ==
  /\ window.at = "open"
  /\ socket.link = "none"
  /\ \/ Post("connected") /\ socket' = [socket EXCEPT !.link = "joining"]
     \/ Post("error") /\ socket' = [socket EXCEPT !.link = "failed"]
  /\ UNCHANGED <<manager, file, changes, status, feed>>

ForwardReport ==
  /\ window.at = "open"
  /\ socket.inbox > 0
  /\ socket' = [socket EXCEPT !.inbox = @ - 1]
  /\ Post("report")
  /\ UNCHANGED <<manager, file, changes, status, feed>>

----------------------------------------------------------------------------
(* The GUI: the window and its FeedMonitor *)

\* Mutant: the gaps of the last connection stay.
GapsKeptOn == feed.gaps

GapsOnConnect == <<>>

OnConnected(worker) ==
  [feed EXCEPT !.connected = TRUE, !.waited = 0, !.gaps = GapsOnConnect, !.received = FALSE,
               !.by = worker,
               !.steady = manager.up /\ Len(window.posted) = 1 /\ socket.inbox = 0]

OnDisconnected == [feed EXCEPT !.connected = FALSE, !.received = FALSE]

LastGaps(gaps) == IF Len(gaps) > GapsKept THEN Tail(gaps) ELSE gaps

\* No two readings of the clock are the same, so that a report is before or after the connection.
OnReport(worker) ==
  [feed EXCEPT !.gaps = IF feed.received THEN LastGaps(Append(@, feed.age)) ELSE @,
               !.age = 0, !.waited = 0, !.received = feed.connected, !.from = worker]

HandlePosted ==
  /\ window.at = "open"
  /\ window.posted # <<>>
  /\ LET first == Head(window.posted)
     IN  feed' = CASE first.kind = "connected" -> OnConnected(first.worker)
                 []   first.kind = "error" -> OnDisconnected
                 []   first.kind = "report" -> OnReport(first.worker)
  /\ window' = [window EXCEPT !.posted = Tail(@)]
  /\ UNCHANGED <<manager, file, changes, socket, status>>

\* _reconnect: the window waits for its worker's thread; what it had posted may still come.
Reconnect ==
  /\ window.at = "open"
  /\ window.worker < MaxWorkers
  /\ feed' = OnDisconnected
  /\ socket' = [link |-> "none", inbox |-> 0]
  /\ window' \in {[window EXCEPT !.at = "replacing"], [window EXCEPT !.at = "replacing", !.posted = <<>>]}
  /\ UNCHANGED <<manager, file, changes, status>>

WorkerReplaced ==
  /\ window.at = "replacing"
  /\ window' = [window EXCEPT !.at = "open", !.worker = @ + 1]
  /\ UNCHANGED <<manager, file, changes, socket, status, feed>>

\* The k-th of the gaps in their order: the least that so many do not exceed.
Ranked(gaps, k) ==
  Min({gap \in ToSet(gaps) : k <= Cardinality({i \in DOMAIN gaps : gaps[i] <= gap})})

\* The median, doubled.
TwiceMedian(gaps) ==
  LET n == Len(gaps)
  IN  Ranked(gaps, (n + 1) \div 2) + Ranked(gaps, n \div 2 + 1)

TooOldFor(age) ==
  2 * age > IF feed.gaps = <<>> THEN 2 * StaleAfter ELSE Max({2 * StaleAfter, 3 * TwiceMedian(feed.gaps)})

\* What the indicator shows.
Shown ==
  IF ~feed.connected THEN "none"
  ELSE IF feed.received THEN IF TooOldFor(feed.age) THEN "stale" ELSE "live"
  ELSE IF TooOldFor(feed.waited) THEN "stale" ELSE "waiting"

----------------------------------------------------------------------------
(* Time *)

\* Who has something to do at once has done it: a round is at most so late, a call and a worker
\* read what is there, the window handles what is posted unless it waits for its worker.
NothingAtOnce ==
  /\ manager.up => manager.due > 0 - Late /\ socket.link # "joining"
  /\ status.at = "waiting" => status.left > 0 /\ socket.inbox = 0
  /\ window.at = "open" => socket.inbox = 0 /\ window.posted = <<>> /\ socket.link # "none"

Older(age) == Min({age + 1, TooOld})

Tick ==
  /\ NothingAtOnce
  /\ manager' = [manager EXCEPT !.due = IF manager.up THEN @ - 1 ELSE @]
  /\ status' = [status EXCEPT !.left = IF status.at = "waiting" THEN @ - 1 ELSE @]
  /\ feed' = [feed EXCEPT !.age = Older(@),
                          !.waited = IF feed.connected /\ ~feed.received THEN Older(@) ELSE @]
  /\ UNCHANGED <<file, changes, socket, window>>

ManagerStep == Publish \/ Reload \/ EditFile \/ ManagerStops \/ ManagerStarts
StatusStep == StartStatus \/ WaitTimesOut \/ ReceiveReport \/ PrintTable
GuiStep == StartWorker \/ ForwardReport \/ HandlePosted \/ Reconnect \/ WorkerReplaced

Next == ManagerStep \/ Joins \/ StatusStep \/ GuiStep \/ Tick

Spec == Init /\ [][Next]_vars

----------------------------------------------------------------------------
(* Properties *)

\* --status answers while there is a manager: its default timeout is long enough for the next
\* report of one that goes by the interval in the file, with rounds that are late and reports that
\* were sent before it had joined; it asks "is it running?" only of one that does not.
StatusAnswered == status.at = "waiting" /\ status.left = 0 => ~status.promised

\* The GUI shows a connection live only by a report that came over it, whatever an earlier one
\* still had posted.
LiveIsOwn == Shown = "live" => feed.from = feed.by

\* What the GUI shows is so: live is live, and once two reports have come a manager that keeps its
\* pace is never shown stale, however slow that is and was before.
FeedHonest ==
  /\ LiveIsOwn
  /\ feed.connected /\ feed.steady /\ feed.gaps # <<>> => Shown = "live"

=============================================================================
