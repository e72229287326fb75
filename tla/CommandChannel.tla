--------------------------- MODULE CommandChannel ---------------------------
(***************************************************************************)
(* The way of a command to the manager and of its reply back.  A call of   *)
(* the command line (ManagerClient) opens a DEALER, sends one command and  *)
(* waits for a reply until its timeout.  The window of the GUI hands its   *)
(* commands to a worker thread, which keeps one DEALER, under the fixed    *)
(* identity "PMC", and which "Reconnect" replaces.  The manager's ROUTER   *)
(* (CommandServer) answers to the identity that a command came from.       *)
(*                                                                         *)
(* libzmq queues what a DEALER sends while nobody listens, drops what is   *)
(* unsent when the socket is closed (linger is 0 everywhere), and reads    *)
(* the peers of a ROUTER in any order.                                     *)
(***************************************************************************)
EXTENDS Naturals, Sequences, SequencesExt

CONSTANTS
  Calls,         \* calls of the command line; each one stands for its command and its socket
  MaxWorkers,    \* bound: worker threads the GUI starts, one after the other
  MaxClicks,     \* bound: commands given in the GUI
  SendQueue,     \* SNDHWM of the worker's DEALER
  None           \* no socket, no command

ASSUME BoundsAssumption == {MaxWorkers, MaxClicks, SendQueue} \subseteq Nat \ {0}

\* A worker stands for its socket.
Workers == 1 .. MaxWorkers
Clicks == 1 .. MaxClicks
Commands == Calls \cup Clicks
Sockets == Calls \cup Workers
Identities == Calls \cup {"PMC"}

\* The names tell calls, workers and commands of the GUI apart, and none of them is None.
ASSUME NamesAssumption ==
  /\ Calls \cap Workers = {} /\ Calls \cap Clicks = {} /\ "PMC" \notin Calls
  /\ None \notin Sockets /\ None \notin Commands /\ None \notin Identities

VARIABLES
  call,       \* a call: "idle", "waiting", "ok", "timeout" or "failed"
  answer,     \* the command its reply answers
  gui,        \* the current worker: "starting", "connected", "stopping", "failed" or "closed"
  worker,     \* its socket
  clicks,     \* commands given so far, numbered
  queue,      \* _command_queue
  pending,    \* _pending, the command being sent
  open,       \* sockets that exist
  outbox,     \* of each: what is sent and has not left
  pipe,       \* of each: what the manager can read
  inbox,      \* of each: the replies it can read
  link,       \* of each: "none", "known" to the ROUTER, or "refused"
  routing,    \* the socket an identity stands for
  up,         \* the manager runs
  request,    \* the command it is handling: where the reply goes, and what is answered
  sentBy,     \* history: the worker that handed a command to its socket
  executed,   \* history: the commands the manager executed, in order
  told        \* history: commands the GUI showed an outcome of

callVars == <<call, answer>>
guiVars == <<gui, worker, clicks, queue, pending, sentBy, told>>
netVars == <<outbox, pipe, inbox, link, routing>>
daemonVars == <<up, request, executed>>
vars == <<callVars, guiVars, open, netVars, daemonVars>>

\* Mutant: a command line client under the GUI's fixed identity.
FixedIdentity(s) == "PMC"

\* libzmq picks an identity for each socket of the command line; every worker sets the same.
Identity(s) == IF s \in Workers THEN "PMC" ELSE s

Init ==
  /\ call = [c \in Calls |-> "idle"]
  /\ answer = [c \in Calls |-> None]
  /\ gui = "starting" /\ worker = 1
  /\ clicks = 0
  /\ queue = <<>> /\ pending = None
  /\ open = {}
  /\ outbox = [s \in Sockets |-> <<>>]
  /\ pipe = [s \in Sockets |-> <<>>]
  /\ inbox = [s \in Sockets |-> <<>>]
  /\ link = [s \in Sockets |-> "none"]
  /\ routing = [i \in Identities |-> None]
  /\ up \in BOOLEAN
  /\ request = None
  /\ sentBy = [k \in Clicks |-> None]
  /\ executed = <<>>
  /\ told = {}

----------------------------------------------------------------------------
(* A call of the command line *)

\* Closing a socket drops what it has not sent and what it has not read.
Close(s) ==
  /\ open' = open \ {s}
  /\ outbox' = [outbox EXCEPT ![s] = <<>>]
  /\ inbox' = [inbox EXCEPT ![s] = <<>>]
  /\ UNCHANGED <<pipe, link, routing>>

\* SendCommand connects, which needs nobody to listen, and sends.
CallSends(c) ==
  /\ call[c] = "idle"
  /\ call' = [call EXCEPT ![c] = "waiting"]
  /\ open' = open \cup {c}
  /\ outbox' = [outbox EXCEPT ![c] = <<c>>]
  /\ UNCHANGED <<answer, guiVars, pipe, inbox, link, routing, daemonVars>>

\* The endpoint cannot be used, or waiting fails.
CallFails(c) ==
  /\ call[c] \in {"idle", "waiting"}
  /\ call' = [call EXCEPT ![c] = "failed"]
  /\ Close(c)
  /\ UNCHANGED <<answer, guiVars, daemonVars>>

\* The first reply there is ends the call.
CallAnswered(c) ==
  /\ call[c] = "waiting" /\ inbox[c] # <<>>
  /\ call' = [call EXCEPT ![c] = "ok"]
  /\ answer' = [answer EXCEPT ![c] = Head(inbox[c])]
  /\ Close(c)
  /\ UNCHANGED <<guiVars, daemonVars>>

\* The timeout is looked at before the socket, so that a reply may be there already.
CallTimesOut(c) ==
  /\ call[c] = "waiting"
  /\ call' = [call EXCEPT ![c] = "timeout"]
  /\ Close(c)
  /\ UNCHANGED <<answer, guiVars, daemonVars>>

----------------------------------------------------------------------------
(* The GUI: the window and its worker *)

\* The worker opens its socket, and the window hears that it is connected.
WorkerStarts ==
  /\ gui = "starting"
  /\ gui' = "connected"
  /\ open' = open \cup {worker}
  /\ UNCHANGED <<callVars, worker, clicks, queue, pending, sentBy, told, netVars, daemonVars>>

\* An endpoint that cannot be used ends the thread.
WorkerFails ==
  /\ gui = "starting"
  /\ gui' = "failed"
  /\ UNCHANGED <<callVars, worker, clicks, queue, pending, sentBy, told, open, netVars, daemonVars>>

\* The window takes a command only while connected.
SendCmd ==
  /\ gui = "connected" /\ clicks < MaxClicks
  /\ clicks' = clicks + 1
  /\ queue' = Append(queue, clicks + 1)
  /\ UNCHANGED <<callVars, gui, worker, pending, sentBy, told, open, netVars, daemonVars>>

\* The loop also runs on for a while after stop().
Running == gui \in {"connected", "stopping"}

WorkerTakes ==
  /\ Running
  /\ pending = None /\ queue # <<>>
  /\ pending' = Head(queue) /\ queue' = Tail(queue)
  /\ UNCHANGED <<callVars, gui, worker, clicks, sentBy, told, open, netVars, daemonVars>>

\* Mutant: a command that cannot be sent goes to the end of the queue.
PutBack == queue' = Append(queue, pending) /\ pending' = None

\* A command that the socket does not take stays first in line.
StaysFirst == UNCHANGED <<queue, pending>>

WorkerSends ==
  /\ Running
  /\ pending # None
  /\ IF Len(outbox[worker]) < SendQueue
     THEN /\ outbox' = [outbox EXCEPT ![worker] = Append(@, pending)]
          /\ sentBy' = [sentBy EXCEPT ![pending] = worker]
          /\ pending' = None
          /\ UNCHANGED queue
     ELSE StaysFirst /\ UNCHANGED <<outbox, sentBy>>
  /\ UNCHANGED <<callVars, gui, worker, clicks, told, open, pipe, inbox, link, routing, daemonVars>>

\* The window hears of it, unless the worker's signals are cut off.
Tells(ks) == told' = IF gui = "connected" THEN told \cup ks ELSE told

\* Any other failure to send gives the command up, and says so.
WorkerGivesUp ==
  /\ Running
  /\ pending # None
  /\ pending' = None
  /\ Tells({pending})
  /\ UNCHANGED <<callVars, gui, worker, clicks, queue, sentBy, open, netVars, daemonVars>>

\* _read_replies shows every reply that has come.
WorkerReads ==
  /\ Running
  /\ inbox[worker] # <<>>
  /\ Tells(ToSet(inbox[worker]))
  /\ inbox' = [inbox EXCEPT ![worker] = <<>>]
  /\ UNCHANGED <<callVars, gui, worker, clicks, queue, pending, sentBy, open,
                 outbox, pipe, link, routing, daemonVars>>

\* "Reconnect", or closing the window: the worker's signals are cut off and its loop told to end.
StopWorker ==
  /\ gui \in {"starting", "connected", "failed"}
  /\ gui' = "stopping"
  /\ UNCHANGED <<callVars, worker, clicks, queue, pending, sentBy, told, open, netVars, daemonVars>>

\* The loop has ended and its socket is closed.  The next worker has a queue of its own.
WorkerReplaced ==
  /\ gui = "stopping"
  /\ \/ gui' = "closed" /\ UNCHANGED worker
     \/ gui' = "starting" /\ worker < MaxWorkers /\ worker' = worker + 1
  /\ queue' = <<>> /\ pending' = None
  /\ Close(worker)
  /\ UNCHANGED <<callVars, clicks, sentBy, told, daemonVars>>

----------------------------------------------------------------------------
(* libzmq: connections, and messages on their way *)

\* Mutant: without ROUTER_HANDOVER a peer whose identity is taken is ignored for good.
LinkUnlessTaken(s) == IF routing[Identity(s)] = None THEN "known" ELSE "refused"

\* With ROUTER_HANDOVER the last peer of an identity has it.
LinkOf(s) == "known"

Connects(s) ==
  /\ up /\ s \in open /\ link[s] = "none"
  /\ link' = [link EXCEPT ![s] = LinkOf(s)]
  /\ routing' = IF LinkOf(s) = "known" THEN [routing EXCEPT ![Identity(s)] = s] ELSE routing
  /\ UNCHANGED <<callVars, guiVars, open, outbox, pipe, inbox, daemonVars>>

Transfers(s) ==
  /\ link[s] = "known" /\ outbox[s] # <<>>
  /\ pipe' = [pipe EXCEPT ![s] = Append(@, Head(outbox[s]))]
  /\ outbox' = [outbox EXCEPT ![s] = Tail(@)]
  /\ UNCHANGED <<callVars, guiVars, open, inbox, link, routing, daemonVars>>

\* The ROUTER finds that a peer has gone; what it sent before may be lost.
Forgets(s) ==
  /\ link[s] # "none" /\ s \notin open
  /\ link' = [link EXCEPT ![s] = "none"]
  /\ pipe' = [pipe EXCEPT ![s] = <<>>]
  /\ routing' = [i \in Identities |-> IF routing[i] = s THEN None ELSE routing[i]]
  /\ UNCHANGED <<callVars, guiVars, open, outbox, inbox, daemonVars>>

----------------------------------------------------------------------------
(* The manager *)

\* A peer that was replaced has no name to be answered under.
AddressOf(s) == IF routing[Identity(s)] = s THEN Identity(s) ELSE None

\* HandleCommands takes the next command and executes it.
HandleCommand ==
  /\ up /\ request = None
  /\ \E s \in Sockets :
       /\ pipe[s] # <<>>
       /\ pipe' = [pipe EXCEPT ![s] = Tail(@)]
       /\ request' = [identity |-> AddressOf(s), command |-> Head(pipe[s])]
       /\ executed' = Append(executed, Head(pipe[s]))
  /\ UNCHANGED <<callVars, guiVars, open, outbox, inbox, link, routing, up>>

\* The ROUTER drops a reply to a peer that it does not know or that has gone.
Reply ==
  /\ up /\ request # None
  /\ request' = None
  /\ LET s == IF request.identity = None THEN None ELSE routing[request.identity]
     IN  inbox' = IF s \in open THEN [inbox EXCEPT ![s] = Append(@, request.command)] ELSE inbox
  /\ UNCHANGED <<callVars, guiVars, open, outbox, pipe, link, routing, up, executed>>

\* The manager ends or is killed.  What it had not handled is lost, replies under way may be.
ManagerEnds ==
  /\ up
  /\ up' = FALSE
  /\ request' = None
  /\ pipe' = [s \in Sockets |-> <<>>]
  /\ link' = [s \in Sockets |-> "none"]
  /\ routing' = [i \in Identities |-> None]
  /\ \E lost \in {{}, Sockets} : inbox' = [s \in Sockets |-> IF s \in lost THEN <<>> ELSE inbox[s]]
  /\ UNCHANGED <<callVars, guiVars, open, outbox, executed>>

\* It starts and binds its socket; who was waiting connects again.
ManagerStarts ==
  /\ ~up
  /\ up' = TRUE
  /\ UNCHANGED <<callVars, guiVars, open, netVars, request, executed>>

----------------------------------------------------------------------------

CallNext == \E c \in Calls : CallSends(c) \/ CallFails(c) \/ CallAnswered(c) \/ CallTimesOut(c)

WorkerLoop == WorkerTakes \/ WorkerSends \/ WorkerReads

GuiNext ==
  WorkerStarts \/ WorkerFails \/ SendCmd \/ WorkerLoop \/ WorkerGivesUp \/ StopWorker \/ WorkerReplaced

NetNext == \E s \in Sockets : Connects(s) \/ Transfers(s) \/ Forgets(s)

ManagerNext == HandleCommand \/ Reply \/ ManagerEnds \/ ManagerStarts

Next == CallNext \/ GuiNext \/ NetNext \/ ManagerNext

Spec == Init /\ [][Next]_vars

\* The worker's loop goes on, since it polls with a timeout; messages travel; the manager reads its
\* socket every round, until it is empty.  Nobody has to connect again, or to start the manager.
Fairness ==
  /\ WF_vars(WorkerTakes) /\ WF_vars(WorkerSends) /\ WF_vars(WorkerReads)
  /\ \A s \in Sockets : WF_vars(Connects(s)) /\ WF_vars(Transfers(s))
  /\ WF_vars(HandleCommand) /\ WF_vars(Reply)

FairSpec == Spec /\ Fairness

----------------------------------------------------------------------------
(* Properties *)

\* A call of the command line that reports an answer reports the one to its own command, which has
\* been executed, whatever else was sent, given up or restarted meanwhile.
AnswerIsOwn ==
  \A c \in Calls : call[c] = "ok" => answer[c] = c /\ Contains(executed, c)

\* No command is executed twice, and those given to one worker are executed in the order in which
\* they were given, though a full socket makes them wait and the manager ends and starts again.
OnceAndInOrder ==
  \A j \in 1 .. Len(executed) : \A i \in 1 .. j - 1 :
    /\ executed[i] # executed[j]
    /\ {executed[i], executed[j]} \subseteq Clicks /\ sentBy[executed[i]] = sentBy[executed[j]]
         => executed[i] < executed[j]

\* A command taken by the GUI has an outcome that is shown, also after a reconnection, unless the
\* operator replaces the worker once more or the manager is down at some time.
OperatorTold ==
  \A k \in Clicks, w \in Workers :
    (worker = w /\ Contains(queue, k))
      ~> (k \in told \/ worker # w \/ gui # "connected" \/ ~up)

=============================================================================
