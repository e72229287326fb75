------------------------- MODULE CommandChannelProofs -------------------------
(***************************************************************************)
(* Proofs about CommandChannel, for any number of calls of the command     *)
(* line, workers and commands of the GUI: an answer is one's own, and no   *)
(* command is executed twice or overtakes another of its worker.           *)
(***************************************************************************)
EXTENDS CommandChannel, SequenceTheorems, TLAPS

----------------------------------------------------------------------------
(* The inductive invariant *)

Executed == ToSet(executed)

Increasing(s) == \A i, j \in DOMAIN s : i < j => s[i] < s[j]

TypeOK ==
  /\ call \in [Calls -> {"idle", "waiting", "ok", "timeout", "failed"}]
  /\ answer \in [Calls -> Commands \cup {None}]
  /\ worker \in Workers /\ clicks \in 0..MaxClicks
  /\ queue \in Seq(Clicks) /\ pending \in Clicks \cup {None}
  /\ sentBy \in [Clicks -> Workers \cup {None}]
  /\ open \subseteq Sockets
  /\ outbox \in [Sockets -> Seq(Commands)]
  /\ pipe \in [Sockets -> Seq(Commands)]
  /\ inbox \in [Sockets -> Seq(Commands)]
  /\ routing \in [Identities -> Sockets \cup {None}]
  /\ request \in [identity : Identities \cup {None}, command : Commands] \cup {None}
  /\ executed \in Seq(Commands)

\* The command of a call is at one place at most, and what reaches the call answers it.
OneCall(c) ==
  /\ ToSet(outbox[c]) \subseteq {c} /\ ToSet(pipe[c]) \subseteq {c}
  /\ ToSet(inbox[c]) \subseteq Executed \cap {c}
  /\ Len(outbox[c]) + Len(pipe[c]) <= 1
  /\ call[c] = "idle" \/ c \in Executed => outbox[c] = <<>> /\ pipe[c] = <<>>
  /\ call[c] = "idle" => c \notin Executed
  /\ call[c] = "ok" => answer[c] = c /\ c \in Executed

\* What a worker sent travels in order: executed, to be read, to be sent.
OneWorker(w) ==
  /\ \A k \in ToSet(outbox[w]) \cup ToSet(pipe[w]) : k \in Clicks /\ sentBy[k] = w
  /\ Increasing(outbox[w]) /\ Increasing(pipe[w])
  /\ \A i \in ToSet(pipe[w]), j \in ToSet(outbox[w]) : i < j
  /\ \A k \in Executed \cap Clicks :
       sentBy[k] = w => \A j \in ToSet(pipe[w]) \cup ToSet(outbox[w]) : k < j

\* Behind what was sent come the command in hand and those that wait, in order.
Waiting ==
  /\ \A k \in Clicks : sentBy[k] # None =>
       /\ k <= clicks
       /\ pending # None => k < pending
       /\ \A j \in ToSet(queue) : k < j
  /\ pending # None => pending <= clicks /\ \A j \in ToSet(queue) : pending < j
  /\ Increasing(queue)
  /\ \A j \in ToSet(queue) : j <= clicks
  /\ \A k \in Executed \cap Clicks : sentBy[k] # None

\* A reply goes to the one the command came from, or to nobody.
Addressed ==
  /\ \A i \in Identities : routing[i] # None => Identity(routing[i]) = i
  /\ request # None =>
       /\ request.command \in Executed
       /\ \A c \in Calls : request.identity = c => request.command = c

IInv ==
  /\ TypeOK
  /\ \A c \in Calls : OneCall(c)
  /\ \A w \in Workers : OneWorker(w)
  /\ Waiting
  /\ Addressed
  /\ OnceAndInOrder

----------------------------------------------------------------------------
(* Sequences *)

\* The elements of a sequence.
LEMMA SetOf ==
  ASSUME NEW S, NEW s \in Seq(S)
  PROVE  ToSet(s) \subseteq S /\ (s # <<>> => Head(s) \in ToSet(s))
BY LenProperties, EmptySeq DEF ToSet

\* Appending an element keeps the others in their places and adds one to the set.
LEMMA AppendIs ==
  ASSUME NEW S, NEW s \in Seq(S), NEW e \in S
  PROVE  /\ Append(s, e) \in Seq(S)
         /\ Len(Append(s, e)) = Len(s) + 1
         /\ \A i \in 1..Len(s) : Append(s, e)[i] = s[i]
         /\ Append(s, e)[Len(s) + 1] = e
         /\ ToSet(Append(s, e)) = ToSet(s) \cup {e}
<1> DEFINE t == Append(s, e)
<1>1. /\ t \in Seq(S) /\ Len(t) = Len(s) + 1
      /\ \A i \in 1..Len(s) : t[i] = s[i]
      /\ t[Len(s) + 1] = e
      /\ DOMAIN t = 1..Len(s) + 1 /\ DOMAIN s = 1..Len(s) /\ Len(s) \in Nat
  OBVIOUS
<1> HIDE DEF t
<1>2. \A x : x \in ToSet(t) <=> x \in ToSet(s) \cup {e}
  BY <1>1 DEF ToSet
<1> QED BY <1>1, <1>2 DEF t

\* The head is an element, and the tail holds the elements behind it, one place further ahead.
LEMMA TailIs ==
  ASSUME NEW S, NEW s \in Seq(S), s # <<>>
  PROVE  /\ Head(s) \in S /\ Head(s) = s[1] /\ Head(s) \in ToSet(s)
         /\ Tail(s) \in Seq(S) /\ Len(Tail(s)) = Len(s) - 1 /\ Len(s) \in Nat \ {0}
         /\ \A i \in 1..Len(Tail(s)) : Tail(s)[i] = s[i + 1]
         /\ ToSet(Tail(s)) \subseteq ToSet(s)
<1> DEFINE t == Tail(s)
<1>1. /\ Head(s) \in S /\ Head(s) = s[1]
      /\ t \in Seq(S) /\ Len(t) = Len(s) - 1 /\ Len(s) \in Nat \ {0}
      /\ DOMAIN s = 1..Len(s) /\ DOMAIN t = 1..Len(s) - 1
  BY LenProperties, EmptySeq
<1>2. \A i \in 1..Len(t) : t[i] = s[i + 1]
  BY HeadTailProperties
<1> HIDE DEF t
<1>3. Head(s) \in ToSet(s)
  BY <1>1 DEF ToSet
<1>4. ToSet(t) \subseteq ToSet(s)
  BY <1>1, <1>2 DEF ToSet
<1> QED BY <1>1, <1>2, <1>3, <1>4 DEF t

\* The empty sequence has no elements, and is increasing.
LEMMA EmptyIs == ToSet(<<>>) = {} /\ Len(<<>>) = 0 /\ Increasing(<<>>)
BY DEF ToSet, Increasing

\* A larger number at the end keeps a sequence increasing.
LEMMA AppendIncreases ==
  ASSUME NEW S, NEW s \in Seq(S), NEW e \in S, ToSet(s) \cup {e} \subseteq Nat,
         Increasing(s), \A x \in ToSet(s) : x < e
  PROVE  Increasing(Append(s, e))
<1> DEFINE t == Append(s, e)
<1>1. /\ DOMAIN t = 1..Len(s) + 1 /\ DOMAIN s = 1..Len(s) /\ Len(s) \in Nat
      /\ \A i \in 1..Len(s) : t[i] = s[i] /\ s[i] \in ToSet(s)
      /\ t[Len(s) + 1] = e
  BY AppendIs DEF ToSet
<1> HIDE DEF t
<1>2. ASSUME NEW i \in DOMAIN t, NEW j \in DOMAIN t, i < j  PROVE t[i] < t[j]
  <2>1. CASE j = Len(s) + 1
    BY <1>1, <1>2, <2>1
  <2>2. CASE j # Len(s) + 1
    BY <1>1, <1>2, <2>2 DEF Increasing
  <2> QED BY <2>1, <2>2
<1> QED BY <1>2 DEF t, Increasing

\* The head of an increasing sequence is below its tail, which is increasing.
LEMMA TailIncreases ==
  ASSUME NEW S, NEW s \in Seq(S), s # <<>>, ToSet(s) \subseteq Nat, Increasing(s)
  PROVE  Increasing(Tail(s)) /\ \A x \in ToSet(Tail(s)) : Head(s) < x
<1> DEFINE t == Tail(s)
<1>1. /\ DOMAIN t = 1..Len(s) - 1 /\ DOMAIN s = 1..Len(s) /\ Len(s) \in Nat \ {0}
      /\ \A i \in 1..Len(s) - 1 : t[i] = s[i + 1]
      /\ Head(s) = s[1]
  BY TailIs
<1> HIDE DEF t
<1>2. Increasing(t)
  BY <1>1 DEF Increasing
<1>3. \A x \in ToSet(t) : Head(s) < x
  BY <1>1 DEF Increasing, ToSet
<1> QED BY <1>2, <1>3 DEF t

----------------------------------------------------------------------------
(* What a step leaves alone *)

\* Queues that keep what they hold, or lose it, hold no more together.
LEMMA NoMore ==
  ASSUME NEW S, NEW s \in Seq(S), NEW t \in Seq(S), Len(s) + Len(t) <= 1,
         NEW u \in {s, <<>>}, NEW v \in {t, <<>>}
  PROVE  Len(u) + Len(v) <= 1
<1>1. Len(s) \in Nat /\ Len(t) \in Nat
  BY LenProperties
<1>2. CASE u = s
  BY <1>1, <1>2, EmptyIs
<1>3. CASE u = <<>>
  BY <1>1, <1>3, EmptyIs
<1> QED BY <1>2, <1>3

\* A call keeps its part while its queues keep what they hold, or lose it.
LEMMA CallKept ==
  ASSUME IInv, NEW c \in Calls,
         call'[c] = call[c], answer'[c] = answer[c], executed' = executed,
         outbox'[c] \in {outbox[c], <<>>}, pipe'[c] \in {pipe[c], <<>>}, inbox'[c] \in {inbox[c], <<>>}
  PROVE  OneCall(c)'
<1>1. OneCall(c) /\ outbox[c] \in Seq(Commands) /\ pipe[c] \in Seq(Commands)
  BY DEF IInv, TypeOK, Sockets
<1>2. Len(outbox'[c]) + Len(pipe'[c]) <= 1
  BY <1>1, NoMore DEF OneCall
<1>3. /\ ToSet(outbox'[c]) \subseteq ToSet(outbox[c]) /\ ToSet(pipe'[c]) \subseteq ToSet(pipe[c])
      /\ ToSet(inbox'[c]) \subseteq ToSet(inbox[c])
  BY EmptyIs
<1> QED BY <1>1, <1>2, <1>3 DEF OneCall, Executed

\* So does a worker.
LEMMA WorkerKept ==
  ASSUME IInv, NEW w \in Workers, sentBy' = sentBy, executed' = executed,
         outbox'[w] \in {outbox[w], <<>>}, pipe'[w] \in {pipe[w], <<>>}
  PROVE  OneWorker(w)'
<1>1. OneWorker(w)
  BY DEF IInv
<1>2. /\ ToSet(outbox'[w]) \subseteq ToSet(outbox[w]) /\ ToSet(pipe'[w]) \subseteq ToSet(pipe[w])
      /\ Increasing(outbox'[w]) /\ Increasing(pipe'[w])
  BY <1>1, EmptyIs DEF OneWorker
<1> QED BY <1>1, <1>2 DEF OneWorker, Executed, Increasing

\* The order of what waits depends on nothing else.
LEMMA WaitingKept ==
  ASSUME IInv, UNCHANGED <<sentBy, clicks, pending, queue, executed>>
  PROVE  Waiting'
BY DEF IInv, Waiting, Executed

\* Nor do the addresses and the commands executed.
LEMMA ManagerKept ==
  ASSUME IInv, UNCHANGED <<routing, request, executed, sentBy>>
  PROVE  Addressed' /\ OnceAndInOrder'
BY DEF IInv, Addressed, Executed, OnceAndInOrder

\* A closed socket loses what it has not sent or read.
LEMMA Closes ==
  ASSUME IInv, NEW s \in Sockets, Close(s)
  PROVE  /\ open' \subseteq Sockets
         /\ outbox' \in [Sockets -> Seq(Commands)] /\ inbox' \in [Sockets -> Seq(Commands)]
         /\ \A r \in Sockets : outbox'[r] \in {outbox[r], <<>>} /\ inbox'[r] \in {inbox[r], <<>>}
         /\ pipe' = pipe /\ routing' = routing
<1>1. <<>> \in Seq(Commands)
  OBVIOUS
<1> QED BY <1>1 DEF IInv, TypeOK, Close

\* The sets of names, and whom an identity can stand for.
LEMMA Names ==
  /\ Calls \subseteq Sockets /\ Workers \subseteq Sockets /\ Calls \cap Workers = {}
  /\ Calls \cap Clicks = {} /\ Calls \subseteq Commands /\ Clicks \subseteq Commands
  /\ Clicks \subseteq Nat /\ None \notin Commands /\ None \notin Sockets /\ None \notin Identities
  /\ None \notin Clicks /\ None \notin Workers /\ None \notin Calls
  /\ \A s \in Sockets : Identity(s) \in Identities
  /\ \A s \in Sockets, c \in Calls : Identity(s) = c <=> s = c
<1>1. MaxClicks \in Nat \ {0}
  BY BoundsAssumption
<1>2. Clicks \subseteq Nat
  BY <1>1 DEF Clicks
<1> QED BY <1>2, NamesAssumption DEF Sockets, Commands, Identities, Identity

----------------------------------------------------------------------------
(* The steps of a call *)

\* The initial states satisfy the invariant.
LEMMA InitIInv == Init => IInv
<1> SUFFICES ASSUME Init PROVE IInv
  OBVIOUS
<1>1. 1 \in Workers /\ 0 \in 0..MaxClicks
  BY BoundsAssumption DEF Workers
<1>2. TypeOK
  <2>1. <<>> \in Seq(Commands) /\ <<>> \in Seq(Clicks)
    OBVIOUS
  <2> QED BY <1>1, <2>1 DEF Init, TypeOK
<1>3. ASSUME NEW c \in Calls PROVE OneCall(c)
  BY EmptyIs, Names DEF Init, OneCall, Executed
<1>4. ASSUME NEW w \in Workers PROVE OneWorker(w)
  BY EmptyIs, Names DEF Init, OneWorker, Executed
<1>5. Waiting
  BY EmptyIs DEF Init, Waiting, Executed
<1>6. Addressed
  BY DEF Init, Addressed
<1>7. OnceAndInOrder
  BY EmptyIs DEF Init, OnceAndInOrder
<1> QED BY <1>2, <1>3, <1>4, <1>5, <1>6, <1>7 DEF IInv

\* SendCommand puts the call's command, which nobody has, on its own socket.
LEMMA CallSendsKeeps ==
  ASSUME IInv, NEW c \in Calls, CallSends(c)
  PROVE  IInv'
<1>1. c \in Sockets /\ c \in Commands /\ c \notin Workers
  BY Names
<1>2. <<c>> \in Seq(Commands) /\ Len(<<c>>) = 1 /\ ToSet(<<c>>) = {c}
  BY <1>1 DEF ToSet
<1>3. TypeOK'
  BY <1>1, <1>2 DEF IInv, TypeOK, CallSends, guiVars, daemonVars
<1>4. ASSUME NEW b \in Calls PROVE OneCall(b)'
  <2>1. CASE b = c
    <3>1. OneCall(c) /\ call[c] = "idle" /\ pipe[c] = <<>> /\ c \notin Executed
      BY DEF IInv, OneCall, CallSends
    <3>2. call'[c] = "waiting" /\ outbox'[c] = <<c>>
      BY <1>1 DEF IInv, TypeOK, CallSends
    <3> QED BY <2>1, <3>1, <3>2, <1>2, EmptyIs DEF OneCall, CallSends, daemonVars, Executed
  <2>2. CASE b # c
    <3>1. call'[b] = call[b] /\ outbox'[b] = outbox[b]
      BY <2>2, Names DEF IInv, TypeOK, CallSends
    <3> QED BY <3>1, CallKept DEF CallSends, daemonVars
  <2> QED BY <2>1, <2>2
<1>5. ASSUME NEW w \in Workers PROVE OneWorker(w)'
  <2>1. outbox'[w] = outbox[w]
    BY <1>1, Names DEF IInv, TypeOK, CallSends
  <2> QED BY <2>1, WorkerKept DEF CallSends, guiVars, daemonVars
<1>6. Waiting' /\ Addressed' /\ OnceAndInOrder'
  BY WaitingKept, ManagerKept DEF CallSends, guiVars, daemonVars
<1> QED BY <1>3, <1>4, <1>5, <1>6 DEF IInv

\* A call that ends closes its socket; the answer it reports is one it could read.
LEMMA CallEndsKeeps ==
  ASSUME IInv, NEW c \in Calls, CallFails(c) \/ CallAnswered(c) \/ CallTimesOut(c)
  PROVE  IInv'
<1> DEFINE o == call'[c]
<1>1. /\ Close(c) /\ UNCHANGED <<guiVars, daemonVars>>
      /\ call[c] \in {"idle", "waiting"}
      /\ call' = [call EXCEPT ![c] = o] /\ o \in {"ok", "timeout", "failed"}
      /\ o # "ok" => answer' = answer
      /\ o = "ok" => call[c] = "waiting" /\ inbox[c] # <<>> /\ answer' = [answer EXCEPT ![c] = Head(inbox[c])]
  BY DEF CallFails, CallAnswered, CallTimesOut, IInv, TypeOK
<1> HIDE DEF o
<1>2. c \in Sockets
  BY Names
<1>3. /\ open' \subseteq Sockets
      /\ outbox' \in [Sockets -> Seq(Commands)] /\ inbox' \in [Sockets -> Seq(Commands)]
      /\ \A r \in Sockets : outbox'[r] \in {outbox[r], <<>>} /\ inbox'[r] \in {inbox[r], <<>>}
      /\ pipe' = pipe /\ routing' = routing
  BY <1>1, <1>2, Closes
<1>4. o = "ok" => Head(inbox[c]) = c /\ c \in Executed /\ c \in Commands
  <2>1. inbox[c] \in Seq(Commands) /\ ToSet(inbox[c]) \subseteq Executed \cap {c} /\ c \in Commands
    BY <1>2, Names DEF IInv, TypeOK, OneCall
  <2>2. o = "ok" => Head(inbox[c]) \in ToSet(inbox[c])
    BY <1>1, <2>1, TailIs
  <2> QED BY <2>1, <2>2
<1>5. TypeOK'
  <2>1. call' \in [Calls -> {"idle", "waiting", "ok", "timeout", "failed"}]
    BY <1>1 DEF IInv, TypeOK
  <2>2. answer' \in [Calls -> Commands \cup {None}]
    BY <1>1, <1>4 DEF IInv, TypeOK
  <2> QED BY <1>1, <1>3, <2>1, <2>2 DEF IInv, TypeOK, guiVars, daemonVars
<1>6. ASSUME NEW b \in Calls PROVE OneCall(b)'
  <2>1. b \in Sockets
    BY Names
  <2>2. CASE b = c
    <3>1. OneCall(c) /\ outbox[c] \in Seq(Commands) /\ pipe[c] \in Seq(Commands)
      BY <1>2 DEF IInv, TypeOK
    <3>2. outbox'[c] = <<>> /\ inbox'[c] = <<>>
      BY <1>1, <1>2 DEF Close, IInv, TypeOK
    <3>3. call'[c] = o /\ o \in {"ok", "timeout", "failed"} /\ (o = "ok" => answer'[c] = c)
      BY <1>1, <1>4 DEF IInv, TypeOK
    <3>4. Len(outbox'[c]) + Len(pipe[c]) <= 1
      BY <3>1, <3>2, NoMore DEF OneCall
    <3>5. executed' = executed /\ pipe' = pipe
      BY <1>1, <1>3 DEF daemonVars
    <3> QED BY <2>2, <3>1, <3>2, <3>3, <3>4, <3>5, <1>4, EmptyIs DEF OneCall, Executed
  <2>3. CASE b # c
    <3>1. call'[b] = call[b] /\ answer'[b] = answer[b]
      BY <1>1, <2>3 DEF IInv, TypeOK
    <3> QED BY <1>1, <1>3, <2>1, <3>1, CallKept DEF daemonVars
  <2> QED BY <2>2, <2>3
<1>7. ASSUME NEW w \in Workers PROVE OneWorker(w)'
  BY <1>1, <1>3, Names, WorkerKept DEF guiVars, daemonVars
<1>8. Waiting' /\ Addressed' /\ OnceAndInOrder'
  BY <1>1, <1>3, WaitingKept, ManagerKept DEF guiVars, daemonVars
<1> QED BY <1>5, <1>6, <1>7, <1>8 DEF IInv

----------------------------------------------------------------------------
(* The steps of the GUI *)

\* Starting, failing and stopping move nothing.
LEMMA WorkerMovesNothing ==
  ASSUME IInv, WorkerStarts \/ WorkerFails \/ StopWorker
  PROVE  IInv'
<1>1. /\ UNCHANGED <<callVars, worker, clicks, queue, pending, sentBy, netVars, daemonVars>>
      /\ open' \in {open, open \cup {worker}}
  BY DEF WorkerStarts, WorkerFails, StopWorker
<1>2. TypeOK'
  BY <1>1, Names DEF IInv, TypeOK, callVars, netVars, daemonVars
<1>3. ASSUME NEW c \in Calls PROVE OneCall(c)'
  BY <1>1, CallKept DEF callVars, netVars, daemonVars
<1>4. ASSUME NEW w \in Workers PROVE OneWorker(w)'
  BY <1>1, WorkerKept DEF netVars, daemonVars
<1>5. Waiting' /\ Addressed' /\ OnceAndInOrder'
  BY <1>1, WaitingKept, ManagerKept DEF netVars, daemonVars
<1> QED BY <1>2, <1>3, <1>4, <1>5 DEF IInv

\* A command given in the window has the next number, and goes behind the others.
LEMMA SendCmdKeeps ==
  ASSUME IInv, SendCmd
  PROVE  IInv'
<1>1. /\ UNCHANGED <<callVars, worker, pending, sentBy, open, netVars, daemonVars>>
      /\ clicks' = clicks + 1 /\ queue' = Append(queue, clicks + 1) /\ clicks < MaxClicks
  BY DEF SendCmd
<1>2. /\ queue \in Seq(Clicks) /\ clicks \in Nat /\ MaxClicks \in Nat /\ clicks + 1 \in Clicks
      /\ pending \in Clicks \cup {None}
  BY <1>1, BoundsAssumption DEF IInv, TypeOK, Clicks
<1>3. queue' \in Seq(Clicks) /\ ToSet(queue') = ToSet(queue) \cup {clicks + 1}
  BY <1>1, <1>2, AppendIs
<1>4. TypeOK'
  BY <1>1, <1>2, <1>3 DEF IInv, TypeOK, callVars, netVars, daemonVars
<1>5. ASSUME NEW c \in Calls PROVE OneCall(c)'
  BY <1>1, CallKept DEF callVars, netVars, daemonVars
<1>6. ASSUME NEW w \in Workers PROVE OneWorker(w)'
  BY <1>1, WorkerKept DEF netVars, daemonVars
<1>7. Addressed' /\ OnceAndInOrder'
  BY <1>1, ManagerKept DEF netVars, daemonVars
<1>8. Waiting'
  <2>1. Waiting /\ executed' = executed /\ sentBy' = sentBy /\ pending' = pending
    BY <1>1 DEF IInv, daemonVars
  <2>2. ToSet(queue) \subseteq Nat /\ ToSet(queue) \cup {clicks + 1} \subseteq Nat
    BY <1>2, SetOf, Names, ZenonT(60)
  <2>3. Increasing(queue')
    <3>1. \A x \in ToSet(queue) : x < clicks + 1
      BY <1>2, <2>1, <2>2 DEF Waiting
    <3> QED BY <1>1, <1>2, <2>1, <2>2, <3>1, AppendIncreases DEF Waiting
  <2>4. ASSUME NEW k \in Clicks, sentBy[k] # None
        PROVE  k <= clicks' /\ (pending # None => k < pending) /\ \A j \in ToSet(queue') : k < j
    BY <1>1, <1>2, <1>3, <2>1, <2>4, Names DEF Waiting
  <2>5. pending # None => pending <= clicks' /\ \A j \in ToSet(queue') : pending < j
    BY <1>1, <1>2, <1>3, <2>1, Names DEF Waiting
  <2>6. \A j \in ToSet(queue') : j <= clicks'
    BY <1>1, <1>2, <1>3, <2>1, <2>2 DEF Waiting
  <2>7. \A k \in Executed \cap Clicks : sentBy[k] # None
    BY <2>1 DEF Waiting
  <2> QED BY <2>1, <2>3, <2>4, <2>5, <2>6, <2>7 DEF Waiting, Executed
<1> QED BY <1>4, <1>5, <1>6, <1>7, <1>8 DEF IInv

\* The worker takes the first that waits.
LEMMA WorkerTakesKeeps ==
  ASSUME IInv, WorkerTakes
  PROVE  IInv'
<1>1. /\ UNCHANGED <<callVars, worker, clicks, sentBy, open, netVars, daemonVars>>
      /\ pending = None /\ queue # <<>> /\ pending' = Head(queue) /\ queue' = Tail(queue)
  BY DEF WorkerTakes
<1>2. queue \in Seq(Clicks)
  BY DEF IInv, TypeOK
<1>3. /\ pending' \in Clicks /\ pending' \in ToSet(queue)
      /\ queue' \in Seq(Clicks) /\ ToSet(queue') \subseteq ToSet(queue)
  BY <1>1, <1>2, TailIs
<1>4. TypeOK'
  BY <1>1, <1>3 DEF IInv, TypeOK, callVars, netVars, daemonVars
<1>5. ASSUME NEW c \in Calls PROVE OneCall(c)'
  BY <1>1, CallKept DEF callVars, netVars, daemonVars
<1>6. ASSUME NEW w \in Workers PROVE OneWorker(w)'
  BY <1>1, WorkerKept DEF netVars, daemonVars
<1>7. Addressed' /\ OnceAndInOrder'
  BY <1>1, ManagerKept DEF netVars, daemonVars
<1>8. Waiting'
  <2>1. Waiting /\ executed' = executed /\ sentBy' = sentBy /\ clicks' = clicks
    BY <1>1 DEF IInv, daemonVars
  <2>2. ToSet(queue) \subseteq Nat
    BY <1>2, SetOf, Names
  <2>3. Increasing(queue') /\ \A j \in ToSet(queue') : pending' < j
    BY <1>1, <1>2, <2>1, <2>2, TailIncreases DEF Waiting
  <2> QED BY <1>3, <2>1, <2>3 DEF Waiting, Executed
<1> QED BY <1>4, <1>5, <1>6, <1>7, <1>8 DEF IInv

\* What the worker sends goes behind what it sent before.
LEMMA WorkerSendsKeeps ==
  ASSUME IInv, WorkerSends
  PROVE  IInv'
<1>1. /\ UNCHANGED <<callVars, worker, clicks, queue, open, pipe, inbox, routing, daemonVars>>
      /\ pending \in Clicks /\ worker \in Workers /\ worker \in Sockets /\ pending \in Commands
  BY Names DEF WorkerSends, StaysFirst, IInv, TypeOK
<1>2. CASE UNCHANGED <<outbox, sentBy, pending>>
  <2>1. TypeOK'
    BY <1>1, <1>2 DEF IInv, TypeOK, callVars, daemonVars
  <2>2. ASSUME NEW c \in Calls PROVE OneCall(c)'
    BY <1>1, <1>2, CallKept DEF callVars, daemonVars
  <2>3. ASSUME NEW w \in Workers PROVE OneWorker(w)'
    BY <1>1, <1>2, WorkerKept DEF daemonVars
  <2>4. Waiting' /\ Addressed' /\ OnceAndInOrder'
    BY <1>1, <1>2, WaitingKept, ManagerKept DEF daemonVars
  <2> QED BY <2>1, <2>2, <2>3, <2>4 DEF IInv
<1>3. CASE /\ outbox' = [outbox EXCEPT ![worker] = Append(@, pending)]
           /\ sentBy' = [sentBy EXCEPT ![pending] = worker]
           /\ pending' = None
  <2>1. /\ outbox[worker] \in Seq(Commands)
        /\ outbox'[worker] = Append(outbox[worker], pending)
        /\ \A s \in Sockets : s # worker => outbox'[s] = outbox[s]
        /\ sentBy'[pending] = worker /\ \A k \in Clicks : k # pending => sentBy'[k] = sentBy[k]
    BY <1>1, <1>3 DEF IInv, TypeOK
  <2>2. /\ outbox'[worker] \in Seq(Commands)
        /\ ToSet(outbox'[worker]) = ToSet(outbox[worker]) \cup {pending}
    BY <1>1, <2>1, AppendIs
  <2>3. TypeOK'
    <3>1. outbox' \in [Sockets -> Seq(Commands)]
      BY <1>1, <1>3, <2>1, <2>2 DEF IInv, TypeOK
    <3>2. sentBy' \in [Clicks -> Workers \cup {None}]
      BY <1>1, <1>3 DEF IInv, TypeOK
    <3> QED BY <1>1, <1>3, <3>1, <3>2 DEF IInv, TypeOK, callVars, daemonVars
  <2>4. ASSUME NEW c \in Calls PROVE OneCall(c)'
    <3>1. outbox'[c] = outbox[c]
      BY <1>1, <2>1, Names
    <3> QED BY <1>1, <3>1, CallKept DEF callVars, daemonVars
  <2>5. Waiting /\ executed' = executed /\ pending # None /\ pending \in Nat
    BY <1>1, Names DEF IInv, daemonVars
  <2>6. \A k \in Clicks : sentBy[k] # None => k < pending
    BY <2>5 DEF Waiting
  <2>7. sentBy[pending] = None /\ pending \notin Executed
    BY <1>1, <2>5, <2>6 DEF Waiting
  <2>8. ASSUME NEW w \in Workers PROVE OneWorker(w)'
    <3>1. OneWorker(w) /\ pipe' = pipe /\ w # None /\ w \in Sockets
      BY <1>1, Names DEF IInv
    <3>2. CASE w # worker
      <4>1. outbox'[w] = outbox[w]
        BY <2>1, <3>1, <3>2
      <4>2. \A k \in Clicks : sentBy[k] = w => sentBy'[k] = w
        BY <2>1, <2>7, <3>1
      <4>3. \A k \in Clicks : sentBy'[k] = w => sentBy[k] = w
        BY <2>1, <3>2
      <4> QED BY <2>5, <3>1, <4>1, <4>2, <4>3 DEF OneWorker, Executed
    <3>3. CASE w = worker
      <4> DEFINE new == outbox'[w]
                 old == outbox[w]
                 read == pipe[w]
      <4>1. /\ ToSet(new) = ToSet(old) \cup {pending} /\ pipe'[w] = read
            /\ \A k \in ToSet(old) \cup ToSet(read) : k \in Clicks /\ sentBy[k] = w
        BY <2>2, <3>1, <3>3 DEF OneWorker
      <4>2. \A k \in ToSet(old) \cup ToSet(read) : k < pending
        BY <2>6, <3>1, <4>1
      <4>3. \A k \in ToSet(new) \cup ToSet(read) : k \in Clicks /\ sentBy'[k] = w
        BY <1>1, <2>1, <2>7, <3>1, <3>3, <4>1
      <4>4. Increasing(new)
        <5>1. ToSet(old) \cup {pending} \subseteq Nat /\ \A x \in ToSet(old) : x < pending
          BY <1>1, <4>1, <4>2, Names, ZenonT(60)
        <5>2. Increasing(old) /\ old \in Seq(Commands) /\ new = Append(old, pending)
          BY <2>1, <3>1, <3>3 DEF OneWorker
        <5> HIDE DEF old, new
        <5> QED BY <1>1, <5>1, <5>2, AppendIncreases
      <4>5. \A i \in ToSet(read), j \in ToSet(new) : i < j
        BY <3>1, <4>1, <4>2 DEF OneWorker
      <4>6. \A k \in Executed \cap Clicks :
              sentBy'[k] = w => \A j \in ToSet(read) \cup ToSet(new) : k < j
        <5>1. ASSUME NEW k \in Executed \cap Clicks, sentBy'[k] = w
              PROVE  \A j \in ToSet(read) \cup ToSet(new) : k < j
          <6>1. k # pending /\ sentBy[k] = w
            BY <2>1, <2>7, <5>1
          <6>2. k < pending
            BY <2>6, <3>1, <6>1
          <6> QED BY <3>1, <4>1, <6>1, <6>2 DEF OneWorker
        <5> QED BY <5>1
      <4> HIDE DEF new, old, read
      <4>7. Increasing(read)
        BY <3>1 DEF OneWorker, read
      <4> QED BY <2>5, <4>1, <4>3, <4>4, <4>5, <4>6, <4>7 DEF OneWorker, Executed, new
    <3> QED BY <3>2, <3>3
  <2>9. Waiting'
    <3>1. queue' = queue /\ clicks' = clicks
      BY <1>1
    <3>2. ASSUME NEW k \in Clicks, sentBy'[k] # None
          PROVE  k <= clicks /\ \A j \in ToSet(queue) : k < j
      BY <2>1, <2>5, <3>2 DEF Waiting
    <3>3. \A k \in Executed \cap Clicks : sentBy'[k] # None
      BY <1>1, <2>1, <2>5, Names DEF Waiting
    <3> QED BY <1>3, <2>5, <3>1, <3>2, <3>3 DEF Waiting, Executed
  <2>10. Addressed'
    BY <1>1 DEF IInv, Addressed, daemonVars, Executed
  <2>11. OnceAndInOrder'
    <3>1. \A i \in 1..Len(executed) : executed[i] # pending
      BY <2>7 DEF Executed, ToSet, IInv, TypeOK
    <3>2. \A i \in 1..Len(executed) : executed[i] \in Clicks => sentBy'[executed[i]] = sentBy[executed[i]]
      BY <2>1, <3>1
    <3> QED BY <2>5, <3>2 DEF IInv, TypeOK, OnceAndInOrder
  <2> QED BY <2>3, <2>4, <2>8, <2>9, <2>10, <2>11 DEF IInv
<1> QED BY <1>2, <1>3 DEF WorkerSends, StaysFirst

\* A command that is given up waits no longer.
LEMMA WorkerGivesUpKeeps ==
  ASSUME IInv, WorkerGivesUp
  PROVE  IInv'
<1>1. /\ UNCHANGED <<callVars, worker, clicks, queue, sentBy, open, netVars, daemonVars>>
      /\ pending' = None
  BY DEF WorkerGivesUp
<1>2. TypeOK'
  BY <1>1 DEF IInv, TypeOK, callVars, netVars, daemonVars
<1>3. ASSUME NEW c \in Calls PROVE OneCall(c)'
  BY <1>1, CallKept DEF callVars, netVars, daemonVars
<1>4. ASSUME NEW w \in Workers PROVE OneWorker(w)'
  BY <1>1, WorkerKept DEF netVars, daemonVars
<1>5. Addressed' /\ OnceAndInOrder'
  BY <1>1, ManagerKept DEF netVars, daemonVars
<1>6. Waiting'
  BY <1>1 DEF IInv, Waiting, Executed, daemonVars
<1> QED BY <1>2, <1>3, <1>4, <1>5, <1>6 DEF IInv

\* Reading the replies takes nothing from a call.
LEMMA WorkerReadsKeeps ==
  ASSUME IInv, WorkerReads
  PROVE  IInv'
<1>1. /\ UNCHANGED <<callVars, worker, clicks, queue, pending, sentBy, open, outbox, pipe, routing, daemonVars>>
      /\ inbox' = [inbox EXCEPT ![worker] = <<>>]
  BY DEF WorkerReads
<1>2. TypeOK'
  <2>1. <<>> \in Seq(Commands)
    OBVIOUS
  <2> QED BY <1>1, <2>1 DEF IInv, TypeOK, callVars, daemonVars
<1>3. ASSUME NEW c \in Calls PROVE OneCall(c)'
  <2>1. inbox'[c] \in {inbox[c], <<>>}
    BY <1>1, Names DEF IInv, TypeOK
  <2> QED BY <1>1, <2>1, CallKept DEF callVars, daemonVars
<1>4. ASSUME NEW w \in Workers PROVE OneWorker(w)'
  BY <1>1, WorkerKept DEF daemonVars
<1>5. Waiting' /\ Addressed' /\ OnceAndInOrder'
  BY <1>1, WaitingKept, ManagerKept DEF daemonVars
<1> QED BY <1>2, <1>3, <1>4, <1>5 DEF IInv

\* The next worker starts with a queue and a socket of its own.
LEMMA WorkerReplacedKeeps ==
  ASSUME IInv, WorkerReplaced
  PROVE  IInv'
<1>1. /\ UNCHANGED <<callVars, clicks, sentBy, daemonVars>>
      /\ queue' = <<>> /\ pending' = None /\ Close(worker) /\ worker' \in {worker, worker + 1}
  BY DEF WorkerReplaced
<1>2. worker \in Workers /\ worker' \in Workers
  <2>1. worker' # worker => worker < MaxWorkers
    BY DEF WorkerReplaced
  <2>2. worker \in 1..MaxWorkers /\ MaxWorkers \in Nat
    BY BoundsAssumption DEF IInv, TypeOK, Workers
  <2> QED BY <1>1, <2>1, <2>2 DEF Workers
<1>3. /\ open' \subseteq Sockets
      /\ outbox' \in [Sockets -> Seq(Commands)] /\ inbox' \in [Sockets -> Seq(Commands)]
      /\ \A r \in Sockets : outbox'[r] \in {outbox[r], <<>>} /\ inbox'[r] \in {inbox[r], <<>>}
      /\ pipe' = pipe /\ routing' = routing
  BY <1>1, <1>2, Closes, Names
<1>4. TypeOK'
  <2>1. <<>> \in Seq(Clicks)
    OBVIOUS
  <2> QED BY <1>1, <1>2, <1>3, <2>1 DEF IInv, TypeOK, callVars, daemonVars
<1>5. ASSUME NEW c \in Calls PROVE OneCall(c)'
  BY <1>1, <1>3, CallKept, Names DEF callVars, daemonVars
<1>6. ASSUME NEW w \in Workers PROVE OneWorker(w)'
  BY <1>1, <1>3, WorkerKept, Names DEF daemonVars
<1>7. Addressed' /\ OnceAndInOrder'
  BY <1>1, <1>3, ManagerKept DEF daemonVars
<1>8. Waiting'
  BY <1>1, EmptyIs DEF IInv, Waiting, Executed, daemonVars
<1> QED BY <1>4, <1>5, <1>6, <1>7, <1>8 DEF IInv

----------------------------------------------------------------------------
(* The steps of libzmq *)

\* A connection gives an identity to the peer that has it.
LEMMA ConnectsKeeps ==
  ASSUME IInv, NEW s \in Sockets, Connects(s)
  PROVE  IInv'
<1>1. /\ UNCHANGED <<callVars, guiVars, open, outbox, pipe, inbox, daemonVars>>
      /\ routing' = [routing EXCEPT ![Identity(s)] = s] /\ Identity(s) \in Identities
  BY Names DEF Connects, LinkOf
<1>2. TypeOK'
  BY <1>1 DEF IInv, TypeOK, callVars, guiVars, daemonVars
<1>3. ASSUME NEW c \in Calls PROVE OneCall(c)'
  BY <1>1, CallKept DEF callVars, daemonVars
<1>4. ASSUME NEW w \in Workers PROVE OneWorker(w)'
  BY <1>1, WorkerKept DEF guiVars, daemonVars
<1>5. Waiting'
  BY <1>1, WaitingKept DEF guiVars, daemonVars
<1>6. Addressed'
  <2>1. ASSUME NEW i \in Identities, routing'[i] # None PROVE Identity(routing'[i]) = i
    <3>1. CASE i = Identity(s)
      BY <1>1, <3>1 DEF IInv, TypeOK
    <3>2. CASE i # Identity(s)
      <4>1. routing'[i] = routing[i]
        BY <1>1, <3>2 DEF IInv, TypeOK
      <4> QED BY <2>1, <4>1 DEF IInv, Addressed
    <3> QED BY <3>1, <3>2
  <2> QED BY <1>1, <2>1 DEF IInv, Addressed, Executed, daemonVars
<1>7. OnceAndInOrder'
  BY <1>1 DEF IInv, OnceAndInOrder, guiVars, daemonVars
<1> QED BY <1>2, <1>3, <1>4, <1>5, <1>6, <1>7 DEF IInv

\* What a socket sent first can be read after what it sent before.
LEMMA TransfersKeeps ==
  ASSUME IInv, NEW s \in Sockets, Transfers(s)
  PROVE  IInv'
<1> DEFINE h == Head(outbox[s])
<1>1. /\ UNCHANGED <<callVars, guiVars, open, inbox, routing, daemonVars>> /\ outbox[s] # <<>>
      /\ outbox[s] \in Seq(Commands) /\ pipe[s] \in Seq(Commands)
      /\ pipe'[s] = Append(pipe[s], h) /\ outbox'[s] = Tail(outbox[s])
      /\ \A r \in Sockets : r # s => pipe'[r] = pipe[r] /\ outbox'[r] = outbox[r]
  BY DEF Transfers, IInv, TypeOK
<1>2. /\ h \in Commands /\ h \in ToSet(outbox[s])
      /\ outbox'[s] \in Seq(Commands) /\ Len(outbox'[s]) = Len(outbox[s]) - 1
      /\ ToSet(outbox'[s]) \subseteq ToSet(outbox[s]) /\ Len(outbox[s]) \in Nat \ {0}
  BY <1>1, TailIs
<1>3. /\ pipe'[s] \in Seq(Commands) /\ Len(pipe'[s]) = Len(pipe[s]) + 1
      /\ ToSet(pipe'[s]) = ToSet(pipe[s]) \cup {h} /\ Len(pipe[s]) \in Nat
  BY <1>1, <1>2, AppendIs, LenProperties
<1>4. TypeOK'
  <2>1. outbox' \in [Sockets -> Seq(Commands)] /\ pipe' \in [Sockets -> Seq(Commands)]
    BY <1>1, <1>2, <1>3 DEF Transfers, IInv, TypeOK
  <2> QED BY <1>1, <2>1 DEF IInv, TypeOK, callVars, guiVars, daemonVars
<1>5. ASSUME NEW c \in Calls PROVE OneCall(c)'
  <2>1. CASE c # s
    BY <1>1, <2>1, Names, CallKept DEF callVars, daemonVars
  <2>2. CASE c = s
    <3>1. /\ UNCHANGED <<call[c], answer[c], inbox[c], executed>> /\ OneCall(c)
      BY <1>1 DEF callVars, daemonVars, IInv
    <3>2. call[c] # "idle" /\ c \notin Executed
      BY <1>1, <2>2, <3>1 DEF OneCall
    <3>3. ToSet(outbox'[c]) \subseteq {c} /\ ToSet(pipe'[c]) \subseteq {c}
      BY <1>2, <1>3, <2>2, <3>1 DEF OneCall
    <3>4. Len(outbox'[c]) + Len(pipe'[c]) <= 1
      <4>1. Len(outbox[s]) + Len(pipe[s]) <= 1
        BY <2>2, <3>1 DEF OneCall
      <4> DEFINE a == Len(outbox[s])
                 b == Len(pipe[s])
      <4>2. a \in Nat /\ b \in Nat /\ Len(outbox'[s]) = a - 1 /\ Len(pipe'[s]) = b + 1 /\ a + b <= 1
        BY <1>2, <1>3, <4>1
      <4> HIDE DEF a, b
      <4>3. (a - 1) + (b + 1) <= 1
        BY <4>2
      <4> QED BY <2>2, <4>2, <4>3
    <3> QED BY <3>1, <3>2, <3>3, <3>4 DEF OneCall, Executed
  <2> QED BY <2>1, <2>2
<1>6. ASSUME NEW w \in Workers PROVE OneWorker(w)'
  <2>1. CASE w # s
    BY <1>1, <2>1, Names, WorkerKept DEF guiVars, daemonVars
  <2>2. CASE w = s
    <3> DEFINE old == outbox[w]
               read == pipe[w]
               new == outbox'[w]
               more == pipe'[w]
    <3>1. /\ sentBy' = sentBy /\ executed' = executed /\ OneWorker(w)
      BY <1>1 DEF guiVars, daemonVars, IInv
    <3>2. /\ old \in Seq(Commands) /\ old # <<>> /\ new = Tail(old) /\ h = Head(old) /\ h \in ToSet(old)
          /\ read \in Seq(Commands) /\ more = Append(read, h) /\ h \in Commands
          /\ ToSet(new) \subseteq ToSet(old) /\ ToSet(more) = ToSet(read) \cup {h}
      BY <1>1, <1>2, <1>3, <2>2
    <3>3. /\ ToSet(old) \subseteq Clicks /\ ToSet(read) \subseteq Clicks
          /\ \A k \in ToSet(old) \cup ToSet(read) : sentBy[k] = w
          /\ Increasing(old) /\ Increasing(read)
          /\ \A i \in ToSet(read), j \in ToSet(old) : i < j
          /\ \A k \in Executed \cap Clicks :
               sentBy[k] = w => \A j \in ToSet(read) \cup ToSet(old) : k < j
      BY <3>1 DEF OneWorker
    <3> HIDE DEF old, read, new, more, h
    <3>4. ToSet(old) \subseteq Nat /\ ToSet(read) \cup {h} \subseteq Nat
      <4>1. Clicks \subseteq Nat
        BY Names
      <4> QED BY <3>2, <3>3, <4>1
    <3>5. Increasing(new) /\ \A x \in ToSet(new) : h < x
      BY <3>2, <3>3, <3>4, TailIncreases
    <3>6. Increasing(more)
      BY <3>2, <3>3, <3>4, AppendIncreases
    <3>7. \A i \in ToSet(more), j \in ToSet(new) : i < j
      BY <3>2, <3>3, <3>5
    <3>8. \A k \in ToSet(new) \cup ToSet(more) : k \in Clicks /\ sentBy[k] = w
      BY <3>2, <3>3
    <3>9. \A k \in Executed \cap Clicks : sentBy[k] = w => \A j \in ToSet(more) \cup ToSet(new) : k < j
      BY <3>2, <3>3
    <3> QED BY <3>1, <3>5, <3>6, <3>7, <3>8, <3>9 DEF OneWorker, Executed, new, more
  <2> QED BY <2>1, <2>2
<1>7. Waiting' /\ Addressed' /\ OnceAndInOrder'
  BY <1>1, WaitingKept, ManagerKept DEF guiVars, daemonVars
<1> QED BY <1>4, <1>5, <1>6, <1>7 DEF IInv

\* A peer that is gone loses its identity and what it sent.
LEMMA ForgetsKeeps ==
  ASSUME IInv, NEW s \in Sockets, Forgets(s)
  PROVE  IInv'
<1>1. /\ UNCHANGED <<callVars, guiVars, open, outbox, inbox, daemonVars>>
      /\ pipe' = [pipe EXCEPT ![s] = <<>>]
      /\ routing' = [i \in Identities |-> IF routing[i] = s THEN None ELSE routing[i]]
  BY DEF Forgets
<1>2. \A r \in Sockets : pipe'[r] \in {pipe[r], <<>>}
  BY <1>1 DEF IInv, TypeOK
<1>3. TypeOK'
  <2>1. <<>> \in Seq(Commands)
    OBVIOUS
  <2> QED BY <1>1, <2>1 DEF IInv, TypeOK, callVars, guiVars, daemonVars
<1>4. ASSUME NEW c \in Calls PROVE OneCall(c)'
  BY <1>1, <1>2, Names, CallKept DEF callVars, daemonVars
<1>5. ASSUME NEW w \in Workers PROVE OneWorker(w)'
  BY <1>1, <1>2, Names, WorkerKept DEF guiVars, daemonVars
<1>6. Waiting' /\ OnceAndInOrder'
  BY <1>1, WaitingKept DEF IInv, OnceAndInOrder, guiVars, daemonVars
<1>7. Addressed'
  BY <1>1 DEF IInv, Addressed, Executed, daemonVars
<1> QED BY <1>3, <1>4, <1>5, <1>6, <1>7 DEF IInv

----------------------------------------------------------------------------
(* The steps of the manager *)

\* The manager executes what can be read first; nothing it executed before comes from the same
\* worker later, or from the same call.
LEMMA HandleCommandKeeps ==
  ASSUME IInv, HandleCommand
  PROVE  IInv'
<1>1. PICK s \in Sockets :
        /\ pipe[s] # <<>> /\ pipe' = [pipe EXCEPT ![s] = Tail(@)]
        /\ request' = [identity |-> AddressOf(s), command |-> Head(pipe[s])]
        /\ executed' = Append(executed, Head(pipe[s]))
  BY DEF HandleCommand
<1> DEFINE h == Head(pipe[s])
<1>2. /\ UNCHANGED <<callVars, guiVars, open, outbox, inbox, routing>>
      /\ pipe[s] \in Seq(Commands) /\ executed \in Seq(Commands)
      /\ pipe'[s] = Tail(pipe[s])
      /\ \A r \in Sockets : r # s => pipe'[r] = pipe[r]
  BY <1>1 DEF HandleCommand, IInv, TypeOK
<1>3. /\ h \in Commands /\ h \in ToSet(pipe[s])
      /\ pipe'[s] \in Seq(Commands) /\ Len(pipe'[s]) = Len(pipe[s]) - 1
      /\ ToSet(pipe'[s]) \subseteq ToSet(pipe[s]) /\ Len(pipe[s]) \in Nat \ {0}
  BY <1>1, <1>2, TailIs, ZenonT(60)
<1>4. /\ executed' \in Seq(Commands) /\ Len(executed') = Len(executed) + 1
      /\ \A i \in 1..Len(executed) : executed'[i] = executed[i]
      /\ executed'[Len(executed) + 1] = h
      /\ Executed' = Executed \cup {h} /\ Len(executed) \in Nat
  BY <1>1, <1>2, <1>3, AppendIs, LenProperties DEF Executed
<1>5. AddressOf(s) \in Identities \cup {None} /\ \A c \in Calls : AddressOf(s) = c => s = c
  BY Names DEF AddressOf
<1>6. TypeOK'
  <2>1. request' \in [identity : Identities \cup {None}, command : Commands]
    BY <1>1, <1>3, <1>5
  <2>2. pipe' \in [Sockets -> Seq(Commands)]
    BY <1>1, <1>2, <1>3 DEF IInv, TypeOK
  <2> QED BY <1>2, <1>4, <2>1, <2>2 DEF IInv, TypeOK, callVars, guiVars
<1>7. ASSUME NEW c \in Calls, s = c
      PROVE  h = c /\ c \notin Executed /\ pipe'[c] = <<>> /\ outbox[c] = <<>> /\ call[c] # "idle"
  <2>1. OneCall(c) /\ outbox[c] \in Seq(Commands)
    BY <1>7 DEF IInv, TypeOK
  <2>2. h = c /\ c \notin Executed /\ call[c] # "idle"
    BY <1>1, <1>3, <1>7, <2>1 DEF OneCall
  <2>3. Len(outbox[s]) + Len(pipe[s]) <= 1 /\ Len(outbox[s]) \in Nat
    BY <1>7, <2>1, LenProperties DEF OneCall
  <2> DEFINE a == Len(outbox[s])
             b == Len(pipe[s])
  <2>4. a = 0 /\ Len(pipe'[s]) = 0
    <3>1. a \in Nat /\ b \in Nat \ {0} /\ a + b <= 1 /\ Len(pipe'[s]) = b - 1
      BY <1>3, <2>3
    <3> HIDE DEF a, b
    <3> QED BY <3>1
  <2>5. pipe'[s] = <<>> /\ outbox[s] = <<>>
    BY <1>3, <1>7, <2>1, <2>4, EmptySeq
  <2> QED BY <1>7, <2>2, <2>5
<1>8. ASSUME NEW w \in Workers, s = w
      PROVE  /\ h \in Clicks /\ sentBy[h] = w
             /\ \A k \in Executed \cap Clicks : sentBy[k] = w => k < h
             /\ \A j \in ToSet(pipe'[w]) \cup ToSet(outbox[w]) : h < j
             /\ Increasing(pipe'[w])
  <2>1. OneWorker(w)
    BY DEF IInv
  <2>2. h \in Clicks /\ sentBy[h] = w
    BY <1>3, <1>8, <2>1 DEF OneWorker
  <2>3. \A k \in Executed \cap Clicks : sentBy[k] = w => k < h
    BY <1>3, <1>8, <2>1 DEF OneWorker
  <2>4. ToSet(pipe[s]) \subseteq Nat /\ Increasing(pipe[s])
    <3>1. ToSet(pipe[s]) \subseteq Clicks
      BY <1>8, <2>1 DEF OneWorker
    <3> QED BY <1>8, <2>1, <3>1, Names DEF OneWorker
  <2>5. Increasing(Tail(pipe[s])) /\ \A x \in ToSet(Tail(pipe[s])) : h < x
    BY <1>1, <1>2, <2>4, TailIncreases
  <2>6. \A j \in ToSet(outbox[w]) : h < j
    BY <1>3, <1>8, <2>1 DEF OneWorker
  <2> QED BY <1>2, <1>8, <2>2, <2>3, <2>5, <2>6
<1>9. ASSUME NEW c \in Calls PROVE OneCall(c)'
  <2>1. OneCall(c) /\ UNCHANGED <<call, answer, inbox, outbox>> /\ c \in Sockets
    BY <1>2, Names DEF IInv, callVars
  <2>2. CASE s = c
    <3>1. ToSet(pipe'[c]) = {} /\ Len(outbox[c]) + Len(pipe'[c]) <= 1
      <4>1. pipe'[c] = <<>> /\ outbox[c] = <<>> /\ Len(<<>>) = 0 /\ ToSet(<<>>) = {}
        BY <1>7, <2>2, EmptyIs
      <4> QED BY <4>1
    <3> QED BY <1>4, <1>7, <2>1, <2>2, <3>1 DEF OneCall
  <2>3. CASE s # c
    <3>1. h # c
      <4>1. CASE s \in Calls
        BY <1>7, <2>3, <4>1
      <4>2. CASE s \in Workers
        BY <1>8, <4>2, Names
      <4> QED BY <4>1, <4>2 DEF Sockets
    <3> QED BY <1>2, <1>4, <2>1, <2>3, <3>1 DEF OneCall
  <2> QED BY <2>2, <2>3
<1>10. ASSUME NEW w \in Workers PROVE OneWorker(w)'
  <2>1. OneWorker(w) /\ UNCHANGED <<outbox, sentBy>> /\ w \in Sockets
    BY <1>2, Names DEF IInv, guiVars
  <2>2. CASE s = w
    <3>1. \A k \in Executed' \cap Clicks :
            sentBy[k] = w => \A j \in ToSet(pipe'[w]) \cup ToSet(outbox[w]) : k < j
      BY <1>3, <1>4, <1>8, <2>1, <2>2 DEF OneWorker
    <3>2. /\ ToSet(pipe'[w]) \subseteq ToSet(pipe[w]) /\ Increasing(pipe'[w])
      BY <1>3, <1>8, <2>2
    <3> QED BY <2>1, <3>1, <3>2 DEF OneWorker
  <2>3. CASE s # w
    <3>1. pipe'[w] = pipe[w]
      BY <1>2, <2>1, <2>3
    <3>2. h \in Clicks => sentBy[h] # w
      <4>1. CASE s \in Calls
        BY <1>7, <4>1, Names
      <4>2. CASE s \in Workers
        BY <1>8, <2>3, <4>2
      <4> QED BY <4>1, <4>2 DEF Sockets
    <3> HIDE DEF h
    <3> QED BY <1>4, <2>1, <3>1, <3>2 DEF OneWorker
  <2> QED BY <2>2, <2>3
<1>11. Waiting'
  <2>1. Waiting /\ UNCHANGED <<sentBy, clicks, pending, queue>>
    BY <1>2 DEF IInv, guiVars
  <2>2. h \in Clicks => sentBy[h] # None
    BY <1>7, <1>8, Names DEF Sockets
  <2> HIDE DEF h
  <2> QED BY <1>4, <2>1, <2>2 DEF Waiting
<1>12. Addressed'
  <2>1. request'.command = h /\ request'.identity = AddressOf(s) /\ h \in Executed'
    BY <1>1, <1>4
  <2>2. \A c \in Calls : AddressOf(s) = c => h = c
    BY <1>5, <1>7
  <2>3. routing' = routing
    BY <1>2
  <2> HIDE DEF h
  <2> QED BY <2>1, <2>2, <2>3 DEF IInv, Addressed
<1>13. OnceAndInOrder'
  <2>1. OnceAndInOrder /\ sentBy' = sentBy
    BY <1>2 DEF IInv, guiVars
  <2>2. h \notin Executed
    <3>1. CASE s \in Calls
      BY <1>7, <3>1
    <3>2. CASE s \in Workers
      <4>1. h \in Nat /\ (h \in Executed => h < h)
        BY <1>8, <3>2, Names
      <4> QED BY <4>1
    <3> QED BY <3>1, <3>2 DEF Sockets
  <2>3. \A i \in 1..Len(executed) : executed[i] \in Executed
    BY <1>2 DEF Executed, ToSet
  <2>4. ASSUME NEW k \in Executed, {k, h} \subseteq Clicks, sentBy[k] = sentBy[h] PROVE k < h
    <3>1. CASE s \in Calls
      BY <1>7, <2>4, <3>1, Names
    <3>2. CASE s \in Workers
      <4>1. sentBy[h] = s /\ (sentBy[k] = s => k < h)
        BY <1>8, <2>4, <3>2
      <4> QED BY <2>4, <4>1
    <3> QED BY <3>1, <3>2 DEF Sockets
  <2> HIDE DEF h
  <2>5. ASSUME NEW j \in 1..Len(executed'), NEW i \in 1..j - 1
        PROVE  /\ executed'[i] # executed'[j]
               /\ {executed'[i], executed'[j]} \subseteq Clicks /\ sentBy[executed'[i]] = sentBy[executed'[j]]
                    => executed'[i] < executed'[j]
    <3>1. CASE j = Len(executed) + 1
      <4>1. i \in 1..Len(executed) /\ executed'[j] = h /\ executed'[i] = executed[i]
        BY <1>4, <3>1
      <4> QED BY <2>2, <2>3, <2>4, <4>1
    <3>2. CASE j # Len(executed) + 1
      <4>1. j \in 1..Len(executed) /\ i \in 1..Len(executed)
        BY <1>4, <3>2
      <4>2. executed'[j] = executed[j] /\ executed'[i] = executed[i]
        BY <1>4, <4>1
      <4> QED BY <2>1, <4>1, <4>2 DEF OnceAndInOrder
    <3> QED BY <3>1, <3>2
  <2> QED BY <2>1, <2>5 DEF OnceAndInOrder
<1> QED BY <1>6, <1>9, <1>10, <1>11, <1>12, <1>13 DEF IInv

\* A reply reaches the one whose identity the command came under, if it reaches anybody.
LEMMA ReplyKeeps ==
  ASSUME IInv, Reply
  PROVE  IInv'
<1> DEFINE s == IF request.identity = None THEN None ELSE routing[request.identity]
<1>1. /\ UNCHANGED <<callVars, guiVars, open, outbox, pipe, routing, executed>>
      /\ request # None /\ request' = None
      /\ inbox' = IF s \in open THEN [inbox EXCEPT ![s] = Append(@, request.command)] ELSE inbox
  BY DEF Reply
<1>2. request.command \in Commands /\ request.identity \in Identities \cup {None}
  BY <1>1 DEF IInv, TypeOK
<1>3. s \in open => s \in Sockets /\ Identity(s) = request.identity
  BY <1>1, <1>2, Names DEF IInv, TypeOK, Addressed
<1> HIDE DEF s
<1>4. ASSUME NEW r \in Sockets
      PROVE  /\ inbox'[r] \in Seq(Commands)
             /\ \/ inbox'[r] = inbox[r]
                \/ r = s /\ s \in open /\ ToSet(inbox'[r]) = ToSet(inbox[r]) \cup {request.command}
  <2>1. inbox[r] \in Seq(Commands)
    BY DEF IInv, TypeOK
  <2>2. CASE r = s /\ s \in open
    <3>1. inbox'[r] = Append(inbox[r], request.command)
      BY <1>1, <2>2 DEF IInv, TypeOK
    <3> QED BY <1>2, <2>1, <2>2, <3>1, AppendIs
  <2>3. CASE ~(r = s /\ s \in open)
    <3>1. inbox'[r] = inbox[r]
      BY <1>1, <2>3 DEF IInv, TypeOK
    <3> QED BY <2>1, <3>1
  <2> QED BY <2>2, <2>3
<1>5. TypeOK'
  <2>1. inbox' \in [Sockets -> Seq(Commands)]
    BY <1>1, <1>3, <1>4 DEF IInv, TypeOK
  <2> QED BY <1>1, <2>1 DEF IInv, TypeOK, callVars, guiVars
<1>6. ASSUME NEW c \in Calls PROVE OneCall(c)'
  <2>1. OneCall(c) /\ UNCHANGED <<call, answer, outbox, pipe, executed>> /\ c \in Sockets
    BY <1>1, Names DEF IInv, callVars
  <2>2. ToSet(inbox'[c]) \subseteq Executed \cap {c}
    <3>1. CASE inbox'[c] = inbox[c]
      BY <2>1, <3>1 DEF OneCall
    <3>2. CASE c = s /\ s \in open /\ ToSet(inbox'[c]) = ToSet(inbox[c]) \cup {request.command}
      <4>1. request.identity = c
        BY <1>3, <3>2, Names
      <4>2. request.command = c /\ c \in Executed
        BY <1>1, <4>1 DEF IInv, Addressed
      <4> QED BY <2>1, <3>2, <4>2 DEF OneCall
    <3> QED BY <1>4, <2>1, <3>1, <3>2
  <2> QED BY <2>1, <2>2 DEF OneCall, Executed
<1>7. ASSUME NEW w \in Workers PROVE OneWorker(w)'
  BY <1>1, WorkerKept DEF guiVars
<1>8. Waiting' /\ OnceAndInOrder'
  BY <1>1, WaitingKept DEF IInv, OnceAndInOrder, guiVars
<1>9. Addressed'
  BY <1>1 DEF IInv, Addressed
<1> QED BY <1>5, <1>6, <1>7, <1>8, <1>9 DEF IInv

\* The end of the manager loses what was under way; its start moves nothing.
LEMMA ManagerEndsKeeps ==
  ASSUME IInv, ManagerEnds
  PROVE  IInv'
<1>1. /\ UNCHANGED <<callVars, guiVars, open, outbox, executed>>
      /\ request' = None
      /\ pipe' = [s \in Sockets |-> <<>>]
      /\ routing' = [i \in Identities |-> None]
  BY DEF ManagerEnds
<1>2. inbox' \in [Sockets -> Seq(Commands)] /\ \A s \in Sockets : inbox'[s] \in {inbox[s], <<>>}
  <2>1. PICK lost : inbox' = [s \in Sockets |-> IF s \in lost THEN <<>> ELSE inbox[s]]
    BY DEF ManagerEnds
  <2>2. <<>> \in Seq(Commands)
    OBVIOUS
  <2> QED BY <2>1, <2>2 DEF IInv, TypeOK
<1>3. TypeOK'
  <2>1. <<>> \in Seq(Commands)
    OBVIOUS
  <2> QED BY <1>1, <1>2, <2>1 DEF IInv, TypeOK, callVars, guiVars
<1>4. ASSUME NEW c \in Calls PROVE OneCall(c)'
  BY <1>1, <1>2, Names, CallKept DEF callVars
<1>5. ASSUME NEW w \in Workers PROVE OneWorker(w)'
  BY <1>1, Names, WorkerKept DEF guiVars
<1>6. Waiting' /\ OnceAndInOrder'
  BY <1>1, WaitingKept DEF IInv, OnceAndInOrder, guiVars
<1>7. Addressed'
  BY <1>1 DEF Addressed
<1> QED BY <1>3, <1>4, <1>5, <1>6, <1>7 DEF IInv

----------------------------------------------------------------------------
(* The theorems *)

\* A step that moves nothing keeps everything.
LEMMA StutterKeeps ==
  ASSUME IInv, UNCHANGED <<callVars, guiVars, open, netVars, request, executed>>
  PROVE  IInv'
<1>1. TypeOK'
  BY DEF IInv, TypeOK, callVars, guiVars, netVars
<1>2. ASSUME NEW c \in Calls PROVE OneCall(c)'
  BY CallKept DEF callVars, netVars
<1>3. ASSUME NEW w \in Workers PROVE OneWorker(w)'
  BY WorkerKept DEF guiVars, netVars
<1>4. Waiting' /\ Addressed' /\ OnceAndInOrder'
  BY WaitingKept, ManagerKept DEF guiVars, netVars
<1> QED BY <1>1, <1>2, <1>3, <1>4 DEF IInv

\* Every step keeps the invariant.
LEMMA NextIInv == IInv /\ [Next]_vars => IInv'
<1> SUFFICES ASSUME IInv, [Next]_vars PROVE IInv'
  OBVIOUS
<1>1. CASE CallNext
  BY <1>1, CallSendsKeeps, CallEndsKeeps DEF CallNext
<1>2. CASE GuiNext
  BY <1>2, WorkerMovesNothing, SendCmdKeeps, WorkerTakesKeeps, WorkerSendsKeeps, WorkerReadsKeeps,
     WorkerGivesUpKeeps, WorkerReplacedKeeps DEF GuiNext, WorkerLoop
<1>3. CASE NetNext
  BY <1>3, ConnectsKeeps, TransfersKeeps, ForgetsKeeps DEF NetNext
<1>4. CASE ManagerNext
  <2>1. CASE HandleCommand \/ Reply \/ ManagerEnds
    BY <2>1, HandleCommandKeeps, ReplyKeeps, ManagerEndsKeeps
  <2>2. CASE ManagerStarts
    BY <2>2, StutterKeeps DEF ManagerStarts
  <2> QED BY <1>4, <2>1, <2>2 DEF ManagerNext
<1>5. CASE UNCHANGED vars
  BY <1>5, StutterKeeps DEF vars, daemonVars
<1> QED BY <1>1, <1>2, <1>3, <1>4, <1>5 DEF Next

\* The inductive invariant holds in every behaviour of the command channel.
THEOREM AlwaysIInv == Spec => []IInv
BY InitIInv, NextIInv, PTL DEF Spec

\* A call of the command line that reports an answer reports the one to its own command, and the
\* manager has executed that command: for any number of calls and workers, although the window's
\* workers share one identity and the manager ends and starts again.
THEOREM AnswersAreOwn == Spec => []AnswerIsOwn
<1>1. IInv => AnswerIsOwn
  <2>1. executed \in Seq(Commands) => \A c : c \in ToSet(executed) => Contains(executed, c)
    BY LenProperties DEF ToSet, Contains
  <2> QED BY <2>1 DEF IInv, TypeOK, OneCall, AnswerIsOwn, Executed
<1> QED BY <1>1, AlwaysIInv, PTL

\* The manager executes no command twice, and those of one worker in the order in which they were
\* given: for any number of commands, workers, reconnections and restarts of the manager.
THEOREM ExecutedOnceAndInOrder == Spec => []OnceAndInOrder
<1>1. IInv => OnceAndInOrder
  BY DEF IInv
<1> QED BY <1>1, AlwaysIInv, PTL

=============================================================================
