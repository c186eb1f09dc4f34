--------------------------- MODULE ControlProofs ---------------------------
(* The sockets of the control server: for any number of clients and whatever  *)
(* they send, thread and stop() close each once, and stop() leaves none open; *)
(* and its answers: each is the one to the line that the client reads it for, *)
(* and true of it.                                                            *)
EXTENDS ControlServer, FiniteSetTheorems, TLAPS

Sockets == Clients \cup {Listener}

Holding == {"accepted", "close"}      \* the thread alone knows its client
Handling == {"handle", "recv", "line", "reply", "leave"}
ThreadAt == Holding \cup Handling \cup {"none", "run", "load", "accept", "exit", "ended"}
StopHolding == {"shut client", "close client"}
MainAt == StopHolding \cup {"start", "setup", "loop", "stop", "take client", "take listener",
                            "close listener", "join", "exited"}

Types ==
  /\ socket \in [Sockets -> {"none", "waiting", "open", "shut", "closed"}]
  /\ closes \in [Sockets -> Nat] /\ backlog \in Seq(Clients)
  /\ client \in Clients \cup {NoFd} /\ client_fd \in Clients \cup {NoFd}
  /\ listen_fd \in {NoFd, Listener} /\ taken \in Sockets \cup {NoFd}
  /\ at \in ThreadAt /\ main_at \in MainAt

\* A socket was closed as often as it is closed: once or never.
Counted == \A s \in Sockets : closes[s] = IF socket[s] = "closed" THEN 1 ELSE 0

\* The connections that nobody has accepted are different and untouched.
Waiting ==
  /\ \A i \in DOMAIN backlog : socket[backlog[i]] = "waiting"
  /\ \A i, j \in DOMAIN backlog : i # j => backlog[i] # backlog[j]

\* The client's socket belongs to the thread while it is being published or closed, to whoever
\* takes it from client_fd_ in between, and to stop() after that; it is open until then.
InHand == client \in Clients /\ socket[client] = "open"
Owned ==
  /\ at \in Handling => client \in Clients
  /\ at \in Holding => InHand /\ client_fd = NoFd
  /\ client_fd # NoFd => at \in Handling /\ client_fd = client /\ InHand
  /\ main_at \in StopHolding =>
       /\ taken \in Clients /\ taken # client_fd /\ (at \in Holding => taken # client)
       /\ socket[taken] \in {"open", "shut"}
NoneForgotten ==
  \A s \in Clients : socket[s] \in {"open", "shut"} =>
    \/ client = s /\ at \in Holding
    \/ client_fd = s
    \/ main_at \in StopHolding /\ taken = s

\* The same of the listening socket, which start() gives away with the thread.
ListenerOwned ==
  /\ main_at = "start" => at = "none" /\ socket[Listener] = "none" /\ listen_fd = NoFd
  /\ listen_fd = Listener => socket[Listener] = "open"
  /\ main_at = "close listener" => taken = Listener /\ socket[Listener] = "open" /\ listen_fd = NoFd
  /\ socket[Listener] \notin {"waiting", "shut"}
  /\ socket[Listener] = "open" => listen_fd = Listener \/ main_at = "close listener"
  /\ main_at \in {"join", "exited"} => listen_fd = NoFd
  /\ main_at = "exited" => at \in {"none", "ended"}

IInv == Types /\ Counted /\ Waiting /\ Owned /\ NoneForgotten /\ ListenerOwned

-----------------------------------------------------------------------------
LEMMA InitInv == Init => IInv
  BY ControlServerAssumption DEF Init, IInv, Types, Counted, Waiting, Owned, NoneForgotten,
     ListenerOwned, Sockets, Holding, Handling, ThreadAt, StopHolding, MainAt

\* What the invariant speaks of.
state == <<socket, closes, backlog, listen_fd, client_fd, client, taken>>

\* A thread that goes from one step of handling a client to another changes nothing.
LEMMA HandlingInv ==
  ASSUME IInv, UNCHANGED <<state, main_at>>, at \in Handling, at' \in Handling
  PROVE  IInv'
<1>1. UNCHANGED <<socket, closes, backlog, listen_fd, client_fd, client, taken, main_at>>
  BY DEF state
<1>2. Types' /\ Counted' /\ Waiting'
  BY <1>1 DEF IInv, Types, Counted, Waiting, ThreadAt
<1>3. main_at \notin {"start", "exited"}
  BY DEF IInv, ListenerOwned, Handling
<1>4. Owned' /\ NoneForgotten' /\ ListenerOwned'
  BY <1>1, <1>3 DEF IInv, Owned, NoneForgotten, ListenerOwned, InHand, Holding, Handling
<1>5. QED
  BY <1>2, <1>4 DEF IInv

LEMMA ClientsInv ==
  ASSUME IInv, NEW c \in Clients, Connect(c) \/ Send(c) \/ ReadReply(c) \/ HangUp(c)
  PROVE  IInv'
<1>1. CASE Connect(c)
  <2> USE DEF IInv
  <2>1. socket[c] = "none" /\ c \in Sockets /\ c # Listener /\ NoFd # c
    BY <1>1, ControlServerAssumption DEF Connect, Sockets
  <2>2. socket' = [socket EXCEPT ![c] = "waiting"] /\ backlog' = Append(backlog, c)
        /\ UNCHANGED <<closes, listen_fd, client_fd, client, taken, at, main_at>>
    BY <1>1 DEF Connect, serverVars, threadVars, mainVars
  <2>3. \A s \in Sockets : socket'[s] = IF s = c THEN "waiting" ELSE socket[s]
    BY <2>1, <2>2 DEF Types
  <2>4. Types'
    BY <2>1, <2>2 DEF Types, Sockets
  <2>5. Waiting'
    <3>1. backlog \in Seq(Clients) /\ \A i \in DOMAIN backlog : backlog[i] # c
      BY <2>1 DEF Waiting, Types
    <3>2. \A i \in DOMAIN backlog' :
            (i \in DOMAIN backlog /\ backlog'[i] = backlog[i]) \/ (i = Len(backlog) + 1 /\ backlog'[i] = c)
      <4>1. DOMAIN backlog = 1..Len(backlog) /\ DOMAIN backlog' = 1..(Len(backlog) + 1)
        BY <2>1, <2>2, <3>1
      <4>2. \A i \in 1..Len(backlog) : backlog'[i] = backlog[i]
        BY <2>1, <2>2, <3>1
      <4>3. backlog'[Len(backlog) + 1] = c
        BY <2>1, <2>2, <3>1
      <4>4. QED
        BY <4>1, <4>2, <4>3, <3>1
    <3>3. \A i \in DOMAIN backlog : backlog[i] \in Sockets /\ i # Len(backlog) + 1
      BY <3>1 DEF Sockets
    <3>4. QED
      BY <2>3, <3>1, <3>2, <3>3, <2>1 DEF Waiting
  <2>6. Counted' /\ Owned' /\ NoneForgotten' /\ ListenerOwned'
    BY <2>1, <2>2, <2>3, ControlServerAssumption DEF Types, Counted, Owned, NoneForgotten, ListenerOwned, InHand,
       Sockets
  <2>7. QED
    BY <2>4, <2>5, <2>6
<1>2. CASE Send(c) \/ ReadReply(c) \/ HangUp(c)
  <2>1. UNCHANGED <<socket, closes, backlog, listen_fd, client_fd, client, taken, at, main_at>>
    BY <1>2, Zenon DEF Send, ReadReply, HangUp, serverVars, threadVars, mainVars
  <2>2. Types' /\ Counted' /\ Waiting'
    BY <2>1 DEF IInv, Types, Counted, Waiting
  <2>3. Owned' /\ NoneForgotten' /\ ListenerOwned'
    BY <2>1 DEF IInv, Owned, NoneForgotten, ListenerOwned, InHand
  <2>4. QED
    BY <2>2, <2>3 DEF IInv
<1>3. QED
  BY <1>1, <1>2

-----------------------------------------------------------------------------
(* The thread.                                                               *)

LEMMA HandleClientInv ==
  ASSUME IInv, \/ Publish \/ HandleLoop \/ Receive \/ ReceiveTooMuch \/ ReceiveEnds
               \/ NoMoreLines \/ HandleLine \/ QueueCommand \/ Reply \/ ReplyFails
  PROVE  IInv'
<1>1. CASE Publish
  <2>1. /\ at = "accepted" /\ at' = "handle" /\ client_fd' = client
        /\ UNCHANGED <<socket, closes, backlog, listen_fd, client, taken, main_at>>
    BY <1>1 DEF Publish, kernelVars, mainVars
  <2>2. Types' /\ Counted' /\ Waiting'
    BY <2>1 DEF IInv, Types, Counted, Waiting, ThreadAt, Handling
  <2>3. InHand /\ client_fd = NoFd /\ (main_at \in StopHolding => taken # client) /\ main_at \notin {"start", "exited"}
    BY <2>1 DEF IInv, Owned, ListenerOwned, Holding
  <2>4. Owned'
    BY <2>1, <2>3 DEF IInv, Owned, InHand, Holding, Handling
  <2>5. NoneForgotten' /\ ListenerOwned'
    BY <2>1, <2>3, ControlServerAssumption DEF IInv, NoneForgotten, ListenerOwned
  <2>6. QED
    BY <2>2, <2>4, <2>5 DEF IInv
<1>2. CASE \/ HandleLoop \/ Receive \/ ReceiveTooMuch \/ ReceiveEnds \/ NoMoreLines
           \/ HandleLine \/ QueueCommand
  <2>1. at \in Handling /\ at' \in Handling /\ UNCHANGED <<state, main_at>>
    BY <1>2 DEF HandleLoop, Receive, ReceiveTooMuch, ReceiveEnds, NoMoreLines, HandleLine,
       QueueCommand, kernelVars, serverVars, mainVars, state, Handling
  <2>2. QED
    BY <2>1, HandlingInv
<1>3. CASE Reply \/ ReplyFails
  <2>1. at \in Handling /\ at' \in Handling /\ UNCHANGED <<state, main_at>>
    BY <1>3 DEF Reply, ReplyFails, kernelVars, serverVars, mainVars, state, Handling
  <2>2. QED
    BY <2>1, HandlingInv
<1>4. QED
  BY <1>1, <1>2, <1>3

LEMMA AcceptInv == IInv /\ Accept => IInv'
<1> SUFFICES ASSUME IInv, Accept PROVE IInv'
  OBVIOUS
<1> USE DEF IInv
<1> DEFINE first == Head(backlog)
<1>1. /\ at = "accept" /\ at' = "accepted" /\ backlog # <<>> /\ client' = first
      /\ backlog' = Tail(backlog)
      /\ socket' = [socket EXCEPT ![first] = "open"] /\ socket[Listener] = "open"
      /\ UNCHANGED <<closes, listen_fd, client_fd, taken, main_at>>
  BY DEF Accept, serverVars, mainVars
<1>2. /\ first \in Clients /\ first = backlog[1] /\ 1 \in DOMAIN backlog /\ Tail(backlog) \in Seq(Clients)
      /\ DOMAIN Tail(backlog) = 1..(Len(backlog) - 1) /\ DOMAIN backlog = 1..Len(backlog)
  BY <1>1 DEF Types
<1>3. first \in Sockets /\ first # Listener /\ first # NoFd /\ socket[first] = "waiting"
  BY <1>2, ControlServerAssumption DEF Sockets, Waiting
<1> HIDE DEF first
<1>4. \A s \in Sockets : socket'[s] = IF s = first THEN "open" ELSE socket[s]
  BY <1>1, <1>3 DEF Types
<1>5. Types'
  BY <1>1, <1>2, <1>3 DEF Types, ThreadAt, Holding
<1>6. Waiting'
  <2>1. \A i \in DOMAIN backlog' :
          i + 1 \in DOMAIN backlog /\ i + 1 # 1 /\ backlog'[i] = backlog[i + 1] /\ i \in Nat
    BY <1>1, <1>2 DEF Types
  <2>2. \A i \in DOMAIN backlog' : backlog'[i] # first /\ backlog'[i] \in Clients
                               /\ socket[backlog'[i]] = "waiting"
    BY <2>1, <1>2 DEF Waiting, Types
  <2>3. \A i \in DOMAIN backlog' : socket'[backlog'[i]] = "waiting"
    BY <2>2, <1>4 DEF Sockets
  <2>4. \A i, j \in DOMAIN backlog' : i # j => backlog'[i] # backlog'[j]
    BY <2>1 DEF Waiting
  <2>5. QED
    BY <2>3, <2>4 DEF Waiting
<1>7. client_fd = NoFd
  BY <1>1 DEF Owned, Handling
<1>8. Counted' /\ NoneForgotten' /\ ListenerOwned'
  BY <1>1, <1>3, <1>4, <1>7 DEF Types, Counted, NoneForgotten, ListenerOwned, Holding, Sockets
<1>9. Owned'
  <2>1. InHand'
    BY <1>1, <1>2, <1>3, <1>4 DEF InHand
  <2>2. main_at \in StopHolding => taken \in Clients /\ taken # first /\ socket'[taken] = socket[taken]
    BY <1>3, <1>4 DEF Owned, Sockets
  <2>3. QED
    BY <1>1, <1>7, <2>1, <2>2 DEF Owned, Holding, Handling
<1>10. QED
  BY <1>5, <1>6, <1>8, <1>9

\* Closing a socket that is open or shut: only its own entries change.
LEMMA CloseFacts ==
  ASSUME Types, NEW s \in Sockets, Close(s)
  PROVE  /\ socket' \in [Sockets -> {"none", "waiting", "open", "shut", "closed"}]
         /\ closes' \in [Sockets -> Nat]
         /\ \A t \in Sockets : /\ socket'[t] = IF t = s THEN "closed" ELSE socket[t]
                            /\ closes'[t] = IF t = s THEN closes[s] + 1 ELSE closes[t]
  BY DEF Close, Types

\* A socket that is not closed yet may be.
LEMMA CloseCounted ==
  ASSUME Types, Counted, NEW s \in Sockets, socket[s] # "closed", Close(s)
  PROVE  Counted'
<1>1. SUFFICES ASSUME NEW t \in Sockets
               PROVE  closes'[t] = IF socket'[t] = "closed" THEN 1 ELSE 0
  BY DEF Counted
<1>2. /\ socket'[t] = IF t = s THEN "closed" ELSE socket[t]
      /\ closes'[t] = IF t = s THEN closes[s] + 1 ELSE closes[t]
  BY CloseFacts
<1>3. closes[s] = 0 /\ closes[t] = IF socket[t] = "closed" THEN 1 ELSE 0
  BY DEF Counted
<1>4. QED
  BY <1>2, <1>3

\* A change of one socket that is not in the backlog leaves the backlog as it is.
LEMMA WaitingKept ==
  ASSUME Types, Waiting, UNCHANGED backlog, NEW s \in Sockets, socket[s] # "waiting",
         \A t \in Sockets : t # s => socket'[t] = socket[t]
  PROVE  Waiting'
<1>1. \A i \in DOMAIN backlog : backlog[i] \in Sockets
  BY DEF Types, Sockets
<1>2. QED
  BY <1>1 DEF Waiting

LEMMA CloseClientInv == IInv /\ CloseClient => IInv'
<1> SUFFICES ASSUME IInv, CloseClient PROVE IInv'
  OBVIOUS
<1> USE DEF IInv
<1>1. /\ at = "close" /\ at' = "run" /\ Close(client)
      /\ UNCHANGED <<backlog, listen_fd, client_fd, client, taken, main_at>>
  BY DEF CloseClient, serverVars, mainVars
<1>2. client \in Clients /\ client \in Sockets /\ client # Listener /\ socket[client] = "open" /\ client_fd = NoFd
  BY <1>1, ControlServerAssumption DEF Owned, InHand, Holding, Sockets
<1>3. /\ socket' \in [Sockets -> {"none", "waiting", "open", "shut", "closed"}]
      /\ closes' \in [Sockets -> Nat]
      /\ \A t \in Sockets : /\ socket'[t] = IF t = client THEN "closed" ELSE socket[t]
                         /\ closes'[t] = IF t = client THEN closes[client] + 1 ELSE closes[t]
  BY <1>1, <1>2, CloseFacts
<1>4. Types' /\ Counted'
  BY <1>1, <1>2, <1>3 DEF Types, Counted, ThreadAt
<1>5. Waiting'
  BY <1>1, <1>2, <1>3, WaitingKept
<1>6. Owned' /\ NoneForgotten' /\ ListenerOwned'
  BY <1>1, <1>2, <1>3 DEF Owned, NoneForgotten, ListenerOwned, InHand, Holding, Handling, Sockets
<1>7. QED
  BY <1>4, <1>5, <1>6

\* The socket of the thread's client is open only in the cases Owned names, so a thread that
\* does not handle one, or goes on without it, leaves it alone.
LEMMA IdleThreadInv ==
  ASSUME IInv, UNCHANGED <<state, main_at>>,
         at \in {"run", "load", "accept"}, at' \in {"run", "load", "accept", "exit"}
  PROVE  IInv'
<1>1. UNCHANGED <<socket, closes, backlog, listen_fd, client_fd, client, taken, main_at>>
  BY DEF state
<1>2. Types' /\ Counted' /\ Waiting'
  BY <1>1 DEF IInv, Types, Counted, Waiting, ThreadAt
<1>3. main_at \notin {"start", "exited"} /\ client_fd = NoFd
  BY DEF IInv, ListenerOwned, Owned, Handling
<1>4. Owned' /\ NoneForgotten' /\ ListenerOwned'
  BY <1>1, <1>3 DEF IInv, Owned, NoneForgotten, ListenerOwned, InHand, Holding, Handling
<1>5. QED
  BY <1>2, <1>4 DEF IInv

LEMMA LeaveClientInv == IInv /\ LeaveClient => IInv'
<1> SUFFICES ASSUME IInv, LeaveClient PROVE IInv'
  OBVIOUS
<1> USE DEF IInv
<1>1. /\ at = "leave" /\ client_fd' = NoFd /\ at' = IF client_fd = client THEN "close" ELSE "run"
      /\ UNCHANGED <<socket, closes, backlog, listen_fd, client, taken, main_at>>
  BY DEF LeaveClient, kernelVars, mainVars
<1>2. Types' /\ Counted' /\ Waiting'
  BY <1>1 DEF Types, Counted, Waiting, ThreadAt, Holding
<1>3. main_at \notin {"start", "exited"}
  BY <1>1 DEF ListenerOwned
<1>4. CASE client_fd = client
  <2>1. at' = "close" /\ client_fd' = NoFd
    BY <1>1, <1>4
  <2>2. client_fd # NoFd => InHand
    BY DEF Owned
  <2>3. CASE client_fd # NoFd
    <3>1. client \in Clients /\ client_fd = client /\ InHand /\ NoFd \notin Clients
      BY <1>4, <2>2, <2>3, ControlServerAssumption DEF InHand
    <3>2. main_at \in StopHolding => taken \in Clients /\ taken # client
      BY <3>1 DEF Owned
    <3>3. Owned'
      BY <1>1, <2>1, <3>1, <3>2 DEF Owned, InHand, Holding, Handling
    <3>4. NoneForgotten' /\ ListenerOwned'
      BY <1>1, <1>3, <2>1, <3>1 DEF NoneForgotten, ListenerOwned, Holding
    <3>5. QED
      BY <1>2, <3>3, <3>4
  <2>4. CASE client_fd = NoFd
    BY <1>1, <1>4, <2>4, ControlServerAssumption DEF Owned, Handling
  <2>5. QED
    BY <2>3, <2>4, <1>2
<1>5. CASE client_fd # client
  <2>1. at' = "run" /\ client_fd = NoFd
    BY <1>1, <1>5 DEF Owned
  <2>2. Owned' /\ NoneForgotten' /\ ListenerOwned'
    BY <1>1, <1>3, <2>1 DEF Owned, NoneForgotten, ListenerOwned, InHand, Holding, Handling
  <2>3. QED
    BY <1>2, <2>2
<1>6. QED
  BY <1>4, <1>5

LEMMA ExitThreadInv == IInv /\ ExitThread => IInv'
<1> SUFFICES ASSUME IInv, ExitThread PROVE IInv'
  OBVIOUS
<1> USE DEF IInv
<1>1. /\ at = "exit" /\ at' = "ended" /\ listen_fd' = NoFd
      /\ UNCHANGED <<backlog, client_fd, client, taken, main_at>>
  BY DEF ExitThread, mainVars
<1>2. client_fd = NoFd /\ main_at \notin {"start", "exited"}
  BY <1>1 DEF Owned, ListenerOwned, Handling
<1>3. CASE listen_fd # NoFd
  <2>1. listen_fd = Listener /\ Close(Listener) /\ socket[Listener] = "open"
        /\ main_at # "close listener" /\ Listener \in Sockets
    BY <1>1, <1>3 DEF ExitThread, Types, ListenerOwned, Sockets
  <2>2. /\ socket' \in [Sockets -> {"none", "waiting", "open", "shut", "closed"}]
        /\ closes' \in [Sockets -> Nat]
        /\ \A t \in Sockets : /\ socket'[t] = IF t = Listener THEN "closed" ELSE socket[t]
                           /\ closes'[t] = IF t = Listener THEN closes[Listener] + 1 ELSE closes[t]
    BY <2>1, CloseFacts
  <2>3. \A t \in Clients : t \in Sockets /\ t # Listener
    BY ControlServerAssumption DEF Sockets
  <2>4. Types' /\ Counted'
    <3>1. Types'
      BY <1>1, <2>1, <2>2 DEF Types, ThreadAt
    <3>2. Counted'
      BY <2>1, CloseCounted
    <3>3. QED
      BY <3>1, <3>2
  <2>5. Waiting'
    BY <1>1, <2>1, <2>2, WaitingKept
  <2>6. Owned'
    BY <1>1, <1>2, <2>2, <2>3 DEF Owned, Holding, Handling, InHand
  <2>7. NoneForgotten' /\ ListenerOwned'
    BY <1>1, <1>2, <2>1, <2>2, <2>3, ControlServerAssumption
       DEF NoneForgotten, ListenerOwned, Holding
  <2>8. QED
    BY <2>4, <2>5, <2>6, <2>7
<1>4. CASE listen_fd = NoFd
  <2>1. UNCHANGED <<socket, closes>>
    BY <1>4 DEF ExitThread
  <2>2. Types' /\ Counted' /\ Waiting'
    BY <1>1, <2>1 DEF Types, Counted, Waiting, ThreadAt
  <2>3. Owned' /\ NoneForgotten' /\ ListenerOwned'
    BY <1>1, <1>2, <1>4, <2>1, ControlServerAssumption
       DEF Owned, NoneForgotten, ListenerOwned, Holding, Handling
  <2>4. QED
    BY <2>2, <2>3
<1>5. QED
  BY <1>3, <1>4

LEMMA ThreadInv == IInv /\ Thread => IInv'
<1> SUFFICES ASSUME IInv, Thread PROVE IInv'
  OBVIOUS
<1>1. CASE RunLoop \/ LoadListener \/ AcceptFails
  <2>1. /\ at \in {"run", "load", "accept"} /\ at' \in {"run", "load", "accept", "exit"}
        /\ UNCHANGED <<state, main_at>>
    BY <1>1 DEF RunLoop, LoadListener, AcceptFails, kernelVars, serverVars, mainVars, state
  <2>2. QED
    BY <2>1, IdleThreadInv
<1>2. QED
  BY <1>1, AcceptInv, HandleClientInv, LeaveClientInv, CloseClientInv, ExitThreadInv DEF Thread

-----------------------------------------------------------------------------
(* The main program.                                                         *)

\* The steps that stop() does not take, and those of it that touch no socket.
LEMMA MainMovesInv == IInv /\ (Setup \/ Poll \/ EndLoop \/ SetStopping \/ Join) => IInv'
<1> SUFFICES ASSUME IInv, Setup \/ Poll \/ EndLoop \/ SetStopping \/ Join PROVE IInv'
  OBVIOUS
<1> USE DEF IInv
<1>1. UNCHANGED <<socket, closes, backlog, listen_fd, client_fd, at, client, taken>>
  BY DEF Setup, Poll, EndLoop, SetStopping, Join, kernelVars, serverVars, threadVars
<1>2. /\ main_at \in {"setup", "loop", "stop", "join"}
      /\ main_at' \in {"loop", "stop", "take client", "exited"}
      /\ main_at' = "exited" => main_at = "join" /\ at \in {"none", "ended"}
      /\ main_at = "join" => main_at' \in {"stop", "exited"}
  BY DEF Setup, Poll, EndLoop, SetStopping, Join
<1>3. Types' /\ Counted' /\ Waiting'
  BY <1>1, <1>2 DEF Types, Counted, Waiting, MainAt
<1>4. Owned' /\ NoneForgotten' /\ ListenerOwned'
  BY <1>1, <1>2 DEF Owned, NoneForgotten, ListenerOwned, InHand, StopHolding
<1>5. QED
  BY <1>3, <1>4

LEMMA StartInv == IInv /\ Start => IInv'
<1> SUFFICES ASSUME IInv, Start PROVE IInv'
  OBVIOUS
<1> USE DEF IInv
<1>1. /\ main_at = "start" /\ at = "none" /\ socket[Listener] = "none" /\ listen_fd = NoFd
      /\ UNCHANGED <<backlog, client_fd, client, taken>>
  BY DEF Start, ListenerOwned
<1>2. client_fd = NoFd /\ Listener \in Sockets /\ \A t \in Clients : t \in Sockets /\ t # Listener
  BY <1>1, ControlServerAssumption DEF Owned, Handling, Sockets
<1>3. CASE /\ listen_fd' = Listener /\ at' = "run" /\ main_at' = "setup"
           /\ socket' = [socket EXCEPT ![Listener] = "open"] /\ UNCHANGED closes
  <2>1. /\ socket' \in [Sockets -> {"none", "waiting", "open", "shut", "closed"}]
        /\ \A t \in Sockets : socket'[t] = IF t = Listener THEN "open" ELSE socket[t]
    BY <1>2, <1>3 DEF Types
  <2>2. Types' /\ Counted'
    BY <1>1, <1>2, <1>3, <2>1 DEF Types, Counted, ThreadAt, MainAt
  <2>3. Waiting'
    BY <1>1, <1>2, <2>1 DEF Types, Waiting
  <2>4. Owned' /\ NoneForgotten' /\ ListenerOwned'
    BY <1>1, <1>2, <1>3, <2>1
       DEF Owned, NoneForgotten, ListenerOwned, Holding, Handling, StopHolding
  <2>5. QED
    BY <2>2, <2>3, <2>4
<1>4. CASE main_at' = "stop" /\ Close(Listener) /\ UNCHANGED <<listen_fd, at>>
  <2>1. /\ socket' \in [Sockets -> {"none", "waiting", "open", "shut", "closed"}]
        /\ closes' \in [Sockets -> Nat]
        /\ \A t \in Sockets : /\ socket'[t] = IF t = Listener THEN "closed" ELSE socket[t]
                           /\ closes'[t] = IF t = Listener THEN closes[Listener] + 1 ELSE closes[t]
    BY <1>2, <1>4, CloseFacts
  <2>2. Types' /\ Counted'
    BY <1>1, <1>2, <1>4, <2>1 DEF Types, Counted, MainAt
  <2>3. Waiting'
    BY <1>1, <1>2, <2>1 DEF Types, Waiting
  <2>4. Owned' /\ NoneForgotten' /\ ListenerOwned'
    BY <1>1, <1>2, <1>4, <2>1, ControlServerAssumption
       DEF Owned, NoneForgotten, ListenerOwned, Holding, Handling, StopHolding
  <2>5. QED
    BY <2>2, <2>3, <2>4
<1>5. CASE main_at' = "stop" /\ UNCHANGED <<listen_fd, at, socket, closes>>
  <2>1. Types' /\ Counted' /\ Waiting'
    BY <1>1, <1>5 DEF Types, Counted, Waiting, MainAt
  <2>2. Owned' /\ NoneForgotten' /\ ListenerOwned'
    BY <1>1, <1>2, <1>5, ControlServerAssumption
       DEF Owned, NoneForgotten, ListenerOwned, Holding, Handling, StopHolding
  <2>3. QED
    BY <2>1, <2>2
<1>6. QED
  BY <1>3, <1>4, <1>5 DEF Start

LEMMA StopClientInv == IInv /\ (TakeClient \/ ShutClient \/ StopClosesClient) => IInv'
<1> SUFFICES ASSUME IInv, TakeClient \/ ShutClient \/ StopClosesClient PROVE IInv'
  OBVIOUS
<1> USE DEF IInv
<1>1. CASE TakeClient
  <2>1. /\ main_at = "take client" /\ taken' = client_fd /\ client_fd' = NoFd
        /\ main_at' = IF client_fd = NoFd THEN "take listener" ELSE "shut client"
        /\ UNCHANGED <<socket, closes, backlog, listen_fd, at, client>>
    BY <1>1 DEF TakeClient, kernelVars, threadVars
  <2>2. Types' /\ Counted' /\ Waiting'
    BY <2>1 DEF Types, Counted, Waiting, MainAt, StopHolding, Sockets
  <2>3. client_fd # NoFd => at \in Handling /\ client_fd = client /\ InHand /\ client_fd \in Clients
    BY DEF Owned, Types
  <2>4. Owned' /\ NoneForgotten' /\ ListenerOwned'
    BY <2>1, <2>3 DEF Owned, NoneForgotten, ListenerOwned, InHand, Holding, Handling, StopHolding
  <2>5. QED
    BY <2>2, <2>4
<1>2. CASE ShutClient
  <2>1. /\ main_at = "shut client" /\ main_at' = "close client"
        /\ socket' = [socket EXCEPT ![taken] = "shut"]
        /\ UNCHANGED <<closes, backlog, listen_fd, client_fd, at, client, taken>>
    BY <1>2 DEF ShutClient, serverVars, threadVars
  <2>2. /\ taken \in Clients /\ taken # client_fd /\ (at \in Holding => taken # client)
        /\ socket[taken] \in {"open", "shut"} /\ taken \in Sockets /\ taken # Listener
        /\ \A t \in Clients : t \in Sockets
    BY <2>1, ControlServerAssumption DEF Owned, StopHolding, Sockets
  <2>3. /\ socket' \in [Sockets -> {"none", "waiting", "open", "shut", "closed"}]
        /\ \A t \in Sockets : socket'[t] = IF t = taken THEN "shut" ELSE socket[t]
    BY <2>1, <2>2 DEF Types
  <2>4. Types' /\ Counted'
    BY <2>1, <2>2, <2>3 DEF Types, Counted, MainAt, StopHolding
  <2>5. Waiting'
    BY <2>1, <2>2, <2>3, WaitingKept
  <2>6. Listener \in Sockets
    BY DEF Sockets
  <2>7. Owned' /\ NoneForgotten' /\ ListenerOwned'
    BY <2>1, <2>2, <2>3, <2>6
       DEF Owned, NoneForgotten, ListenerOwned, InHand, Holding, Handling, StopHolding
  <2>8. QED
    BY <2>4, <2>5, <2>7
<1>3. CASE StopClosesClient
  <2>1. /\ main_at = "close client" /\ main_at' = "take listener" /\ Close(taken)
        /\ UNCHANGED <<backlog, listen_fd, client_fd, at, client, taken>>
    BY <1>3 DEF StopClosesClient, serverVars, threadVars
  <2>2. /\ taken \in Clients /\ taken # client_fd /\ (at \in Holding => taken # client)
        /\ socket[taken] \in {"open", "shut"} /\ taken \in Sockets /\ taken # Listener
        /\ Listener \in Sockets /\ \A t \in Clients : t \in Sockets
    BY <2>1, ControlServerAssumption DEF Owned, StopHolding, Sockets
  <2>3. /\ socket' \in [Sockets -> {"none", "waiting", "open", "shut", "closed"}]
        /\ closes' \in [Sockets -> Nat]
        /\ \A t \in Sockets : /\ socket'[t] = IF t = taken THEN "closed" ELSE socket[t]
                           /\ closes'[t] = IF t = taken THEN closes[taken] + 1 ELSE closes[t]
    BY <2>1, <2>2, CloseFacts
  <2>4. Types' /\ Counted'
    <3>1. Types'
      BY <2>1, <2>2, <2>3 DEF Types, MainAt
    <3>2. Counted'
      BY <2>1, <2>2, CloseCounted
    <3>3. QED
      BY <3>1, <3>2
  <2>5. Waiting'
    BY <2>1, <2>2, <2>3, WaitingKept
  <2>6. Owned' /\ NoneForgotten' /\ ListenerOwned'
    BY <2>1, <2>2, <2>3
       DEF Owned, NoneForgotten, ListenerOwned, InHand, Holding, Handling, StopHolding
  <2>7. QED
    BY <2>4, <2>5, <2>6
<1>4. QED
  BY <1>1, <1>2, <1>3

LEMMA StopListenerInv == IInv /\ (TakeListener \/ StopClosesListener) => IInv'
<1> SUFFICES ASSUME IInv, TakeListener \/ StopClosesListener PROVE IInv'
  OBVIOUS
<1> USE DEF IInv
<1>1. CASE TakeListener
  <2>1. /\ main_at = "take listener" /\ listen_fd' = NoFd /\ taken' = listen_fd
        /\ main_at' = IF listen_fd = NoFd THEN "join" ELSE "close listener"
        /\ UNCHANGED <<socket, closes, backlog, client_fd, at, client>>
    BY <1>1 DEF TakeListener, kernelVars, threadVars
  <2>2. Types' /\ Counted' /\ Waiting'
    BY <2>1 DEF Types, Counted, Waiting, MainAt, Sockets
  <2>3. Owned' /\ NoneForgotten' /\ ListenerOwned'
    BY <2>1, ControlServerAssumption
       DEF Types, Owned, NoneForgotten, ListenerOwned, InHand, StopHolding
  <2>4. QED
    BY <2>2, <2>3
<1>2. CASE StopClosesListener
  <2>1. /\ main_at = "close listener" /\ main_at' = "join" /\ Close(Listener) /\ taken = Listener
        /\ UNCHANGED <<backlog, listen_fd, client_fd, at, client, taken>>
        /\ socket[Listener] = "open" /\ listen_fd = NoFd
    BY <1>2 DEF StopClosesListener, serverVars, threadVars, ListenerOwned
  <2>2. Listener \in Sockets /\ \A t \in Clients : t \in Sockets /\ t # Listener
    BY ControlServerAssumption DEF Sockets
  <2>3. /\ socket' \in [Sockets -> {"none", "waiting", "open", "shut", "closed"}]
        /\ closes' \in [Sockets -> Nat]
        /\ \A t \in Sockets : /\ socket'[t] = IF t = Listener THEN "closed" ELSE socket[t]
                           /\ closes'[t] = IF t = Listener THEN closes[Listener] + 1 ELSE closes[t]
    BY <2>1, <2>2, CloseFacts
  <2>4. Types' /\ Counted'
    <3>1. Types'
      BY <2>1, <2>2, <2>3 DEF Types, MainAt
    <3>2. Counted'
      BY <2>1, <2>2, CloseCounted
    <3>3. QED
      BY <3>1, <3>2
  <2>5. Waiting'
    BY <2>1, <2>2, <2>3, WaitingKept
  <2>6. Owned' /\ NoneForgotten' /\ ListenerOwned'
    BY <2>1, <2>2, <2>3, ControlServerAssumption
       DEF Owned, NoneForgotten, ListenerOwned, InHand, StopHolding
  <2>7. QED
    BY <2>4, <2>5, <2>6
<1>3. QED
  BY <1>1, <1>2

LEMMA StepInv == IInv /\ [Next]_vars => IInv'
<1> SUFFICES ASSUME IInv, [Next]_vars PROVE IInv'
  OBVIOUS
<1>1. CASE UNCHANGED vars
  BY <1>1 DEF vars, kernelVars, serverVars, threadVars, mainVars, IInv, Types, Counted, Waiting,
     Owned, NoneForgotten, ListenerOwned, InHand
<1>2. CASE Main
  BY <1>2, MainMovesInv, StartInv, StopClientInv, StopListenerInv DEF Main, Stopping
<1>3. QED
  BY <1>1, <1>2, ClientsInv, ThreadInv DEF Next

\* The thread and stop() close the client's socket and the listening one (80-89, 132-136 of
\* control_server.cpp) once each, and stop() leaves none open, whatever the clients do.
THEOREM ClosedOnce == Spec => []SocketsClosedOnce
<1>1. IInv => SocketsClosedOnce
  <2> SUFFICES ASSUME IInv PROVE SocketsClosedOnce
    OBVIOUS
  <2>1. \A s \in Sockets : closes[s] <= 1
    BY DEF IInv, Counted
  <2>2. ASSUME main_at = "exited", NEW s \in Sockets PROVE socket[s] \notin {"open", "shut"}
    BY <2>2, ControlServerAssumption
       DEF IInv, Owned, NoneForgotten, ListenerOwned, Sockets, Holding, Handling, StopHolding
  <2>3. QED
    BY <2>1, <2>2 DEF SocketsClosedOnce, Sockets
<1>2. QED
  BY <1>1, InitInv, StepInv, PTL DEF Spec


-----------------------------------------------------------------------------
(* The answers.                                                              *)

\* The lines of c the thread is through with, the one it is answering included.
Done(c) == IF c = client /\ at \in {"line", "reply"} THEN received[c] - Len(pending) ELSE received[c]

\* What is told of a line is true.
Queued(line) == \E j \in DOMAIN Accepted : Accepted[j] = line
Tells(a, line) ==
  /\ a = "OK queued" <=> KindOf(line) \in {"command", "quit"} /\ Queued(line)
  /\ a = "OK" <=> KindOf(line) = "status"
  /\ a = "ERR input buffer too large" <=> KindOf(line) = "huge"

\* What the thread can have to say.
Answers == {"none", "OK", "OK queued", "ERR command queue full", "ERR input buffer too large"}

LineTypes ==
  /\ sent \in [Clients -> Nat] /\ received \in [Clients -> Nat]
  /\ answered \in [Clients -> Seq(Answers)] /\ answer \in Answers
  /\ executed \in Seq(Clients \X Nat) /\ commands \in Seq(Clients \X Nat)
  /\ pending \in Seq(Clients \X Nat)
  /\ \A c \in Clients : received[c] <= sent[c] /\ sent[c] <= Len(Script[c])

\* What recv() gave and has not been looked at are the last lines received.
PendingLines ==
  /\ at \in {"handle", "recv"} => pending = <<>>
  /\ at \in {"line", "reply"} =>
       /\ Len(pending) <= received[client]
       /\ \A i \in DOMAIN pending :
            /\ pending[i] = <<client, received[client] - Len(pending) + i>>
            /\ KindOf(pending[i]) # "huge"

\* The queue takes lines that the thread is through with, in their order.
TakenInOrder ==
  /\ InOrder
  /\ \A j \in DOMAIN Accepted : Accepted[j][2] \in 1..Done(Accepted[j][1])

\* A client that has not been accepted has been told nothing; the answers of one that is
\* being served are as many as its lines ask for.
AnswersCounted ==
  /\ \A c \in Clients : socket[c] \in {"none", "waiting"} => received[c] = 0 /\ answered[c] = <<>>
  /\ at = "accepted" => received[client] = 0 /\ answered[client] = <<>>
  /\ at \in {"handle", "recv", "line"} =>
       Len(answered[client]) = Cardinality(Answerable(client, Done(client)))
  /\ at = "reply" =>
       /\ Done(client) \in Answerable(client, Done(client))
       /\ Len(answered[client]) + 1 = Cardinality(Answerable(client, Done(client)))
       /\ Tells(answer, <<client, Done(client)>>)

\* Each answer is for the line it is counted for, and is true.
AnswersTrue ==
  \A c \in Clients : \A k \in DOMAIN answered[c] :
    \E i \in Answerable(c, Done(c)) :
      /\ Cardinality(Answerable(c, i)) = k
      /\ Tells(answered[c][k], <<c, i>>)

AInv == LineTypes /\ PendingLines /\ TakenInOrder /\ AnswersCounted /\ AnswersTrue

\* A command that is queued comes last of all that were accepted.
LEMMA AppendToJoined ==
  ASSUME NEW S, NEW s \in Seq(S), NEW t \in Seq(S), NEW e \in S
  PROVE  s \o Append(t, e) = Append(s \o t, e)
  OBVIOUS

\* Counting answerable lines.
LEMMA AnswerableFinite ==
  ASSUME NEW c, NEW n \in Nat
  PROVE  IsFiniteSet(Answerable(c, n)) /\ Cardinality(Answerable(c, n)) \in Nat
<1>1. IsFiniteSet(1..n)
  BY FS_Interval
<1>2. Answerable(c, n) \subseteq 1..n
  BY DEF Answerable
<1>3. QED
  BY <1>1, <1>2, FS_Subset, FS_CardinalityType

LEMMA AnswerableNext ==
  ASSUME NEW c, NEW n \in Nat
  PROVE  Cardinality(Answerable(c, n + 1)) =
           Cardinality(Answerable(c, n)) + (IF Script[c][n + 1] # "empty" THEN 1 ELSE 0)
<1>1. IsFiniteSet(Answerable(c, n)) /\ Cardinality(Answerable(c, n)) \in Nat
  BY AnswerableFinite
<1>2. CASE Script[c][n + 1] # "empty"
  <2>1. Answerable(c, n + 1) = Answerable(c, n) \cup {n + 1} /\ n + 1 \notin Answerable(c, n)
    BY <1>2 DEF Answerable
  <2>2. QED
    BY <1>1, <1>2, <2>1, FS_AddElement
<1>3. CASE Script[c][n + 1] = "empty"
  <2>1. Answerable(c, n + 1) = Answerable(c, n)
    BY <1>3 DEF Answerable
  <2>2. QED
    BY <1>1, <1>3, <2>1
<1>4. QED
  BY <1>2, <1>3

\* No two lines have the same number of answerable ones up to them.
LEMMA AnswerableUnique ==
  ASSUME NEW c, NEW n \in Nat, NEW i \in Answerable(c, n), NEW j \in Answerable(c, n),
         Cardinality(Answerable(c, i)) = Cardinality(Answerable(c, j))
  PROVE  i = j
<1>1. ASSUME NEW a \in Answerable(c, n), NEW b \in Answerable(c, n), a < b
      PROVE  Cardinality(Answerable(c, a)) # Cardinality(Answerable(c, b))
  <2>1. a \in Nat /\ b \in Nat /\ b - 1 \in Nat
    BY <1>1 DEF Answerable
  <2>2. Answerable(c, a) \subseteq Answerable(c, b)
    BY <1>1, <2>1 DEF Answerable
  <2>3. b \in Answerable(c, b) /\ b \notin Answerable(c, a)
    BY <1>1, <2>1 DEF Answerable
  <2>4. IsFiniteSet(Answerable(c, b))
    BY <2>1, AnswerableFinite
  <2>5. QED
    BY <2>2, <2>3, <2>4, FS_Subset
<1>2. i \in Nat /\ j \in Nat
  BY DEF Answerable
<1>3. QED
  BY <1>1, <1>2

LEMMA AnswerFound ==
  ASSUME NEW c \in Clients, NEW k, NEW i \in Answerable(c, Len(Script[c])),
         Cardinality(Answerable(c, i)) = k
  PROVE  LineOfAnswer(c, k) = i
<1>1. Len(Script[c]) \in Nat
  BY ControlServerAssumption
<1>2. \A j \in Answerable(c, Len(Script[c])) : Cardinality(Answerable(c, j)) = k => j = i
  BY <1>1, AnswerableUnique
<1>3. QED
  BY <1>2 DEF LineOfAnswer

\* The thread's place in the lines of a client.
LEMMA DoneType ==
  ASSUME LineTypes, PendingLines, NEW c \in Clients
  PROVE  Done(c) \in Nat /\ Done(c) <= received[c] /\ received[c] <= Len(Script[c])
<1>1. received[c] \in Nat /\ sent[c] \in Nat /\ Len(pending) \in Nat
      /\ received[c] <= sent[c] /\ sent[c] <= Len(Script[c]) /\ Len(Script[c]) \in Nat
  BY ControlServerAssumption DEF LineTypes
<1>2. c = client /\ at \in {"line", "reply"} => Len(pending) <= received[c]
  BY DEF PendingLines
<1>3. QED
  BY <1>1, <1>2 DEF Done

LEMMA AcceptedType == ASSUME LineTypes PROVE Accepted \in Seq(Clients \X Nat)
  BY DEF LineTypes, Accepted

\* What has been told stays true while the queue takes only lines that come after.
LEMMA TruthKept ==
  ASSUME LineTypes, PendingLines, TakenInOrder, AnswersTrue, UNCHANGED answered,
         \A c \in Clients : Done(c)' \in Nat /\ Done(c) <= Done(c)',
         \A c \in Clients : \A i \in 1..Done(c) : Queued(<<c, i>>)' <=> Queued(<<c, i>>)
  PROVE  AnswersTrue'
<1>1. SUFFICES ASSUME NEW c \in Clients, NEW k \in DOMAIN answered[c]
               PROVE  \E i \in Answerable(c, Done(c)') :
                        /\ Cardinality(Answerable(c, i)) = k
                        /\ Tells(answered[c][k], <<c, i>>)'
  BY DEF AnswersTrue
<1>2. PICK i \in Answerable(c, Done(c)) :
        Cardinality(Answerable(c, i)) = k /\ Tells(answered[c][k], <<c, i>>)
  BY DEF AnswersTrue
<1>3. Done(c) \in Nat /\ i \in 1..Done(c) /\ i \in Answerable(c, Done(c)')
  BY DoneType DEF Answerable
<1>4. Queued(<<c, i>>)' <=> Queued(<<c, i>>)
  BY <1>3
<1>5. Tells(answered[c][k], <<c, i>>)'
  BY <1>2, <1>4, Zenon DEF Tells, KindOf
<1>6. QED
  BY <1>2, <1>3, <1>5

\* When the queue is as it was, and the thread where it was or farther on.
LEMMA QueueKept ==
  ASSUME LineTypes, PendingLines, TakenInOrder, AnswersTrue, UNCHANGED answered,
         Accepted' = Accepted,
         \A c \in Clients : Done(c)' \in Nat /\ Done(c) <= Done(c)'
  PROVE  TakenInOrder' /\ AnswersTrue'
<1>1. \A line : Queued(line)' <=> Queued(line)
  BY DEF Queued
<1>2. AnswersTrue'
  BY <1>1, TruthKept
<1>3. InOrder'
  BY DEF TakenInOrder, InOrder
<1>4. ASSUME NEW j \in DOMAIN Accepted
      PROVE  Accepted[j][2] \in 1..Done(Accepted[j][1])'
  <2> DEFINE c == Accepted[j][1]
  <2>1. c \in Clients /\ Accepted[j][2] \in 1..Done(c)
    BY AcceptedType DEF TakenInOrder
  <2>2. Done(c) \in Nat /\ Done(c)' \in Nat /\ Done(c) <= Done(c)'
    BY <2>1, DoneType
  <2>3. QED
    BY <2>1, <2>2
<1>5. QED
  BY <1>2, <1>3, <1>4 DEF TakenInOrder

\* The thread between its clients, where it tells nobody anything.
Serving == {"accepted", "handle", "recv", "line", "reply"}

LEMMA FrameStep ==
  ASSUME AInv, LineTypes', UNCHANGED <<client, received, pending, answered>>,
         Accepted' = Accepted,
         \A c \in Clients : socket'[c] \in {"none", "waiting"} => socket[c] \in {"none", "waiting"},
         \/ at' = at /\ answer' = answer
         \/ at' \notin Serving
         \/ at \in {"handle", "recv"} /\ at' \in {"handle", "recv"}
  PROVE  AInv'
<1> USE DEF AInv
<1>1. ASSUME NEW c \in Clients
      PROVE  /\ Done(c)' \in Nat /\ Done(c) <= Done(c)'
             /\ at' \in Serving => Done(c)' = Done(c)
  <2>1. Done(c) \in Nat /\ Done(c) <= received[c] /\ received[c] \in Nat
    BY DoneType DEF LineTypes
  <2>2. CASE at' = at
    <3>1. Done(c)' = Done(c)
      BY <2>2 DEF Done
    <3>2. QED
      BY <2>1, <3>1
  <2>3. CASE at' \notin Serving
    <3>1. Done(c)' = received[c]
      BY <2>3 DEF Done, Serving
    <3>2. QED
      BY <2>1, <2>3, <3>1
  <2>4. CASE at \in {"handle", "recv"} /\ at' \in {"handle", "recv"}
    <3>1. Done(c)' = received[c] /\ Done(c) = received[c]
      BY <2>4 DEF Done
    <3>2. QED
      BY <2>1, <3>1
  <2>5. QED
    BY <2>2, <2>3, <2>4
<1>2. TakenInOrder' /\ AnswersTrue'
  BY <1>1, QueueKept
<1>3. PendingLines'
  BY DEF PendingLines, Serving, KindOf
<1>4. AnswersCounted'
  <2>1. /\ \A c \in Clients : socket'[c] \in {"none", "waiting"} => received'[c] = 0 /\ answered'[c] = <<>>
        /\ at' = "accepted" => received'[client'] = 0 /\ answered'[client'] = <<>>
    BY DEF AnswersCounted, Serving
  <2>2. ASSUME at' \in {"handle", "recv", "line"}
        PROVE  Len(answered'[client']) = Cardinality(Answerable(client, Done(client)))'
    <3>1. at \in {"handle", "recv", "line"} /\ Done(client)' = Done(client)
      <4>1. at \in {"handle", "recv", "line"}
        BY <2>2 DEF Serving
      <4>2. Done(client)' = Done(client)
        BY <2>2, <4>1 DEF Done, PendingLines, Serving
      <4>3. QED
        BY <4>1, <4>2
    <3>2. Answerable(client, Done(client))' = Answerable(client, Done(client))
      BY <3>1 DEF Answerable
    <3>3. QED
      BY <3>1, <3>2 DEF AnswersCounted
  <2>3. ASSUME at' = "reply"
        PROVE  /\ Done(client)' \in Answerable(client, Done(client))'
               /\ Len(answered'[client']) + 1 = Cardinality(Answerable(client, Done(client)))'
               /\ Tells(answer, <<client, Done(client)>>)'
    <3>1. at = "reply" /\ answer' = answer
      BY <2>3 DEF Serving
    <3>2. Done(client)' = Done(client)
      BY <2>3, <3>1 DEF Done
    <3>3. Answerable(client, Done(client))' = Answerable(client, Done(client))
      BY <3>2 DEF Answerable
    <3>4. Queued(<<client, Done(client)>>)' <=> Queued(<<client, Done(client)>>)
      BY <3>2 DEF Queued
    <3>5. Tells(answer, <<client, Done(client)>>)' <=> Tells(answer, <<client, Done(client)>>)
      BY <3>1, <3>2, <3>4, Zenon DEF Tells, KindOf
    <3>6. QED
      BY <3>1, <3>2, <3>3, <3>5 DEF AnswersCounted
  <2>4. QED
    BY <2>1, <2>2, <2>3 DEF AnswersCounted
<1>5. QED
  BY <1>2, <1>3, <1>4

LEMMA ClientsAnswers ==
  ASSUME IInv, AInv, NEW c \in Clients, Connect(c) \/ Send(c) \/ ReadReply(c) \/ HangUp(c)
  PROVE  AInv'
<1>1. /\ UNCHANGED <<at, client, received, pending, answer, answered, executed, commands>>
      /\ sent' = sent \/ (sent[c] < Len(Script[c]) /\ sent' = [sent EXCEPT ![c] = @ + 1])
      /\ socket' = socket \/ (socket[c] = "none" /\ socket' = [socket EXCEPT ![c] = "waiting"])
  BY DEF Connect, Send, ReadReply, HangUp, serverVars, threadVars
<1>2. LineTypes'
  <2>1. \A d \in Clients : Len(Script[d]) \in Nat
    BY ControlServerAssumption
  <2>2. /\ sent \in [Clients -> Nat] /\ received \in [Clients -> Nat]
        /\ \A d \in Clients : received[d] <= sent[d] /\ sent[d] <= Len(Script[d])
    BY DEF AInv, LineTypes
  <2>3. /\ sent' \in [Clients -> Nat]
        /\ \A d \in Clients : received[d] <= sent'[d] /\ sent'[d] <= Len(Script[d])
    <3>1. CASE sent' = sent
      BY <2>2, <3>1
    <3>2. CASE sent[c] < Len(Script[c]) /\ sent' = [sent EXCEPT ![c] = @ + 1]
      BY <2>1, <2>2, <3>2
    <3>3. QED
      BY <1>1, <3>1, <3>2
  <2>4. QED
    BY <1>1, <2>3, Zenon DEF AInv, LineTypes
<1>3. \A d \in Clients : socket'[d] \in {"none", "waiting"} => socket[d] \in {"none", "waiting"}
  <2>1. \A d \in Clients : d \in DOMAIN socket
    BY DEF IInv, Types, Sockets
  <2>2. QED
    BY <1>1, <2>1
<1>4. Accepted' = Accepted
  BY <1>1 DEF Accepted
<1>5. QED
  BY <1>1, <1>2, <1>3, <1>4, FrameStep

LEMMA MainAnswers == IInv /\ AInv /\ Main => AInv'
<1> SUFFICES ASSUME IInv, AInv, Main PROVE AInv'
  OBVIOUS
<1>1. /\ UNCHANGED <<sent, client, received, pending, answer, answered>>
      /\ at' = at \/ at' = "run"
  <2>1. CASE Start
    BY <2>1, Zenon DEF Start
  <2>2. CASE Setup \/ Poll \/ EndLoop
    BY <2>2, Zenon DEF Setup, Poll, EndLoop, kernelVars, threadVars
  <2>3. CASE Stopping
    BY <2>3, Zenon DEF Stopping, SetStopping, TakeClient, ShutClient, StopClosesClient, TakeListener,
       StopClosesListener, Join, kernelVars, threadVars
  <2>4. QED
    BY <2>1, <2>2, <2>3 DEF Main
<1>2. UNCHANGED <<executed, commands>> \/ Poll
  <2>1. CASE Start \/ Setup \/ EndLoop
    BY <2>1, Zenon DEF Start, Setup, EndLoop, serverVars
  <2>2. CASE Stopping
    BY <2>2, Zenon DEF Stopping, SetStopping, TakeClient, ShutClient, StopClosesClient, TakeListener,
       StopClosesListener, Join, serverVars
  <2>3. QED
    BY <2>1, <2>2 DEF Main
<1>3. LineTypes' /\ Accepted' = Accepted
  <2>1. executed \in Seq(Clients \X Nat) /\ commands \in Seq(Clients \X Nat)
    BY DEF AInv, LineTypes
  <2>2. CASE UNCHANGED <<executed, commands>>
    BY <1>1, <2>2 DEF AInv, LineTypes, Accepted
  <2>3. CASE Poll
    <3>1. executed' = executed \o commands /\ commands' = <<>>
      BY <2>3 DEF Poll
    <3>2. executed' \in Seq(Clients \X Nat) /\ commands' \in Seq(Clients \X Nat)
      BY <2>1, <3>1
    <3>3. Accepted' = Accepted
      BY <2>1, <3>1, <3>2 DEF Accepted
    <3>4. QED
      BY <1>1, <3>2, <3>3 DEF AInv, LineTypes
  <2>4. QED
    BY <1>2, <2>2, <2>3
<1>4. \A c \in Clients : socket'[c] \in {"none", "waiting"} => socket[c] \in {"none", "waiting"}
  <2>1. \A s \in Sockets : s \in DOMAIN socket
    BY DEF IInv, Types
  <2>2. CASE Start
    <3>1. \/ socket' = socket
          \/ socket' = [socket EXCEPT ![Listener] = "open"]
          \/ socket' = [socket EXCEPT ![Listener] = "closed"]
      BY <2>2, Zenon DEF Start, Close
    <3>2. QED
      BY <2>1, <3>1 DEF Sockets
  <2>3. CASE ShutClient
    <3>1. socket' = [socket EXCEPT ![taken] = "shut"]
      BY <2>3, Zenon DEF ShutClient
    <3>2. QED
      BY <2>1, <3>1 DEF Sockets
  <2>4. CASE StopClosesClient \/ StopClosesListener
    <3>1. socket' = [socket EXCEPT ![taken] = "closed"]
      BY <2>4, Zenon DEF StopClosesClient, StopClosesListener, Close
    <3>2. QED
      BY <2>1, <3>1 DEF Sockets
  <2>5. CASE Setup \/ Poll \/ EndLoop \/ SetStopping \/ TakeClient \/ TakeListener \/ Join
    <3>1. socket' = socket
      BY <2>5, Zenon DEF Setup, Poll, EndLoop, SetStopping, TakeClient, TakeListener, Join, kernelVars
    <3>2. QED
      BY <3>1
  <2>6. QED
    BY <2>2, <2>3, <2>4, <2>5 DEF Main, Stopping
<1>5. QED
  BY <1>1, <1>3, <1>4, FrameStep DEF Serving

\* The steps of the thread that tell nobody anything.
LEMMA QuietThreadAnswers ==
  ASSUME IInv, AInv, \/ RunLoop \/ LoadListener \/ AcceptFails \/ HandleLoop \/ ReceiveEnds
                     \/ ReplyFails \/ LeaveClient \/ CloseClient \/ ExitThread
  PROVE  AInv'
<1>1. /\ UNCHANGED <<sent, client, received, pending, answered, executed, commands>>
      /\ \/ at' \in {"exit", "load", "accept", "run", "leave", "close", "ended"}
         \/ at = "handle" /\ at' = "recv"
  BY DEF RunLoop, LoadListener, AcceptFails, HandleLoop, ReceiveEnds, ReplyFails, LeaveClient,
     CloseClient, ExitThread, kernelVars, serverVars
<1>2. LineTypes' /\ Accepted' = Accepted
  <2>1. answer' = answer \/ answer' = "none"
    BY Zenon DEF RunLoop, LoadListener, AcceptFails, HandleLoop, ReceiveEnds, ReplyFails, LeaveClient,
       CloseClient, ExitThread
  <2>2. answer' \in Answers
    BY <2>1, Zenon DEF AInv, LineTypes, Answers
  <2>3. QED
    BY <1>1, <2>2 DEF AInv, LineTypes, Accepted
<1>3. \A c \in Clients : socket'[c] \in {"none", "waiting"} => socket[c] \in {"none", "waiting"}
  <2>1. CASE CloseClient
    <3>1. socket' = [socket EXCEPT ![client] = "closed"] /\ \A s \in Clients : s \in DOMAIN socket
      BY <2>1 DEF CloseClient, Close, IInv, Types, Sockets
    <3>2. QED
      BY <3>1
  <2>2. CASE ExitThread
    <3>1. socket' = socket \/ socket' = [socket EXCEPT ![listen_fd] = "closed"]
      BY <2>2, Zenon DEF ExitThread, Close
    <3>2. \A s \in Clients : s \in DOMAIN socket
      BY DEF IInv, Types, Sockets
    <3>3. QED
      BY <3>1, <3>2
  <2>3. CASE \/ RunLoop \/ LoadListener \/ AcceptFails \/ HandleLoop \/ ReceiveEnds
             \/ ReplyFails \/ LeaveClient
    BY <2>3 DEF RunLoop, LoadListener, AcceptFails, HandleLoop, ReceiveEnds, ReplyFails,
       LeaveClient, kernelVars
  <2>4. QED
    BY <2>1, <2>2, <2>3
<1>4. QED
  BY <1>1, <1>2, <1>3, FrameStep DEF Serving

\* Who is being served is a client.
LEMMA ServedIsClient ==
  ASSUME IInv, at \in Serving
  PROVE  client \in Clients
<1>1. at \in Holding \/ at \in Handling
  BY DEF Serving, Holding, Handling
<1>2. QED
  BY <1>1, Zenon DEF IInv, Owned, InHand

\* One more line is done: it is passed over, or the thread is about to answer it.
LEMMA OneMoreDone ==
  ASSUME AInv, client \in Clients, client' = client, answered' = answered,
         \A c \in Clients : socket'[c] \in {"none", "waiting"} => received'[c] = 0 /\ answered'[c] = <<>>,
         at \in {"recv", "line"}, Done(client)' = Done(client) + 1,
         NEW line, line = <<client, Done(client) + 1>>,
         \/ at' = "line" /\ KindOf(line) = "empty"
         \/ at' = "reply" /\ KindOf(line) # "empty" /\ Tells(answer, line)'
  PROVE  AnswersCounted'
<1>1. Done(client) \in Nat /\ Len(answered[client]) = Cardinality(Answerable(client, Done(client)))
  BY DoneType DEF AInv, AnswersCounted
<1>2. KindOf(line) = Script[client][Done(client) + 1]
  BY DEF KindOf
<1>3. Cardinality(Answerable(client, Done(client) + 1)) =
        Cardinality(Answerable(client, Done(client))) + (IF KindOf(line) # "empty" THEN 1 ELSE 0)
  BY <1>1, <1>2, AnswerableNext
<1>4. Cardinality(Answerable(client, Done(client))) \in Nat
  BY <1>1, AnswerableFinite
<1>5. Answerable(client, Done(client))' = Answerable(client, Done(client) + 1)
  BY DEF Answerable
<1>6. CASE at' = "line" /\ KindOf(line) = "empty"
  <2>1. Len(answered'[client']) = Cardinality(Answerable(client, Done(client)))'
    BY <1>1, <1>3, <1>4, <1>5, <1>6
  <2>2. QED
    BY <1>6, <2>1 DEF AnswersCounted
<1>7. CASE at' = "reply" /\ KindOf(line) # "empty" /\ Tells(answer, line)'
  <2>1. Len(answered'[client']) + 1 = Cardinality(Answerable(client, Done(client)))'
    BY <1>1, <1>3, <1>4, <1>5, <1>7
  <2>2. Done(client)' \in Answerable(client, Done(client))'
    BY <1>1, <1>2, <1>5, <1>7 DEF Answerable
  <2>3. <<client', Done(client)'>> = line
    OBVIOUS
  <2>4. Tells(answer, <<client, Done(client)>>)'
    BY <1>7, <2>3, Zenon
  <2>5. QED
    BY <1>7, <2>1, <2>2, <2>4 DEF AnswersCounted
<1>8. QED
  BY <1>6, <1>7

\* The thread takes the next line from its buffer.
LEMMA LineTaken ==
  ASSUME AInv, client \in Clients, at = "line", pending # <<>>, pending' = Tail(pending),
         at' \in {"line", "reply"}, UNCHANGED <<client, received>>
  PROVE  /\ Head(pending) = <<client, Done(client) + 1>> /\ KindOf(Head(pending)) # "huge"
         /\ Done(client) \in Nat /\ Done(client)' = Done(client) + 1
         /\ \A c \in Clients : Done(c) \in Nat /\ Done(c)' \in Nat /\ Done(c) <= Done(c)'
         /\ pending' \in Seq(Clients \X Nat) /\ PendingLines'
<1>1. pending \in Seq(Clients \X Nat) /\ Len(pending) \in Nat /\ Len(pending) >= 1
      /\ DOMAIN pending = 1..Len(pending)
  <2>1. pending \in Seq(Clients \X Nat)
    BY DEF AInv, LineTypes
  <2>2. QED
    BY <2>1
<1>2. received \in [Clients -> Nat] /\ received[client] \in Nat
  BY DEF AInv, LineTypes
<1>3. /\ Len(pending) <= received[client]
      /\ \A i \in 1..Len(pending) : /\ pending[i] = <<client, received[client] - Len(pending) + i>>
                                    /\ KindOf(pending[i]) # "huge"
  BY <1>1 DEF AInv, PendingLines
<1>4. Done(client) = received[client] - Len(pending)
  BY DEF Done
<1>5. Head(pending) = pending[1]
  BY <1>1
<1>6. /\ pending' \in Seq(Clients \X Nat) /\ Len(pending') = Len(pending) - 1
      /\ \A i \in 1..Len(pending') : pending'[i] = pending[i + 1]
  BY <1>1
<1>7. Done(client)' = received[client] - Len(pending')
  BY DEF Done
<1>8. Head(pending) = <<client, Done(client) + 1>> /\ KindOf(Head(pending)) # "huge"
  <2>1. 1 \in 1..Len(pending)
    BY <1>1
  <2>2. pending[1] = <<client, received[client] - Len(pending) + 1>> /\ KindOf(pending[1]) # "huge"
    BY <1>3, <2>1
  <2>3. QED
    BY <1>4, <1>5, <2>2
<1>9. Done(client) \in Nat /\ Done(client)' = Done(client) + 1
  BY <1>1, <1>2, <1>3, <1>4, <1>6, <1>7
<1>10. \A c \in Clients : Done(c) \in Nat /\ Done(c)' \in Nat /\ Done(c) <= Done(c)'
  <2>1. \A c \in Clients : c # client => Done(c) = received[c] /\ Done(c)' = received[c]
    BY DEF Done
  <2>2. QED
    BY <1>2, <1>9, <2>1
<1>11. PendingLines'
  <2>1. /\ Len(pending') <= received'[client']
        /\ \A i \in 1..Len(pending') :
             /\ pending'[i] = <<client, received[client] - Len(pending') + i>>
             /\ KindOf(pending'[i]) # "huge"
    <3>1. Len(pending') <= received'[client']
      BY <1>1, <1>2, <1>3, <1>6
    <3>2. ASSUME NEW i \in 1..Len(pending')
          PROVE  i + 1 \in 1..Len(pending)
                 /\ received[client] - Len(pending) + (i + 1) = received[client] - Len(pending') + i
      BY <1>1, <1>2, <1>6
    <3>3. QED
      BY <1>3, <1>6, <3>1, <3>2
  <2>2. DOMAIN pending' = 1..Len(pending')
    BY <1>6
  <2>3. QED
    BY <2>1, <2>2 DEF PendingLines, KindOf
<1>12. QED
  BY <1>6, <1>8, <1>9, <1>10, <1>11

LEMMA AcceptAnswers == IInv /\ AInv /\ Accept => AInv'
<1> SUFFICES ASSUME IInv, AInv, Accept PROVE AInv'
  OBVIOUS
<1> DEFINE b == Head(backlog)
<1>1. /\ client' = b /\ socket' = [socket EXCEPT ![b] = "open"] /\ at = "accept" /\ at' = "accepted"
      /\ UNCHANGED <<sent, received, pending, answer, answered, executed, commands>>
  BY DEF Accept, serverVars
<1>2. b \in Clients /\ socket[b] = "waiting"
  BY DEF Accept, IInv, Types, Waiting
<1>3. LineTypes' /\ Accepted' = Accepted
  BY <1>1 DEF AInv, LineTypes, Accepted
<1>4. \A c \in Clients : Done(c)' = Done(c) /\ Done(c) \in Nat
  BY <1>1, DoneType DEF Done, AInv
<1>5. TakenInOrder' /\ AnswersTrue'
  BY <1>1, <1>3, <1>4, QueueKept DEF AInv
<1>6. PendingLines'
  BY <1>1 DEF PendingLines
<1>7. AnswersCounted'
  <2>1. received[b] = 0 /\ answered[b] = <<>>
    BY <1>2 DEF AInv, AnswersCounted
  <2>2. \A c \in Clients : c # b => socket'[c] = socket[c]
    BY <1>1
  <2>3. \A c \in Clients : socket'[c] \in {"none", "waiting"} => received[c] = 0 /\ answered[c] = <<>>
    BY <2>1, <2>2 DEF AInv, AnswersCounted
  <2>4. QED
    BY <1>1, <2>1, <2>3 DEF AnswersCounted
<1>8. QED
  BY <1>3, <1>5, <1>6, <1>7 DEF AInv

LEMMA PublishAnswers == IInv /\ AInv /\ Publish => AInv'
<1> SUFFICES ASSUME IInv, AInv, Publish PROVE AInv'
  OBVIOUS
<1>1. /\ at = "accepted" /\ at' = "handle" /\ pending' = <<>>
      /\ UNCHANGED <<sent, socket, client, received, answer, answered, executed, commands>>
  BY DEF Publish, kernelVars
<1>2. client \in Clients
  BY <1>1, ServedIsClient DEF Serving
<1>3. LineTypes' /\ Accepted' = Accepted
  BY <1>1 DEF AInv, LineTypes, Accepted
<1>4. \A c \in Clients : Done(c)' = Done(c) /\ Done(c) \in Nat
  BY <1>1, DoneType DEF Done, AInv
<1>5. TakenInOrder' /\ AnswersTrue'
  BY <1>1, <1>3, <1>4, QueueKept DEF AInv
<1>6. PendingLines'
  BY <1>1 DEF PendingLines
<1>7. AnswersCounted'
  <2>1. received[client] = 0 /\ answered[client] = <<>>
    BY <1>1 DEF AInv, AnswersCounted
  <2>2. Done(client)' = 0
    BY <1>1, <2>1 DEF Done
  <2>3. Answerable(client, Done(client))' = {}
    BY <2>2 DEF Answerable
  <2>4. Len(answered'[client']) = Cardinality(Answerable(client, Done(client)))'
    BY <1>1, <2>1, <2>3, FS_EmptySet
  <2>5. QED
    BY <1>1, <2>4 DEF AInv, AnswersCounted
<1>8. QED
  BY <1>3, <1>5, <1>6, <1>7 DEF AInv

LEMMA NoMoreLinesAnswers == IInv /\ AInv /\ NoMoreLines => AInv'
<1> SUFFICES ASSUME IInv, AInv, NoMoreLines PROVE AInv'
  OBVIOUS
<1>1. /\ at = "line" /\ at' = "handle" /\ pending = <<>>
      /\ UNCHANGED <<sent, socket, client, received, pending, answer, answered, executed, commands>>
  BY DEF NoMoreLines, kernelVars, serverVars
<1>2. LineTypes' /\ Accepted' = Accepted
  BY <1>1 DEF AInv, LineTypes, Accepted
<1>3. ASSUME NEW c \in Clients
      PROVE  Done(c)' = Done(c) /\ Done(c) \in Nat
  <2>1. received[c] \in Nat /\ Len(pending) = 0
    BY <1>1 DEF AInv, LineTypes
  <2>2. QED
    BY <1>1, <2>1 DEF Done
<1>4. TakenInOrder' /\ AnswersTrue'
  BY <1>1, <1>2, <1>3, QueueKept DEF AInv
<1>5. PendingLines'
  BY <1>1 DEF PendingLines
<1>6. AnswersCounted'
  <2>1. client \in Clients
    BY <1>1, ServedIsClient DEF Serving
  <2>2. Answerable(client, Done(client))' = Answerable(client, Done(client))
    BY <1>1, <1>3, <2>1 DEF Answerable
  <2>3. QED
    BY <1>1, <2>2 DEF AInv, AnswersCounted
<1>7. QED
  BY <1>2, <1>4, <1>5, <1>6 DEF AInv

LEMMA ReceiveAnswers == IInv /\ AInv /\ Receive => AInv'
<1> SUFFICES ASSUME IInv, AInv, Receive PROVE AInv'
  OBVIOUS
<1>1. PICK n \in received[client] + 1 .. sent[client] :
        /\ \A i \in received[client] + 1 .. n : KindOf(<<client, i>>) # "huge"
        /\ pending' = [i \in 1..n - received[client] |-> <<client, received[client] + i>>]
        /\ received' = [received EXCEPT ![client] = n]
  BY Zenon DEF Receive
<1>2. /\ at = "recv" /\ at' = "line" /\ socket[client] \in {"open", "shut"}
      /\ UNCHANGED <<sent, socket, client, answer, answered, executed, commands>>
  BY Zenon DEF Receive, kernelVars, serverVars
<1>3. client \in Clients
  BY <1>2, ServedIsClient DEF Serving
<1>4. /\ sent \in [Clients -> Nat] /\ received \in [Clients -> Nat]
      /\ \A c \in Clients : received[c] <= sent[c] /\ sent[c] <= Len(Script[c])
  BY DEF AInv, LineTypes
<1>5. /\ received[client] \in Nat /\ n \in Nat /\ received[client] < n /\ n <= sent[client]
      /\ received' \in [Clients -> Nat] /\ received'[client] = n
      /\ \A c \in Clients : c # client => received'[c] = received[c]
  BY <1>1, <1>3, <1>4
<1>6. /\ pending' \in Seq(Clients \X Nat) /\ Len(pending') = n - received[client]
      /\ DOMAIN pending' = 1..n - received[client]
      /\ \A i \in 1..n - received[client] : pending'[i] = <<client, received[client] + i>>
  BY <1>1, <1>3, <1>5
<1>7. LineTypes' /\ Accepted' = Accepted
  <2>1. \A c \in Clients : received'[c] <= sent[c]
    BY <1>4, <1>5
  <2>2. QED
    BY <1>2, <1>5, <1>6, <2>1 DEF AInv, LineTypes, Accepted
<1>8. ASSUME NEW c \in Clients
      PROVE  Done(c)' = Done(c) /\ Done(c) \in Nat
  <2>1. Done(c) = received[c] /\ received[c] \in Nat
    BY <1>2, <1>4 DEF Done
  <2>2. CASE c = client
    <3>1. Done(c)' = received'[c] - Len(pending')
      BY <1>2, <2>2 DEF Done
    <3>2. QED
      BY <1>5, <1>6, <2>1, <2>2, <3>1
  <2>3. CASE c # client
    BY <1>2, <1>5, <2>1, <2>3 DEF Done
  <2>4. QED
    BY <2>2, <2>3
<1>9. TakenInOrder' /\ AnswersTrue'
  BY <1>2, <1>7, <1>8, QueueKept DEF AInv
<1>10. PendingLines'
  <2>1. Len(pending') <= received'[client]
    BY <1>5, <1>6
  <2>2. ASSUME NEW i \in DOMAIN pending'
        PROVE  /\ pending'[i] = <<client, received'[client] - Len(pending') + i>>
               /\ KindOf(pending'[i]) # "huge"
    <3> DEFINE m == received[client]
    <3>a. m \in Nat /\ n \in Nat /\ i \in 1..n - m /\ received'[client] = n /\ Len(pending') = n - m
      BY <1>5, <1>6
    <3>1. /\ i \in 1..n - received[client] /\ received[client] + i \in received[client] + 1 .. n
          /\ received'[client] - Len(pending') + i = received[client] + i
      <4> HIDE DEF m
      <4>1. /\ i \in 1..n - m /\ m + i \in m + 1 .. n /\ received'[client] - Len(pending') + i = m + i
        BY <3>a
      <4>2. QED
        BY <4>1 DEF m
    <3>2. pending'[i] = <<client, received[client] + i>>
      BY <1>6, <3>1
    <3>3. KindOf(<<client, received[client] + i>>) # "huge"
      BY <1>1, <3>1
    <3>4. QED
      BY <3>1, <3>2, <3>3
  <2>3. QED
    BY <1>2, <2>1, <2>2, Zenon DEF PendingLines, KindOf
<1>11. AnswersCounted'
  <2>1. Answerable(client, Done(client))' = Answerable(client, Done(client))
    BY <1>2, <1>3, <1>8 DEF Answerable
  <2>2. Len(answered'[client']) = Cardinality(Answerable(client, Done(client)))'
    BY <1>2, <2>1 DEF AInv, AnswersCounted
  <2>3. \A c \in Clients : socket'[c] \in {"none", "waiting"} => received'[c] = 0 /\ answered'[c] = <<>>
    <3>1. \A c \in Clients : socket'[c] \in {"none", "waiting"} => received[c] = 0 /\ answered[c] = <<>>
      BY <1>2 DEF AInv, AnswersCounted
    <3>2. \A c \in Clients : socket'[c] \in {"none", "waiting"} => c # client
      BY <1>2
    <3>3. QED
      BY <1>2, <1>5, <3>1, <3>2
  <2>4. QED
    BY <1>2, <2>2, <2>3 DEF AnswersCounted
<1>12. QED
  BY <1>7, <1>9, <1>10, <1>11 DEF AInv

LEMMA ReceiveTooMuchAnswers == IInv /\ AInv /\ ReceiveTooMuch => AInv'
<1> SUFFICES ASSUME IInv, AInv, ReceiveTooMuch PROVE AInv'
  OBVIOUS
<1>a. PICK n : n = received[client] + 1
  OBVIOUS
<1>b. PICK line : line = <<client, n>>
  OBVIOUS
<1>1. /\ at = "recv" /\ at' = "reply" /\ socket[client] \in {"open", "shut"} /\ pending = <<>>
      /\ received[client] < sent[client] /\ KindOf(line) = "huge"
      /\ received' = [received EXCEPT ![client] = n]
      /\ UNCHANGED <<sent, socket, client, pending, answered, executed, commands>>
  BY <1>a, <1>b, Zenon DEF ReceiveTooMuch, kernelVars, serverVars, AInv, PendingLines
<1>c. answer' = "ERR input buffer too large"
  BY Zenon DEF ReceiveTooMuch
<1>2. client \in Clients
  BY <1>1, ServedIsClient DEF Serving
<1>3. /\ sent \in [Clients -> Nat] /\ received \in [Clients -> Nat] /\ Len(pending) = 0
      /\ \A c \in Clients : received[c] <= sent[c] /\ sent[c] <= Len(Script[c])
  BY <1>1 DEF AInv, LineTypes
<1>4. /\ n \in Nat /\ n <= sent[client] /\ received' \in [Clients -> Nat] /\ received'[client] = n
      /\ \A c \in Clients : c # client => received'[c] = received[c]
  BY <1>a, <1>1, <1>2, <1>3
<1>5. LineTypes' /\ Accepted' = Accepted
  <2>1. \A c \in Clients : received'[c] <= sent[c]
    BY <1>3, <1>4
  <2>2. answer' \in Answers
    BY <1>c, Zenon DEF Answers
  <2>3. QED
    BY <1>1, <1>4, <2>1, <2>2 DEF AInv, LineTypes, Accepted
<1>6. Done(client) = received[client] /\ Done(client)' = n
  <2>1. Done(client) = received[client] /\ Done(client)' = n - Len(pending)
    BY <1>1, <1>4 DEF Done
  <2>2. QED
    BY <1>3, <1>4, <2>1
<1>7. \A c \in Clients : Done(c)' \in Nat /\ Done(c) <= Done(c)'
  <2>1. \A c \in Clients : c # client => Done(c) = received[c] /\ Done(c)' = received[c]
    BY <1>1, <1>4 DEF Done
  <2>2. \A c \in Clients : received[c] \in Nat
    BY <1>3
  <2>3. n \in Nat /\ received[client] \in Nat /\ received[client] <= n
    BY <1>a, <1>2, <2>2
  <2>4. ASSUME NEW c \in Clients
        PROVE  Done(c)' \in Nat /\ Done(c) <= Done(c)'
    <3>1. CASE c = client
      <4>1. Done(c) = Done(client) /\ Done(c)' = Done(client)'
        BY <1>1, <3>1 DEF Done
      <4>2. QED
        BY <1>6, <2>3, <4>1
    <3>2. CASE c # client
      BY <2>1, <2>2, <3>2
    <3>3. QED
      BY <3>1, <3>2
  <2>5. QED
    BY <2>4
<1>8. TakenInOrder' /\ AnswersTrue'
  BY <1>1, <1>5, <1>7, QueueKept DEF AInv
<1>9. PendingLines'
  BY <1>1, <1>3, <1>4 DEF PendingLines
<1>10. AnswersCounted'
  <2>1. \A c \in Clients : socket'[c] \in {"none", "waiting"} => received'[c] = 0 /\ answered'[c] = <<>>
    <3>1. \A c \in Clients : socket'[c] \in {"none", "waiting"} => received[c] = 0 /\ answered[c] = <<>>
      BY <1>1 DEF AInv, AnswersCounted
    <3>2. \A c \in Clients : socket'[c] \in {"none", "waiting"} => c # client
      BY <1>1
    <3>3. QED
      BY <1>1, <1>4, <3>1, <3>2
  <2>2. KindOf(line) # "empty" /\ Tells(answer, line)'
    BY <1>1, <1>c, Zenon DEF Tells, KindOf
  <2>3. Done(client)' = Done(client) + 1 /\ line = <<client, Done(client) + 1>>
    BY <1>a, <1>b, <1>6
  <2>4. QED
    BY <1>1, <1>2, <2>1, <2>2, <2>3, OneMoreDone
<1>11. QED
  BY <1>5, <1>8, <1>9, <1>10 DEF AInv

LEMMA HandleLineAnswers == IInv /\ AInv /\ HandleLine => AInv'
<1> SUFFICES ASSUME IInv, AInv, HandleLine PROVE AInv'
  OBVIOUS
<1> DEFINE line == Head(pending)
<1>1. /\ at = "line" /\ pending # <<>> /\ pending' = Tail(pending)
      /\ UNCHANGED <<sent, socket, client, received, answered, executed, commands>>
      /\ \/ at' = "line" /\ KindOf(line) = "empty"
         \/ at' = "reply" /\ KindOf(line) = "status" /\ answer' = "OK"
      /\ answer' = answer \/ answer' = "OK"
  BY Zenon DEF HandleLine, kernelVars, serverVars
<1>2. client \in Clients
  BY <1>1, ServedIsClient DEF Serving
<1>3. /\ line = <<client, Done(client) + 1>> /\ Done(client)' = Done(client) + 1
      /\ \A c \in Clients : Done(c)' \in Nat /\ Done(c) <= Done(c)'
      /\ pending' \in Seq(Clients \X Nat) /\ PendingLines'
  BY <1>1, <1>2, LineTaken
<1>4. LineTypes' /\ Accepted' = Accepted
  <2>1. answer' \in Answers
    BY <1>1, Zenon DEF AInv, LineTypes, Answers
  <2>2. QED
    BY <1>1, <1>3, <2>1 DEF AInv, LineTypes, Accepted
<1>5. TakenInOrder' /\ AnswersTrue'
  BY <1>1, <1>3, <1>4, QueueKept DEF AInv
<1>6. AnswersCounted'
  <2>1. \A c \in Clients : socket'[c] \in {"none", "waiting"} => received'[c] = 0 /\ answered'[c] = <<>>
    BY <1>1 DEF AInv, AnswersCounted
  <2> HIDE DEF line
  <2>2. \/ at' = "line" /\ KindOf(line) = "empty"
        \/ at' = "reply" /\ KindOf(line) # "empty" /\ \A l : l = line => Tells(answer, l)'
    BY <1>1, Zenon DEF Tells, KindOf
  <2>3. PICK l : l = line
    OBVIOUS
  <2>4. l = <<client, Done(client) + 1>>
        /\ \/ at' = "line" /\ KindOf(l) = "empty"
           \/ at' = "reply" /\ KindOf(l) # "empty" /\ Tells(answer, l)'
    BY <1>3, <2>2, <2>3, Zenon
  <2>5. QED
    BY <1>1, <1>2, <1>3, <2>1, <2>4, OneMoreDone
<1>7. QED
  BY <1>3, <1>4, <1>5, <1>6 DEF AInv

LEMMA QueueCommandAnswers == IInv /\ AInv /\ QueueCommand => AInv'
<1> SUFFICES ASSUME IInv, AInv, QueueCommand PROVE AInv'
  OBVIOUS
<1>a. PICK line : line = Head(pending)
  OBVIOUS
<1>1. /\ at = "line" /\ at' = "reply" /\ pending # <<>> /\ pending' = Tail(pending)
      /\ UNCHANGED <<sent, socket, client, received, answered, executed>>
  BY Zenon DEF QueueCommand, kernelVars
<1>2. /\ KindOf(line) \in {"command", "quit"}
      /\ \/ commands' = Append(commands, line) /\ answer' = "OK queued"
         \/ commands' = commands /\ answer' = "ERR command queue full"
  BY <1>a, Zenon DEF QueueCommand
<1>3. commands' = Append(commands, line) \/ commands' = commands
  BY <1>2, Zenon
<1>4. client \in Clients
  BY <1>1, ServedIsClient DEF Serving
<1>5. /\ line = <<client, Done(client) + 1>> /\ Done(client)' = Done(client) + 1
      /\ Done(client) \in Nat
      /\ \A c \in Clients : Done(c) \in Nat /\ Done(c)' \in Nat /\ Done(c) <= Done(c)'
      /\ pending' \in Seq(Clients \X Nat) /\ PendingLines'
  BY <1>a, <1>1, <1>4, LineTaken
<1>6. line \in Clients \X Nat
  BY <1>4, <1>5
<1>7. LineTypes'
  <2>1. commands' \in Seq(Clients \X Nat)
    <3>1. commands \in Seq(Clients \X Nat)
      BY DEF AInv, LineTypes
    <3>2. Append(commands, line) \in Seq(Clients \X Nat)
      BY <1>6, <3>1
    <3>3. QED
      BY <1>3, <3>1, <3>2, Zenon
  <2>2. answer' \in Answers
    BY <1>2, Zenon DEF Answers
  <2>3. QED
    BY <1>1, <1>5, <2>1, <2>2 DEF AInv, LineTypes
<1>8. Accepted \in Seq(Clients \X Nat) /\ Len(Accepted) \in Nat /\ DOMAIN Accepted = 1..Len(Accepted)
  BY AcceptedType DEF AInv
<1>9. Accepted' = Accepted \/ Accepted' = Append(Accepted, line)
  <2>1. CASE commands' = commands
    BY <1>1, <2>1 DEF Accepted
  <2>2. CASE commands' = Append(commands, line)
    <3>1. executed \in Seq(Clients \X Nat) /\ commands \in Seq(Clients \X Nat)
      BY DEF AInv, LineTypes
    <3>2. executed \o Append(commands, line) = Append(executed \o commands, line)
      BY <1>6, <3>1, AppendToJoined
    <3>3. QED
      BY <1>1, <2>2, <3>2 DEF Accepted
  <2>3. QED
    BY <1>3, <2>1, <2>2
<1>10. \A j \in DOMAIN Accepted :
         /\ Accepted[j] \in Clients \X Nat
         /\ Accepted[j][2] \in 1..Done(Accepted[j][1])
  BY <1>8 DEF AInv, TakenInOrder
<1>11. \A j \in DOMAIN Accepted : Accepted[j] # line
  <2>1. SUFFICES ASSUME NEW j \in DOMAIN Accepted, Accepted[j] = line PROVE FALSE
    OBVIOUS
  <2>2. Done(client) + 1 \in 1..Done(client)
    BY <1>5, <1>10, <2>1
  <2>3. QED
    BY <1>5, <2>2
<1>12. \A l : l # line => (Queued(l)' <=> Queued(l))
  <2>1. CASE Accepted' = Accepted
    BY <2>1 DEF Queued
  <2>2. CASE Accepted' = Append(Accepted, line)
    <3>1. /\ DOMAIN Accepted' = 1..(Len(Accepted) + 1)
          /\ \A j \in DOMAIN Accepted : Accepted'[j] = Accepted[j]
          /\ Accepted'[Len(Accepted) + 1] = line
      BY <1>6, <1>8, <2>2
    <3>2. \A j \in DOMAIN Accepted' : j \in DOMAIN Accepted \/ j = Len(Accepted) + 1
      BY <1>8, <3>1
    <3>3. \A j \in DOMAIN Accepted : j \in DOMAIN Accepted'
      BY <1>8, <3>1
    <3>4. QED
      BY <3>1, <3>2, <3>3 DEF Queued
  <2>3. QED
    BY <1>9, <2>1, <2>2
<1>13. AnswersTrue'
  <2>1. \A c \in Clients : \A i \in 1..Done(c) : <<c, i>> # line
    BY <1>5
  <2>2. \A c \in Clients : \A i \in 1..Done(c) : Queued(<<c, i>>)' <=> Queued(<<c, i>>)
    BY <1>12, <2>1
  <2>3. QED
    BY <1>1, <1>5, <2>2, TruthKept DEF AInv
<1>14. TakenInOrder'
  <2>1. CASE Accepted' = Accepted
    BY <1>1, <1>5, <2>1, QueueKept DEF AInv
  <2>2. CASE Accepted' = Append(Accepted, line)
    <3>1. /\ DOMAIN Accepted' = 1..(Len(Accepted) + 1)
          /\ \A j \in 1..Len(Accepted) : Accepted'[j] = Accepted[j]
          /\ Accepted'[Len(Accepted) + 1] = line
      BY <1>6, <1>8, <2>2
    <3>2. ASSUME NEW j \in DOMAIN Accepted', NEW c \in Clients, c = Accepted'[j][1]
          PROVE  Accepted'[j][2] \in 1..Done(c)'
      <4>1. CASE j \in 1..Len(Accepted)
        <5>1. Accepted'[j] = Accepted[j] /\ Accepted[j][2] \in 1..Done(Accepted[j][1])
          BY <1>8, <1>10, <3>1, <4>1
        <5>2. c = Accepted[j][1]
          BY <3>2, <5>1
        <5>3. Done(c) \in Nat /\ Done(c)' \in Nat /\ Done(c) <= Done(c)'
              /\ Accepted[j][2] \in 1..Done(c)
          BY <1>5, <5>1, <5>2
        <5>4. QED
          BY <5>1, <5>3
      <4>2. CASE j = Len(Accepted) + 1
        <5>1. Accepted'[j] = line /\ c = client /\ Accepted'[j][2] = Done(client) + 1
          BY <1>5, <3>1, <3>2, <4>2
        <5>2. Done(c)' = Done(client)'
          BY <1>1, <5>1
        <5>3. QED
          BY <1>5, <5>1, <5>2
      <4>3. QED
        BY <1>8, <3>1, <4>1, <4>2
    <3>a. \A j \in DOMAIN Accepted' : Accepted'[j][1] \in Clients
      <4>1. \A j \in 1..Len(Accepted) : Accepted'[j][1] \in Clients
        BY <1>8, <1>10, <3>1
      <4>2. Accepted'[Len(Accepted) + 1][1] \in Clients
        BY <1>6, <3>1
      <4>3. \A j \in 1..(Len(Accepted) + 1) : j \in 1..Len(Accepted) \/ j = Len(Accepted) + 1
        BY <1>8
      <4>4. QED
        BY <3>1, <4>1, <4>2, <4>3
    <3>3. InOrder'
      <4>1. SUFFICES ASSUME NEW i \in 1..(Len(Accepted) + 1), NEW j \in 1..(Len(Accepted) + 1),
                            i < j, Accepted'[i][1] = Accepted'[j][1]
                     PROVE  Accepted'[i][2] < Accepted'[j][2]
        BY <3>1 DEF InOrder
      <4>2. i \in 1..Len(Accepted)
        BY <1>8, <4>1
      <4>3. CASE j \in 1..Len(Accepted)
        BY <1>8, <3>1, <4>1, <4>2, <4>3 DEF AInv, TakenInOrder, InOrder
      <4>4. CASE j = Len(Accepted) + 1
        <5>1. Accepted'[i] = Accepted[i] /\ Accepted'[j] = line
          BY <3>1, <4>2, <4>4
        <5>2. line[1] = client /\ line[2] = Done(client) + 1
          BY <1>5
        <5>3. Accepted[i][1] = client
          BY <4>1, <5>1, <5>2
        <5>4. Accepted[i][2] \in 1..Done(client)
          BY <1>8, <1>10, <4>2, <5>3
        <5>5. QED
          BY <1>5, <5>1, <5>2, <5>4
      <4>5. QED
        BY <1>8, <4>3, <4>4
    <3>4. QED
      <4>1. \A j \in DOMAIN Accepted' : (Accepted[j][2] \in 1..Done(Accepted[j][1]))'
        <5>1. SUFFICES ASSUME NEW j \in DOMAIN Accepted' PROVE (Accepted[j][2] \in 1..Done(Accepted[j][1]))'
          OBVIOUS
        <5>2. PICK c \in Clients : c = Accepted'[j][1]
          BY <3>a
        <5>3. QED
          BY <3>2, <5>2
      <4>2. QED
        BY <3>3, <4>1 DEF TakenInOrder
  <2>3. QED
    BY <1>9, <2>1, <2>2
<1>15. AnswersCounted'
  <2>1. \A c \in Clients : socket'[c] \in {"none", "waiting"} => received'[c] = 0 /\ answered'[c] = <<>>
    BY <1>1 DEF AInv, AnswersCounted
  <2>2. KindOf(line) # "empty" /\ Tells(answer, line)'
    <3>1. CASE commands' = Append(commands, line) /\ answer' = "OK queued"
      <4>1. executed \in Seq(Clients \X Nat) /\ commands \in Seq(Clients \X Nat)
        BY DEF AInv, LineTypes
      <4>2. Accepted' = Append(Accepted, line)
        <5>1. commands' = Append(commands, line)
          BY <3>1, Zenon
        <5>2. executed \o Append(commands, line) = Append(executed \o commands, line)
          BY <1>6, <4>1, AppendToJoined
        <5>3. QED
          BY <1>1, <5>1, <5>2, Zenon DEF Accepted
      <4>3. Len(Accepted) + 1 \in DOMAIN Accepted' /\ Accepted'[Len(Accepted) + 1] = line
        BY <1>6, <1>8, <4>2
      <4>4. Queued(line)'
        BY <4>3 DEF Queued
      <4>5. QED
        BY <1>2, <3>1, <4>4, Zenon DEF Tells, KindOf
    <3>2. CASE commands' = commands /\ answer' = "ERR command queue full"
      <4>1. Accepted' = Accepted
        BY <1>1, <3>2, Zenon DEF Accepted
      <4>2. ~Queued(line)'
        BY <1>11, <4>1 DEF Queued
      <4>3. QED
        BY <1>2, <3>2, <4>2, Zenon DEF Tells, KindOf
    <3>3. QED
      BY <1>2, <3>1, <3>2, Zenon
  <2>3. QED
    BY <1>1, <1>4, <1>5, <2>1, <2>2, OneMoreDone
<1>16. QED
  BY <1>5, <1>7, <1>13, <1>14, <1>15 DEF AInv

LEMMA ReplyAnswers == IInv /\ AInv /\ Reply => AInv'
<1> SUFFICES ASSUME IInv, AInv, Reply PROVE AInv'
  OBVIOUS
<1>1. /\ at = "reply" /\ at' \in {"line", "leave"} /\ socket[client] = "open"
      /\ answered' = [answered EXCEPT ![client] = Append(@, answer)]
      /\ UNCHANGED <<sent, socket, client, received, pending, executed, commands>>
  BY Zenon DEF Reply, serverVars
<1>2. client \in Clients
  BY <1>1, ServedIsClient DEF Serving
<1>3. answered \in [Clients -> Seq(Answers)] /\ answered[client] \in Seq(Answers)
  BY <1>2 DEF AInv, LineTypes
<1>4. PICK d : d = Done(client)
  OBVIOUS
<1>5. /\ d \in Nat /\ d \in Answerable(client, d) /\ Tells(answer, <<client, d>>)
      /\ Len(answered[client]) + 1 = Cardinality(Answerable(client, d))
  <2>1. d \in Nat
    BY <1>2, <1>4, DoneType DEF AInv
  <2>2. QED
    BY <1>1, <1>4, <2>1, Zenon DEF AInv, AnswersCounted
<1>6. answer \in Answers /\ answer' \in Answers
  <2>1. answer' = "none"
    BY Zenon DEF Reply
  <2>2. QED
    BY <2>1, Zenon DEF AInv, LineTypes, Answers
<1>7. /\ answered' \in [Clients -> Seq(Answers)]
      /\ answered'[client] = Append(answered[client], answer)
      /\ \A c \in Clients : c # client => answered'[c] = answered[c]
  BY <1>1, <1>2, <1>3, <1>6
<1>8. LineTypes' /\ Accepted' = Accepted
  BY <1>1, <1>6, <1>7 DEF AInv, LineTypes, Accepted
<1>9. ASSUME NEW c \in Clients
      PROVE  /\ Done(c) \in Nat /\ Done(c)' \in Nat /\ Done(c) <= Done(c)'
             /\ at' = "line" => Done(c)' = Done(c)
  <2>1. Done(c) \in Nat /\ Done(c) <= received[c] /\ received[c] \in Nat
    BY DoneType DEF AInv, LineTypes
  <2>2. CASE at' = "line"
    <3>1. Done(c)' = Done(c)
      BY <1>1, <2>2 DEF Done
    <3>2. QED
      BY <2>1, <3>1
  <2>3. CASE at' = "leave"
    <3>1. Done(c)' = received[c]
      BY <1>1, <2>3 DEF Done
    <3>2. QED
      BY <2>1, <2>3, <3>1
  <2>4. QED
    BY <1>1, <2>2, <2>3
<1>10. \A l : Queued(l)' <=> Queued(l)
  BY <1>8 DEF Queued
<1>11. AnswersTrue'
  <2>1. SUFFICES ASSUME NEW c \in Clients, NEW k \in DOMAIN answered'[c]
                 PROVE  \E i \in Answerable(c, Done(c)') :
                          /\ Cardinality(Answerable(c, i)) = k
                          /\ Tells(answered[c][k], <<c, i>>)'
    BY DEF AnswersTrue
  <2>2. CASE k \in DOMAIN answered[c] /\ answered'[c][k] = answered[c][k]
    <3>1. PICK i \in Answerable(c, Done(c)) :
            Cardinality(Answerable(c, i)) = k /\ Tells(answered[c][k], <<c, i>>)
      BY <2>2 DEF AInv, AnswersTrue
    <3>2. i \in Answerable(c, Done(c)')
      BY <1>9 DEF Answerable
    <3>3. Tells(answered[c][k], <<c, i>>)'
      BY <1>10, <2>2, <3>1, Zenon DEF Tells, KindOf
    <3>4. QED
      BY <3>1, <3>2, <3>3
  <2>3. CASE c = client /\ k = Len(answered[client]) + 1 /\ answered'[c][k] = answer
    <3>1. Done(c) = d /\ d <= Done(c)'
      BY <1>4, <1>9, <2>3
    <3>2. d \in Answerable(c, Done(c)')
      BY <1>5, <1>9, <2>3, <3>1 DEF Answerable
    <3>3. Tells(answered[c][k], <<c, d>>)'
      BY <1>5, <1>10, <2>3, Zenon DEF Tells, KindOf
    <3>4. QED
      BY <1>5, <2>3, <3>2, <3>3
  <2>4. QED
    <3>1. CASE c # client
      BY <1>7, <2>2, <3>1
    <3>2. CASE c = client
      <4> DEFINE a == answered[c]
      <4>a. a \in Seq(Answers) /\ answered'[c] = Append(a, answer)
        BY <1>3, <1>7, <3>2
      <4>1. /\ DOMAIN answered'[c] = 1..(Len(a) + 1) /\ DOMAIN a = 1..Len(a)
            /\ \A j \in 1..Len(a) : answered'[c][j] = a[j]
            /\ answered'[c][Len(a) + 1] = answer
            /\ Len(a) \in Nat
        <5>1. answer \in Answers
          BY <1>6
        <5> HIDE DEF a
        <5>2. QED
          BY <4>a, <5>1
      <4>2. k \in 1..Len(answered[c]) \/ k = Len(answered[c]) + 1
        BY <4>1
      <4>3. QED
        BY <2>2, <2>3, <3>2, <4>1, <4>2
    <3>3. QED
      BY <3>1, <3>2
<1>12. TakenInOrder'
  <2>1. InOrder'
    BY <1>8 DEF AInv, TakenInOrder, InOrder
  <2>2. ASSUME NEW j \in DOMAIN Accepted
        PROVE  Accepted[j][2] \in 1..Done(Accepted[j][1])'
    <3>1. Accepted[j][1] \in Clients /\ Accepted[j][2] \in 1..Done(Accepted[j][1])
      BY AcceptedType DEF AInv, TakenInOrder
    <3>2. PICK c \in Clients : c = Accepted[j][1]
      BY <3>1
    <3>3. Accepted[j][2] \in 1..Done(c)'
      BY <1>9, <3>1, <3>2
    <3>4. Done(Accepted[j][1])' = Done(c)'
      BY <1>8, <3>2
    <3>5. QED
      BY <3>3, <3>4
  <2>3. \A j \in DOMAIN Accepted' : (Accepted[j][2] \in 1..Done(Accepted[j][1]))'
    BY <1>8, <2>2
  <2>4. QED
    BY <2>1, <2>3 DEF TakenInOrder
<1>13. PendingLines'
  BY <1>1 DEF AInv, PendingLines, KindOf
<1>14. AnswersCounted'
  <2>1. \A c \in Clients : socket'[c] \in {"none", "waiting"} => received'[c] = 0 /\ answered'[c] = <<>>
    <3>1. \A c \in Clients : socket'[c] \in {"none", "waiting"} => received[c] = 0 /\ answered[c] = <<>>
      BY <1>1 DEF AInv, AnswersCounted
    <3>2. \A c \in Clients : socket'[c] \in {"none", "waiting"} => c # client
      BY <1>1
    <3>3. QED
      BY <1>1, <1>7, <3>1, <3>2
  <2>2. ASSUME at' = "line"
        PROVE  Len(answered'[client']) = Cardinality(Answerable(client, Done(client)))'
    <3>1. Answerable(client, Done(client))' = Answerable(client, d)
      BY <1>1, <1>2, <1>4, <1>9, <2>2 DEF Answerable
    <3>2. Len(answered'[client]) = Len(answered[client]) + 1
      BY <1>3, <1>6, <1>7
    <3>3. QED
      BY <1>1, <1>5, <3>1, <3>2
  <2>3. QED
    BY <1>1, <2>1, <2>2 DEF AnswersCounted
<1>15. QED
  BY <1>8, <1>11, <1>12, <1>13, <1>14 DEF AInv

LEMMA AnswersInit == Init => AInv
<1> SUFFICES ASSUME Init PROVE AInv
  OBVIOUS
<1>1. /\ answer = "none" /\ sent = [c \in Clients |-> 0] /\ received = [c \in Clients |-> 0]
      /\ answered = [c \in Clients |-> <<>>] /\ executed = <<>> /\ commands = <<>> /\ pending = <<>>
      /\ at = "none"
  BY Zenon DEF Init
<1>2. \A c \in Clients : Len(Script[c]) \in Nat
  BY ControlServerAssumption
<1>3. LineTypes
  <2>1. answer \in Answers
    BY <1>1, Zenon DEF Answers
  <2>2. \A c \in Clients : received[c] <= sent[c] /\ sent[c] <= Len(Script[c])
    BY <1>1, <1>2
  <2>3. QED
    BY <1>1, <2>1, <2>2 DEF LineTypes
<1>4. Accepted = <<>>
  BY <1>1 DEF Accepted
<1>5. PendingLines /\ TakenInOrder /\ AnswersCounted /\ AnswersTrue
  BY <1>1, <1>4 DEF PendingLines, TakenInOrder, InOrder, AnswersCounted, AnswersTrue
<1>6. QED
  BY <1>3, <1>5 DEF AInv

LEMMA AnswersStep == IInv /\ AInv /\ [Next]_vars => AInv'
<1> SUFFICES ASSUME IInv, AInv, [Next]_vars PROVE AInv'
  OBVIOUS
<1>1. CASE \E c \in Clients : Connect(c) \/ Send(c) \/ ReadReply(c) \/ HangUp(c)
  BY <1>1, ClientsAnswers
<1>2. CASE Main
  BY <1>2, MainAnswers
<1>3. CASE Thread
  BY <1>3, QuietThreadAnswers, AcceptAnswers, PublishAnswers, NoMoreLinesAnswers, ReceiveAnswers,
     ReceiveTooMuchAnswers, HandleLineAnswers, QueueCommandAnswers, ReplyAnswers DEF Thread
<1>4. CASE UNCHANGED vars
  <2>1. /\ UNCHANGED <<sent, socket, client, received, pending, answer, answered, executed, commands>>
        /\ at' = at
    BY <1>4 DEF vars, kernelVars, serverVars, threadVars
  <2>2. LineTypes' /\ Accepted' = Accepted
    BY <2>1 DEF AInv, LineTypes, Accepted
  <2>3. QED
    BY <2>1, <2>2, FrameStep
<1>5. QED
  BY <1>1, <1>2, <1>3, <1>4 DEF Next

LEMMA AnswersMatch == AInv => AnswersMatchLines
<1> SUFFICES ASSUME AInv PROVE AnswersMatchLines
  OBVIOUS
<1>1. ASSUME NEW c \in Clients, NEW k \in DOMAIN answered[c]
      PROVE  Tells(answered[c][k], <<c, LineOfAnswer(c, k)>>)
  <2>1. PICK i \in Answerable(c, Done(c)) :
          Cardinality(Answerable(c, i)) = k /\ Tells(answered[c][k], <<c, i>>)
    BY DEF AInv, AnswersTrue
  <2>2. Done(c) \in Nat /\ Len(Script[c]) \in Nat /\ Done(c) <= Len(Script[c])
    <3>1. received[c] \in Nat /\ Len(Script[c]) \in Nat
      BY ControlServerAssumption DEF AInv, LineTypes
    <3>2. Done(c) \in Nat /\ Done(c) <= received[c] /\ received[c] <= Len(Script[c])
      BY DoneType DEF AInv
    <3>3. QED
      BY <3>1, <3>2
  <2>3. i \in Answerable(c, Len(Script[c]))
    BY <2>2 DEF Answerable
  <2>4. LineOfAnswer(c, k) = i
    BY <2>1, <2>3, AnswerFound
  <2>5. QED
    BY <2>1, <2>4
<1>2. InOrder
  BY DEF AInv, TakenInOrder
<1>3. QED
  BY <1>1, <1>2, Zenon DEF AnswersMatchLines, Tells, Queued

\* A client that reads one answer for each line reads the answer to that line, whatever other
\* clients send and while the main loop takes the queue (control_server.cpp:156-182).
THEOREM AnswersTold == Spec => []AnswersMatchLines
<1>1. Init => IInv /\ AInv
  BY InitInv, AnswersInit
<1>2. IInv /\ AInv /\ [Next]_vars => IInv' /\ AInv'
  BY StepInv, AnswersStep
<1>3. IInv /\ AInv => AnswersMatchLines
  BY AnswersMatch
<1>4. QED
  BY <1>1, <1>2, <1>3, PTL DEF Spec
=============================================================================
