--------------------------- MODULE ControlServer ---------------------------
(* The live control socket of the simulator (src/verilator/control_server.cpp)*)
(* and the part of the main loop that uses it: a thread that accepts one      *)
(* client at a time, reads its lines, answers them and queues the commands;   *)
(* the main loop, which takes the queue when it polls; and stop(), which      *)
(* takes the sockets away from the thread and waits for it to end.            *)
(* A line is <<client, index>>: the index-th line of Script[client].          *)
EXTENDS Naturals, Sequences, FiniteSets

CONSTANTS Clients,              \* the programs that connect
          Script,               \* Script[c]: the kinds of the lines c would send
          MAX_QUEUED_COMMANDS,
          Window,               \* replies a connection holds before send() blocks
          NoFd, Listener        \* -1, and the listening socket

Kinds == {"command", "quit", "status", "empty", "huge"}

ASSUME ControlServerAssumption ==
  /\ Script \in [Clients -> Seq(Kinds)]
  /\ MAX_QUEUED_COMMANDS \in Nat \ {0} /\ Window \in Nat \ {0}
  /\ NoFd \notin Clients /\ Listener \notin Clients /\ NoFd # Listener

VARIABLES
  sent, gone,        \* per client: lines it has sent; it has hung up
  unread,            \* per client: replies it has not read
  backlog,           \* connections the kernel holds for accept()
  socket,            \* per client and for Listener: the server's end
  closes,            \* and how often it was closed
  stopping, listen_fd, client_fd, commands,     \* the members of ControlServer
  at, client, received, pending, answer,        \* the thread: where it is, its locals
  main_at, returning, taken,                    \* the main program: the same
  answered,          \* per client: the answers to its lines so far
  executed           \* the commands the main loop has run

kernelVars == <<sent, gone, unread, backlog, socket, closes>>
serverVars == <<stopping, listen_fd, client_fd, commands>>
threadVars == <<at, client, received, pending, answer>>
mainVars == <<main_at, returning, taken>>
vars == <<kernelVars, serverVars, threadVars, mainVars, answered, executed>>

KindOf(line) == Script[line[1]][line[2]]

Init ==
  /\ sent = [c \in Clients |-> 0] /\ gone = [c \in Clients |-> FALSE]
  /\ unread = [c \in Clients |-> 0] /\ backlog = <<>>
  /\ socket = [s \in Clients \cup {Listener} |-> "none"]
  /\ closes = [s \in Clients \cup {Listener} |-> 0]
  /\ stopping = FALSE /\ listen_fd = NoFd /\ client_fd = NoFd /\ commands = <<>>
  /\ at = "none" /\ client = NoFd /\ pending = <<>> /\ answer = "none"
  /\ received = [c \in Clients |-> 0]
  /\ main_at = "start" /\ returning = FALSE /\ taken = NoFd
  /\ answered = [c \in Clients |-> <<>>] /\ executed = <<>>

Close(s) == /\ socket' = [socket EXCEPT ![s] = "closed"]
            /\ closes' = [closes EXCEPT ![s] = @ + 1]

-----------------------------------------------------------------------------
(* The clients.                                                              *)

Connect(c) ==
  /\ socket[c] = "none" /\ socket[Listener] = "open" /\ ~gone[c]
  /\ socket' = [socket EXCEPT ![c] = "waiting"] /\ backlog' = Append(backlog, c)
  /\ UNCHANGED <<sent, gone, unread, closes, serverVars, threadVars, mainVars, answered, executed>>

Send(c) ==
  /\ socket[c] \in {"waiting", "open"} /\ ~gone[c] /\ sent[c] < Len(Script[c])
  /\ sent' = [sent EXCEPT ![c] = @ + 1]
  /\ UNCHANGED <<gone, unread, backlog, socket, closes,
                 serverVars, threadVars, mainVars, answered, executed>>

ReadReply(c) ==
  /\ unread[c] > 0
  /\ unread' = [unread EXCEPT ![c] = @ - 1]
  /\ UNCHANGED <<sent, gone, backlog, socket, closes,
                 serverVars, threadVars, mainVars, answered, executed>>

HangUp(c) ==
  /\ socket[c] # "none" /\ ~gone[c]
  /\ gone' = [gone EXCEPT ![c] = TRUE]
  /\ UNCHANGED <<sent, unread, backlog, socket, closes,
                 serverVars, threadVars, mainVars, answered, executed>>

-----------------------------------------------------------------------------
(* The thread: run() and handle_client().                                    *)

\* while (!stopping_)
RunLoop ==
  /\ at = "run" /\ at' = IF stopping THEN "exit" ELSE "load"
  /\ UNCHANGED <<kernelVars, serverVars, client, received, pending, answer, mainVars, answered,
                 executed>>

LoadListener ==
  /\ at = "load" /\ at' = IF listen_fd = NoFd THEN "exit" ELSE "accept"
  /\ UNCHANGED <<kernelVars, serverVars, client, received, pending, answer, mainVars, answered,
                 executed>>

Accept ==
  /\ at = "accept" /\ socket[Listener] = "open" /\ backlog # <<>>
  /\ client' = Head(backlog) /\ backlog' = Tail(backlog)
  /\ socket' = [socket EXCEPT ![Head(backlog)] = "open"] /\ at' = "accepted"
  /\ UNCHANGED <<sent, gone, unread, closes, serverVars, received, pending, answer, mainVars,
                 answered, executed>>

AcceptFails ==
  /\ at = "accept" /\ socket[Listener] # "open"
  /\ at' = IF stopping THEN "exit" ELSE "run"
  /\ UNCHANGED <<kernelVars, serverVars, client, received, pending, answer, mainVars, answered,
                 executed>>

\* client_fd_ = client
Publish ==
  /\ at = "accepted" /\ at' = "handle" /\ client_fd' = client /\ pending' = <<>>
  /\ UNCHANGED <<kernelVars, stopping, listen_fd, commands, client, received, answer, mainVars,
                 answered, executed>>

\* Mutant: The thread waits for the client before it looks at stopping_.
HandleLoop_NoCheck ==
  /\ at = "handle" /\ at' = "recv"
  /\ UNCHANGED <<kernelVars, serverVars, client, received, pending, answer, mainVars, answered,
                 executed>>

HandleLoop ==
  /\ at = "handle" /\ at' = IF stopping THEN "leave" ELSE "recv"
  /\ UNCHANGED <<kernelVars, serverVars, client, received, pending, answer, mainVars, answered,
                 executed>>

\* recv() gives the next lines of the client; one that is too large for the buffer
\* comes alone, since what was complete before it has been handled by then.
Receive ==
  /\ at = "recv" /\ socket[client] \in {"open", "shut"}
  /\ \E n \in received[client] + 1 .. sent[client] :
       /\ \A i \in received[client] + 1 .. n : KindOf(<<client, i>>) # "huge"
       /\ pending' = [i \in 1..n - received[client] |-> <<client, received[client] + i>>]
       /\ received' = [received EXCEPT ![client] = n]
  /\ at' = "line"
  /\ UNCHANGED <<kernelVars, serverVars, client, answer, mainVars, answered, executed>>

ReceiveTooMuch ==
  /\ at = "recv" /\ socket[client] \in {"open", "shut"}
  /\ received[client] < sent[client] /\ KindOf(<<client, received[client] + 1>>) = "huge"
  /\ received' = [received EXCEPT ![client] = @ + 1]
  /\ answer' = "ERR input buffer too large" /\ at' = "reply"
  /\ UNCHANGED <<kernelVars, serverVars, client, pending, mainVars, answered, executed>>

\* The client has hung up, or stop() has taken the socket away.
ReceiveEnds ==
  /\ at = "recv" /\ (gone[client] \/ socket[client] # "open") /\ at' = "leave"
  /\ UNCHANGED <<kernelVars, serverVars, client, received, pending, answer, mainVars, answered,
                 executed>>

NoMoreLines ==
  /\ at = "line" /\ pending = <<>> /\ at' = "handle"
  /\ UNCHANGED <<kernelVars, serverVars, client, received, pending, answer, mainVars, answered,
                 executed>>

\* An empty line is passed over, status and help are answered at once.
HandleLine ==
  /\ at = "line" /\ pending # <<>> /\ pending' = Tail(pending)
  /\ \/ /\ KindOf(Head(pending)) = "empty" /\ UNCHANGED <<at, answer>>
     \/ /\ KindOf(Head(pending)) = "status" /\ answer' = "OK" /\ at' = "reply"
  /\ UNCHANGED <<kernelVars, serverVars, client, received, mainVars, answered, executed>>

\* Mutant: The answer does not depend on the room in the queue.
QueueCommand_AlwaysOk ==
  /\ at = "line" /\ pending # <<>> /\ KindOf(Head(pending)) \in {"command", "quit"}
  /\ pending' = Tail(pending) /\ at' = "reply" /\ answer' = "OK queued"
  /\ commands' = IF Len(commands) < MAX_QUEUED_COMMANDS THEN Append(commands, Head(pending))
                  ELSE commands
  /\ UNCHANGED <<kernelVars, stopping, listen_fd, client_fd, client, received, mainVars, answered,
                 executed>>

\* Under commands_mutex_.
QueueCommand ==
  /\ at = "line" /\ pending # <<>> /\ KindOf(Head(pending)) \in {"command", "quit"}
  /\ pending' = Tail(pending) /\ at' = "reply"
  /\ \/ /\ Len(commands) < MAX_QUEUED_COMMANDS
        /\ commands' = Append(commands, Head(pending)) /\ answer' = "OK queued"
     \/ /\ Len(commands) >= MAX_QUEUED_COMMANDS
        /\ answer' = "ERR command queue full" /\ UNCHANGED commands
  /\ UNCHANGED <<kernelVars, stopping, listen_fd, client_fd, client, received, mainVars, answered,
                 executed>>

\* send_all() returns: with the reply under way, or lost with a client that has gone.
\* After an answer to too much input the client is left.
Reply ==
  /\ at = "reply" /\ socket[client] = "open" /\ (gone[client] \/ unread[client] < Window)
  /\ unread' = IF gone[client] THEN unread ELSE [unread EXCEPT ![client] = @ + 1]
  /\ answered' = [answered EXCEPT ![client] = Append(@, answer)] /\ answer' = "none"
  /\ at' = IF answer = "ERR input buffer too large" THEN "leave" ELSE "line"
  /\ UNCHANGED <<sent, gone, backlog, socket, closes, serverVars, client, received, pending,
                 mainVars, executed>>

ReplyFails ==
  /\ at = "reply" /\ (gone[client] \/ socket[client] # "open")
  /\ answer' = "none" /\ at' = "leave"
  /\ UNCHANGED <<kernelVars, serverVars, client, received, pending, mainVars, answered, executed>>

\* if (client_fd_.exchange(-1) == client) close(client)
LeaveClient ==
  /\ at = "leave" /\ client_fd' = NoFd /\ at' = IF client_fd = client THEN "close" ELSE "run"
  /\ UNCHANGED <<kernelVars, stopping, listen_fd, commands, client, received, pending, answer,
                 mainVars, answered, executed>>

CloseClient ==
  /\ at = "close" /\ at' = "run" /\ Close(client)
  /\ UNCHANGED <<sent, gone, unread, backlog, serverVars, client, received, pending, answer,
                 mainVars, answered, executed>>

ExitThread ==
  /\ at = "exit" /\ at' = "ended" /\ listen_fd' = NoFd
  /\ IF listen_fd # NoFd THEN Close(listen_fd) ELSE UNCHANGED <<socket, closes>>
  /\ UNCHANGED <<sent, gone, unread, backlog, stopping, client_fd, commands, client, received,
                 pending, answer, mainVars, answered, executed>>

Thread ==
  \/ RunLoop \/ LoadListener \/ Accept \/ AcceptFails \/ Publish \/ HandleLoop
  \/ Receive \/ ReceiveTooMuch \/ ReceiveEnds
  \/ NoMoreLines \/ HandleLine \/ QueueCommand \/ Reply \/ ReplyFails
  \/ LeaveClient \/ CloseClient \/ ExitThread

-----------------------------------------------------------------------------
(* The main program.                                                         *)

\* start(); when a call of it fails the descriptor is closed and main returns.
Start ==
  /\ main_at = "start"
  /\ \/ /\ stopping' = FALSE /\ listen_fd' = Listener /\ at' = "run" /\ main_at' = "setup"
        /\ socket' = [socket EXCEPT ![Listener] = "open"] /\ UNCHANGED <<returning, closes>>
     \/ /\ main_at' = "stop" /\ returning' = TRUE /\ Close(Listener)
        /\ UNCHANGED <<stopping, listen_fd, at>>
     \/ /\ main_at' = "stop" /\ returning' = TRUE      \* socket() itself fails
        /\ UNCHANGED <<stopping, listen_fd, at, socket, closes>>
  /\ UNCHANGED <<sent, gone, unread, backlog, client_fd, commands, client, received, pending,
                 answer, taken, answered, executed>>

\* The images are opened and the checkpoint is restored, or main returns with an error.
Setup ==
  /\ main_at = "setup"
  /\ \/ main_at' = "loop" /\ UNCHANGED returning
     \/ main_at' = "stop" /\ returning' = TRUE
  /\ UNCHANGED <<kernelVars, serverVars, threadVars, taken, answered, executed>>

\* Mutant: The main loop takes a batch of one for an empty one.
Poll_NotOne ==
  /\ main_at = "loop" /\ Len(commands) > 1
  /\ executed' = executed \o commands /\ commands' = <<>>
  /\ main_at' = IF \E i \in DOMAIN commands : KindOf(commands[i]) = "quit" THEN "stop" ELSE "loop"
  /\ UNCHANGED <<kernelVars, stopping, listen_fd, client_fd, threadVars, returning, taken, answered>>

\* process_control_commands: every command of the batch is run, the ones after quit too.
Poll ==
  /\ main_at = "loop"
  /\ executed' = executed \o commands /\ commands' = <<>>
  /\ main_at' = IF \E i \in DOMAIN commands : KindOf(commands[i]) = "quit" THEN "stop" ELSE "loop"
  /\ UNCHANGED <<kernelVars, stopping, listen_fd, client_fd, threadVars, returning, taken, answered>>

\* The last cycle, a closed window or a text that was waited for.
EndLoop ==
  /\ main_at = "loop" /\ main_at' = "stop"
  /\ UNCHANGED <<kernelVars, serverVars, threadVars, returning, taken, answered, executed>>

\* stop(), step by step; the destructor calls it once more.
SetStopping ==
  /\ main_at = "stop" /\ stopping' = TRUE /\ main_at' = "take client"
  /\ UNCHANGED <<kernelVars, listen_fd, client_fd, commands, threadVars, returning, taken,
                 answered, executed>>

\* Mutant: stop() reads client_fd_ without taking it.
TakeClient_Load ==
  /\ main_at = "take client" /\ taken' = client_fd /\ UNCHANGED client_fd
  /\ main_at' = IF client_fd = NoFd THEN "take listener" ELSE "shut client"
  /\ UNCHANGED <<kernelVars, stopping, listen_fd, commands, threadVars, returning, answered,
                 executed>>

TakeClient ==
  /\ main_at = "take client" /\ taken' = client_fd /\ client_fd' = NoFd
  /\ main_at' = IF client_fd = NoFd THEN "take listener" ELSE "shut client"
  /\ UNCHANGED <<kernelVars, stopping, listen_fd, commands, threadVars, returning, answered,
                 executed>>

ShutClient ==
  /\ main_at = "shut client" /\ main_at' = "close client"
  /\ socket' = [socket EXCEPT ![taken] = "shut"]
  /\ UNCHANGED <<sent, gone, unread, backlog, closes, serverVars, threadVars, returning, taken,
                 answered, executed>>

StopClosesClient ==
  /\ main_at = "close client" /\ main_at' = "take listener" /\ Close(taken)
  /\ UNCHANGED <<sent, gone, unread, backlog, serverVars, threadVars, returning, taken, answered,
                 executed>>

TakeListener ==
  /\ main_at = "take listener" /\ listen_fd' = NoFd /\ taken' = listen_fd
  /\ main_at' = IF listen_fd = NoFd THEN "join" ELSE "close listener"
  /\ UNCHANGED <<kernelVars, stopping, client_fd, commands, threadVars, returning, answered,
                 executed>>

StopClosesListener ==
  /\ main_at = "close listener" /\ main_at' = "join" /\ Close(taken)
  /\ UNCHANGED <<sent, gone, unread, backlog, serverVars, threadVars, returning, taken, answered,
                 executed>>

Join ==
  /\ main_at = "join" /\ at \in {"none", "ended"}
  /\ main_at' = (IF returning THEN "exited" ELSE "stop") /\ returning' = TRUE
  /\ UNCHANGED <<kernelVars, serverVars, threadVars, taken, answered, executed>>

Stopping == \/ SetStopping \/ TakeClient \/ ShutClient \/ StopClosesClient
            \/ TakeListener \/ StopClosesListener \/ Join
Main == Start \/ Setup \/ Poll \/ EndLoop \/ Stopping

Next == \/ \E c \in Clients : Connect(c) \/ Send(c) \/ ReadReply(c) \/ HangUp(c)
        \/ Thread \/ Main

Spec == Init /\ [][Next]_vars

(* The operating system runs both threads; nothing is asked of the clients.   *)
FairSpec == Spec /\ WF_vars(Thread) /\ WF_vars(Stopping) /\ WF_vars(Poll)

-----------------------------------------------------------------------------
(* What is promised.                                                         *)

Accepted == executed \o commands

\* The lines of a client that get an answer, and the one that the k-th answer is for.
Answerable(c, n) == {i \in 1..n : Script[c][i] # "empty"}
LineOfAnswer(c, k) ==
  CHOOSE i \in Answerable(c, Len(Script[c])) : Cardinality(Answerable(c, i)) = k

\* The commands of a client are run in the order it sent them and none twice.
InOrder ==
  \A i, j \in DOMAIN Accepted :
    i < j /\ Accepted[i][1] = Accepted[j][1] => Accepted[i][2] < Accepted[j][2]

\* A client that reads one answer for each line it sends reads the answer to that line
\* (control_server.cpp:156-182): "OK queued" for a command that is in the queue or has been
\* run, "queue full" for one that is not, whatever was sent ahead of it; over batches that the
\* main loop takes while the thread queues more (93-98, 171-179).
AnswersMatchLines ==
  /\ InOrder
  /\ \A c \in Clients : \A k \in DOMAIN answered[c] :
       LET line == <<c, LineOfAnswer(c, k)>>
           in == \E j \in DOMAIN Accepted : Accepted[j] = line
       IN /\ answered[c][k] = "OK queued" <=> KindOf(line) \in {"command", "quit"} /\ in
          /\ answered[c][k] = "OK" <=> KindOf(line) = "status"
          /\ answered[c][k] = "ERR input buffer too large" <=> KindOf(line) = "huge"

\* The thread and stop() both close the client's socket and the listening one (80-89, 132-136):
\* each is closed once, and when stop() has returned none is left open.
SocketsClosedOnce ==
  /\ \A s \in Clients \cup {Listener} : closes[s] <= 1
  /\ main_at = "exited" => \A s \in Clients \cup {Listener} : socket[s] \notin {"open", "shut"}

\* stop() returns (78-91), wherever the thread is when it is called and whatever the clients
\* do: one that sends nothing, or does not read its replies, cannot keep the simulator.
StopReturns == main_at = "stop" ~> main_at = "exited"

\* As long as the simulation runs the queue is emptied again and again (1902-1904 and 2001-2005
\* of main.cpp): with AnswersMatchLines, every command answered "OK queued" is run.
QueuedCommandsRun == []<>(commands = <<>> \/ main_at # "loop")
=============================================================================
