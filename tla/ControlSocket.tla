--------------------------- MODULE ControlSocket ---------------------------
(***************************************************************************)
(* The control socket (engine.c): supervisors that bind, serve and remove  *)
(* the socket file, crash and are started again, the signal handler that   *)
(* closes the socket under them, and clients that connect, send their      *)
(* request, wait for the answer and turn it into an exit status.           *)
(*                                                                         *)
(* clone() copies the descriptor table and nothing is opened close-on-exec, *)
(* so a container keeps the listening socket, and every connection open at *)
(* its birth, for as long as it lives.  What a handler does between its    *)
(* request and its answer is Supervisor's matter; here it is the answer    *)
(* and the container it leaves.                                            *)
(***************************************************************************)
EXTENDS CommandLine, FiniteSets

CONSTANTS
  Supervisors,    \* supervisor processes, numbered in the order of their start
  Clients,        \* client processes, numbered likewise
  CommandLines,   \* what clients are invoked with
  BACKLOG,        \* connections a listening socket holds
  ExitCodes,      \* exit codes of containers
  Disturbances    \* what may go wrong in this instance

None == 0   \* no supervisor

ASSUME SocketAssumption ==
  /\ BACKLOG \in Nat \ {0}
  /\ Supervisors \cup Clients \subseteq Nat \ {None}
  /\ CommandLines \subseteq Seq(Words)
  /\ ExitCodes \subseteq 0 .. 255

\* socket, bind, listen, malloc or pthread_create fails; a supervisor gets SIGINT or
\* SIGTERM, or is started while another one runs; a client is interrupted.
ASSUME DisturbanceAssumption ==
  Disturbances \subseteq {"call", "signal", "overlap", "interrupt"}

VARIABLES
  path,      \* the supervisor whose socket CONTROL_SOCKET_PATH names
  sv,        \* position of a supervisor in run_supervisor
  running,   \* its supervisor_running
  fd,        \* its server_socket_fd
  backlog,   \* connections it has not accepted yet
  cl,        \* position of a client
  argv,      \* its command line
  server,    \* the supervisor it is connected to
  status,    \* its exit status
  handler,   \* position of the handler thread of its connection
  resp,      \* that thread's response
  box        \* the container of its start or run

daemons == <<sv, running, fd>>
clients == <<cl, argv, server, status>>
vars    == <<path, daemons, backlog, clients, handler, resp, box>>

NoContainer == [st |-> "none", code |-> -1, conns |-> {}, listens |-> FALSE]

Init ==
  /\ path = None
  /\ sv = [s \in Supervisors |-> "off"]
  /\ running = [s \in Supervisors |-> TRUE]
  /\ fd = [s \in Supervisors |-> "none"]
  /\ backlog = [s \in Supervisors |-> <<>>]
  /\ cl = [c \in Clients |-> "idle"]
  /\ argv = [c \in Clients |-> <<>>]
  /\ server = [c \in Clients |-> None]
  /\ status = [c \in Clients |-> -1]
  /\ handler = [c \in Clients |-> "none"]
  /\ resp = [c \in Clients |-> [ok |-> FALSE, exit_code |-> -1]]
  /\ box = [c \in Clients |-> NoContainer]

Ended  == {"exited", "killed"}
Up(s)  == sv[s] \notin Ended \cup {"off"}

\* Handler threads that hold their connection.
Serving(s) == {c \in Clients : /\ server[c] = s
                               /\ handler[c] \in {"recv", "wait", "lost", "reply"}}

\* Some process still listens on the socket of s.
SocketOpen(s) ==
  \/ Up(s) /\ fd[s] = "listening"
  \/ \E b \in Clients : server[b] = s /\ box[b].listens

\* Some process holds the supervisor's end of the connection.
PeerOpen(c) ==
  \/ Up(server[c]) /\ c \in Serving(server[c])
  \/ SocketOpen(server[c]) /\ \E i \in DOMAIN backlog[server[c]] : backlog[server[c]][i] = c
  \/ \E b \in Clients : c \in box[b].conns

-----------------------------------------------------------------------------
(* run_supervisor up to its accept loop.                                   *)

Goes(s, from, to) == sv[s] = from /\ sv' = [sv EXCEPT ![s] = to]

\* The process ends; the kernel closes its descriptors.
Ends(s, how) ==
  /\ sv' = [sv EXCEPT ![s] = how]
  /\ fd' = [fd EXCEPT ![s] = "closed"]
  /\ running' = [running EXCEPT ![s] = FALSE]
  /\ UNCHANGED <<backlog, clients, handler, resp, box>>

Start(s) ==
  /\ Goes(s, "off", "unlink")
  /\ \A t \in Supervisors : t < s => sv[t] # "off"
  /\ "overlap" \in Disturbances \/ ~ \E t \in Supervisors : Up(t)
  /\ UNCHANGED <<path, running, fd, backlog, clients, handler, resp, box>>

\* Variant of Unlink with a bug: an old socket file stays.
UnlinkForgotten(s) ==
  /\ Goes(s, "unlink", "socket")
  /\ UNCHANGED <<path, running, fd, backlog, clients, handler, resp, box>>

Unlink(s) ==
  /\ Goes(s, "unlink", "socket")
  /\ path' = None
  /\ UNCHANGED <<running, fd, backlog, clients, handler, resp, box>>

Socket(s) ==
  /\ Goes(s, "socket", "bind")
  /\ fd' = [fd EXCEPT ![s] = "open"]
  /\ UNCHANGED <<path, running, backlog, clients, handler, resp, box>>

SocketFails(s) ==
  /\ "call" \in Disturbances
  /\ sv[s] = "socket"
  /\ Ends(s, "exited") /\ UNCHANGED path

Bind(s) ==
  /\ Goes(s, "bind", "listen")
  /\ fd[s] = "open" /\ path = None
  /\ path' = s
  /\ UNCHANGED <<running, fd, backlog, clients, handler, resp, box>>

Listen(s) ==
  /\ Goes(s, "listen", "top")
  /\ fd[s] = "open"
  /\ fd' = [fd EXCEPT ![s] = "listening"]
  /\ UNCHANGED <<path, running, backlog, clients, handler, resp, box>>

\* bind: the path exists (EADDRINUSE); bind or listen: the signal handler closed
\* the descriptor, or the call fails for a reason of its own.
SetupFails(s) ==
  /\ \/ sv[s] = "bind" /\ path # None
     \/ sv[s] \in {"bind", "listen"} /\ (fd[s] = "closed" \/ "call" \in Disturbances)
  /\ path' = None
  /\ Ends(s, "exited")

-----------------------------------------------------------------------------
(* The accept loop, the signal handler and the end of run_supervisor.      *)

LoopTop(s) ==
  /\ Goes(s, "top", IF running[s] THEN "accept" ELSE "drain")
  /\ UNCHANGED <<path, running, fd, backlog, clients, handler, resp, box>>

\* accept() takes the oldest connection; h becomes of its handler.
Takes(s, h) ==
  /\ Goes(s, "accept", "top")
  /\ fd[s] = "listening" /\ backlog[s] # <<>>
  /\ backlog' = [backlog EXCEPT ![s] = Tail(@)]
  /\ handler' = [handler EXCEPT ![Head(backlog[s])] = h]
  /\ UNCHANGED <<path, running, fd, clients, resp, box>>

Accept(s) == Takes(s, "recv")

\* Variant of AcceptDrops with a bug: nobody serves the connection, and nobody
\* closes it.
AcceptForgets(s) == "call" \in Disturbances /\ Takes(s, "wait")

\* malloc or pthread_create failed: the connection is closed at once.
AcceptDrops(s) == "call" \in Disturbances /\ Takes(s, "closed")

\* The descriptor is closed, so the flag is clear: accept fails, break.
AcceptFails(s) ==
  /\ Goes(s, "accept", "drain")
  /\ fd[s] = "closed"
  /\ UNCHANGED <<path, running, fd, backlog, clients, handler, resp, box>>

\* Variant of ClosedBySignal with a bug: the handler only clears the flag.
LeftBySignal(s) == fd[s]

ClosedBySignal(s) == IF fd[s] = "none" THEN "none" ELSE "closed"

\* supervisor_signal_handler, at any point after signal().
ShutdownSignal(s) ==
  /\ "signal" \in Disturbances
  /\ Up(s) /\ running[s]
  /\ running' = [running EXCEPT ![s] = FALSE]
  /\ fd' = [fd EXCEPT ![s] = ClosedBySignal(s)]
  /\ UNCHANGED <<path, sv, backlog, clients, handler, resp, box>>

\* The joins are through: the reaper ends with the last child.
NoChildren(s) == ~ \E c \in Clients : server[c] = s /\ box[c].st = "alive"

\* Variant of Finish with a bug: the socket file is left behind.
FinishAndLeave(s) ==
  /\ sv[s] = "drain" /\ NoChildren(s)
  /\ Ends(s, "exited") /\ UNCHANGED path

\* stop_all_live_containers, the joins, close and unlink.
Finish(s) ==
  /\ sv[s] = "drain" /\ NoChildren(s)
  /\ path' = None
  /\ Ends(s, "exited")

SupervisorStep(s) ==
  \/ Unlink(s) \/ Socket(s) \/ SocketFails(s) \/ Bind(s) \/ Listen(s) \/ SetupFails(s)
  \/ LoopTop(s) \/ Accept(s) \/ AcceptDrops(s) \/ AcceptFails(s) \/ Finish(s)

-----------------------------------------------------------------------------
(* Handler threads and the containers they leave.                          *)

At(c, label) == handler[c] = label /\ Up(server[c])

Type(c) == Parse(argv[c]).type

HandlerGoes(c, label) ==
  /\ handler' = [handler EXCEPT ![c] = label]
  /\ UNCHANGED <<path, daemons, backlog, clients, resp, box>>

\* recv_all has the whole request.
Received(c) == At(c, "recv") /\ cl[c] \in {"recv", "gone"}

\* End of file before the request.
RecvFails(c) == At(c, "recv") /\ cl[c] = "hungup" /\ HandlerGoes(c, "closed")

Respond(c, ok, code) ==
  /\ resp' = [resp EXCEPT ![c] = [ok |-> ok, exit_code |-> code]]
  /\ handler' = [handler EXCEPT ![c] = "reply"]
  /\ UNCHANGED <<path, daemons, backlog, clients>>

\* The request is refused, or needs no container.
Serve(c) ==
  /\ Received(c)
  /\ \/ Respond(c, FALSE, -1)
     \/ Type(c) \notin {"start", "run"} /\ Respond(c, TRUE, 0)
  /\ UNCHANGED box

\* clone(): start answers, run waits; a start or run that fails after it kills
\* the child and answers so.
Clone(c) ==
  /\ Received(c) /\ Type(c) \in {"start", "run"}
  /\ box' = [box EXCEPT ![c] = [st |-> "alive", code |-> -1,
                                conns |-> Serving(server[c]),
                                listens |-> fd[server[c]] = "listening"]]
  /\ \/ "call" \in Disturbances /\ Respond(c, FALSE, -1)
     \/ Type(c) = "start" /\ Respond(c, TRUE, 0)
     \/ Type(c) = "run" /\ handler' = [handler EXCEPT ![c] = "wait"]
          /\ UNCHANGED <<path, daemons, backlog, clients, resp>>

\* The reaper found the container's slot.
RunEnds(c) ==
  /\ At(c, "wait") /\ box[c].st = "dead"
  /\ Respond(c, TRUE, box[c].code)
  /\ UNCHANGED box

\* It did not, as the PID was not in the table yet: the slot stays RUNNING and the
\* handler waits for ever (Supervisor!RunReturns).
RunLost(c) == At(c, "wait") /\ box[c].st = "dead" /\ HandlerGoes(c, "lost")

Reply(c) == At(c, "reply") /\ cl[c] = "recv" /\ HandlerGoes(c, "replied")

\* The client is gone: SIGPIPE ends the supervisor and the socket file stays.
ReplySigpipe(c) ==
  /\ At(c, "reply") /\ cl[c] = "gone"
  /\ Ends(server[c], "killed") /\ UNCHANGED path

HandlerStep(c) ==
  \/ RecvFails(c) \/ Serve(c) \/ Clone(c) \/ RunEnds(c) \/ RunLost(c)
  \/ Reply(c) \/ ReplySigpipe(c)

\* Nobody but a run that waits asks for the exit code.
CodesAsked(c) == IF handler[c] = "wait" THEN ExitCodes ELSE {0}

ContainerEnds(c) ==
  /\ box[c].st = "alive"
  /\ \E n \in CodesAsked(c) :
       box' = [box EXCEPT ![c] = [NoContainer EXCEPT !.st = "dead", !.code = n]]
  /\ UNCHANGED <<path, daemons, backlog, clients, handler, resp>>

-----------------------------------------------------------------------------
(* Clients: main, send_request_to_supervisor and connect_to_supervisor.    *)

serverSide == <<path, daemons, handler, resp, box>>

ClientGoes(c, label) ==
  cl' = [cl EXCEPT ![c] = label] /\ UNCHANGED <<serverSide, argv, server, status>>

Exit(c, n) ==
  /\ cl' = [cl EXCEPT ![c] = "exited"]
  /\ status' = [status EXCEPT ![c] = n]
  /\ UNCHANGED <<serverSide, backlog, server>>

Invoke(c, line) ==
  /\ cl[c] = "idle" /\ \A d \in Clients : d < c => cl[d] # "idle"
  /\ argv' = [argv EXCEPT ![c] = line]
  /\ IF Parse(line) = Usage
     THEN Exit(c, 1)
     ELSE /\ cl' = [cl EXCEPT ![c] = "connect"]
          /\ UNCHANGED <<serverSide, backlog, server, status>>

\* Somebody listens behind the path.
Listened == \E s \in Supervisors : path = s /\ SocketOpen(s)

\* The queue listen() asked for has room.
Room(s) == Len(backlog[s]) < BACKLOG

\* A full backlog makes connect() wait.
Connect(c) ==
  /\ cl[c] = "connect"
  /\ Listened /\ Room(path)
  /\ cl' = [cl EXCEPT ![c] = "send"]
  /\ server' = [server EXCEPT ![c] = path]
  /\ backlog' = [backlog EXCEPT ![path] = Append(@, c)]
  /\ UNCHANGED <<serverSide, argv, status>>

ConnectFails(c) ==
  /\ cl[c] = "connect"
  /\ ~ Listened
  /\ Exit(c, 1) /\ UNCHANGED argv

\* send() to a peer that has closed ends the client by SIGPIPE.
SendRequest(c) ==
  /\ cl[c] = "send"
  /\ IF PeerOpen(c) THEN ClientGoes(c, "recv") /\ UNCHANGED backlog
                    ELSE Exit(c, 128 + 13) /\ UNCHANGED argv

\* Variant of ExitStatus with a bug: ok is not looked at.
ExitStatusUnchecked(type, r) ==
  IF type = "run" /\ r.exit_code >= 0 THEN r.exit_code ELSE 0

\* What main returns for an answer.
ExitStatus(type, r) ==
  IF ~ r.ok THEN 1
  ELSE IF type = "run" /\ r.exit_code >= 0 THEN r.exit_code
  ELSE 0

\* recv_all: the answer, or end of file before it.
RecvAnswer(c) ==
  /\ cl[c] = "recv"
  /\ \/ handler[c] = "replied" /\ Exit(c, ExitStatus(Type(c), resp[c]))
     \/ handler[c] # "replied" /\ ~ PeerOpen(c) /\ Exit(c, 1)
  /\ UNCHANGED argv

ClientStep(c) == Connect(c) \/ ConnectFails(c) \/ SendRequest(c) \/ RecvAnswer(c)

\* The user interrupts a client before, or after, it has sent its request.
Interrupt(c) ==
  /\ "interrupt" \in Disturbances
  /\ \/ cl[c] = "send" /\ ClientGoes(c, "hungup")
     \/ cl[c] = "recv" /\ ClientGoes(c, "gone")
  /\ UNCHANGED backlog

-----------------------------------------------------------------------------

Next ==
  \/ \E s \in Supervisors :
       Start(s) \/ SupervisorStep(s) \/ ShutdownSignal(s)
  \/ \E c \in Clients :
       \/ \E line \in CommandLines : Invoke(c, line)
       \/ ClientStep(c) \/ Interrupt(c) \/ HandlerStep(c) \/ ContainerEnds(c)

Spec == Init /\ [][Next]_vars

\* Threads and clients are scheduled, and containers come to an end.
Fairness ==
  /\ \A s \in Supervisors : WF_vars(SupervisorStep(s))
  /\ \A c \in Clients : /\ WF_vars(ClientStep(c)) /\ WF_vars(HandlerStep(c))
                        /\ WF_vars(ContainerEnds(c))

FairSpec == Spec /\ Fairness

-----------------------------------------------------------------------------
(* Properties.                                                             *)

\* main and parse_optional_flags make of a command line what its words say:
\* each flag has the value of its last use or its default, anything else is
\* refused.
ParsedAsTyped == \A c \in Clients : Parse(argv[c]) = Typed(argv[c])

\* A client that reports success was answered, and a run reports the exit code
\* of its own container, whatever crashes, drops and shutdowns came between.
StatusTruthful ==
  \A c \in Clients : cl[c] = "exited" =>
    /\ status[c] = 0 => handler[c] = "replied" /\ resp[c].ok
    /\ handler[c] = "replied" /\ resp[c].ok /\ Type(c) = "run"
         => box[c].st = "dead" /\ status[c] = box[c].code

\* project-guide.md: "CLI requests reach the long-running supervisor correctly":
\* the path leads to a supervisor that serves.
Reachable == \A s \in Supervisors : sv[s] \in {"top", "accept"} => path = s

\* A supervisor is never kept from starting by what an earlier one left
\* behind: only a signal of its own or a failing socket() ends its start.
RestartSucceeds == \A s \in Supervisors : sv[s] = "bind" => path = None

\* README.md: no "stale sockets left behind": a supervisor that ends by itself,
\* on a signal at any point of its start included, takes its file with it.
NoStaleSocket == \A s \in Supervisors : sv[s] = "exited" => path # s

\* A signal is never lost, not even between the test of supervisor_running and
\* accept(): in the long run no supervisor that got one is still there, given
\* that its containers end.
SignalEnds == <>[](\A s \in Supervisors : running[s] \/ sv[s] \in Ended)

\* A client comes back to its user, although containers may hold its connection
\* open after the supervisor is gone: in the long run none is still waiting but a
\* run whose container was reaped before its PID was in the table, and that one
\* only for as long as its supervisor is there.
ClientReturns ==
  <>[](\A c \in Clients :
         cl[c] \in {"connect", "send", "recv"} => handler[c] = "lost" /\ Up(server[c]))

=============================================================================
