------------------------ MODULE ControlSocketProofs ------------------------
(***************************************************************************)
(* Proofs about ControlSocket, for any number of supervisors and clients,  *)
(* any backlog and whatever goes wrong (Disturbances): what the exit       *)
(* status of a client says; and, when no supervisor is started beside a    *)
(* running one, that a restart succeeds and no stale socket file is left.  *)
(*                                                                         *)
(* The exit status rests on connections: a connection waits in one backlog *)
(* once and has no handler until accept() takes it (ConnInv), so that the  *)
(* answer to a client is never thrown back to an earlier state.  The       *)
(* socket file rests on there being one supervisor: between its unlink()   *)
(* and its bind() nobody else can create the file (PathInv).               *)
(***************************************************************************)
EXTENDS ControlSocket, TLAPS

\* Positions of a supervisor, of a client and of a handler thread.
SvStates == {"off", "unlink", "socket", "bind", "listen", "top", "accept", "drain",
             "exited", "killed"}
ClStates == {"idle", "connect", "send", "recv", "hungup", "gone", "exited"}
HandlerStates == {"none", "recv", "wait", "lost", "reply", "replied", "closed"}

Response == [ok : BOOLEAN, exit_code : Int]
Container == [st : {"none", "alive", "dead"}, code : Int, conns : SUBSET Clients,
              listens : BOOLEAN]

\* The types of the state.
Types ==
  /\ path \in Supervisors \cup {None}
  /\ sv \in [Supervisors -> SvStates]
  /\ backlog \in [Supervisors -> Seq(Clients)]
  /\ cl \in [Clients -> ClStates]
  /\ argv \in [Clients -> Seq(Words)]
  /\ server \in [Clients -> Supervisors \cup {None}]
  /\ status \in [Clients -> Int]
  /\ handler \in [Clients -> HandlerStates]
  /\ resp \in [Clients -> Response]
  /\ box \in [Clients -> Container]

\* The connection c waits in the backlog of s, in place i.
Waits(s, i, c) == i \in DOMAIN backlog[s] /\ backlog[s][i] = c

\* A connection is in the backlog of the supervisor it leads to, once, and has no
\* handler before it leaves it; who is answered has sent its request.
ConnInv ==
  /\ \A c \in Clients :
       /\ cl[c] \in {"idle", "connect"} => server[c] = None
       /\ server[c] = None => handler[c] = "none"
       /\ handler[c] = "replied" => cl[c] \in {"recv", "gone", "exited"}
  /\ \A s \in Supervisors, c \in Clients : \A i, j \in Nat :
       Waits(s, i, c) => /\ server[c] = s /\ handler[c] = "none"
                         /\ Waits(s, j, c) => i = j

\* What a handler answers to a run is the exit code of the container it waited for.
AnswerInv ==
  \A c \in Clients :
    /\ handler[c] \in {"reply", "replied"} /\ resp[c].ok /\ Type(c) = "run"
         => box[c].st = "dead" /\ resp[c].exit_code = box[c].code
    /\ box[c].st = "dead" => box[c].code \in Nat

IndInv == Types /\ ConnInv /\ AnswerInv /\ StatusTruthful

-----------------------------------------------------------------------------
(* The invariant is inductive.                                             *)

\* Steps that leave connections, handlers and containers alone.
LEMMA SupervisorOnly ==
  ASSUME IndInv, UNCHANGED <<backlog, clients, handler, resp, box>>,
         path' \in Supervisors \cup {None}, sv' \in [Supervisors -> SvStates]
  PROVE  IndInv'
<1> USE DEF IndInv, clients
<1>1. Types'
  BY DEF Types
<1>2. ConnInv'
  BY DEF ConnInv, Waits
<1>3. AnswerInv' /\ StatusTruthful'
  BY DEF AnswerInv, StatusTruthful, Type
<1> QED
  BY <1>1, <1>2, <1>3

\* A supervisor's own steps touch neither connections nor answers.
LEMMA SupervisorKeeps ==
  ASSUME IndInv, NEW s \in Supervisors,
         \/ Start(s) \/ Unlink(s) \/ Socket(s) \/ SocketFails(s) \/ Bind(s) \/ Listen(s)
         \/ SetupFails(s) \/ LoopTop(s) \/ AcceptFails(s) \/ Finish(s) \/ ShutdownSignal(s)
  PROVE  IndInv'
<1>1. UNCHANGED <<backlog, clients, handler, resp, box>>
  BY DEF Start, Unlink, Socket, SocketFails, Bind, Listen, SetupFails, LoopTop, AcceptFails,
         Finish, ShutdownSignal, Ends
<1>2. path' \in Supervisors \cup {None}
  BY DEF Start, Unlink, Socket, SocketFails, Bind, Listen, SetupFails, LoopTop, AcceptFails,
         Finish, ShutdownSignal, IndInv, Types
<1>3. sv' \in [Supervisors -> SvStates]
  <2>1. sv \in [Supervisors -> SvStates]
    BY DEF IndInv, Types
  <2> QED
    BY <2>1 DEF Start, Unlink, Socket, SocketFails, Bind, Listen, SetupFails, LoopTop,
                AcceptFails, Finish, ShutdownSignal, Goes, Ends, SvStates
<1> QED
  BY <1>1, <1>2, <1>3, SupervisorOnly

\* accept() takes the connection at the head of the backlog.
LEMMA TakesKeeps ==
  ASSUME IndInv, NEW s \in Supervisors, NEW h \in {"recv", "closed"}, Takes(s, h)
  PROVE  IndInv'
<1> USE DEF IndInv
<1> DEFINE q == backlog[s]
           c == Head(backlog[s])
<1>1. /\ q \in Seq(Clients) /\ q # <<>> /\ c \in Clients /\ Len(q) \in Nat
      /\ 1 \in DOMAIN q /\ q[1] = c
      /\ Tail(q) \in Seq(Clients)
      /\ \A i \in DOMAIN Tail(q) : i \in Nat \ {0} /\ i + 1 \in DOMAIN q /\ Tail(q)[i] = q[i + 1]
  <2>1. q \in Seq(Clients) /\ q # <<>>
    BY DEF Takes, Types
  <2> QED
    BY <2>1
<1>2. /\ backlog' = [backlog EXCEPT ![s] = Tail(q)]
      /\ handler' = [handler EXCEPT ![c] = h]
      /\ sv' = [sv EXCEPT ![s] = "top"]
      /\ UNCHANGED <<path, clients, resp, box>>
  BY DEF Takes, Goes
<1> HIDE DEF q, c
<1>3. /\ backlog' \in [Supervisors -> Seq(Clients)] /\ backlog'[s] = Tail(q)
      /\ \A t \in Supervisors \ {s} : backlog'[t] = backlog[t]
  BY <1>1, <1>2 DEF Types
<1>4. /\ handler' \in [Clients -> HandlerStates] /\ handler'[c] = h
      /\ \A d \in Clients \ {c} : handler'[d] = handler[d]
  BY <1>1, <1>2 DEF Types, HandlerStates
<1>5. Types'
  BY <1>2, <1>3, <1>4 DEF Types, clients, SvStates
<1>6. Waits(s, 1, c) /\ server[c] = s /\ handler[c] = "none"
  BY <1>1 DEF Waits, ConnInv, q
<1>7. ConnInv'
  <2>1. ASSUME NEW d \in Clients
        PROVE  /\ cl'[d] \in {"idle", "connect"} => server'[d] = None
               /\ server'[d] = None => handler'[d] = "none"
               /\ handler'[d] = "replied" => cl'[d] \in {"recv", "gone", "exited"}
    BY <1>2, <1>4, <1>6, SocketAssumption DEF ConnInv, clients
  <2>2. ASSUME NEW t \in Supervisors, NEW d \in Clients, NEW i \in Nat, Waits(t, i, d)'
        PROVE  \E k \in Nat : /\ Waits(t, k, d) /\ d # c
                              /\ t = s => k = i + 1
                              /\ t # s => k = i
    <3>1. CASE t = s
      <4>1. i + 1 \in DOMAIN backlog[s] /\ backlog[s][i + 1] = d /\ i + 1 # 1 /\ i + 1 \in Nat
        <5>1. i \in DOMAIN Tail(q) /\ Tail(q)[i] = d
          BY <1>3, <2>2, <3>1 DEF Waits
        <5>2. i \in Nat \ {0} /\ i + 1 \in DOMAIN q /\ q[i + 1] = d
          BY <1>1, <5>1
        <5>3. i + 1 # 1 /\ i + 1 \in Nat
          BY <5>2
        <5> QED
          BY <5>2, <5>3 DEF q
      <4>2. Waits(s, i + 1, d) /\ d # c
        BY <1>6, <4>1 DEF Waits, ConnInv
      <4> QED
        BY <3>1, <4>1, <4>2
    <3>2. CASE t # s
      <4>1. Waits(t, i, d)
        BY <1>3, <2>2, <3>2 DEF Waits
      <4>2. server[d] = t
        BY <4>1 DEF ConnInv
      <4> QED
        BY <1>6, <3>2, <4>1, <4>2
    <3> QED
      BY <3>1, <3>2
  <2>3. ASSUME NEW t \in Supervisors, NEW d \in Clients, NEW i \in Nat, NEW j \in Nat,
               Waits(t, i, d)'
        PROVE  /\ server'[d] = t /\ handler'[d] = "none"
               /\ Waits(t, j, d)' => i = j
    <3>1. PICK k \in Nat : Waits(t, k, d) /\ d # c /\ (t = s => k = i + 1) /\ (t # s => k = i)
      BY <2>2, <2>3
    <3>2. server'[d] = t /\ handler'[d] = "none"
      BY <1>2, <1>4, <3>1 DEF ConnInv, clients
    <3>3. ASSUME Waits(t, j, d)' PROVE i = j
      <4>1. PICK m \in Nat : Waits(t, m, d) /\ (t = s => m = j + 1) /\ (t # s => m = j)
        BY <2>2, <3>3
      <4>2. m = k
        BY <3>1, <4>1 DEF ConnInv
      <4> QED
        BY <3>1, <4>1, <4>2
    <3> QED
      BY <3>2, <3>3
  <2> QED
    BY <2>1, <2>3 DEF ConnInv
<1>8. AnswerInv' /\ StatusTruthful'
  BY <1>2, <1>4, <1>6 DEF AnswerInv, StatusTruthful, Type, clients
<1> QED
  BY <1>5, <1>7, <1>8

\* A step of a handler thread leaves the clients and the backlogs alone.
LEMMA HandlerKeeps ==
  ASSUME IndInv, NEW c \in Clients, HandlerStep(c)
  PROVE  IndInv'
<1> USE DEF IndInv
<1>1. CASE ReplySigpipe(c)
  <2>1. server[c] \in Supervisors
    BY <1>1 DEF ReplySigpipe, At, ConnInv, Types
  <2>2. UNCHANGED <<path, backlog, clients, handler, resp, box>>
        /\ sv' = [sv EXCEPT ![server[c]] = "killed"]
    BY <1>1 DEF ReplySigpipe, Ends
  <2>3. path' \in Supervisors \cup {None} /\ sv' \in [Supervisors -> SvStates]
    BY <2>2 DEF Types, SvStates
  <2> QED
    BY <2>2, <2>3, SupervisorOnly
<1>2. ASSUME UNCHANGED <<path, daemons, backlog, clients>>, handler[c] # "none",
             NEW h \in HandlerStates \ {"none"}, handler' = [handler EXCEPT ![c] = h],
             resp' \in [Clients -> Response], box' \in [Clients -> Container],
             \A d \in Clients \ {c} : resp'[d] = resp[d] /\ box'[d] = box[d],
             h \in {"reply", "replied"} /\ resp'[c].ok /\ Type(c) = "run"
               => box'[c].st = "dead" /\ resp'[c].exit_code = box'[c].code,
             box'[c].st = "dead" => box'[c].code \in Nat,
             cl[c] = "exited" => handler[c] # "replied" /\ h # "replied",
             h = "replied" => cl[c] = "recv"
      PROVE  IndInv'
  <2>1. /\ handler' \in [Clients -> HandlerStates] /\ handler'[c] = h
        /\ \A d \in Clients \ {c} : handler'[d] = handler[d]
    BY <1>2 DEF Types
  <2>2. UNCHANGED <<sv, path, backlog, cl, argv, server, status>>
    BY <1>2 DEF daemons, clients
  <2>3. Types'
    BY <1>2, <2>1, <2>2 DEF Types
  <2>4. ConnInv'
    BY <1>2, <2>1, <2>2 DEF ConnInv, Waits
  <2>5. AnswerInv'
    BY <1>2, <2>1, <2>2 DEF AnswerInv, Type
  <2>6. StatusTruthful'
    BY <1>2, <2>1, <2>2 DEF StatusTruthful, Type
  <2> QED
    BY <2>3, <2>4, <2>5, <2>6
<1>3. /\ resp \in [Clients -> Response] /\ box \in [Clients -> Container]
      /\ resp[c] \in Response /\ box[c] \in Container
  BY DEF Types
<1>4. CASE RecvFails(c)
  BY <1>2, <1>3, <1>4 DEF RecvFails, At, HandlerGoes, HandlerStates, AnswerInv
<1>5. CASE Reply(c)
  BY <1>2, <1>3, <1>5 DEF Reply, At, HandlerGoes, HandlerStates, AnswerInv
<1>6. CASE Serve(c)
  <2>1. handler[c] = "recv" /\ cl[c] # "exited" /\ box' = box
    BY <1>6 DEF Serve, Received, At
  <2>2. ASSUME NEW ok \in BOOLEAN, NEW n \in Int, Respond(c, ok, n),
               ok => Type(c) # "run"
        PROVE  IndInv'
    <3>1. [ok |-> ok, exit_code |-> n] \in Response
      BY DEF Response
    <3>2. /\ resp' \in [Clients -> Response] /\ resp'[c].ok = ok
          /\ \A d \in Clients \ {c} : resp'[d] = resp[d]
      BY <1>3, <2>2, <3>1 DEF Respond
    <3>3. UNCHANGED <<path, daemons, backlog, clients>> /\ handler' = [handler EXCEPT ![c] = "reply"]
      BY <2>2 DEF Respond
    <3>4. "reply" \in HandlerStates \ {"none"}
      BY DEF HandlerStates
    <3>5. ~ (resp'[c].ok /\ Type(c) = "run")
      BY <2>2, <3>2
    <3>6. box'[c].st = "dead" => box'[c].code \in Nat
      BY <2>1 DEF AnswerInv
    <3>7. box' \in [Clients -> Container] /\ \A d \in Clients \ {c} : box'[d] = box[d]
      BY <1>3, <2>1
    <3> QED
      BY <1>2, <2>1, <3>2, <3>3, <3>4, <3>5, <3>6, <3>7
  <2>3. -1 \in Int /\ 0 \in Int
    OBVIOUS
  <2>4. CASE Respond(c, FALSE, -1)
    BY <2>2, <2>3, <2>4, Zenon
  <2>5. CASE Type(c) \notin {"start", "run"} /\ Respond(c, TRUE, 0)
    BY <2>2, <2>3, <2>5, Zenon
  <2> QED
    BY <1>6, <2>4, <2>5 DEF Serve
<1>7. CASE Clone(c)
  <2>1. handler[c] = "recv" /\ cl[c] # "exited" /\ server[c] \in Supervisors
    BY <1>7 DEF Clone, Received, At, ConnInv, Types
  <2> DEFINE b == [st |-> "alive", code |-> -1, conns |-> Serving(server[c]),
                   listens |-> fd[server[c]] = "listening"]
  <2>2. b \in Container
    BY DEF Container, Serving
  <2>3. box' = [box EXCEPT ![c] = b]
    BY <1>7 DEF Clone
  <2>4. b.st = "alive"
    OBVIOUS
  <2> HIDE DEF b
  <2>5. /\ box' \in [Clients -> Container] /\ box'[c].st = "alive"
        /\ \A d \in Clients \ {c} : box'[d] = box[d]
    BY <1>3, <2>2, <2>3, <2>4
  <2>6. ASSUME NEW ok \in BOOLEAN, NEW n \in Int, Respond(c, ok, n), ok => Type(c) = "start"
        PROVE  IndInv'
    <3>1. [ok |-> ok, exit_code |-> n] \in Response
      BY DEF Response
    <3>2. /\ resp' \in [Clients -> Response] /\ resp'[c].ok = ok
          /\ \A d \in Clients \ {c} : resp'[d] = resp[d]
      BY <1>3, <2>6, <3>1 DEF Respond
    <3>3. UNCHANGED <<path, daemons, backlog, clients>> /\ handler' = [handler EXCEPT ![c] = "reply"]
      BY <2>6 DEF Respond
    <3>4. "reply" \in HandlerStates \ {"none"}
      BY DEF HandlerStates
    <3> QED
      BY <1>2, <2>1, <2>5, <2>6, <3>2, <3>3, <3>4
  <2>7. CASE /\ handler' = [handler EXCEPT ![c] = "wait"]
             /\ UNCHANGED <<path, daemons, backlog, clients, resp>>
    <3>1. "wait" \in HandlerStates \ {"none"}
      BY DEF HandlerStates
    <3> QED
      BY <1>2, <1>3, <2>1, <2>5, <2>7, <3>1
  <2>8. -1 \in Int /\ 0 \in Int
    OBVIOUS
  <2>9. CASE Respond(c, FALSE, -1)
    BY <2>6, <2>8, <2>9, Zenon
  <2>10. CASE Type(c) = "start" /\ Respond(c, TRUE, 0)
    BY <2>6, <2>8, <2>10, Zenon
  <2> QED
    BY <1>7, <2>7, <2>9, <2>10 DEF Clone
<1>8. CASE RunEnds(c)
  <2>1. handler[c] = "wait" /\ box' = box /\ box[c].st = "dead"
    BY <1>8 DEF RunEnds, At
  <2>2. PICK n \in Int : n = box[c].code /\ Respond(c, TRUE, n)
    BY <1>3, <1>8 DEF RunEnds, Container
  <2>3. [ok |-> TRUE, exit_code |-> n] \in Response
    BY DEF Response
  <2>4. /\ resp' \in [Clients -> Response] /\ resp'[c].exit_code = n
        /\ \A d \in Clients \ {c} : resp'[d] = resp[d]
    BY <1>3, <2>2, <2>3 DEF Respond
  <2>5. UNCHANGED <<path, daemons, backlog, clients>> /\ handler' = [handler EXCEPT ![c] = "reply"]
    BY <2>2 DEF Respond
  <2>6. "reply" \in HandlerStates \ {"none"}
    BY DEF HandlerStates
  <2> QED
    BY <1>2, <1>3, <2>1, <2>2, <2>4, <2>5, <2>6 DEF AnswerInv
<1>9. CASE RunLost(c)
  BY <1>2, <1>3, <1>9 DEF RunLost, At, HandlerGoes, HandlerStates, AnswerInv
<1> QED
  BY <1>1, <1>4, <1>5, <1>6, <1>7, <1>8, <1>9 DEF HandlerStep

\* A container ends with one of the exit codes.
LEMMA ContainerKeeps ==
  ASSUME IndInv, NEW c \in Clients, ContainerEnds(c)
  PROVE  IndInv'
<1> USE DEF IndInv
<1>1. PICK n \in ExitCodes \cup {0} :
        box' = [box EXCEPT ![c] = [NoContainer EXCEPT !.st = "dead", !.code = n]]
  BY DEF ContainerEnds, CodesAsked
<1> DEFINE b == [NoContainer EXCEPT !.st = "dead", !.code = n]
<1>2. n \in Nat
  BY SocketAssumption
<1>3. b \in Container /\ b.st = "dead" /\ b.code = n
  <2>1. n \in Int
    BY <1>2
  <2>2. b \in Container
    BY <2>1, Zenon DEF Container, NoContainer
  <2> QED
    BY <2>2 DEF NoContainer
<1> HIDE DEF b
<1>4. /\ box' \in [Clients -> Container] /\ box'[c] = b
      /\ \A d \in Clients \ {c} : box'[d] = box[d]
  BY <1>1, <1>3 DEF Types, b
<1>5. box[c].st = "alive" /\ UNCHANGED <<path, daemons, backlog, clients, handler, resp>>
  BY DEF ContainerEnds
<1>6. Types'
  BY <1>4, <1>5 DEF Types, daemons, clients
<1>7. ConnInv'
  BY <1>5 DEF ConnInv, Waits, clients
<1>8. AnswerInv'
  BY <1>2, <1>3, <1>4, <1>5 DEF AnswerInv, Type, clients
<1>9. StatusTruthful'
  BY <1>3, <1>4, <1>5 DEF AnswerInv, StatusTruthful, Type, clients
<1> QED
  BY <1>6, <1>7, <1>8, <1>9

-----------------------------------------------------------------------------
(* Clients.                                                                *)

\* A client moves and its connection does not.
LEMMA ConnKept ==
  ASSUME ConnInv, UNCHANGED <<backlog, server, handler>>,
         \A d \in Clients :
           /\ cl'[d] \in {"idle", "connect"} => server'[d] = None
           /\ handler'[d] = "replied" => cl'[d] \in {"recv", "gone", "exited"}
  PROVE  ConnInv'
<1>1. \A s, i, c : Waits(s, i, c)' <=> Waits(s, i, c)
  BY DEF Waits
<1> QED
  BY <1>1 DEF ConnInv

\* A client goes on without exiting, and without a new connection.
LEMMA ClientMoves ==
  ASSUME IndInv, NEW c \in Clients, NEW label \in ClStates \ {"idle", "exited"},
         cl' = [cl EXCEPT ![c] = label], cl[c] # "exited",
         label = "connect" => server[c] = None,
         handler[c] = "replied" => label \in {"recv", "gone"},
         argv' \in [Clients -> Seq(Words)],
         \A d \in Clients : handler[d] # "none" => argv'[d] = argv[d],
         UNCHANGED <<serverSide, backlog, server, status>>
  PROVE  IndInv'
<1> USE DEF IndInv
<1>1. /\ UNCHANGED <<path, sv, backlog, server, status, handler, resp, box>>
  BY DEF serverSide, daemons
<1>2. /\ cl' \in [Clients -> ClStates] /\ cl'[c] = label
      /\ \A d \in Clients \ {c} : cl'[d] = cl[d]
  BY DEF Types
<1>3. Types'
  BY <1>1, <1>2 DEF Types
<1>4. ConnInv'
  <2>1. \A d \in Clients :
          /\ cl'[d] \in {"idle", "connect"} => server'[d] = None
          /\ handler'[d] = "replied" => cl'[d] \in {"recv", "gone", "exited"}
    BY <1>1, <1>2 DEF ConnInv
  <2> QED
    BY <1>1, <2>1, ConnKept
<1>5. AnswerInv'
  BY <1>1 DEF AnswerInv, Type
<1>6. StatusTruthful'
  BY <1>1, <1>2 DEF StatusTruthful, Type
<1> QED
  BY <1>3, <1>4, <1>5, <1>6

\* A client exits, with a status that is not 0 or is the one its answer calls for.
LEMMA ClientExits ==
  ASSUME IndInv, NEW c \in Clients, NEW n \in Int, Exit(c, n),
         argv' \in [Clients -> Seq(Words)],
         \A d \in Clients : handler[d] # "none" => argv'[d] = argv[d],
         n = 0 => handler[c] = "replied" /\ resp[c].ok,
         handler[c] = "replied" /\ resp[c].ok /\ Type(c) = "run"
           => box[c].st = "dead" /\ n = box[c].code
  PROVE  IndInv'
<1> USE DEF IndInv
<1>1. /\ UNCHANGED <<path, sv, backlog, server, handler, resp, box>>
      /\ cl' = [cl EXCEPT ![c] = "exited"] /\ status' = [status EXCEPT ![c] = n]
  BY DEF Exit, serverSide, daemons
<1>2. /\ cl' \in [Clients -> ClStates] /\ cl'[c] = "exited"
      /\ \A d \in Clients \ {c} : cl'[d] = cl[d]
      /\ status' \in [Clients -> Int] /\ status'[c] = n
      /\ \A d \in Clients \ {c} : status'[d] = status[d]
  BY <1>1 DEF Types, ClStates
<1>3. Types'
  BY <1>1, <1>2 DEF Types
<1>4. ConnInv'
  <2>1. \A d \in Clients :
          /\ cl'[d] \in {"idle", "connect"} => server'[d] = None
          /\ handler'[d] = "replied" => cl'[d] \in {"recv", "gone", "exited"}
    BY <1>1, <1>2 DEF ConnInv
  <2> QED
    BY <1>1, <2>1, ConnKept
<1>5. AnswerInv'
  BY <1>1 DEF AnswerInv, Type
<1>6. StatusTruthful'
  BY <1>1, <1>2 DEF StatusTruthful, Type
<1> QED
  BY <1>3, <1>4, <1>5, <1>6

\* connect() puts the client at the end of the backlog behind the path.
LEMMA ConnectKeeps ==
  ASSUME IndInv, NEW c \in Clients, Connect(c)
  PROVE  IndInv'
<1> USE DEF IndInv
<1>1. /\ cl[c] = "connect" /\ server[c] = None /\ handler[c] = "none" /\ None \notin Supervisors
      /\ path \in Supervisors
  BY SocketAssumption DEF Connect, Listened, ConnInv
<1>2. /\ cl' = [cl EXCEPT ![c] = "send"] /\ server' = [server EXCEPT ![c] = path]
      /\ backlog' = [backlog EXCEPT ![path] = Append(backlog[path], c)]
      /\ UNCHANGED <<path, sv, handler, resp, box, argv, status>>
  BY DEF Connect, serverSide, daemons
<1>3. /\ cl' \in [Clients -> ClStates] /\ cl'[c] = "send"
      /\ \A d \in Clients \ {c} : cl'[d] = cl[d]
      /\ server' \in [Clients -> Supervisors \cup {None}] /\ server'[c] = path
      /\ \A d \in Clients \ {c} : server'[d] = server[d]
  BY <1>1, <1>2 DEF Types, ClStates
<1> DEFINE q == backlog[path]
<1>4. /\ q \in Seq(Clients) /\ Append(q, c) \in Seq(Clients)
      /\ \A i \in DOMAIN Append(q, c) :
           \/ i \in DOMAIN q /\ Append(q, c)[i] = q[i]
           \/ i = Len(q) + 1 /\ Append(q, c)[i] = c
  <2>1. q \in Seq(Clients)
    BY <1>1 DEF Types
  <2> QED
    BY <2>1
<1>5. /\ backlog' \in [Supervisors -> Seq(Clients)] /\ backlog'[path] = Append(q, c)
      /\ \A t \in Supervisors \ {path} : backlog'[t] = backlog[t]
  BY <1>1, <1>2, <1>4 DEF Types
<1>6. Types'
  BY <1>2, <1>3, <1>5 DEF Types
<1>7. ASSUME NEW t \in Supervisors, NEW d \in Clients, NEW i \in Nat, Waits(t, i, d)'
      PROVE  \/ Waits(t, i, d) /\ d # c
             \/ t = path /\ d = c /\ i = Len(q) + 1
  <2>1. Waits(t, i, d) => d # c
    BY <1>1 DEF ConnInv
  <2>2. CASE t = path
    <3>1. i \in DOMAIN Append(q, c) /\ Append(q, c)[i] = d
      BY <1>5, <1>7, <2>2 DEF Waits
    <3> QED
      BY <1>4, <2>1, <2>2, <3>1 DEF Waits
  <2>3. CASE t # path
    BY <1>5, <1>7, <2>1, <2>3 DEF Waits
  <2> QED
    BY <2>2, <2>3
<1> HIDE DEF q
<1>8. ConnInv'
  <2>1. \A d \in Clients :
          /\ cl'[d] \in {"idle", "connect"} => server'[d] = None
          /\ server'[d] = None => handler'[d] = "none"
          /\ handler'[d] = "replied" => cl'[d] \in {"recv", "gone", "exited"}
    BY <1>1, <1>2, <1>3 DEF ConnInv
  <2>2. ASSUME NEW t \in Supervisors, NEW d \in Clients, NEW i \in Nat, NEW j \in Nat,
               Waits(t, i, d)'
        PROVE  /\ server'[d] = t /\ handler'[d] = "none"
               /\ Waits(t, j, d)' => i = j
    <3>1. CASE Waits(t, i, d) /\ d # c
      <4>1. server[d] = t /\ handler[d] = "none" /\ (Waits(t, j, d) => i = j)
        BY <3>1 DEF ConnInv
      <4> QED
        BY <1>2, <1>3, <1>7, <3>1, <4>1
    <3>2. CASE t = path /\ d = c /\ i = Len(q) + 1
      BY <1>1, <1>2, <1>3, <1>7, <3>2
    <3> QED
      BY <1>7, <2>2, <3>1, <3>2
  <2> QED
    BY <2>1, <2>2 DEF ConnInv
<1>9. AnswerInv' /\ StatusTruthful'
  BY <1>2, <1>3 DEF AnswerInv, StatusTruthful, Type
<1> QED
  BY <1>6, <1>8, <1>9

\* What a client does.
LEMMA ClientKeeps ==
  ASSUME IndInv, NEW c \in Clients,
         (\E line \in CommandLines : Invoke(c, line)) \/ ClientStep(c) \/ Interrupt(c)
  PROVE  IndInv'
<1> USE DEF IndInv
<1>1. /\ argv \in [Clients -> Seq(Words)] /\ None \notin Supervisors
      /\ \A d \in Clients : cl[d] \in {"idle", "connect"} => server[d] = None /\ handler[d] = "none"
  BY SocketAssumption DEF Types, ConnInv
<1>2. ASSUME NEW line \in CommandLines, Invoke(c, line) PROVE IndInv'
  <2>1. /\ cl[c] = "idle" /\ server[c] = None /\ handler[c] = "none"
        /\ argv' = [argv EXCEPT ![c] = line] /\ line \in Seq(Words)
    BY <1>1, <1>2, SocketAssumption DEF Invoke
  <2>2. /\ argv' \in [Clients -> Seq(Words)]
        /\ \A d \in Clients : handler[d] # "none" => argv'[d] = argv[d]
    BY <1>1, <2>1
  <2>3. CASE Exit(c, 1)
    BY <2>1, <2>2, <2>3, ClientExits
  <2>4. CASE /\ cl' = [cl EXCEPT ![c] = "connect"]
             /\ UNCHANGED <<serverSide, backlog, server, status>>
    <3>1. "connect" \in ClStates \ {"idle", "exited"}
      BY DEF ClStates
    <3> QED
      BY <2>1, <2>2, <2>4, <3>1, ClientMoves
  <2> QED
    BY <1>2, <2>3, <2>4 DEF Invoke
<1>3. ASSUME NEW label \in {"recv", "hungup", "gone"}, ClientGoes(c, label), cl[c] # "exited",
             handler[c] = "replied" => label # "hungup", UNCHANGED backlog
      PROVE  IndInv'
  <2>1. label \in ClStates \ {"idle", "exited"} /\ label # "connect"
    BY DEF ClStates
  <2> QED
    BY <1>1, <1>3, <2>1, ClientMoves DEF ClientGoes
<1>4. CASE Interrupt(c)
  BY <1>3, <1>4 DEF Interrupt, ConnInv
<1>5. CASE ConnectFails(c)
  BY <1>1, <1>5, ClientExits DEF ConnectFails
<1>6. CASE SendRequest(c)
  <2>1. CASE ClientGoes(c, "recv") /\ UNCHANGED backlog
    BY <1>3, <1>6, <2>1 DEF SendRequest
  <2>2. CASE Exit(c, 128 + 13) /\ UNCHANGED argv
    <3>1. handler[c] # "replied"
      BY <1>6 DEF SendRequest, ConnInv
    <3>2. 128 + 13 \in Int /\ 128 + 13 # 0
      OBVIOUS
    <3> QED
      BY <1>1, <2>2, <3>1, <3>2, ClientExits
  <2> QED
    BY <1>6, <2>1, <2>2 DEF SendRequest
<1>7. CASE RecvAnswer(c)
  <2>1. CASE handler[c] # "replied" /\ Exit(c, 1)
    BY <1>1, <1>7, <2>1, ClientExits DEF RecvAnswer
  <2>2. CASE handler[c] = "replied" /\ Exit(c, ExitStatus(Type(c), resp[c]))
    <3> DEFINE n == ExitStatus(Type(c), resp[c])
    <3>1. resp[c] \in Response /\ box[c] \in Container
      BY DEF Types
    <3>2. n \in Int
      BY <3>1 DEF ExitStatus, Response
    <3>3. n = 0 => resp[c].ok
      BY DEF ExitStatus
    <3>4. resp[c].ok /\ Type(c) = "run" => box[c].st = "dead" /\ n = box[c].code
      BY <2>2 DEF ExitStatus, AnswerInv
    <3> HIDE DEF n
    <3> QED
      BY <1>1, <1>7, <2>2, <3>2, <3>3, <3>4, ClientExits DEF RecvAnswer, n
  <2> QED
    BY <1>7, <2>1, <2>2 DEF RecvAnswer
<1>8. CASE Connect(c)
  BY <1>8, ConnectKeeps
<1> QED
  BY <1>2, <1>4, <1>5, <1>6, <1>7, <1>8 DEF ClientStep

-----------------------------------------------------------------------------
(* What the exit status of a client says.                                  *)

\* The invariant holds before any supervisor has started.
LEMMA InitInd == Init => IndInv
<1> SUFFICES ASSUME Init PROVE IndInv
  OBVIOUS
<1>1. Types
  <2>1. backlog \in [Supervisors -> Seq(Clients)] /\ argv \in [Clients -> Seq(Words)]
    BY DEF Init
  <2>2. resp \in [Clients -> Response]
    <3>1. [ok |-> FALSE, exit_code |-> -1] \in Response
      BY DEF Response
    <3> QED
      BY <3>1 DEF Init
  <2>3. NoContainer \in Container
    <3>1. -1 \in Int
      OBVIOUS
    <3> QED
      BY <3>1, Zenon DEF NoContainer, Container
  <2>4. box \in [Clients -> Container]
    BY <2>3 DEF Init
  <2>5. status \in [Clients -> Int]
    BY DEF Init
  <2> QED
    BY <2>1, <2>2, <2>4, <2>5 DEF Init, Types, SvStates, ClStates, HandlerStates
<1>2. ConnInv
  BY DEF Init, ConnInv, Waits
<1>3. AnswerInv /\ StatusTruthful
  BY DEF Init, AnswerInv, StatusTruthful, NoContainer
<1> QED
  BY <1>1, <1>2, <1>3 DEF IndInv

\* Every step keeps the invariant.
LEMMA NextKeepsInd == IndInv /\ [Next]_vars => IndInv'
<1> SUFFICES ASSUME IndInv, [Next]_vars PROVE IndInv'
  OBVIOUS
<1>1. CASE UNCHANGED vars
  BY <1>1, SupervisorOnly DEF vars, daemons, IndInv, Types
<1>2. ASSUME NEW s \in Supervisors, Accept(s) \/ AcceptDrops(s) PROVE IndInv'
  BY <1>2, TakesKeeps DEF Accept, AcceptDrops
<1>3. ASSUME NEW s \in Supervisors, Start(s) \/ SupervisorStep(s) \/ ShutdownSignal(s)
      PROVE  IndInv'
  BY <1>2, <1>3, SupervisorKeeps DEF SupervisorStep
<1> QED
  BY <1>1, <1>3, ClientKeeps, HandlerKeeps, ContainerKeeps DEF Next

\* The invariant holds.
LEMMA Inductive == Spec => []IndInv
  BY InitInd, NextKeepsInd, PTL DEF Spec

\* A client that exits with 0 was answered with success, and one whose run was answered
\* with success exits with its own container's exit code, for any number of supervisors
\* and clients and through crashes, dropped connections, signals and interruptions
\* (client_handler_main, send_request_to_supervisor and main).
THEOREM StatusesTruthful == Spec => []StatusTruthful
  BY Inductive, PTL DEF IndInv

-----------------------------------------------------------------------------
(* The socket file, with one supervisor at a time.                         *)

\* No supervisor is started while another one runs.
OneAtATime == "overlap" \notin Disturbances

\* One supervisor is up; there is no file between its unlink() and its bind(); the
\* file is the one of a supervisor that has bound it and not exited by itself.
PathInv ==
  /\ \A s, t \in Supervisors : Up(s) /\ Up(t) => s = t
  /\ \A s \in Supervisors : sv[s] \in {"socket", "bind"} => path = None
  /\ \A s \in Supervisors :
       path = s => sv[s] \in {"listen", "top", "accept", "drain", "killed"}

\* At first there is no socket file.
LEMMA InitPath == Init => PathInv
  BY SocketAssumption DEF Init, PathInv, Up

\* A supervisor moves.
LEMMA PathMoves ==
  ASSUME OneAtATime, IndInv, PathInv, NEW s \in Supervisors, NEW to \in SvStates,
         sv' = [sv EXCEPT ![s] = to],
         to \notin {"off", "exited", "killed"} =>
           Up(s) \/ \A t \in Supervisors : ~ Up(t),
         to \in {"socket", "bind"} => path' = None,
         path' = s => to \in {"listen", "top", "accept", "drain", "killed"},
         path' \in {path, None, s},
         path' = s => path = s \/ Up(s)
  PROVE  PathInv'
<1>1. sv \in [Supervisors -> SvStates] /\ None \notin Supervisors
  BY SocketAssumption DEF IndInv, Types
<1>2. sv'[s] = to /\ \A t \in Supervisors \ {s} : sv'[t] = sv[t]
  BY <1>1
<1>3. \A t, u \in Supervisors : Up(t)' /\ Up(u)' => t = u
  BY <1>1, <1>2 DEF PathInv, Up, Ended
<1>4. \A t \in Supervisors : sv'[t] \in {"socket", "bind"} => path' = None
  BY <1>1, <1>2 DEF PathInv, Up, Ended
<1>5. \A t \in Supervisors :
        path' = t => sv'[t] \in {"listen", "top", "accept", "drain", "killed"}
  BY <1>1, <1>2 DEF PathInv
<1> QED
  BY <1>3, <1>4, <1>5 DEF PathInv

\* Every step keeps PathInv if supervisors run one at a time.
LEMMA NextKeepsPath ==
  ASSUME OneAtATime
  PROVE  IndInv /\ PathInv /\ [Next]_vars => PathInv'
<1> SUFFICES ASSUME IndInv, PathInv, [Next]_vars PROVE PathInv'
  OBVIOUS
<1> USE DEF SvStates
<1>1. CASE UNCHANGED <<path, sv>>
  BY <1>1 DEF PathInv, Up
<1>2. None \notin Supervisors /\ sv \in [Supervisors -> SvStates] /\ path \in Supervisors \cup {None}
  BY SocketAssumption DEF IndInv, Types
<1>3. ASSUME NEW s \in Supervisors, Start(s) PROVE PathInv'
  <2>1. sv[s] = "off" /\ sv' = [sv EXCEPT ![s] = "unlink"] /\ path' = path
        /\ \A t \in Supervisors : ~ Up(t)
    BY <1>3 DEF Start, Goes, OneAtATime
  <2>2. path # s
    BY <2>1 DEF PathInv
  <2> QED
    BY <2>1, <2>2, PathMoves
<1>4. ASSUME NEW s \in Supervisors, Unlink(s) PROVE PathInv'
  BY <1>2, <1>4, PathMoves DEF Unlink, Goes, Up, Ended
<1>5. ASSUME NEW s \in Supervisors, Socket(s) PROVE PathInv'
  BY <1>2, <1>5, PathMoves DEF Socket, Goes, Up, Ended, PathInv
<1>6. ASSUME NEW s \in Supervisors, SocketFails(s) PROVE PathInv'
  BY <1>2, <1>6, PathMoves DEF SocketFails, Ends, Up, Ended, PathInv
<1>7. ASSUME NEW s \in Supervisors, Bind(s) PROVE PathInv'
  BY <1>2, <1>7, PathMoves DEF Bind, Goes, Up, Ended
<1>8. ASSUME NEW s \in Supervisors, Listen(s) PROVE PathInv'
  BY <1>2, <1>8, PathMoves DEF Listen, Goes, Up, Ended
<1>9. ASSUME NEW s \in Supervisors, SetupFails(s) PROVE PathInv'
  BY <1>2, <1>9, PathMoves DEF SetupFails, Ends, Up, Ended
<1>10. ASSUME NEW s \in Supervisors, LoopTop(s) PROVE PathInv'
  <2>1. PICK to \in {"accept", "drain"} : Goes(s, "top", to) /\ path' = path
    BY <1>10 DEF LoopTop
  <2> QED
    BY <1>2, <2>1, PathMoves DEF Goes, Up, Ended
<1>11. ASSUME NEW s \in Supervisors, Accept(s) \/ AcceptDrops(s) PROVE PathInv'
  BY <1>2, <1>11, PathMoves DEF Accept, AcceptDrops, Takes, Goes, Up, Ended
<1>12. ASSUME NEW s \in Supervisors, AcceptFails(s) PROVE PathInv'
  BY <1>2, <1>12, PathMoves DEF AcceptFails, Goes, Up, Ended
<1>13. ASSUME NEW s \in Supervisors, Finish(s) PROVE PathInv'
  BY <1>2, <1>13, PathMoves DEF Finish, Ends, Up, Ended
<1>14. ASSUME NEW c \in Clients, ReplySigpipe(c) PROVE PathInv'
  <2>1. server[c] \in Supervisors /\ Up(server[c])
    BY <1>14 DEF ReplySigpipe, At, IndInv, ConnInv, Types
  <2> QED
    BY <1>2, <1>14, <2>1, PathMoves DEF ReplySigpipe, Ends
<1>15. ASSUME NEW c \in Clients,
              \/ \E line \in CommandLines : Invoke(c, line)
              \/ ClientStep(c) \/ Interrupt(c) \/ ContainerEnds(c)
              \/ RecvFails(c) \/ Serve(c) \/ Clone(c) \/ RunEnds(c) \/ RunLost(c) \/ Reply(c)
       PROVE  UNCHANGED <<path, sv>>
  BY <1>15 DEF Invoke, ClientStep, Connect, ConnectFails, SendRequest, RecvAnswer, Interrupt,
               ClientGoes, Exit, ContainerEnds, RecvFails, Serve, Clone, RunEnds, RunLost, Reply,
               HandlerGoes, Respond, serverSide, daemons
<1>16. ASSUME NEW s \in Supervisors, ShutdownSignal(s) PROVE UNCHANGED <<path, sv>>
  BY <1>16 DEF ShutdownSignal
<1> QED
  BY <1>1, <1>3, <1>4, <1>5, <1>6, <1>7, <1>8, <1>9, <1>10, <1>11, <1>12, <1>13, <1>14, <1>15,
     <1>16 DEF Next, SupervisorStep, HandlerStep, vars, daemons

\* PathInv holds if supervisors run one at a time.
LEMMA PathInductive ==
  ASSUME OneAtATime
  PROVE  Spec => []PathInv
  BY Inductive, InitPath, NextKeepsPath, PTL DEF Spec

\* Started one after the other, a supervisor always finds the path free when it calls
\* bind(), whatever file an earlier one left behind (run_supervisor unlinks first).
THEOREM RestartsSucceed == ASSUME OneAtATime PROVE Spec => []RestartSucceeds
<1>1. PathInv => RestartSucceeds
  BY DEF PathInv, RestartSucceeds
<1> QED
  BY <1>1, PathInductive, PTL

\* Started one after the other, a supervisor that exits by itself takes its socket file
\* with it, at whatever point of its start or its accept loop a signal reaches it.
THEOREM NoSocketLeft == ASSUME OneAtATime PROVE Spec => []NoStaleSocket
<1>1. PathInv => NoStaleSocket
  BY DEF PathInv, NoStaleSocket
<1> QED
  BY <1>1, PathInductive, PTL

=============================================================================
