-------------------------- MODULE SupervisorProofs --------------------------
(***************************************************************************)
(* Proofs about Supervisor, for any number of slots, names, handlers and   *)
(* PIDs and whatever goes wrong (Disturbances): the types, the uniqueness  *)
(* of container IDs, the attribution of stops, and the slots the log       *)
(* consumer relies on.                                                     *)
(*                                                                         *)
(* The inductive invariant IndInv adds to the types what a handler's       *)
(* position says of its local variables (HandlerInv) and of its slot       *)
(* (SlotInv): between the two locked sections of a start its slot is       *)
(* STARTING, has no PID, and no other handler's; from the second on it     *)
(* carries the handler's PID.  A slot that a stop has marked cannot be     *)
(* given back (StopInv), because only STARTING slots are, and stop copies  *)
(* no PID but -1 from those.                                               *)
(***************************************************************************)
EXTENDS Supervisor, WellFoundedInduction, TLAPS

\* Where a handler is between its reservation and the second locked section.
Owner(h) == pc[h] \in {"spawn", "publish", "abort"}

\* Where a handler's container is in the table under its PID.
Launched(h) == pc[h] \in {"logger", "register", "run_wait", "blocked"}

\* What the position of a handler in client_handler_main says of its request and of
\* its local variables.
HandlerInv ==
  \A h \in Handlers :
    /\ pc[h] \notin {"free", "done"} => req[h] \in Requests
    /\ pc[h] = "start" \/ Owner(h) \/ Launched(h) => req[h].type \in {"start", "run"}
    /\ pc[h] \in {"run_wait", "blocked"} => req[h].type = "run"
    /\ pc[h] \in {"stop", "kill"} => req[h].type = "stop"
    /\ pc[h] \in {"ps", "logs", "unknown"} => req[h].type = pc[h]
    /\ pc[h] \in {"free", "recv", "start", "spawn", "stop"} => pid[h] = NoPid
    /\ pc[h] \in {"publish", "abort"} \/ Launched(h) => pid[h] \in Pids
    /\ Owner(h) \/ Launched(h) => idx[h] \in Slots
    /\ resp[h].ok => pc[h] \in {"reply", "done"} /\ req[h] \in Requests

\* What the position of a handler says of its slot: it owns a STARTING slot alone, and
\* leaves it with its PID; a slot has no PID exactly while it is STARTING.
SlotInv ==
  /\ \A h \in Handlers : Owner(h) =>
       /\ containers[idx[h]].used
       /\ containers[idx[h]].state = "STARTING"
       /\ containers[idx[h]].rootfs = req[h].rootfs
  /\ \A g, h \in Handlers : Owner(g) /\ Owner(h) /\ g # h => idx[g] # idx[h]
  /\ \A h \in Handlers : Launched(h) =>
       /\ containers[idx[h]].used
       /\ containers[idx[h]].state # "STARTING"
       /\ containers[idx[h]].pid = pid[h]
  /\ \A i \in Slots : containers[i].used =>
       /\ containers[i].state \in LiveStates \cup DeadStates
       /\ containers[i].state = "STARTING" <=> containers[i].pid = NoPid
  /\ \A i \in Slots : logger[i] => containers[i].used /\ containers[i].state # "STARTING"
  /\ reaper.pc = "record" => reaper.pid \in Pids

\* A slot that a stop has marked keeps its PID, and ends STOPPED.
StopInv ==
  \A h \in Handlers : req[h] # None /\ req[h].type = "stop" /\ pid[h] # NoPid =>
      /\ idx[h] \in Slots
      /\ containers[idx[h]].used
      /\ containers[idx[h]].pid = pid[h]
      /\ containers[idx[h]].stop_requested
      /\ containers[idx[h]].state \in {"RUNNING", "STOPPED"}

\* No two live slots are on one rootfs path: rootfs_in_use_locked does its work.
RootfsInv ==
  \A i, j \in Slots : Live(i) /\ Live(j) /\ i # j => containers[i].rootfs # containers[j].rootfs

\* The container table.
TableInv == SlotInv /\ StopInv /\ UniqueIds /\ RootfsInv

\* The inductive invariant.
IndInv == TypeOK /\ HandlerInv /\ TableInv

-----------------------------------------------------------------------------
\* A set of numbers that is not empty has a least element.
LEMMA LeastExists ==
  ASSUME NEW S, S \subseteq Nat, S # {}
  PROVE  \E i \in S : \A j \in S : i <= j
<1>1. PICK x \in S : \A y \in S : ~ (<<y, x>> \in OpToRel(<, Nat))
  BY WFMin, NatLessThanWellFounded
<1>2. \A y \in S : ~ (y < x)
  <2> SUFFICES ASSUME NEW y \in S, y < x PROVE FALSE
    OBVIOUS
  <2>1. <<y, x>> \in OpToRel(<, Nat)
    BY DEF OpToRel
  <2> QED
    BY <1>1, <2>1, Zenon
<1>3. \A y \in S : x <= y
  BY <1>2, SMT
<1> QED
  BY <1>3

\* The search for the first slot with a property finds one that has it.
LEMMA FirstIsIn ==
  ASSUME NEW S, S \subseteq Slots, S # {}
  PROVE  First(S) \in S
<1>1. S \subseteq Nat
  BY MaxAssumption DEF Slots
<1>2. \E i \in S : \A j \in S : i <= j
  BY <1>1, LeastExists
<1> QED
  BY <1>2, Zenon DEF First

\* The types of a slot and of a process, as TypeOK has them.
ContainerType ==
  [used : BOOLEAN, id : Ids \cup {None}, rootfs : Rootfs \cup {None},
   pid : Pids \cup {NoPid}, state : LiveStates \cup DeadStates \cup {None},
   stop_requested : BOOLEAN, exit_code : Int]

ProcessType ==
  [st : LivePhases \cup {"unborn", "zombie", "reaped", "other"},
   sig : SUBSET {SIGKILL, SIGTERM}, status : Statuses, rootfs : Rootfs \cup {None}]

\* The supervisor starts with the right types.
LEMMA InitTyped == Init => TypeOK
<1> SUFFICES ASSUME Init PROVE TypeOK
  OBVIOUS
<1>1. FreeSlot \in ContainerType
  BY DEF FreeSlot, ContainerType
<1>2. NoStatus \in Statuses
  BY DEF Statuses
<1>3. NoProcess \in ProcessType /\ [NoProcess EXCEPT !.st = "other"] \in ProcessType
  BY <1>2 DEF NoProcess, ProcessType
<1>4. containers \in [Slots -> ContainerType]
  BY <1>1 DEF Init
<1>5. proc \in [Pids -> ProcessType]
  BY <1>3 DEF Init
<1>6. idx \in [Handlers -> Slots \cup {-1}] /\ pid \in [Handlers -> Pids \cup {NoPid}]
  BY DEF Init
<1>7. resp \in [Handlers -> [ok : BOOLEAN, exit_code : Int]]
  BY DEF Init
<1>8. reaper \in [pc : {"waitpid", "record", "done"}, pid : Pids \cup {NoPid},
                 status : Statuses]
  BY <1>2 DEF Init
<1> QED
  BY <1>4, <1>5, <1>6, <1>7, <1>8 DEF Init, TypeOK, ContainerType, ProcessType, Labels

\* kill() adds to the pending signals of processes and changes nothing else of them.
LEMMA SignalledTyped ==
  ASSUME TypeOK, NEW S, NEW s \in {SIGKILL, SIGTERM}
  PROVE  /\ Signalled(S, s) \in [Pids -> ProcessType]
         /\ \A p \in Pids :
              /\ Signalled(S, s)[p].st = proc[p].st
              /\ Signalled(S, s)[p].status = proc[p].status
              /\ Signalled(S, s)[p].rootfs = proc[p].rootfs
              /\ proc[p].sig \subseteq Signalled(S, s)[p].sig
<1> SUFFICES ASSUME NEW p \in Pids
             PROVE  /\ Signalled(S, s)[p] \in ProcessType
                    /\ Signalled(S, s)[p].st = proc[p].st
                    /\ Signalled(S, s)[p].status = proc[p].status
                    /\ Signalled(S, s)[p].rootfs = proc[p].rootfs
                    /\ proc[p].sig \subseteq Signalled(S, s)[p].sig
  BY DEF Signalled
<1>1. proc[p] \in ProcessType
  BY DEF TypeOK, ProcessType
<1>2. CASE Signalled(S, s)[p] = proc[p]
  BY <1>1, <1>2
<1>3. CASE Signalled(S, s)[p] = [proc[p] EXCEPT !.sig = @ \cup {s}]
  BY <1>1, <1>3 DEF ProcessType
<1> QED
  BY <1>2, <1>3 DEF Signalled

\* The main thread, StopAllLive and the signal handler keep the types.
LEMMA MainKeepsType ==
  ASSUME TypeOK, MainStep \/ ShutdownSignal
  PROVE  TypeOK'
<1>1. CASE Boot \/ LeaveLoop \/ ShutdownLogging \/ JoinReaper \/ JoinUndefined \/ ShutdownSignal
  BY <1>1 DEF Boot, LeaveLoop, ShutdownLogging, JoinReaper, BootsWithoutReaper, JoinUndefined, ShutdownSignal, MainGoes,
             TypeOK, daemon, table, locals, handlerVars, host
<1>2. CASE StopAllLive
  <2>1. containers' \in [Slots -> ContainerType]
    <3> SUFFICES ASSUME NEW i \in Slots
                 PROVE  [containers[i] EXCEPT !.stop_requested = @ \/ Live(i)] \in ContainerType
      BY <1>2, Zenon DEF StopAllLive
    <3>1. containers[i] \in ContainerType
      BY DEF TypeOK, ContainerType
    <3>2. (containers[i].stop_requested \/ Live(i)) \in BOOLEAN
      OBVIOUS
    <3> DEFINE b == containers[i].stop_requested \/ Live(i)
    <3> HIDE DEF b
    <3>3. [containers[i] EXCEPT !.stop_requested = b] \in ContainerType
      BY <3>1, <3>2 DEF ContainerType, b
    <3> QED
      BY <3>3 DEF b
  <2>2. proc' \in [Pids -> ProcessType]
    BY <1>2, SignalledTyped DEF StopAllLive
  <2> QED
    BY <1>2, <2>1, <2>2
       DEF StopAllLive, TypeOK, ContainerType, ProcessType, handlerVars, locals
<1> QED
  BY <1>1, <1>2 DEF MainStep

\* Handler steps that move the handler and choose its answer, no more.
QuietStep(h) ==
  \/ Dispatch(h) \/ RecvFails(h) \/ Reply(h) \/ StartRefused(h)
  \/ RunBlocks(h) \/ RunSpurious(h) \/ RunEnds(h)
  \/ StopRefused(h) \/ PsReply(h) \/ LogsReply(h) \/ UnknownReply(h)

\* The types of the slots and of the processes, one by one.
LEMMA TypeEntry ==
  ASSUME TypeOK
  PROVE  /\ containers \in [Slots -> ContainerType] /\ proc \in [Pids -> ProcessType]
         /\ \A i \in Slots : containers[i] \in ContainerType
         /\ \A p \in Pids : proc[p] \in ProcessType
  BY DEF TypeOK, ContainerType, ProcessType

\* The fields of a request.
LEMMA RequestTyped ==
  ASSUME NEW r \in Requests
  PROVE  r.type \in RequestTypes /\ r.id \in Ids /\ r.rootfs \in Rootfs
  BY RequestAssumption

\* Handler steps that only move on or answer keep the types.
LEMMA QuietKeepsType ==
  ASSUME TypeOK, HandlerInv, NEW h \in Handlers, QuietStep(h)
  PROVE  TypeOK'
<1> USE DEF daemon, table, locals, handlerVars, host
<1>1. CASE Dispatch(h)
  <2>1. req[h] \in Requests
    BY <1>1 DEF Dispatch, At, HandlerInv
  <2>2. (IF req[h].type = "run" THEN "start" ELSE req[h].type) \in Labels
    BY <2>1, RequestTyped DEF RequestTypes, Labels
  <2> QED
    BY <1>1, <2>2 DEF Dispatch, Step, Goto, TypeOK
<1>2. CASE RecvFails(h) \/ Reply(h) \/ RunBlocks(h) \/ RunSpurious(h)
  BY <1>2 DEF RecvFails, Reply, RunBlocks, RunSpurious, Step, Goto, TypeOK, Labels
<1>3. ASSUME NEW ok \in BOOLEAN, NEW code \in Int, Answer(h, ok, code)
      PROVE  TypeOK'
  BY <1>3 DEF Answer, Respond, Goto, TypeOK, Labels
<1>4. CASE RunEnds(h)
  <2>1. containers[idx[h]].exit_code \in Int
    BY <1>4, TypeEntry DEF RunEnds, At, HandlerInv, Launched, ContainerType
  <2> QED
    BY <1>3, <1>4, <2>1 DEF RunEnds
<1>5. Answer(h, FALSE, -1) \/ Answer(h, TRUE, 0) => TypeOK'
  <2>1. FALSE \in BOOLEAN /\ TRUE \in BOOLEAN /\ -1 \in Int /\ 0 \in Int
    OBVIOUS
  <2> QED
    BY <1>3, <2>1, Zenon
<1> QED
  BY <1>1, <1>2, <1>4, <1>5, Zenon
     DEF QuietStep, StartRefused, StopRefused, PsReply, LogsReply, UnknownReply

\* set_response keeps the types of the answer and of the position.
LEMMA RespondTyped ==
  ASSUME TypeOK, NEW h \in Handlers, Respond(h, TRUE, 0) \/ Respond(h, FALSE, -1)
  PROVE  /\ resp' \in [Handlers -> [ok : BOOLEAN, exit_code : Int]]
         /\ pc' \in [Handlers -> Labels]
<1>1. CASE Respond(h, TRUE, 0)
  BY <1>1 DEF Respond, Goto, TypeOK, Labels
<1>2. CASE Respond(h, FALSE, -1)
  BY <1>2 DEF Respond, Goto, TypeOK, Labels
<1> QED
  BY <1>1, <1>2

\* Connections that come, are dropped or break keep the types.
LEMMA ClientKeepsType ==
  ASSUME TypeOK, NEW h \in Handlers,
         \/ \E r \in Requests : Accept(h, r)
         \/ AcceptDrops(h) \/ ClientQuits(h) \/ ReplySigpipe(h)
  PROVE  TypeOK'
<1> USE DEF daemon, table, locals, handlerVars, host
<1>1. ASSUME NEW r \in Requests, Accept(h, r)
      PROVE  TypeOK'
  BY <1>1 DEF Accept, Goto, TypeOK, Labels
<1>2. CASE AcceptDrops(h) \/ ClientQuits(h) \/ ReplySigpipe(h)
  BY <1>2 DEF AcceptDrops, ClientQuits, ReplySigpipe, Goto, TypeOK, Labels
<1> QED
  BY <1>1, <1>2

\* The steps of start_container_internal keep the types.
LEMMA StartKeepsType ==
  ASSUME TypeOK, HandlerInv, NEW h \in Handlers,
         \/ ReserveSlot(h) \/ SpawnFails(h) \/ Spawn(h) \/ ProducerArgFails(h)
         \/ AbortStart(h) \/ PublishPid(h) \/ CreateProducer(h) \/ RegisterWithKernel(h)
  PROVE  TypeOK'
<1> USE DEF daemon, table, locals, handlerVars, host
<1>1. CASE ReserveSlot(h)
  <2>1. First(FreeSlots) \in Slots
    BY <1>1, FirstIsIn DEF ReserveSlot, Admissible, FreeSlots
  <2>2. req[h].id \in Ids /\ req[h].rootfs \in Rootfs
    BY <1>1, RequestTyped DEF ReserveSlot, At, HandlerInv
  <2>3. Reserved(h) \in ContainerType
    <3>1. FreeSlot \in ContainerType
      BY DEF FreeSlot, ContainerType
    <3> QED
      BY <2>2, <3>1 DEF Reserved, ContainerType, LiveStates
  <2>4. containers' \in [Slots -> ContainerType]
    BY <1>1, <2>3, TypeEntry DEF ReserveSlot
  <2> QED
    BY <1>1, <2>1, <2>4 DEF ReserveSlot, Goto, TypeOK, ContainerType, Labels
<1>2. CASE SpawnFails(h) \/ AbortStart(h)
  <2>1. ReleaseSlot(h)
    BY <1>2 DEF SpawnFails, AbortStart
  <2>2. containers' \in [Slots -> ContainerType]
    BY <2>1, TypeEntry DEF ReleaseSlot, ContainerType
  <2> QED
    BY <2>1, <2>2 DEF ReleaseSlot, Respond, Goto, TypeOK, ContainerType, Labels
<1>3. CASE Spawn(h)
  <2>1. PICK p \in Pids :
          /\ proc' = [proc EXCEPT ![p] = [NoProcess EXCEPT !.st = "setup",
                                            !.rootfs = req[h].rootfs]]
          /\ pid' = [pid EXCEPT ![h] = p]
    BY <1>3 DEF Spawn
  <2>2. req[h].rootfs \in Rootfs
    BY <1>3, RequestTyped DEF Spawn, At, HandlerInv
  <2>3. [NoProcess EXCEPT !.st = "setup", !.rootfs = req[h].rootfs] \in ProcessType
    BY <2>2 DEF NoProcess, ProcessType, LivePhases, Statuses
  <2>4. proc' \in [Pids -> ProcessType]
    BY <2>1, <2>3, TypeEntry
  <2> QED
    BY <1>3, <2>1, <2>4 DEF Spawn, Goto, TypeOK, ProcessType, Labels
<1>4. CASE ProducerArgFails(h)
  <2>1. proc' \in [Pids -> ProcessType]
    BY <1>4, SignalledTyped DEF ProducerArgFails
  <2> QED
    BY <1>4, <2>1 DEF ProducerArgFails, Goto, TypeOK, ProcessType, Labels
<1>5. CASE PublishPid(h)
  <2>1. pid[h] \in Pids
    BY <1>5 DEF PublishPid, At, HandlerInv
  <2>2. PICK i \in Slots : i = idx[h]
    BY <1>5 DEF PublishPid, At, HandlerInv, Owner
  <2>3. containers' = [containers EXCEPT ![i].pid = pid[h], ![i].state = "RUNNING"]
    BY <1>5, <2>2 DEF PublishPid
  <2>4. containers' = [containers EXCEPT ![i] = [containers[i] EXCEPT !.pid = pid[h],
                                                                      !.state = "RUNNING"]]
    BY <2>3, TypeEntry
  <2>5. [containers[i] EXCEPT !.pid = pid[h], !.state = "RUNNING"] \in ContainerType
    BY <2>1, TypeEntry DEF ContainerType, LiveStates
  <2>6. containers' \in [Slots -> ContainerType]
    BY <2>4, <2>5, TypeEntry
  <2> QED
    BY <1>5, <2>6 DEF PublishPid, Goto, TypeOK, ContainerType, Labels
<1>6. CASE CreateProducer(h)
  BY <1>6 DEF CreateProducer, Goto, TypeOK, Labels
<1>7. CASE RegisterWithKernel(h)
  <2>1. pid[h] \in Pids
    BY <1>7 DEF RegisterWithKernel, At, HandlerInv, Launched
  <2>2. monitored' \subseteq Pids
    BY <1>7, <2>1 DEF RegisterWithKernel, TypeOK
  <2>3. CASE Respond(h, TRUE, 0)
    BY <1>7, <2>2, <2>3, RespondTyped DEF RegisterWithKernel, TypeOK
  <2>4. CASE Goto(h, "run_wait") /\ UNCHANGED resp
    BY <1>7, <2>2, <2>4 DEF RegisterWithKernel, Goto, TypeOK, Labels
  <2> QED
    BY <1>7, <2>3, <2>4 DEF RegisterWithKernel
<1> QED
  BY <1>1, <1>2, <1>3, <1>4, <1>5, <1>6, <1>7

\* The steps of stop_container_by_id keep the types.
LEMMA StopKeepsType ==
  ASSUME TypeOK, HandlerInv, NEW h \in Handlers, StopMarks(h) \/ StopKills(h)
  PROVE  TypeOK'
<1> USE DEF daemon, table, locals, handlerVars, host
<1>1. CASE StopMarks(h)
  <2>1. PICK i \in Slots :
          /\ containers' = [containers EXCEPT ![i].stop_requested = TRUE]
          /\ idx' = [idx EXCEPT ![h] = i]
          /\ pid' = [pid EXCEPT ![h] = containers[i].pid]
    BY <1>1 DEF StopMarks, Stoppable, WithId
  <2>2. containers' \in [Slots -> ContainerType] /\ containers[i].pid \in Pids \cup {NoPid}
    BY <2>1, TypeEntry DEF ContainerType
  <2> QED
    BY <1>1, <2>1, <2>2 DEF StopMarks, Goto, TypeOK, ContainerType, Labels
<1>2. CASE StopKills(h)
  <2>1. proc' \in [Pids -> ProcessType]
    BY <1>2, SignalledTyped DEF StopKills
  <2>2. Respond(h, TRUE, 0) \/ Respond(h, FALSE, -1)
    BY <1>2 DEF StopKills
  <2> QED
    BY <1>2, <2>1, <2>2, RespondTyped DEF StopKills, TypeOK, ProcessType
<1> QED
  BY <1>1, <1>2

\* The steps of reaper_main keep the types.
LEMMA ReaperKeepsType ==
  ASSUME TypeOK, HandlerInv, SlotInv, ReaperStep
  PROVE  TypeOK'
<1> USE DEF daemon, table, locals, handlerVars, host
<1>1. ASSUME NEW p \in Pids, Reap(p)
      PROVE  TypeOK'
  <2>1. proc[p].status \in Statuses
    BY TypeEntry DEF ProcessType
  <2>2. proc' \in [Pids -> ProcessType]
    BY <1>1, TypeEntry DEF Reap, ProcessType
  <2> QED
    BY <1>1, <2>1, <2>2 DEF Reap, TypeOK, ProcessType
<1>2. CASE RecordExit
  <2>1. PICK i \in Slots : /\ containers' = [containers EXCEPT ![i] = ExitRecord(i)]
                           /\ pc' = WakeRunners(i)
    BY <1>2, FirstIsIn DEF RecordExit, WithPid
  <2>2. reaper.status.n \in Int
    BY DEF TypeOK, Statuses, OwnDeaths, SetupDeaths, NoStatus, Exited, Signaled,
           SIGKILL, SIGSEGV
  <2>3. ExitCode(reaper.status) \in Int
    BY <2>2 DEF ExitCode
  <2>4. \A s, b : FinalState(s, b) \in DeadStates
    BY DEF FinalState, DeadStates
  <2>5. ExitRecord(i) \in ContainerType
    BY <2>3, <2>4, TypeEntry DEF ExitRecord, ContainerType
  <2>6. containers' \in [Slots -> ContainerType]
    BY <2>1, <2>5, TypeEntry
  <2>7. pc' \in [Handlers -> Labels]
    BY <2>1 DEF WakeRunners, TypeOK, Labels
  <2> QED
    BY <1>2, <2>6, <2>7 DEF RecordExit, TypeOK, ContainerType
<1>3. CASE RecordNothing \/ ReaperEnds
  BY <1>3 DEF RecordNothing, ReaperEnds, ReaperGoes, TypeOK
<1> QED
  BY <1>1, <1>2, <1>3 DEF ReaperStep

\* The container processes keep the types.
LEMMA ProcessKeepsType ==
  ASSUME TypeOK, NEW p \in Pids, ProcessStep(p)
  PROVE  TypeOK'
<1>1. PICK st \in LivePhases \cup {"zombie", "other"}, s \in Statuses : Process(p, st, s)
  <2>1. OwnDeaths \subseteq Statuses /\ SetupDeaths \subseteq Statuses
        /\ NoStatus \in Statuses /\ Exited(0) \in Statuses /\ Signaled(SIGKILL) \in Statuses
    BY DEF Statuses, OwnDeaths
  <2> QED
    BY <2>1, Zenon DEF ProcessStep, Exec, SetupFails, InstallsHandler, ExitsOnSigterm, ExitsByItself,
              KilledBySigkill, PidTaken, Dies, LivePhases
<1>2. proc' \in [Pids -> ProcessType]
  BY <1>1, TypeEntry DEF Process, ProcessType
<1> QED
  BY <1>1, <1>2
     DEF Process, TypeOK, ProcessType, daemon, table, locals, handlerVars

\* The kernel monitor keeps the types.
LEMMA KernelKeepsType ==
  ASSUME TypeOK, KernelStep
  PROVE  TypeOK'
<1> USE DEF daemon, table, locals, handlerVars
<1>1. ASSUME NEW p \in Pids, Sigkilled(p)
      PROVE  TypeOK'
  <2>1. proc' \in [Pids -> ProcessType]
    BY <1>1, SignalledTyped DEF Sigkilled
  <2> QED
    BY <1>1, <2>1 DEF Sigkilled, TypeOK, ProcessType
<1>2. ASSUME NEW p \in Pids, StaleEntryRemoved(p)
      PROVE  TypeOK'
  BY <1>2 DEF StaleEntryRemoved, TypeOK
<1>3. CASE ListFreed
  BY <1>3 DEF ListFreed, TypeOK
<1> QED
  BY <1>1, <1>2, <1>3 DEF KernelStep, HardLimitKill, HostKill

-----------------------------------------------------------------------------
(* The handlers' control. *)

\* HandlerInv depends on the variables of the handlers only.
LEMMA HandlerKept ==
  ASSUME HandlerInv, UNCHANGED <<pc, req, idx, pid, resp>>
  PROVE  HandlerInv'
  BY DEF HandlerInv, Owner, Launched

\* Handler steps that only move on or answer keep HandlerInv.
LEMMA QuietKeepsHandler ==
  ASSUME TypeOK, HandlerInv, NEW h \in Handlers, QuietStep(h)
  PROVE  HandlerInv'
<1> USE DEF daemon, table, locals, handlerVars, host, HandlerInv, Owner, Launched
<1>1. CASE Dispatch(h)
  <2>1. req[h] \in Requests /\ req[h].type \in RequestTypes
    BY <1>1, RequestTyped DEF Dispatch, At
  <2> QED
    BY <1>1, <2>1 DEF Dispatch, At, Step, Goto, TypeOK, RequestTypes
<1>2. CASE RecvFails(h) \/ RunBlocks(h) \/ RunSpurious(h)
  BY <1>2 DEF RecvFails, RunBlocks, RunSpurious, At, Step, Goto, TypeOK
<1>3. CASE Reply(h)
  BY <1>3 DEF Reply, At, Goto, TypeOK
<1>4. ASSUME NEW ok, NEW code, Answer(h, ok, code), req[h] \in Requests
      PROVE  HandlerInv'
  BY <1>4 DEF Answer, Respond, Goto, TypeOK
<1> QED
  BY <1>1, <1>2, <1>3, <1>4
     DEF QuietStep, StartRefused, RunEnds, StopRefused, PsReply, LogsReply, UnknownReply, At

\* Connections that come, are dropped or break keep HandlerInv.
LEMMA ClientKeepsHandler ==
  ASSUME TypeOK, HandlerInv, NEW h \in Handlers,
         \/ \E r \in Requests : Accept(h, r)
         \/ AcceptDrops(h) \/ ClientQuits(h) \/ ReplySigpipe(h)
  PROVE  HandlerInv'
<1> USE DEF daemon, table, locals, handlerVars, host, HandlerInv, Owner, Launched
<1>1. ASSUME NEW r \in Requests, Accept(h, r)
      PROVE  HandlerInv'
  BY <1>1 DEF Accept, Goto, TypeOK
<1>2. CASE AcceptDrops(h)
  BY <1>2 DEF AcceptDrops, Goto, TypeOK
<1>3. CASE ClientQuits(h) \/ ReplySigpipe(h)
  BY <1>3, HandlerKept DEF ClientQuits, ReplySigpipe
<1> QED
  BY <1>1, <1>2, <1>3

\* The steps of start_container_internal keep HandlerInv.
LEMMA StartKeepsHandler ==
  ASSUME TypeOK, HandlerInv, NEW h \in Handlers,
         \/ ReserveSlot(h) \/ SpawnFails(h) \/ Spawn(h) \/ ProducerArgFails(h)
         \/ AbortStart(h) \/ PublishPid(h) \/ CreateProducer(h) \/ RegisterWithKernel(h)
  PROVE  HandlerInv'
<1> USE DEF daemon, table, locals, handlerVars, host, HandlerInv, Owner, Launched, At, Goto
<1>1. CASE ReserveSlot(h)
  <2>1. First(FreeSlots) \in Slots
    BY <1>1, FirstIsIn DEF ReserveSlot, Admissible, FreeSlots
  <2> QED
    BY <1>1, <2>1 DEF ReserveSlot, TypeOK
<1>2. CASE SpawnFails(h) \/ AbortStart(h)
  BY <1>2 DEF SpawnFails, AbortStart, ReleaseSlot, Respond, TypeOK
<1>3. CASE Spawn(h)
  BY <1>3 DEF Spawn, TypeOK
<1>4. CASE ProducerArgFails(h)
  BY <1>4 DEF ProducerArgFails, TypeOK
<1>5. CASE PublishPid(h)
  BY <1>5 DEF PublishPid, TypeOK
<1>6. CASE CreateProducer(h)
  BY <1>6 DEF CreateProducer, TypeOK
<1>7. CASE RegisterWithKernel(h)
  <2>1. CASE req[h].type = "start"
    BY <1>7, <2>1 DEF RegisterWithKernel, Respond, TypeOK
  <2>2. CASE req[h].type # "start"
    BY <1>7, <2>2 DEF RegisterWithKernel, TypeOK
  <2> QED
    BY <2>1, <2>2
<1> QED
  BY <1>1, <1>2, <1>3, <1>4, <1>5, <1>6, <1>7

\* The steps of stop_container_by_id keep HandlerInv.
LEMMA StopKeepsHandler ==
  ASSUME TypeOK, HandlerInv, NEW h \in Handlers, StopMarks(h) \/ StopKills(h)
  PROVE  HandlerInv'
<1> USE DEF daemon, table, locals, handlerVars, host, HandlerInv, Owner, Launched, At, Goto
<1>1. CASE StopMarks(h)
  BY <1>1 DEF StopMarks, TypeOK
<1>2. CASE StopKills(h)
  BY <1>2 DEF StopKills, Respond, TypeOK
<1> QED
  BY <1>1, <1>2

\* The reaper's broadcast moves waiting handlers, and keeps HandlerInv.
LEMMA ReaperKeepsHandler ==
  ASSUME TypeOK, HandlerInv, ReaperStep
  PROVE  HandlerInv'
<1> USE DEF daemon, table, locals, handlerVars, host
<1>1. CASE RecordNothing \/ ReaperEnds \/ \E p \in Pids : Reap(p)
  BY <1>1, HandlerKept DEF RecordNothing, ReaperEnds, ReaperGoes, Reap
<1>2. CASE RecordExit
  BY <1>2 DEF RecordExit, WakeRunners, HandlerInv, Owner, Launched, TypeOK
<1> QED
  BY <1>1, <1>2 DEF ReaperStep

\* The other threads and processes do not touch the handlers.
LEMMA OthersKeepHandler ==
  ASSUME HandlerInv,
         MainStep \/ ShutdownSignal \/ KernelStep \/ \E p \in Pids : ProcessStep(p)
  PROVE  HandlerInv'
<1>1. UNCHANGED <<pc, req, idx, pid, resp>>
  BY Zenon DEF MainStep, Boot, LeaveLoop, StopAllLive, ShutdownLogging, JoinReaper, BootsWithoutReaper, JoinUndefined, MainGoes,
         ShutdownSignal, KernelStep, HardLimitKill, HostKill, Sigkilled, StaleEntryRemoved, ListFreed,
         ProcessStep, Exec, SetupFails, InstallsHandler, ExitsOnSigterm, ExitsByItself,
         KilledBySigkill, PidTaken, Dies, Process, handlerVars, locals
<1> QED
  BY <1>1, HandlerKept

-----------------------------------------------------------------------------
(* The container table. *)

\* A step that leaves the table and the local variables alone, and gives no handler a
\* slot, keeps the table.
LEMMA TableKept ==
  ASSUME TableInv, UNCHANGED <<containers, logger, req, idx, pid>>,
         \A g \in Handlers : (Owner(g)' => Owner(g)) /\ (Launched(g)' => Launched(g)),
         reaper'.pc = "record" => reaper'.pid \in Pids
  PROVE  TableInv'
<1>1. SlotInv'
  BY DEF TableInv, SlotInv
<1>2. StopInv' /\ UniqueIds' /\ RootfsInv'
  BY DEF TableInv, StopInv, UniqueIds, RootfsInv, Live
<1> QED
  BY <1>1, <1>2 DEF TableInv

\* Handler steps that only move on or answer keep the table.
LEMMA QuietKeepsTable ==
  ASSUME TypeOK, HandlerInv, TableInv, NEW h \in Handlers, QuietStep(h)
  PROVE  TableInv'
<1> USE DEF daemon, table, locals, handlerVars, host
<1>1. UNCHANGED <<containers, logger, req, idx, pid, reaper>>
  BY Zenon DEF QuietStep, Dispatch, RecvFails, Reply, StartRefused, RunBlocks, RunSpurious, RunEnds,
         StopRefused, PsReply, LogsReply, UnknownReply, Step, Answer
<1>2. \E l \in Labels :
        /\ pc' = [pc EXCEPT ![h] = l]
        /\ l \in {"run_wait", "blocked"} => Launched(h)
        /\ l \notin {"spawn", "publish", "abort", "logger", "register"}
  <2>1. CASE Dispatch(h)
    <3>1. req[h].type \in RequestTypes
      BY <2>1, RequestTyped DEF Dispatch, At, HandlerInv
    <3> QED
      BY <2>1, <3>1 DEF Dispatch, Step, Goto, RequestTypes, Labels
  <2>2. CASE ~ Dispatch(h)
    BY <2>2 DEF QuietStep, RecvFails, Reply, StartRefused, RunBlocks, RunSpurious, RunEnds,
         StopRefused, PsReply, LogsReply, UnknownReply, Step, Answer, Respond, Goto, At, Launched, Labels
  <2> QED
    BY <2>1, <2>2
<1>3. \A g \in Handlers : (Owner(g)' => Owner(g)) /\ (Launched(g)' => Launched(g))
  BY <1>2 DEF Owner, Launched, TypeOK
<1> QED
  BY <1>1, <1>3, TableKept DEF TableInv, SlotInv

\* Connections that come, are dropped or break keep the table.
LEMMA ClientKeepsTable ==
  ASSUME TypeOK, HandlerInv, TableInv, NEW h \in Handlers,
         \/ \E r \in Requests : Accept(h, r)
         \/ AcceptDrops(h) \/ ClientQuits(h) \/ ReplySigpipe(h)
  PROVE  TableInv'
<1> USE DEF daemon, table, locals, handlerVars, host
<1>1. ASSUME NEW r \in Requests, Accept(h, r)
      PROVE  TableInv'
  <2>1. SlotInv'
    BY <1>1 DEF Accept, Goto, TypeOK, TableInv, SlotInv, Owner, Launched
  <2>2. StopInv'
    BY <1>1 DEF Accept, Goto, TypeOK, TableInv, StopInv, HandlerInv
  <2>3. UniqueIds' /\ RootfsInv'
    BY <1>1 DEF Accept, TableInv, UniqueIds, RootfsInv, Live
  <2> QED
    BY <2>1, <2>2, <2>3 DEF TableInv
<1>2. CASE AcceptDrops(h) \/ ClientQuits(h) \/ ReplySigpipe(h)
  <2>1. UNCHANGED <<containers, logger, req, idx, pid, reaper>>
    BY <1>2 DEF AcceptDrops, ClientQuits, ReplySigpipe
  <2>2. \A g \in Handlers : (Owner(g)' => Owner(g)) /\ (Launched(g)' => Launched(g))
    BY <1>2 DEF AcceptDrops, ClientQuits, ReplySigpipe, Goto, Owner, Launched, TypeOK
  <2> QED
    BY <2>1, <2>2, TableKept DEF TableInv, SlotInv
<1> QED
  BY <1>1, <1>2

\* The steps of the other threads and processes that do not write the table keep it.
LEMMA OthersKeepTable ==
  ASSUME TypeOK, TableInv,
         \/ Boot \/ LeaveLoop \/ ShutdownLogging \/ JoinReaper \/ JoinUndefined \/ ShutdownSignal
         \/ KernelStep \/ \E p \in Pids : ProcessStep(p) \/ Reap(p)
         \/ RecordNothing \/ ReaperEnds
  PROVE  TableInv'
<1> USE DEF daemon, table, locals, handlerVars, host
<1>1. UNCHANGED <<containers, logger, req, idx, pid, pc>>
  BY Zenon DEF Boot, LeaveLoop, ShutdownLogging, JoinReaper, BootsWithoutReaper, JoinUndefined, MainGoes,
         ShutdownSignal, KernelStep, HardLimitKill, HostKill, Sigkilled, StaleEntryRemoved, ListFreed,
         ProcessStep, Exec, SetupFails, InstallsHandler, ExitsOnSigterm, ExitsByItself,
         KilledBySigkill, PidTaken, Dies, Process, Reap, RecordNothing, ReaperEnds, ReaperGoes
<1>2. reaper'.pc = "record" => reaper'.pid \in Pids
  <2>1. CASE RecordNothing \/ ReaperEnds
    BY <2>1 DEF RecordNothing, ReaperEnds, ReaperGoes, TypeOK
  <2>2. ASSUME NEW p \in Pids, Reap(p) PROVE reaper'.pid \in Pids
    BY <2>2 DEF Reap
  <2>3. CASE UNCHANGED reaper
    BY <2>3 DEF TableInv, SlotInv
  <2>4. \/ RecordNothing \/ ReaperEnds \/ (\E p \in Pids : Reap(p)) \/ BootsWithoutReaper
        \/ UNCHANGED reaper
    BY Zenon DEF Boot, LeaveLoop, ShutdownLogging, JoinReaper, JoinUndefined, MainGoes,
         ShutdownSignal, KernelStep, HardLimitKill, HostKill, Sigkilled, StaleEntryRemoved, ListFreed,
         ProcessStep, Exec, SetupFails, InstallsHandler, ExitsOnSigterm, ExitsByItself,
         KilledBySigkill, PidTaken, Dies, Process
  <2>5. CASE BootsWithoutReaper
    BY <2>5 DEF BootsWithoutReaper, TypeOK
  <2> QED
    BY <2>1, <2>2, <2>3, <2>4, <2>5
<1> QED
  BY <1>1, <1>2, TableKept DEF Owner, Launched

\* The shutdown marks every live slot, and changes nothing else of the table.
LEMMA StopAllKeepsTable ==
  ASSUME TypeOK, HandlerInv, TableInv, StopAllLive
  PROVE  TableInv'
<1> USE DEF daemon, table, locals, handlerVars, host
<1>1. \A i \in Slots :
        /\ containers'[i].used = containers[i].used
        /\ containers'[i].id = containers[i].id
        /\ containers'[i].rootfs = containers[i].rootfs
        /\ containers'[i].pid = containers[i].pid
        /\ containers'[i].state = containers[i].state
        /\ containers[i].stop_requested => containers'[i].stop_requested
  BY TypeEntry DEF StopAllLive, ContainerType
<1>2. UNCHANGED <<logger, reaper, req, idx, pid, pc>>
  BY DEF StopAllLive
<1>3. SlotInv'
  BY <1>1, <1>2 DEF TableInv, SlotInv, Owner, Launched, HandlerInv
<1>4. StopInv'
  BY <1>1, <1>2 DEF TableInv, StopInv
<1>5. UniqueIds' /\ RootfsInv'
  BY <1>1, <1>2 DEF TableInv, UniqueIds, RootfsInv, Live
<1> QED
  BY <1>3, <1>4, <1>5 DEF TableInv

\* Reserving, releasing and publishing a slot keep the table: a new ID and a rootfs
\* path no live slot has.
LEMMA StartKeepsTable ==
  ASSUME TypeOK, HandlerInv, TableInv, NEW h \in Handlers,
         \/ ReserveSlot(h) \/ SpawnFails(h) \/ Spawn(h) \/ ProducerArgFails(h)
         \/ AbortStart(h) \/ PublishPid(h) \/ CreateProducer(h) \/ RegisterWithKernel(h)
  PROVE  TableInv'
<1> USE DEF daemon, table, locals, handlerVars, host, At, Goto
<1>1. CASE ReserveSlot(h)
  <2> DEFINE i == First(FreeSlots)
  <2>1. i \in Slots /\ ~ containers[i].used
    BY <1>1, FirstIsIn DEF ReserveSlot, Admissible, FreeSlots
  <2> HIDE DEF i
  <2>2. /\ containers' = [containers EXCEPT ![i] = Reserved(h)]
        /\ idx' = [idx EXCEPT ![h] = i] /\ pc' = [pc EXCEPT ![h] = "spawn"]
        /\ UNCHANGED <<logger, req, pid, reaper>>
    BY <1>1 DEF ReserveSlot, i
  <2>3. /\ Reserved(h).used /\ Reserved(h).id = req[h].id /\ Reserved(h).rootfs = req[h].rootfs
        /\ Reserved(h).state = "STARTING" /\ Reserved(h).pid = NoPid
    BY DEF Reserved, FreeSlot
  <2>4. /\ containers'[i] = Reserved(h)
        /\ \A j \in Slots \ {i} : containers'[j] = containers[j]
    BY <2>1, <2>2, TypeEntry
  <2>5. /\ idx'[h] = i /\ pc'[h] = "spawn"
        /\ \A g \in Handlers \ {h} : idx'[g] = idx[g] /\ pc'[g] = pc[g]
    BY <2>2 DEF TypeOK
  <2>6. SlotInv'
    BY <2>1, <2>2, <2>3, <2>4, <2>5 DEF TableInv, SlotInv, Owner, Launched, HandlerInv, LiveStates
  <2>7. StopInv'
    BY <1>1, <2>1, <2>2, <2>4, <2>5 DEF ReserveSlot, TableInv, StopInv, HandlerInv
  <2>8. UniqueIds'
    BY <1>1, <2>3, <2>4 DEF ReserveSlot, Admissible, WithId, TableInv, UniqueIds
  <2>9. RootfsInv'
    BY <1>1, <2>3, <2>4 DEF ReserveSlot, Admissible, UsesRootfs, TableInv, RootfsInv, Live
  <2> QED
    BY <2>6, <2>7, <2>8, <2>9 DEF TableInv
<1>2. CASE SpawnFails(h) \/ AbortStart(h)
  <2>1. /\ Owner(h) /\ idx[h] \in Slots
        /\ containers' = [containers EXCEPT ![idx[h]].used = FALSE]
        /\ pc' = [pc EXCEPT ![h] = "reply"]
        /\ UNCHANGED <<logger, req, idx, pid, reaper>>
    BY <1>2 DEF SpawnFails, AbortStart, ReleaseSlot, Respond, Owner, HandlerInv
  <2>2. /\ ~ containers'[idx[h]].used
        /\ \A j \in Slots \ {idx[h]} : containers'[j] = containers[j]
    BY <2>1, TypeEntry DEF ContainerType
  <2>3. ~ Owner(h)' /\ ~ Launched(h)' /\ \A g \in Handlers \ {h} : pc'[g] = pc[g]
    BY <2>1 DEF TypeOK, Owner, Launched
  <2>4. SlotInv'
    BY <2>1, <2>2, <2>3 DEF TableInv, SlotInv, Owner, Launched, HandlerInv
  <2>5. StopInv'
    BY <2>1, <2>2 DEF TableInv, SlotInv, StopInv
  <2>6. UniqueIds' /\ RootfsInv'
    BY <2>1, <2>2 DEF TableInv, UniqueIds, RootfsInv, Live
  <2> QED
    BY <2>4, <2>5, <2>6 DEF TableInv
<1>3. CASE Spawn(h)
  <2>1. /\ pc' = [pc EXCEPT ![h] = "publish"]
        /\ \E p \in Pids : pid' = [pid EXCEPT ![h] = p]
        /\ UNCHANGED <<containers, logger, req, idx, reaper>>
    BY <1>3 DEF Spawn
  <2>2. SlotInv'
    BY <1>3, <2>1 DEF Spawn, TypeOK, TableInv, SlotInv, Owner, Launched
  <2>3. StopInv'
    BY <1>3, <2>1 DEF Spawn, TypeOK, TableInv, StopInv, HandlerInv, Owner
  <2>4. UniqueIds' /\ RootfsInv'
    BY <2>1 DEF TableInv, UniqueIds, RootfsInv, Live
  <2> QED
    BY <2>2, <2>3, <2>4 DEF TableInv
<1>4. CASE ProducerArgFails(h)
  <2>1. pc' = [pc EXCEPT ![h] = "abort"] /\ UNCHANGED <<containers, logger, req, idx, pid, reaper>>
    BY <1>4 DEF ProducerArgFails
  <2>2. \A g \in Handlers : (Owner(g)' => Owner(g)) /\ (Launched(g)' => Launched(g))
    BY <1>4, <2>1 DEF ProducerArgFails, Owner, Launched, TypeOK
  <2> QED
    BY <2>1, <2>2, TableKept DEF TableInv, SlotInv
<1>5. CASE PublishPid(h)
  <2>1. PICK i \in Slots : i = idx[h]
    BY <1>5 DEF PublishPid, Owner, HandlerInv
  <2>2. /\ Owner(h) /\ pid[h] \in Pids
        /\ containers' = [containers EXCEPT ![i].pid = pid[h], ![i].state = "RUNNING"]
        /\ pc' = [pc EXCEPT ![h] = "logger"]
        /\ UNCHANGED <<logger, req, idx, pid, reaper>>
    BY <1>5, <2>1 DEF PublishPid, Owner, HandlerInv
  <2>3. containers[i].used /\ containers[i].state = "STARTING"
    BY <2>1, <2>2 DEF TableInv, SlotInv
  <2>4. /\ containers'[i].used
        /\ containers'[i].id = containers[i].id
        /\ containers'[i].rootfs = containers[i].rootfs
        /\ containers'[i].pid = pid[h]
        /\ containers'[i].state = "RUNNING"
        /\ \A j \in Slots \ {i} : containers'[j] = containers[j]
    BY <2>2, <2>3, TypeEntry DEF ContainerType
  <2>5. pc'[h] = "logger" /\ \A g \in Handlers \ {h} : pc'[g] = pc[g]
    BY <2>2 DEF TypeOK
  <2>6. SlotInv'
    <3>1. \A g \in Handlers : Owner(g)' => Owner(g) /\ idx[g] # i
      BY <2>1, <2>2, <2>5 DEF TableInv, SlotInv, Owner
    <3>2. \A g \in Handlers \ {h} : Launched(g)' => Launched(g) /\ idx[g] # i
      BY <2>3, <2>5 DEF TableInv, SlotInv, Launched
    <3>3. UNCHANGED <<logger, req, idx, pid, reaper>> /\ pid[h] # NoPid
      BY <2>2, PidAssumption
    <3>4. \A j \in Slots : containers'[j].used =>
            /\ containers'[j].state \in LiveStates \cup DeadStates
            /\ containers'[j].state = "STARTING" <=> containers'[j].pid = NoPid
      BY <2>4, <3>3 DEF TableInv, SlotInv, LiveStates
    <3>5. \A j \in Slots : logger'[j] => containers'[j].used /\ containers'[j].state # "STARTING"
      BY <2>4, <3>3 DEF TableInv, SlotInv
    <3>6. \A g \in Handlers : Launched(g)' =>
            /\ containers'[idx'[g]].used
            /\ containers'[idx'[g]].state # "STARTING"
            /\ containers'[idx'[g]].pid = pid'[g]
      BY <2>1, <2>4, <3>2, <3>3 DEF TableInv, SlotInv, HandlerInv
    <3>7. \A g \in Handlers : Owner(g)' =>
            /\ containers'[idx'[g]].used
            /\ containers'[idx'[g]].state = "STARTING"
            /\ containers'[idx'[g]].rootfs = req'[g].rootfs
      BY <2>4, <3>1, <3>3 DEF TableInv, SlotInv, HandlerInv
    <3> QED
      BY <3>1, <3>3, <3>4, <3>5, <3>6, <3>7 DEF TableInv, SlotInv
  <2>7. StopInv'
    <3>1. UNCHANGED <<req, idx, pid>>
      BY <2>2
    <3> QED
      BY <2>3, <2>4, <3>1 DEF TableInv, StopInv
  <2>8. UniqueIds'
    BY <2>3, <2>4 DEF TableInv, UniqueIds
  <2>9. RootfsInv'
    BY <2>3, <2>4 DEF TableInv, RootfsInv, Live, LiveStates
  <2> QED
    BY <2>6, <2>7, <2>8, <2>9 DEF TableInv
<1>6. CASE CreateProducer(h)
  <2>3. \A j \in Slots : logger'[j] => logger[j] \/ j = idx[h]
    BY <1>6 DEF CreateProducer, TypeOK
  <2>4. \A g \in Handlers : (Owner(g)' => Owner(g)) /\ (Launched(g)' => Launched(g))
    BY <1>6 DEF CreateProducer, Owner, Launched, TypeOK
  <2>5. Launched(h) /\ UNCHANGED <<containers, req, idx, pid, reaper>>
    BY <1>6 DEF CreateProducer, Launched
  <2>1. SlotInv'
    BY <2>3, <2>4, <2>5 DEF TableInv, SlotInv
  <2>2. StopInv' /\ UniqueIds' /\ RootfsInv'
    BY <1>6 DEF CreateProducer, TableInv, StopInv, UniqueIds, RootfsInv, Live
  <2> QED
    BY <2>1, <2>2 DEF TableInv
<1>7. CASE RegisterWithKernel(h)
  <2>1. UNCHANGED <<containers, logger, req, idx, pid, reaper>>
    BY <1>7 DEF RegisterWithKernel
  <2>2. \A g \in Handlers : (Owner(g)' => Owner(g)) /\ (Launched(g)' => Launched(g))
    BY <1>7 DEF RegisterWithKernel, Respond, Owner, Launched, TypeOK
  <2> QED
    BY <2>1, <2>2, TableKept DEF TableInv, SlotInv
<1> QED
  BY <1>1, <1>2, <1>3, <1>4, <1>5, <1>6, <1>7

\* A stop marks a live slot and copies its PID; if that is -1 there is nothing to
\* attribute later.
LEMMA StopKeepsTable ==
  ASSUME TypeOK, HandlerInv, TableInv, NEW h \in Handlers, StopMarks(h) \/ StopKills(h)
  PROVE  TableInv'
<1> USE DEF daemon, table, locals, handlerVars, host, At, Goto
<1>1. CASE StopMarks(h)
  <2>1. PICK i \in Slots :
          /\ containers[i].used /\ containers[i].state \in LiveStates
          /\ containers' = [containers EXCEPT ![i].stop_requested = TRUE]
          /\ idx' = [idx EXCEPT ![h] = i]
          /\ pid' = [pid EXCEPT ![h] = containers[i].pid]
    BY <1>1 DEF StopMarks, Stoppable, WithId, Ended
  <2>2. pc' = [pc EXCEPT ![h] = "kill"] /\ pc[h] = "stop" /\ UNCHANGED <<logger, req, reaper>>
    BY <1>1 DEF StopMarks
  <2>3. \A j \in Slots :
          /\ containers'[j].used = containers[j].used
          /\ containers'[j].id = containers[j].id
          /\ containers'[j].rootfs = containers[j].rootfs
          /\ containers'[j].pid = containers[j].pid
          /\ containers'[j].state = containers[j].state
          /\ containers[j].stop_requested => containers'[j].stop_requested
    BY <2>1, TypeEntry DEF ContainerType
  <2>4. containers'[i].stop_requested
    BY <2>1, TypeEntry DEF ContainerType
  <2>5. /\ idx'[h] = i /\ pid'[h] = containers[i].pid /\ pc'[h] = "kill"
        /\ \A g \in Handlers \ {h} : idx'[g] = idx[g] /\ pid'[g] = pid[g] /\ pc'[g] = pc[g]
    BY <2>1, <2>2 DEF TypeOK
  <2>6. SlotInv'
    BY <2>2, <2>3, <2>5 DEF TableInv, SlotInv, Owner, Launched, HandlerInv
  <2>7. StopInv'
    BY <2>1, <2>2, <2>3, <2>4, <2>5 DEF TableInv, SlotInv, StopInv, LiveStates
  <2>8. UniqueIds' /\ RootfsInv'
    BY <2>3 DEF TableInv, UniqueIds, RootfsInv, Live
  <2> QED
    BY <2>6, <2>7, <2>8 DEF TableInv
<1>2. CASE StopKills(h)
  <2>1. UNCHANGED <<containers, logger, req, idx, pid, reaper>>
    BY <1>2 DEF StopKills
  <2>2. \A g \in Handlers : (Owner(g)' => Owner(g)) /\ (Launched(g)' => Launched(g))
    BY <1>2 DEF StopKills, Respond, Owner, Launched, TypeOK
  <2> QED
    BY <2>1, <2>2, TableKept DEF TableInv, SlotInv
<1> QED
  BY <1>1, <1>2

\* The reaper records the exit of a slot that is not STARTING, STOPPED if a stop
\* marked it.
LEMMA RecordKeepsTable ==
  ASSUME TypeOK, HandlerInv, TableInv, RecordExit
  PROVE  TableInv'
<1> USE DEF daemon, table, locals, handlerVars, host
<1> DEFINE i == First(WithPid(reaper.pid))
<1>1. i \in Slots /\ containers[i].used /\ containers[i].pid = reaper.pid
  BY FirstIsIn DEF RecordExit, WithPid
<1>2. reaper.pid # NoPid /\ containers[i].state # "STARTING"
  BY <1>1, PidAssumption DEF RecordExit, TableInv, SlotInv
<1> HIDE DEF i
<1>3. /\ containers' = [containers EXCEPT ![i] = ExitRecord(i)]
      /\ pc' = WakeRunners(i) /\ reaper'.pc = "waitpid"
      /\ UNCHANGED <<logger, req, idx, pid>>
  BY DEF RecordExit, i, TypeOK
<1>4. /\ containers'[i].used
      /\ containers'[i].id = containers[i].id
      /\ containers'[i].rootfs = containers[i].rootfs
      /\ containers'[i].pid = containers[i].pid
      /\ containers'[i].stop_requested = containers[i].stop_requested
      /\ containers'[i].state = FinalState(reaper.status, containers[i].stop_requested)
      /\ \A j \in Slots \ {i} : containers'[j] = containers[j]
  BY <1>1, <1>3, TypeEntry DEF ContainerType, ExitRecord
<1>5. /\ containers'[i].state \in DeadStates
      /\ containers[i].stop_requested => containers'[i].state = "STOPPED"
  BY <1>4 DEF FinalState, DeadStates
<1>6. \A g \in Handlers : (Owner(g)' <=> Owner(g)) /\ (Launched(g)' <=> Launched(g))
  BY <1>3 DEF WakeRunners, Owner, Launched, TypeOK
<1>7. SlotInv'
  <2>1. containers'[i].state # "STARTING" /\ containers[i].pid # NoPid
    BY <1>1, <1>2, <1>5 DEF DeadStates
  <2> QED
    BY <1>1, <1>2, <1>3, <1>4, <1>5, <1>6, <2>1 DEF TableInv, SlotInv, HandlerInv
<1>8. StopInv'
  BY <1>1, <1>3, <1>4, <1>5 DEF TableInv, StopInv
<1>9. UniqueIds'
  BY <1>1, <1>4 DEF TableInv, UniqueIds
<1>10. RootfsInv'
  BY <1>1, <1>4, <1>5 DEF TableInv, RootfsInv, Live, LiveStates, DeadStates
<1> QED
  BY <1>7, <1>8, <1>9, <1>10 DEF TableInv

-----------------------------------------------------------------------------

\* The invariant holds of the empty table.
LEMMA InitInd == Init => IndInv
<1> SUFFICES ASSUME Init PROVE IndInv
  OBVIOUS
<1>1. TypeOK
  BY InitTyped
<1>2. HandlerInv
  BY DEF Init, HandlerInv, Owner, Launched
<1>3. TableInv
  BY DEF Init, TableInv, SlotInv, StopInv, UniqueIds, RootfsInv, Live, Owner, Launched, FreeSlot
<1> QED
  BY <1>1, <1>2, <1>3 DEF IndInv

\* The steps of the specification, grouped as the lemmas above are.
LEMMA NextCases ==
  ASSUME Next
  PROVE  \/ MainStep \/ ShutdownSignal
         \/ \E h \in Handlers :
              \/ QuietStep(h)
              \/ (\E r \in Requests : Accept(h, r))
                 \/ AcceptDrops(h) \/ ClientQuits(h) \/ ReplySigpipe(h)
              \/ ReserveSlot(h) \/ SpawnFails(h) \/ Spawn(h) \/ ProducerArgFails(h)
                 \/ AbortStart(h) \/ PublishPid(h) \/ CreateProducer(h)
                 \/ RegisterWithKernel(h)
              \/ StopMarks(h) \/ StopKills(h)
         \/ ReaperStep
         \/ \E p \in Pids : ProcessStep(p)
         \/ KernelStep
  BY Zenon DEF Next, HandlerStep, QuietStep

\* Every step keeps the invariant.
LEMMA NextKeepsInd == IndInv /\ [Next]_vars => IndInv'
<1> SUFFICES ASSUME IndInv, [Next]_vars PROVE IndInv'
  OBVIOUS
<1> USE DEF IndInv
<1>1. CASE UNCHANGED vars
  <2> USE <1>1 DEF vars, daemon, table, locals, handlerVars, host
  <2>1. TypeOK'
    BY DEF TypeOK
  <2>2. HandlerInv'
    BY HandlerKept
  <2>3. TableInv'
    BY TableKept DEF Owner, Launched, TableInv, SlotInv
  <2> QED
    BY <2>1, <2>2, <2>3
<1>2. CASE MainStep \/ ShutdownSignal
  BY <1>2, MainKeepsType, OthersKeepHandler, OthersKeepTable, StopAllKeepsTable DEF MainStep
<1>3. ASSUME NEW h \in Handlers, QuietStep(h) PROVE IndInv'
  BY <1>3, QuietKeepsType, QuietKeepsHandler, QuietKeepsTable
<1>4. ASSUME NEW h \in Handlers,
             \/ \E r \in Requests : Accept(h, r)
             \/ AcceptDrops(h) \/ ClientQuits(h) \/ ReplySigpipe(h)
      PROVE  IndInv'
  BY <1>4, ClientKeepsType, ClientKeepsHandler, ClientKeepsTable
<1>5. ASSUME NEW h \in Handlers,
             \/ ReserveSlot(h) \/ SpawnFails(h) \/ Spawn(h) \/ ProducerArgFails(h)
             \/ AbortStart(h) \/ PublishPid(h) \/ CreateProducer(h) \/ RegisterWithKernel(h)
      PROVE  IndInv'
  BY <1>5, StartKeepsType, StartKeepsHandler, StartKeepsTable
<1>6. ASSUME NEW h \in Handlers, StopMarks(h) \/ StopKills(h) PROVE IndInv'
  BY <1>6, StopKeepsType, StopKeepsHandler, StopKeepsTable
<1>7. CASE ReaperStep
  BY <1>7, ReaperKeepsType, ReaperKeepsHandler, OthersKeepTable, RecordKeepsTable
     DEF ReaperStep, TableInv
<1>8. ASSUME NEW p \in Pids, ProcessStep(p) PROVE IndInv'
  BY <1>8, ProcessKeepsType, OthersKeepHandler, OthersKeepTable
<1>9. CASE KernelStep
  BY <1>9, KernelKeepsType, OthersKeepHandler, OthersKeepTable
<1> QED
  BY <1>1, <1>2, <1>3, <1>4, <1>5, <1>6, <1>7, <1>8, <1>9, NextCases, Zenon

\* The invariant holds for ever.
LEMMA Inductive == Spec => []IndInv
  BY InitInd, NextKeepsInd, PTL DEF Spec

\* The supervisor is type correct: no slot index, PID or position of a handler, of the
\* reaper or of main leaves its range, whatever fails and whatever the sizes.
THEOREM TypeCorrect == Spec => []TypeOK
  BY Inductive, PTL DEF IndInv

\* find_container_by_id_locked has at most one answer: no interleaving of starts, failed
\* starts, exits and stops leaves two used slots with one ID.
THEOREM IdsUnique == Spec => []UniqueIds
  BY Inductive, PTL DEF IndInv, TableInv

\* The invariant implies the attribution of stops.
LEMMA StopFollows == IndInv => StopAttributed
  BY DEF IndInv, TableInv, StopInv, StopAttributed

\* A container that a stop found RUNNING keeps its slot and PID and ends STOPPED,
\* however its death races with kill() and the reaper, and also if PIDs wrap around.
THEOREM StopsAttributed == Spec => []StopAttributed
  BY Inductive, StopFollows, PTL

-----------------------------------------------------------------------------
(* What a step does to a slot of the table. *)

\* The slot of a start that is under way.
Starting(i) == containers[i].used /\ containers[i].state = "STARTING"

\* The slot is reserved, changed by the handler that owns it, marked by a stop, or
\* given its exit by the reaper; or it stays as it is.
LEMMA SlotSteps ==
  ASSUME IndInv, [Next]_vars, NEW i \in Slots
  PROVE  \/ containers'[i] = containers[i]
         \/ ~ containers[i].used
         \/ Starting(i)
         \/ /\ Live(i)
            /\ containers'[i] = [containers[i] EXCEPT !.stop_requested = TRUE]
         \/ /\ RecordExit /\ i = First(WithPid(reaper.pid))
            /\ containers'[i] = ExitRecord(i)
<1> USE DEF IndInv, daemon, table, locals, handlerVars, host
<1>1. CASE UNCHANGED containers
  BY <1>1
<1>2. CASE StopAllLive
  <2>1. containers'[i] = [containers[i] EXCEPT !.stop_requested = @ \/ Live(i)]
    BY <1>2, Zenon DEF StopAllLive
  <2>2. containers[i] \in ContainerType
    BY TypeEntry
  <2>3. CASE Live(i)
    <3>1. (containers[i].stop_requested \/ Live(i)) = TRUE
      BY <2>3
    <3> QED
      BY <2>1, <2>3, <3>1, Zenon
  <2>4. CASE ~ Live(i)
    <3>1. (containers[i].stop_requested \/ Live(i)) = containers[i].stop_requested
      BY <2>2, <2>4 DEF ContainerType
    <3>2. containers'[i] = [containers[i] EXCEPT !.stop_requested = containers[i].stop_requested]
      BY <2>1, <3>1, Zenon
    <3> QED
      BY <2>2, <3>2 DEF ContainerType
  <2> QED
    BY <2>3, <2>4
<1>3. ASSUME NEW h \in Handlers, ReserveSlot(h)
      PROVE  containers'[i] = containers[i] \/ ~ containers[i].used
  <2>1. First(FreeSlots) \in FreeSlots
    BY <1>3, FirstIsIn DEF ReserveSlot, Admissible, FreeSlots
  <2> QED
    BY <1>3, <2>1, TypeEntry DEF ReserveSlot, FreeSlots
<1>4. ASSUME NEW h \in Handlers, SpawnFails(h) \/ AbortStart(h) \/ PublishPid(h)
      PROVE  containers'[i] = containers[i] \/ Starting(i)
  <2>1. Owner(h) /\ \A j \in Slots \ {idx[h]} : containers'[j] = containers[j]
    BY <1>4, TypeEntry DEF SpawnFails, AbortStart, PublishPid, ReleaseSlot, At, Owner
  <2> QED
    BY <2>1 DEF TableInv, SlotInv, Starting
<1>5. ASSUME NEW h \in Handlers, StopMarks(h)
      PROVE  \/ containers'[i] = containers[i]
             \/ /\ Live(i)
                /\ containers'[i] = [containers[i] EXCEPT !.stop_requested = TRUE]
  BY <1>5, TypeEntry DEF StopMarks, Stoppable, WithId, Ended, Live
<1>6. CASE RecordExit
  BY <1>6, TypeEntry DEF RecordExit
<1>7. CASE Next
  <2>1. \/ UNCHANGED containers \/ StopAllLive \/ RecordExit
        \/ \E h \in Handlers :
             ReserveSlot(h) \/ SpawnFails(h) \/ AbortStart(h) \/ PublishPid(h) \/ StopMarks(h)
    BY <1>7, Zenon
       DEF Next, MainStep, Boot, LeaveLoop, ShutdownLogging, JoinReaper, BootsWithoutReaper, JoinUndefined, MainGoes, ShutdownSignal,
           HandlerStep, Accept, AcceptDrops, ClientQuits, Dispatch, RecvFails, Reply, ReplySigpipe,
           StartRefused, Spawn, ProducerArgFails, CreateProducer, RegisterWithKernel,
           RunBlocks, RunSpurious, RunEnds, StopRefused, StopKills, PsReply, LogsReply,
           UnknownReply, Step, Answer, ReaperStep, Reap, RecordNothing, ReaperEnds, ReaperGoes,
           KernelStep, HardLimitKill, HostKill, Sigkilled, StaleEntryRemoved, ListFreed, ProcessStep, Exec, SetupFails,
           InstallsHandler, ExitsOnSigterm, ExitsByItself, KilledBySigkill, PidTaken, Dies, Process
  <2> QED
    BY <1>1, <1>2, <1>3, <1>4, <1>5, <1>6, <2>1
<1> QED
  BY <1>1, <1>7 DEF vars

\* The log consumer may look its log file up by slot at any later time: a slot whose
\* producer thread exists is never given back or renamed.
THEOREM ProducerSlotsPinned == Spec => ProducerSlotPinned
<1>1. ASSUME IndInv, [Next]_vars, NEW i \in Slots, logger[i]
      PROVE  /\ containers'[i].used
             /\ containers'[i].id = containers[i].id
  <2>1. containers[i].used /\ ~ Starting(i) /\ containers[i] \in ContainerType
    BY <1>1, TypeEntry DEF IndInv, TableInv, SlotInv, Starting
  <2> QED
    BY <1>1, <2>1, SlotSteps DEF ContainerType, ExitRecord
<1>2. IndInv /\ [Next]_vars =>
        [\A i \in Slots : logger[i] =>
           /\ containers'[i].used
           /\ containers'[i].id = containers[i].id]_vars
  BY <1>1
<1> QED
  BY <1>2, Inductive, PTL DEF Spec, ProducerSlotPinned

=============================================================================
