----------------------- MODULE SupervisorProcessProofs -----------------------
(***************************************************************************)
(* Proofs about Supervisor that relate the container table to the          *)
(* processes of the host: the rootfs paths of live containers, what ps     *)
(* reports of ended ones, the answer of run, and the finality of a         *)
(* record.                                                                 *)
(*                                                                         *)
(* They assume that the host does not give a PID out again (NoReuse).  The *)
(* reaper looks a child's slot up by its PID after waitpid() has given     *)
(* that PID back to the host: once it is another container's, the exit is  *)
(* recorded for the wrong one, and these properties need not hold.         *)
(***************************************************************************)
EXTENDS SupervisorProofs

\* PIDs do not wrap around while the supervisor runs.
NoReuse == "wrap" \notin Disturbances

\* A handler with a child that is not in the table yet, or no more.
Holder(h) == pc[h] \in {"publish", "abort"}

\* A PID belongs to one slot or to one such handler, and its process is a child of
\* the supervisor or has been reaped; the reaper holds the status of a process whose
\* slot, if it has one, is RUNNING.
PidInv ==
  /\ \A i, j \in Slots : containers[i].used /\ containers[j].used /\ i # j
       /\ containers[i].pid # NoPid => containers[i].pid # containers[j].pid
  /\ \A h \in Handlers, i \in Slots :
       Holder(h) /\ containers[i].used => containers[i].pid # pid[h]
  /\ \A g, h \in Handlers : Holder(g) /\ Holder(h) /\ g # h => pid[g] # pid[h]
  /\ \A h \in Handlers : Holder(h) => Child(pid[h]) \/ proc[pid[h]].st = "reaped"
  /\ \A i \in Slots : containers[i].used /\ containers[i].pid # NoPid =>
       Child(containers[i].pid) \/ proc[containers[i].pid].st = "reaped"
  /\ \A p \in Pids : proc[p].st \in {"zombie", "reaped"} => proc[p].status.kind # "none"
  /\ reaper.pc = "record" =>
       /\ proc[reaper.pid].st = "reaped" /\ proc[reaper.pid].status = reaper.status
       /\ \A i \in Slots : containers[i].used /\ containers[i].pid = reaper.pid
            => containers[i].state = "RUNNING"

\* Each live container that is not about to be killed is the child of a start that
\* is under way, or a RUNNING container of the table, on its own rootfs.
HomeInv ==
  \A p \in Pids : AliveProc(p) /\ SIGKILL \notin proc[p].sig =>
    \/ \E h \in Handlers : /\ pc[h] = "publish" /\ pid[h] = p
                           /\ proc[p].rootfs = req[h].rootfs
    \/ \E i \in Slots : /\ containers[i].used /\ containers[i].state = "RUNNING"
                        /\ containers[i].pid = p /\ containers[i].rootfs = proc[p].rootfs

-----------------------------------------------------------------------------

\* No handler gains a child of its own.
HoldersFramed ==
  \A g \in Handlers : Holder(g)' => Holder(g) /\ pid'[g] = pid[g]

\* No handler gains or loses a child it still has to publish.
HandlersFramed ==
  /\ HoldersFramed
  /\ \A g \in Handlers : pc[g] = "publish" =>
       pc'[g] = "publish" /\ pid'[g] = pid[g] /\ req'[g] = req[g]

\* No slot gains a container, and none loses one that has been published.
SlotsFramed ==
  \A i \in Slots :
    /\ containers'[i].used =>
         /\ containers[i].used
         /\ containers'[i].pid = containers[i].pid
         /\ containers'[i].state = containers[i].state
         /\ containers'[i].rootfs = containers[i].rootfs
         /\ containers'[i].exit_code = containers[i].exit_code
    /\ containers[i].used /\ containers[i].state # "STARTING" => containers'[i].used

\* Processes may get signals, and no more.
ProcsFramed ==
  \A p \in Pids :
    /\ proc'[p].st = proc[p].st
    /\ proc'[p].status = proc[p].status
    /\ proc'[p].rootfs = proc[p].rootfs
    /\ proc[p].sig \subseteq proc'[p].sig

\* A step that leaves the correspondence of table and processes alone.
Frame ==
  /\ HandlersFramed /\ SlotsFramed /\ ProcsFramed
  /\ reaper'.pc = "record" => reaper' = reaper

\* The invariant that relates the table to the processes.
ProcInv == PidInv /\ HomeInv /\ StatusAccurate

\* Such a step keeps the owners of the PIDs.
LEMMA FrameKeepsPids ==
  ASSUME IndInv, PidInv, HoldersFramed, SlotsFramed, ProcsFramed,
         reaper'.pc = "record" => reaper' = reaper
  PROVE  PidInv'
<1> USE DEF IndInv
<1>slotPids. \A i \in Slots : containers[i].pid \in Pids \cup {NoPid} /\ containers[i] \in ContainerType
  BY TypeEntry DEF ContainerType
<1>holderPids. \A h \in Handlers : Holder(h) => pid[h] \in Pids
  BY DEF HandlerInv, Holder
<1>1. \A p \in Pids : Child(p)' <=> Child(p)
  BY DEF ProcsFramed, Child, AliveProc
<1>2. \A i, j \in Slots : containers'[i].used /\ containers'[j].used /\ i # j
        /\ containers'[i].pid # NoPid => containers'[i].pid # containers'[j].pid
  BY DEF SlotsFramed, PidInv
<1>3. \A h \in Handlers, i \in Slots :
        Holder(h)' /\ containers'[i].used => containers'[i].pid # pid'[h]
  BY DEF SlotsFramed, HoldersFramed, PidInv
<1>4. \A g, h \in Handlers : Holder(g)' /\ Holder(h)' /\ g # h => pid'[g] # pid'[h]
  BY DEF HoldersFramed, PidInv
<1>5. \A h \in Handlers : Holder(h)' => Child(pid[h])' \/ proc'[pid'[h]].st = "reaped"
  BY <1>holderPids, <1>1 DEF HoldersFramed, ProcsFramed, PidInv
<1>6. \A i \in Slots : containers'[i].used /\ containers'[i].pid # NoPid =>
        Child(containers[i].pid)' \/ proc'[containers'[i].pid].st = "reaped"
  BY <1>slotPids, <1>1 DEF SlotsFramed, ProcsFramed, PidInv
<1>7. \A p \in Pids : proc'[p].st \in {"zombie", "reaped"} => proc'[p].status.kind # "none"
  BY DEF ProcsFramed, PidInv
<1>8. reaper'.pc = "record" =>
        /\ proc'[reaper'.pid].st = "reaped" /\ proc'[reaper'.pid].status = reaper'.status
        /\ \A i \in Slots : containers'[i].used /\ containers'[i].pid = reaper'.pid
             => containers'[i].state = "RUNNING"
  BY DEF SlotsFramed, ProcsFramed, PidInv, TableInv, SlotInv
<1> QED
  BY <1>2, <1>3, <1>4, <1>5, <1>6, <1>7, <1>8 DEF PidInv

\* Such a step keeps the records of ended containers accurate.
LEMMA FrameKeepsStatus ==
  ASSUME IndInv, StatusAccurate, SlotsFramed, ProcsFramed
  PROVE  StatusAccurate'
<1> USE DEF IndInv
<1>slotPids. \A i \in Slots : containers[i].pid \in Pids \cup {NoPid} /\ containers[i] \in ContainerType
  BY TypeEntry DEF ContainerType
<1> SUFFICES ASSUME NEW i \in Slots, containers'[i].used, containers'[i].state \in DeadStates
             PROVE  /\ proc'[containers'[i].pid].st = "reaped"
                    /\ containers'[i].exit_code = ExitCode(proc'[containers'[i].pid].status)
                    /\ containers'[i].state = "EXITED" =>
                         proc'[containers'[i].pid].status.kind = "exited"
                    /\ containers'[i].state = "KILLED" =>
                         proc'[containers'[i].pid].status.kind = "signaled"
  BY DEF StatusAccurate
<1>1. /\ containers[i].used /\ containers[i].state \in DeadStates
      /\ containers'[i].pid = containers[i].pid
      /\ containers'[i].state = containers[i].state
      /\ containers'[i].exit_code = containers[i].exit_code
  BY DEF SlotsFramed
<1>2. containers[i].pid \in Pids
  BY <1>slotPids, <1>1 DEF TableInv, SlotInv, DeadStates
<1>3. proc'[containers'[i].pid].st = proc[containers[i].pid].st
      /\ proc'[containers'[i].pid].status = proc[containers[i].pid].status
  BY <1>1, <1>2 DEF ProcsFramed
<1> QED
  BY <1>1, <1>3 DEF StatusAccurate

\* Such a step keeps ProcInv.
LEMMA FrameKeepsProcs ==
  ASSUME IndInv, ProcInv, Frame
  PROVE  ProcInv'
<1> USE DEF ProcInv, Frame
<1>3. PidInv' /\ StatusAccurate'
  BY FrameKeepsPids, FrameKeepsStatus DEF HandlersFramed
<1>4. HomeInv'
  <2> SUFFICES ASSUME NEW p \in Pids, AliveProc(p)', SIGKILL \notin proc'[p].sig
               PROVE  \/ \E h \in Handlers : /\ pc'[h] = "publish" /\ pid'[h] = p
                                             /\ proc'[p].rootfs = req'[h].rootfs
                      \/ \E i \in Slots : /\ containers'[i].used /\ containers'[i].state = "RUNNING"
                                          /\ containers'[i].pid = p
                                          /\ containers'[i].rootfs = proc'[p].rootfs
    BY DEF HomeInv
  <2>1. AliveProc(p) /\ SIGKILL \notin proc[p].sig /\ proc'[p].rootfs = proc[p].rootfs
    BY DEF ProcsFramed, AliveProc
  <2>2. CASE \E h \in Handlers : /\ pc[h] = "publish" /\ pid[h] = p
                                 /\ proc[p].rootfs = req[h].rootfs
    BY <2>1, <2>2 DEF HandlersFramed
  <2>3. CASE \E i \in Slots : /\ containers[i].used /\ containers[i].state = "RUNNING"
                              /\ containers[i].pid = p /\ containers[i].rootfs = proc[p].rootfs
    BY <2>1, <2>3 DEF SlotsFramed
  <2> QED
    BY <2>1, <2>2, <2>3 DEF HomeInv
<1> QED
  BY <1>3, <1>4

\* Most steps leave containers, their PIDs and their processes alone.
LEMMA MainFramed ==
  ASSUME IndInv, \/ MainStep \/ ShutdownSignal \/ RecordNothing \/ ReaperEnds \/ KernelStep
                 \/ UNCHANGED vars
  PROVE  Frame
<1> USE DEF IndInv, daemon, table, locals, handlerVars, host
<1>1. CASE StopAllLive
  <2>1. \A i \in Slots :
          containers'[i] = [containers[i] EXCEPT !.stop_requested = @ \/ Live(i)]
    BY <1>1, Zenon DEF StopAllLive
  <2>2. SlotsFramed
    BY <2>1, TypeEntry DEF SlotsFramed, ContainerType
  <2>3. ProcsFramed
    BY <1>1, SignalledTyped DEF StopAllLive, ProcsFramed
  <2>4. HandlersFramed /\ reaper' = reaper
    BY <1>1 DEF StopAllLive, HandlersFramed, HoldersFramed, Holder
  <2> QED
    BY <2>2, <2>3, <2>4 DEF Frame
<1>2. ASSUME NEW p \in Pids, Sigkilled(p)
      PROVE  Frame
  <2>1. ProcsFramed
    BY <1>2, SignalledTyped DEF Sigkilled, ProcsFramed
  <2> QED
    BY <1>2, <2>1 DEF Sigkilled, Frame, SlotsFramed, HandlersFramed, HoldersFramed, Holder
<1>3. CASE UNCHANGED <<table, handlerVars, proc>> /\ (reaper' = reaper \/ reaper'.pc # "record")
  BY <1>3 DEF Frame, SlotsFramed, HandlersFramed, HoldersFramed, ProcsFramed, Holder
<1>4. /\ (LeaveLoop \/ ShutdownLogging \/ JoinReaper \/ JoinUndefined) => Frame
      /\ (ShutdownSignal \/ UNCHANGED vars) => Frame
  BY <1>3, Zenon DEF LeaveLoop, ShutdownLogging, JoinReaper, JoinUndefined, MainGoes,
                     ShutdownSignal, vars
<1>7. Boot => Frame
  <2>1. BootsWithoutReaper => Frame
    BY <1>3 DEF BootsWithoutReaper, TypeOK
  <2> QED
    BY <1>3, <2>1, Zenon DEF Boot, MainGoes
<1>5. (RecordNothing \/ ReaperEnds) => Frame
  BY <1>3 DEF RecordNothing, ReaperEnds, ReaperGoes, TypeOK
<1>6. (ListFreed \/ \E p \in Pids : StaleEntryRemoved(p)) => Frame
  BY <1>3, Zenon DEF ListFreed, StaleEntryRemoved
<1> QED
  BY <1>1, <1>2, <1>4, <1>5, <1>6, <1>7, Zenon
     DEF MainStep, KernelStep, HardLimitKill, HostKill

\* So do the handler steps other than reserving a slot, clone(), the failure after it and
\* the publication of the PID.
LEMMA HandlerFramed ==
  ASSUME IndInv, NEW h \in Handlers,
         \/ QuietStep(h)
         \/ \E r \in Requests : Accept(h, r)
         \/ AcceptDrops(h) \/ ClientQuits(h) \/ ReplySigpipe(h)
         \/ SpawnFails(h) \/ AbortStart(h) \/ CreateProducer(h) \/ RegisterWithKernel(h)
         \/ StopMarks(h) \/ StopKills(h)
  PROVE  Frame
<1> USE DEF IndInv, daemon, table, locals, handlerVars, host, At, Goto
<1>1. ASSUME NEW label, pc[h] # "publish", label \notin {"publish", "abort"},
             pc' = [pc EXCEPT ![h] = label],
             \A g \in Handlers \ {h} : pid'[g] = pid[g] /\ req'[g] = req[g]
      PROVE  HandlersFramed
  BY <1>1 DEF HandlersFramed, HoldersFramed, Holder, TypeOK
<1>2. UNCHANGED <<containers, reaper>> => SlotsFramed /\ (reaper'.pc = "record" => reaper' = reaper)
  BY DEF SlotsFramed
<1>3. UNCHANGED proc => ProcsFramed
  BY DEF ProcsFramed
<1>4. CASE QuietStep(h)
  <2>1. UNCHANGED <<containers, reaper, proc, pid, req>> /\ pc[h] # "publish"
    BY <1>4 DEF QuietStep, Dispatch, RecvFails, Reply, StartRefused, RunBlocks, RunSpurious,
                RunEnds, StopRefused, PsReply, LogsReply, UnknownReply, Step, Answer
  <2>2. \E label : label \notin {"publish", "abort"} /\ pc' = [pc EXCEPT ![h] = label]
    <3>1. CASE Dispatch(h)
      <4>1. req[h] \in Requests
        BY <3>1 DEF Dispatch, HandlerInv
      <4> QED
        BY <3>1, <4>1, RequestTyped DEF Dispatch, Step, RequestTypes
    <3>2. QuietStep(h) /\ ~ Dispatch(h) =>
            \E label \in {"done", "reply", "blocked", "run_wait"} : pc' = [pc EXCEPT ![h] = label]
      BY Zenon DEF QuietStep, RecvFails, Reply, StartRefused, RunBlocks, RunSpurious,
                RunEnds, StopRefused, PsReply, LogsReply, UnknownReply, Step, Answer, Respond
    <3> QED
      BY <1>4, <3>1, <3>2
  <2> QED
    BY <1>1, <1>2, <1>3, <2>1, <2>2 DEF Frame
<1>5. CASE (\E r \in Requests : Accept(h, r)) \/ AcceptDrops(h)
  BY <1>1, <1>2, <1>3, <1>5 DEF Accept, AcceptDrops, Frame, TypeOK
<1>6. CASE ClientQuits(h) \/ ReplySigpipe(h)
  <2>1. HandlersFramed
    BY <1>6 DEF ClientQuits, ReplySigpipe, HandlersFramed, HoldersFramed, Holder
  <2> QED
    BY <1>2, <1>3, <1>6, <2>1 DEF ClientQuits, ReplySigpipe, Frame
<1>7. CASE SpawnFails(h) \/ AbortStart(h)
  <2>1. /\ pc[h] \in {"spawn", "abort"} /\ pc' = [pc EXCEPT ![h] = "reply"]
        /\ containers' = [containers EXCEPT ![idx[h]].used = FALSE]
        /\ UNCHANGED <<reaper, proc, pid, req>>
    BY <1>7 DEF SpawnFails, AbortStart, ReleaseSlot, Respond
  <2>2. HandlersFramed
    BY <1>1, <2>1
  <2>3. PICK k \in Slots : k = idx[h]
    BY <2>1 DEF HandlerInv, Owner
  <2>4. containers[k].state = "STARTING"
    BY <2>1, <2>3 DEF TableInv, SlotInv, Owner
  <2>5. /\ ~ containers'[k].used
        /\ \A i \in Slots \ {k} : containers'[i] = containers[i]
    BY <2>1, <2>3, TypeEntry DEF ContainerType
  <2>6. SlotsFramed
    BY <2>4, <2>5 DEF SlotsFramed
  <2> QED
    BY <1>3, <2>1, <2>2, <2>6 DEF Frame
<1>8. CASE CreateProducer(h)
  BY <1>1, <1>2, <1>3, <1>8 DEF CreateProducer, Frame
<1>9. CASE RegisterWithKernel(h)
  <2>1. pc' = [pc EXCEPT ![h] = "reply"] \/ pc' = [pc EXCEPT ![h] = "run_wait"]
    BY <1>9 DEF RegisterWithKernel, Respond
  <2>2. pc[h] = "register" /\ UNCHANGED <<containers, reaper, proc, pid, req>>
    BY <1>9 DEF RegisterWithKernel
  <2> QED
    BY <1>1, <1>2, <1>3, <2>1, <2>2 DEF Frame
<1>10. CASE StopMarks(h)
  <2>1. PICK k \in Slots :
          /\ containers' = [containers EXCEPT ![k].stop_requested = TRUE]
          /\ pid' = [pid EXCEPT ![h] = containers[k].pid]
    BY <1>10 DEF StopMarks, Stoppable, WithId
  <2>2. SlotsFramed
    BY <2>1, TypeEntry DEF SlotsFramed, ContainerType
  <2>3. \A g \in Handlers \ {h} : pid'[g] = pid[g]
    BY <2>1 DEF TypeOK
  <2>4. HandlersFramed
    BY <1>1, <1>10, <2>3 DEF StopMarks
  <2> QED
    BY <1>3, <1>10, <2>2, <2>4 DEF StopMarks, Frame
<1>11. CASE StopKills(h)
  <2>1. pc' = [pc EXCEPT ![h] = "reply"]
    BY <1>11 DEF StopKills, Respond
  <2>2. pc[h] = "kill" /\ UNCHANGED <<containers, reaper, pid, req>>
    BY <1>11 DEF StopKills
  <2>3. ProcsFramed
    BY <1>11, SignalledTyped DEF StopKills, ProcsFramed
  <2> QED
    BY <1>1, <1>2, <2>1, <2>2, <2>3 DEF Frame
<1> QED
  BY <1>4, <1>5, <1>6, <1>7, <1>8, <1>9, <1>10, <1>11

\* A slot that is reserved has no PID yet.
LEMMA ReserveKeepsProcs ==
  ASSUME IndInv, ProcInv, NEW h \in Handlers, ReserveSlot(h)
  PROVE  ProcInv'
<1> USE DEF IndInv, ProcInv, daemon, table, locals, handlerVars, host, At, Goto
<1>1. PICK k \in Slots : k = First(FreeSlots) /\ ~ containers[k].used
  BY FirstIsIn DEF ReserveSlot, Admissible, FreeSlots
<1>2. /\ containers' = [containers EXCEPT ![k] = Reserved(h)]
      /\ pc[h] = "start" /\ pc' = [pc EXCEPT ![h] = "spawn"]
      /\ UNCHANGED <<req, pid, proc, reaper>>
  BY <1>1 DEF ReserveSlot
<1>3. /\ containers'[k].pid = NoPid /\ containers'[k].state = "STARTING"
      /\ \A i \in Slots \ {k} : containers'[i] = containers[i]
  BY <1>2, TypeEntry DEF Reserved, FreeSlot
<1>4. \A g \in Handlers :
        /\ Holder(g)' => Holder(g) /\ pid[g] \in Pids
        /\ pc[g] = "publish" => pc'[g] = "publish"
  BY <1>2 DEF Holder, HandlerInv, TypeOK
<1>5. \A p \in Pids : (Child(p)' <=> Child(p)) /\ (AliveProc(p)' <=> AliveProc(p))
  BY <1>2 DEF Child, AliveProc
<1>6. PidInv'
  BY <1>2, <1>3, <1>4, <1>5, PidAssumption DEF PidInv, Child, AliveProc, TableInv, SlotInv
<1>7. HomeInv'
  BY <1>1, <1>2, <1>3, <1>4, <1>5 DEF HomeInv
<1>8. StatusAccurate'
  BY <1>2, <1>3 DEF StatusAccurate, DeadStates
<1> QED
  BY <1>6, <1>7, <1>8

\* clone() returns a PID that no slot, no handler and no unrecorded exit has.
LEMMA SpawnKeepsProcs ==
  ASSUME NoReuse, IndInv, ProcInv, NEW h \in Handlers, Spawn(h)
  PROVE  ProcInv'
<1> USE DEF IndInv, ProcInv, daemon, table, locals, handlerVars, host, At, Goto
<1>1. PICK p \in Pids :
        /\ proc[p].st = "unborn"
        /\ proc' = [proc EXCEPT ![p] = [NoProcess EXCEPT !.st = "setup",
                                          !.rootfs = req[h].rootfs]]
        /\ pid' = [pid EXCEPT ![h] = p]
  BY DEF Spawn, FreshPid, NoReuse
<1>2. /\ pc[h] = "spawn" /\ pc' = [pc EXCEPT ![h] = "publish"]
      /\ UNCHANGED <<req, containers, reaper>>
  BY DEF Spawn
<1>3. /\ proc'[p].st = "setup" /\ proc'[p].rootfs = req[h].rootfs
      /\ \A q \in Pids \ {p} : proc'[q] = proc[q]
  BY <1>1, TypeEntry DEF NoProcess
<1>4. /\ pid'[h] = p /\ pc'[h] = "publish"
      /\ \A g \in Handlers \ {h} : pid'[g] = pid[g] /\ pc'[g] = pc[g]
  BY <1>1, <1>2 DEF TypeOK
<1>5. /\ \A i \in Slots : containers[i].used => containers[i].pid # p
      /\ \A g \in Handlers : Holder(g) => pid[g] # p /\ pid[g] \in Pids
      /\ reaper.pc = "record" => reaper.pid # p /\ reaper.pid \in Pids
  BY <1>1, PidAssumption
     DEF PidInv, Child, AliveProc, LivePhases, TableInv, SlotInv, Holder, HandlerInv
<1>6. /\ Child(p)'
      /\ \A q \in Pids \ {p} : (Child(q)' <=> Child(q)) /\ (AliveProc(q)' <=> AliveProc(q))
  BY <1>3 DEF Child, AliveProc, LivePhases
<1>7. /\ Holder(h)' /\ ~ Holder(h)
      /\ \A g \in Handlers \ {h} : Holder(g)' <=> Holder(g)
  BY <1>2, <1>4 DEF Holder
<1>8. \A i \in Slots : containers[i].pid \in Pids \cup {NoPid}
  BY TypeEntry DEF ContainerType
<1>9. PidInv'
  <2>1. \A i, j \in Slots : containers'[i].used /\ containers'[j].used /\ i # j
          /\ containers'[i].pid # NoPid => containers'[i].pid # containers'[j].pid
    BY <1>2 DEF PidInv
  <2>2. \A g \in Handlers, i \in Slots :
          Holder(g)' /\ containers'[i].used => containers'[i].pid # pid'[g]
    BY <1>2, <1>4, <1>5, <1>7 DEF PidInv
  <2>3. \A g, f \in Handlers : Holder(g)' /\ Holder(f)' /\ g # f => pid'[g] # pid'[f]
    BY <1>4, <1>5, <1>7 DEF PidInv
  <2>4. \A g \in Handlers : Holder(g)' => Child(pid[g])' \/ proc'[pid'[g]].st = "reaped"
    <3> SUFFICES ASSUME NEW g \in Handlers, Holder(g)'
                 PROVE  Child(pid[g])' \/ proc'[pid'[g]].st = "reaped"
      OBVIOUS
    <3>1. CASE g = h
      BY <1>3, <1>4, <3>1 DEF Child, AliveProc, LivePhases
    <3>2. CASE g # h
      BY <1>3, <1>4, <1>5, <1>7, <3>2 DEF PidInv, Child, AliveProc
    <3> QED
      BY <3>1, <3>2
  <2>5. \A i \in Slots : containers'[i].used /\ containers'[i].pid # NoPid =>
          Child(containers[i].pid)' \/ proc'[containers'[i].pid].st = "reaped"
    BY <1>2, <1>3, <1>5, <1>8 DEF PidInv, Child, AliveProc
  <2>6. \A q \in Pids : proc'[q].st \in {"zombie", "reaped"} => proc'[q].status.kind # "none"
    BY <1>3 DEF PidInv
  <2>7. reaper'.pc = "record" =>
          /\ proc'[reaper'.pid].st = "reaped" /\ proc'[reaper'.pid].status = reaper'.status
          /\ \A i \in Slots : containers'[i].used /\ containers'[i].pid = reaper'.pid
               => containers'[i].state = "RUNNING"
    BY <1>2, <1>3, <1>5 DEF PidInv
  <2> QED
    BY <2>1, <2>2, <2>3, <2>4, <2>5, <2>6, <2>7 DEF PidInv
<1>10. HomeInv'
  <2> SUFFICES ASSUME NEW q \in Pids, AliveProc(q)', SIGKILL \notin proc'[q].sig
               PROVE  \/ \E g \in Handlers : /\ pc'[g] = "publish" /\ pid'[g] = q
                                             /\ proc'[q].rootfs = req'[g].rootfs
                      \/ \E i \in Slots : /\ containers'[i].used /\ containers'[i].state = "RUNNING"
                                          /\ containers'[i].pid = q
                                          /\ containers'[i].rootfs = proc'[q].rootfs
    BY DEF HomeInv
  <2>1. CASE q = p
    BY <1>2, <1>3, <1>4, <2>1
  <2>2. CASE q # p
    <3>1. AliveProc(q) /\ SIGKILL \notin proc[q].sig /\ proc'[q] = proc[q]
      BY <1>3, <1>6, <2>2
    <3> QED
      BY <1>2, <1>4, <3>1 DEF HomeInv
  <2> QED
    BY <2>1, <2>2
<1>11. StatusAccurate'
  <2>1. \A i \in Slots : containers[i].used /\ containers[i].state \in DeadStates
          => containers[i].pid \in Pids \ {p}
    BY <1>5, <1>8 DEF TableInv, SlotInv, DeadStates
  <2> QED
    BY <1>2, <1>3, <2>1 DEF StatusAccurate
<1> QED
  BY <1>9, <1>10, <1>11

\* A child that cannot be served is killed before its slot is given back.
LEMMA ArgFailsKeepsProcs ==
  ASSUME IndInv, ProcInv, NEW h \in Handlers, ProducerArgFails(h)
  PROVE  ProcInv'
<1> USE DEF IndInv, ProcInv, daemon, table, locals, handlerVars, host, At, Goto
<1>1. /\ pc[h] = "publish" /\ pc' = [pc EXCEPT ![h] = "abort"]
      /\ proc' = Signalled({pid[h]}, SIGKILL)
      /\ UNCHANGED <<req, pid, containers, reaper>>
  BY DEF ProducerArgFails
<1>2. ProcsFramed
  BY <1>1, SignalledTyped DEF ProcsFramed
<1>3. PICK c \in Pids : c = pid[h]
  BY <1>1 DEF HandlerInv
<1>4. AliveProc(c) => SIGKILL \in proc'[c].sig
  <2>1. AliveProc(c) => proc'[c] = [proc[c] EXCEPT !.sig = @ \cup {SIGKILL}]
    BY <1>1, <1>3 DEF Signalled, Targets, Delivered
  <2> QED
    BY <2>1, TypeEntry DEF ProcessType
<1>5. HoldersFramed /\ SlotsFramed /\ \A g \in Handlers \ {h} : pc'[g] = pc[g]
  BY <1>1 DEF HoldersFramed, SlotsFramed, Holder, TypeOK
<1>6. PidInv' /\ StatusAccurate'
  BY <1>1, <1>2, <1>5, FrameKeepsPids, FrameKeepsStatus
<1>7. HomeInv'
  <2> SUFFICES ASSUME NEW q \in Pids, AliveProc(q)', SIGKILL \notin proc'[q].sig
               PROVE  \/ \E g \in Handlers : /\ pc'[g] = "publish" /\ pid'[g] = q
                                             /\ proc'[q].rootfs = req'[g].rootfs
                      \/ \E i \in Slots : /\ containers'[i].used /\ containers'[i].state = "RUNNING"
                                          /\ containers'[i].pid = q
                                          /\ containers'[i].rootfs = proc'[q].rootfs
    BY DEF HomeInv
  <2>1. AliveProc(q) /\ SIGKILL \notin proc[q].sig /\ q # c /\ proc'[q].rootfs = proc[q].rootfs
    BY <1>2, <1>4 DEF ProcsFramed, AliveProc
  <2>2. CASE \E g \in Handlers : /\ pc[g] = "publish" /\ pid[g] = q
                                 /\ proc[q].rootfs = req[g].rootfs
    <3>1. PICK g \in Handlers : pc[g] = "publish" /\ pid[g] = q /\ proc[q].rootfs = req[g].rootfs
      BY <2>2
    <3>2. g # h /\ pc'[g] = "publish" /\ pid'[g] = q
      BY <1>1, <1>3, <1>5, <2>1, <3>1
    <3> QED
      BY <1>1, <2>1, <3>1, <3>2
  <2>3. CASE \E i \in Slots : /\ containers[i].used /\ containers[i].state = "RUNNING"
                              /\ containers[i].pid = q /\ containers[i].rootfs = proc[q].rootfs
    BY <1>1, <2>1, <2>3
  <2> QED
    BY <2>1, <2>2, <2>3 DEF HomeInv
<1> QED
  BY <1>6, <1>7

\* The child's home moves from its handler to the handler's slot, which has its rootfs.
LEMMA PublishKeepsProcs ==
  ASSUME IndInv, ProcInv, NEW h \in Handlers, PublishPid(h)
  PROVE  ProcInv'
<1> USE DEF IndInv, ProcInv, daemon, table, locals, handlerVars, host, At, Goto
<1>0. containers' = [containers EXCEPT ![idx[h]].pid = pid[h], ![idx[h]].state = "RUNNING"]
  BY DEF PublishPid
<1>1. /\ pc[h] = "publish" /\ pc' = [pc EXCEPT ![h] = "logger"]
      /\ req' = req /\ pid' = pid /\ proc' = proc /\ reaper' = reaper
  BY DEF PublishPid
<1>2. PICK k \in Slots : k = idx[h]
  BY <1>1 DEF HandlerInv, Owner
<1>3. PICK c \in Pids : c = pid[h]
  BY <1>1 DEF HandlerInv
<1>4. /\ containers'[k].used /\ containers'[k].pid = c /\ containers'[k].state = "RUNNING"
      /\ containers'[k].rootfs = req[h].rootfs
      /\ \A i \in Slots \ {k} : containers'[i] = containers[i]
  <2>1. containers[k].used /\ containers[k].rootfs = req[h].rootfs
    BY <1>1, <1>2 DEF TableInv, SlotInv, Owner
  <2> QED
    BY <1>0, <1>2, <1>3, <2>1, TypeEntry DEF ContainerType
<1>5. /\ Holder(h) /\ ~ Holder(h)'
      /\ \A g \in Handlers \ {h} : (Holder(g)' <=> Holder(g)) /\ pc'[g] = pc[g]
  BY <1>1 DEF Holder, TypeOK
<1>6. \A i \in Slots : containers[i].used => containers[i].pid # c
  BY <1>3, <1>5 DEF PidInv
<1>7. PidInv'
  <2>1. \A i, j \in Slots : containers'[i].used /\ containers'[j].used /\ i # j
          /\ containers'[i].pid # NoPid => containers'[i].pid # containers'[j].pid
    BY <1>4, <1>6 DEF PidInv
  <2>2. \A g \in Handlers, i \in Slots :
          Holder(g)' /\ containers'[i].used => containers'[i].pid # pid'[g]
    <3> SUFFICES ASSUME NEW g \in Handlers, NEW i \in Slots, Holder(g)', containers'[i].used
                 PROVE  containers'[i].pid # pid'[g]
      OBVIOUS
    <3>1. g # h /\ Holder(g) /\ pid'[g] = pid[g] /\ pid[g] # c
      BY <1>1, <1>3, <1>5 DEF PidInv
    <3>2. CASE i = k
      BY <1>4, <3>1, <3>2
    <3>3. CASE i # k
      BY <1>4, <3>1, <3>3 DEF PidInv
    <3> QED
      BY <3>2, <3>3
  <2>3. \A g, f \in Handlers : Holder(g)' /\ Holder(f)' /\ g # f => pid'[g] # pid'[f]
    BY <1>1, <1>5 DEF PidInv
  <2>4. \A g \in Handlers : Holder(g)' => Child(pid[g])' \/ proc'[pid'[g]].st = "reaped"
    BY <1>1, <1>5 DEF PidInv, Child, AliveProc
  <2>5. \A i \in Slots : containers'[i].used /\ containers'[i].pid # NoPid =>
          Child(containers[i].pid)' \/ proc'[containers'[i].pid].st = "reaped"
    <3> SUFFICES ASSUME NEW i \in Slots, containers'[i].used, containers'[i].pid # NoPid
                 PROVE  Child(containers[i].pid)' \/ proc'[containers'[i].pid].st = "reaped"
      OBVIOUS
    <3>1. CASE i = k
      <4>1. Child(c) \/ proc[c].st = "reaped"
        BY <1>3, <1>5 DEF PidInv
      <4> QED
        BY <1>1, <1>4, <3>1, <4>1 DEF Child, AliveProc
    <3>2. CASE i # k
      <4>1. containers'[i] = containers[i]
        BY <1>4, <3>2
      <4>2. Child(containers[i].pid) \/ proc[containers[i].pid].st = "reaped"
        BY <4>1 DEF PidInv
      <4> QED
        BY <1>1, <4>1, <4>2 DEF Child, AliveProc
    <3> QED
      BY <3>1, <3>2
  <2>6. \A q \in Pids : proc'[q].st \in {"zombie", "reaped"} => proc'[q].status.kind # "none"
    BY <1>1 DEF PidInv
  <2>7. reaper'.pc = "record" =>
          /\ proc'[reaper'.pid].st = "reaped" /\ proc'[reaper'.pid].status = reaper'.status
          /\ \A i \in Slots : containers'[i].used /\ containers'[i].pid = reaper'.pid
               => containers'[i].state = "RUNNING"
    <3> SUFFICES ASSUME reaper.pc = "record"
                 PROVE  /\ proc[reaper.pid].st = "reaped" /\ proc[reaper.pid].status = reaper.status
                        /\ \A i \in Slots : containers'[i].used /\ containers'[i].pid = reaper.pid
                             => containers'[i].state = "RUNNING"
      BY <1>1
    <3>1. /\ proc[reaper.pid].st = "reaped" /\ proc[reaper.pid].status = reaper.status
          /\ \A i \in Slots : containers[i].used /\ containers[i].pid = reaper.pid
               => containers[i].state = "RUNNING"
      BY DEF PidInv
    <3> QED
      BY <1>4, <3>1
  <2> QED
    BY <2>1, <2>2, <2>3, <2>4, <2>5, <2>6, <2>7 DEF PidInv
<1>8. HomeInv'
  <2> SUFFICES ASSUME NEW q \in Pids, AliveProc(q)', SIGKILL \notin proc'[q].sig
               PROVE  \/ \E g \in Handlers : /\ pc'[g] = "publish" /\ pid'[g] = q
                                             /\ proc'[q].rootfs = req'[g].rootfs
                      \/ \E i \in Slots : /\ containers'[i].used /\ containers'[i].state = "RUNNING"
                                          /\ containers'[i].pid = q
                                          /\ containers'[i].rootfs = proc'[q].rootfs
    BY DEF HomeInv
  <2>1. AliveProc(q) /\ SIGKILL \notin proc[q].sig /\ proc'[q] = proc[q]
    BY <1>1 DEF AliveProc
  <2>2. CASE \E g \in Handlers : /\ pc[g] = "publish" /\ pid[g] = q
                                 /\ proc[q].rootfs = req[g].rootfs
    <3>1. PICK g \in Handlers : pc[g] = "publish" /\ pid[g] = q /\ proc[q].rootfs = req[g].rootfs
      BY <2>2
    <3>2. CASE g = h
      BY <1>1, <1>3, <1>4, <2>1, <3>1, <3>2
    <3>3. CASE g # h
      BY <1>1, <1>5, <2>1, <3>1, <3>3
    <3> QED
      BY <3>2, <3>3
  <2>3. CASE \E i \in Slots : /\ containers[i].used /\ containers[i].state = "RUNNING"
                              /\ containers[i].pid = q /\ containers[i].rootfs = proc[q].rootfs
    <3>1. PICK i \in Slots : /\ containers[i].used /\ containers[i].state = "RUNNING"
                             /\ containers[i].pid = q /\ containers[i].rootfs = proc[q].rootfs
      BY <2>3
    <3>2. i # k
      BY <1>1, <1>2, <3>1 DEF TableInv, SlotInv, Owner
    <3> QED
      BY <1>4, <2>1, <3>1, <3>2
  <2> QED
    BY <2>1, <2>2, <2>3 DEF HomeInv
<1>9. StatusAccurate'
  <2>1. \A i \in Slots : containers'[i].used /\ containers'[i].state \in DeadStates
          => containers'[i] = containers[i]
    BY <1>4 DEF DeadStates
  <2> QED
    BY <1>1, <2>1 DEF StatusAccurate
<1> QED
  BY <1>7, <1>8, <1>9

\* waitpid() returns a child whose slot, if it has one, is still RUNNING.
LEMMA ReapKeepsProcs ==
  ASSUME IndInv, ProcInv, NEW p \in Pids, Reap(p)
  PROVE  ProcInv'
<1> USE DEF IndInv, ProcInv, daemon, table, locals, handlerVars, host
<1>1. /\ proc[p].st = "zombie" /\ proc' = [proc EXCEPT ![p].st = "reaped"]
      /\ reaper' = [pc |-> "record", pid |-> p, status |-> proc[p].status]
      /\ UNCHANGED <<containers, pc, req, pid>>
  BY DEF Reap, Zombie
<1>2. /\ proc'[p].st = "reaped" /\ proc'[p].status = proc[p].status
      /\ \A q \in Pids \ {p} : proc'[q] = proc[q]
  BY <1>1, TypeEntry DEF ProcessType
<1>3. /\ \A h \in Handlers : Holder(h)' <=> Holder(h)
      /\ \A h \in Handlers : Holder(h) => pid[h] \in Pids
      /\ \A i \in Slots : containers[i].pid \in Pids \cup {NoPid}
      /\ \A i \in Slots : containers[i].used /\ containers[i].state # "STARTING" =>
           containers[i].pid \in Pids
  BY <1>1, TypeEntry DEF Holder, HandlerInv, ContainerType, TableInv, SlotInv
<1>4. PidInv'
  <2>1. \A q \in Pids : Child(q) \/ proc[q].st = "reaped" =>
          Child(q)' \/ proc'[q].st = "reaped"
    BY <1>2 DEF Child, AliveProc
  <2>2. \A i \in Slots : containers[i].used /\ containers[i].pid = p
          => containers[i].state = "RUNNING"
    <3> SUFFICES ASSUME NEW i \in Slots, containers[i].used, containers[i].pid = p
                 PROVE  containers[i].state = "RUNNING"
      OBVIOUS
    <3>1. containers[i].state \notin DeadStates
      BY <1>1 DEF StatusAccurate
    <3>2. containers[i].state # "STARTING"
      BY PidAssumption DEF TableInv, SlotInv
    <3> QED
      BY <3>1, <3>2 DEF TableInv, SlotInv, LiveStates
  <2>3. \A q \in Pids : proc'[q].st \in {"zombie", "reaped"} => proc'[q].status.kind # "none"
    BY <1>1, <1>2 DEF PidInv
  <2>4. \A h \in Handlers : Holder(h)' => Child(pid[h])' \/ proc'[pid'[h]].st = "reaped"
    BY <1>1, <1>3, <2>1 DEF PidInv
  <2>5. \A i \in Slots : containers'[i].used /\ containers'[i].pid # NoPid =>
          Child(containers[i].pid)' \/ proc'[containers'[i].pid].st = "reaped"
    BY <1>1, <1>3, <2>1 DEF PidInv
  <2> QED
    BY <1>1, <1>2, <1>3, <2>2, <2>3, <2>4, <2>5 DEF PidInv
<1>5. HomeInv'
  <2>1. \A q \in Pids : AliveProc(q)' => AliveProc(q) /\ proc'[q] = proc[q]
    BY <1>2 DEF AliveProc, LivePhases
  <2> QED
    BY <1>1, <2>1 DEF HomeInv
<1>6. StatusAccurate'
  BY <1>1, <1>2, <1>3 DEF StatusAccurate, DeadStates
<1> QED
  BY <1>4, <1>5, <1>6

\* The slot found by PID is that of the process that ended.
LEMMA RecordKeepsProcs ==
  ASSUME IndInv, ProcInv, RecordExit
  PROVE  ProcInv'
<1> USE DEF IndInv, ProcInv, daemon, table, locals, handlerVars, host
<1>1. PICK k \in Slots : /\ k = First(WithPid(reaper.pid))
                         /\ containers[k].used /\ containers[k].pid = reaper.pid
  <2>1. WithPid(reaper.pid) # {} /\ WithPid(reaper.pid) \subseteq Slots
    BY DEF RecordExit, WithPid
  <2>2. First(WithPid(reaper.pid)) \in WithPid(reaper.pid)
    BY <2>1, FirstIsIn
  <2> QED
    BY <2>2 DEF WithPid
<1>2. /\ containers' = [containers EXCEPT ![k] = ExitRecord(k)]
      /\ pc' = WakeRunners(k) /\ reaper'.pc = "waitpid"
      /\ UNCHANGED <<req, pid, proc>>
  BY <1>1 DEF RecordExit, TypeOK
<1>3. reaper.pc = "record" /\ reaper.pid \in Pids
  BY DEF RecordExit, TableInv, SlotInv
<1>4. /\ containers'[k].used
      /\ containers'[k].pid = reaper.pid
      /\ containers'[k].rootfs = containers[k].rootfs
      /\ containers'[k].state = FinalState(reaper.status, containers[k].stop_requested)
      /\ containers'[k].exit_code = ExitCode(reaper.status)
      /\ \A i \in Slots \ {k} : containers'[i] = containers[i]
  BY <1>1, <1>2, TypeEntry DEF ContainerType, ExitRecord
<1>5. proc[reaper.pid].st = "reaped" /\ proc[reaper.pid].status = reaper.status
  BY <1>3 DEF PidInv
<1>6. \A g \in Handlers :
        /\ Holder(g)' <=> Holder(g)
        /\ pc'[g] = "publish" <=> pc[g] = "publish"
  BY <1>2 DEF WakeRunners, Holder, TypeOK
<1>7. PidInv'
  <2>1. \A i \in Slots : containers'[i].used => containers[i].used /\ containers'[i].pid = containers[i].pid
    BY <1>1, <1>4
  <2> QED
    BY <1>2, <1>6, <2>1 DEF PidInv, Child, AliveProc
<1>8. HomeInv'
  <2>1. ~ AliveProc(reaper.pid)
    BY <1>5 DEF AliveProc, LivePhases
  <2>2. \A q \in Pids : AliveProc(q)' => AliveProc(q) /\ q # reaper.pid
    BY <1>2, <2>1 DEF AliveProc
  <2> QED
    BY <1>1, <1>2, <1>4, <1>6, <2>2 DEF HomeInv
<1>9. StatusAccurate'
  <2>1. /\ containers'[k].state = "EXITED" => reaper.status.kind = "exited"
        /\ containers'[k].state = "KILLED" => reaper.status.kind = "signaled"
    <3>1. reaper.status.kind \in {"exited", "signaled", "none"}
      BY DEF TypeOK, Statuses, OwnDeaths, SetupDeaths, NoStatus, Exited, Signaled
    <3>2. reaper.status.kind # "none"
      BY <1>3, <1>5 DEF PidInv
    <3> QED
      BY <1>4, <3>1, <3>2 DEF FinalState
  <2> QED
    BY <1>2, <1>4, <1>5, <2>1 DEF StatusAccurate
<1> QED
  BY <1>7, <1>8, <1>9

\* A container process runs on or dies; no other process changes.
LEMMA ProcessSteps ==
  ASSUME NoReuse, TypeOK, NEW p \in Pids, ProcessStep(p)
  PROVE  /\ AliveProc(p)
         /\ AliveProc(p)' \/ (proc'[p].st = "zombie" /\ proc'[p].status.kind # "none")
         /\ proc'[p].sig = proc[p].sig /\ proc'[p].rootfs = proc[p].rootfs
         /\ \A q \in Pids \ {p} : proc'[q] = proc[q]
         /\ UNCHANGED <<containers, pc, req, pid, resp, reaper>>
<1> USE DEF daemon, table, locals, handlerVars
<1>1. ASSUME NEW st, NEW status, Process(p, st, status), proc[p].st \in LivePhases,
             st \in LivePhases \/ (st = "zombie" /\ status.kind # "none")
      PROVE  /\ AliveProc(p)
             /\ AliveProc(p)' \/ (proc'[p].st = "zombie" /\ proc'[p].status.kind # "none")
             /\ proc'[p].sig = proc[p].sig /\ proc'[p].rootfs = proc[p].rootfs
             /\ \A q \in Pids \ {p} : proc'[q] = proc[q]
             /\ UNCHANGED <<containers, pc, req, pid, resp, reaper>>
  <2>1. /\ proc'[p].st = st /\ proc'[p].status = status
        /\ proc'[p].sig = proc[p].sig /\ proc'[p].rootfs = proc[p].rootfs
        /\ \A q \in Pids \ {p} : proc'[q] = proc[q]
    BY <1>1, TypeEntry DEF Process, ProcessType
  <2>2. UNCHANGED <<containers, pc, req, pid, resp, reaper>>
    BY <1>1 DEF Process
  <2> QED
    BY <1>1, <2>1, <2>2 DEF AliveProc
<1>2. \E st, status : /\ Process(p, st, status) /\ proc[p].st \in LivePhases
                      /\ st \in LivePhases \/ (st = "zombie" /\ status.kind # "none")
  <2>1. CASE Exec(p) \/ InstallsHandler(p)
    BY <2>1 DEF Exec, InstallsHandler, LivePhases
  <2>2. ASSUME NEW status \in OwnDeaths \cup SetupDeaths \cup {Signaled(SIGKILL)}, Dies(p, status),
               proc[p].st \in LivePhases
        PROVE  \E st, s : /\ Process(p, st, s) /\ proc[p].st \in LivePhases
                          /\ st \in LivePhases \/ (st = "zombie" /\ s.kind # "none")
    <3>1. status.kind # "none"
      BY DEF OwnDeaths, SetupDeaths, Exited, Signaled
    <3> QED
      BY <2>2, <3>1, Zenon DEF Dies
  <2>3. CASE SetupFails(p) \/ ExitsByItself(p) \/ KilledBySigkill(p)
    BY <2>2, <2>3 DEF SetupFails, ExitsByItself, KilledBySigkill, AliveProc, LivePhases
  <2>4. CASE ExitsOnSigterm(p)
    BY <2>2, <2>4 DEF ExitsOnSigterm, OwnDeaths, LivePhases
  <2> QED
    BY <2>1, <2>3, <2>4, Zenon DEF ProcessStep, PidTaken, NoReuse
<1> QED
  BY <1>1, <1>2, Zenon

\* A container process that runs on or dies keeps ProcInv.
LEMMA ProcessKeepsProcs ==
  ASSUME NoReuse, IndInv, ProcInv, NEW p \in Pids, ProcessStep(p)
  PROVE  ProcInv'
<1> USE DEF IndInv, ProcInv
<1>1. /\ AliveProc(p)
      /\ AliveProc(p)' \/ (proc'[p].st = "zombie" /\ proc'[p].status.kind # "none")
      /\ proc'[p].sig = proc[p].sig /\ proc'[p].rootfs = proc[p].rootfs
      /\ \A q \in Pids \ {p} : proc'[q] = proc[q]
      /\ UNCHANGED <<containers, pc, req, pid, resp, reaper>>
  BY ProcessSteps
<1>2. proc[p].st # "reaped" /\ Child(p) /\ Child(p)'
  BY <1>1 DEF AliveProc, Child, LivePhases
<1>3. \A q \in Pids \ {p} : (Child(q)' <=> Child(q)) /\ (AliveProc(q)' <=> AliveProc(q))
  BY <1>1 DEF AliveProc, Child
<1>4. /\ \A h \in Handlers : Holder(h)' <=> Holder(h)
      /\ \A h \in Handlers : Holder(h) => pid[h] \in Pids
      /\ \A i \in Slots : containers[i].pid \in Pids \cup {NoPid}
      /\ \A i \in Slots : containers[i].used /\ containers[i].state # "STARTING" =>
           containers[i].pid \in Pids
      /\ reaper.pc = "record" => reaper.pid \in Pids
  BY <1>1, TypeEntry DEF Holder, HandlerInv, ContainerType, TableInv, SlotInv
<1>5. PidInv'
  <2>1. \A q \in Pids : Child(q) \/ proc[q].st = "reaped" =>
          Child(q)' \/ proc'[q].st = "reaped"
    BY <1>1, <1>2, <1>3
  <2>2. \A q \in Pids : proc'[q].st \in {"zombie", "reaped"} => proc'[q].status.kind # "none"
    BY <1>1 DEF PidInv, AliveProc, LivePhases
  <2>3. \A h \in Handlers : Holder(h)' => Child(pid[h])' \/ proc'[pid'[h]].st = "reaped"
    BY <1>1, <1>4, <2>1 DEF PidInv
  <2>4. \A i \in Slots : containers'[i].used /\ containers'[i].pid # NoPid =>
          Child(containers[i].pid)' \/ proc'[containers'[i].pid].st = "reaped"
    BY <1>1, <1>4, <2>1 DEF PidInv
  <2>5. reaper'.pc = "record" =>
          /\ proc'[reaper'.pid].st = "reaped" /\ proc'[reaper'.pid].status = reaper'.status
          /\ \A i \in Slots : containers'[i].used /\ containers'[i].pid = reaper'.pid
               => containers'[i].state = "RUNNING"
    BY <1>1, <1>2, <1>4 DEF PidInv
  <2> QED
    BY <1>1, <1>4, <2>2, <2>3, <2>4, <2>5 DEF PidInv
<1>6. HomeInv'
  <2>1. \A q \in Pids : AliveProc(q)' =>
          AliveProc(q) /\ proc'[q].sig = proc[q].sig /\ proc'[q].rootfs = proc[q].rootfs
    BY <1>1, <1>3
  <2> QED
    BY <1>1, <2>1 DEF HomeInv
<1>7. StatusAccurate'
  <2>1. \A i \in Slots : containers[i].used /\ containers[i].state \in DeadStates
          => containers[i].pid \in Pids \ {p}
    BY <1>2, <1>4 DEF StatusAccurate, DeadStates
  <2> QED
    BY <1>1, <2>1 DEF StatusAccurate
<1> QED
  BY <1>5, <1>6, <1>7

\* There are no containers at first.
LEMMA InitProcs == Init => ProcInv
<1> SUFFICES ASSUME Init PROVE ProcInv
  OBVIOUS
<1>1. /\ \A i \in Slots : ~ containers[i].used
      /\ \A h \in Handlers : ~ Holder(h)
      /\ reaper.pc # "record"
  BY DEF Init, FreeSlot, Holder
<1>2. \A p \in Pids : proc[p].st \in {"unborn", "other"}
  BY DEF Init, NoProcess
<1> QED
  BY <1>1, <1>2 DEF ProcInv, PidInv, HomeInv, StatusAccurate, AliveProc, LivePhases

\* Every step keeps ProcInv.
LEMMA NextKeepsProcs ==
  ASSUME NoReuse, IndInv, ProcInv, [Next]_vars
  PROVE  ProcInv'
<1>1. CASE MainStep \/ ShutdownSignal \/ KernelStep \/ UNCHANGED vars
  BY <1>1, MainFramed, FrameKeepsProcs
<1>2. ASSUME NEW h \in Handlers,
             \/ QuietStep(h)
             \/ (\E r \in Requests : Accept(h, r))
                \/ AcceptDrops(h) \/ ClientQuits(h) \/ ReplySigpipe(h)
             \/ ReserveSlot(h) \/ SpawnFails(h) \/ Spawn(h) \/ ProducerArgFails(h)
                \/ AbortStart(h) \/ PublishPid(h) \/ CreateProducer(h)
                \/ RegisterWithKernel(h)
             \/ StopMarks(h) \/ StopKills(h)
      PROVE  ProcInv'
  BY <1>2, HandlerFramed, FrameKeepsProcs, ReserveKeepsProcs, SpawnKeepsProcs,
     ArgFailsKeepsProcs, PublishKeepsProcs
<1>3. CASE ReaperStep
  BY <1>3, MainFramed, FrameKeepsProcs, ReapKeepsProcs, RecordKeepsProcs DEF ReaperStep
<1>4. ASSUME NEW p \in Pids, ProcessStep(p) PROVE ProcInv'
  BY <1>4, ProcessKeepsProcs
<1> QED
  BY <1>1, <1>2, <1>3, <1>4, NextCases, Zenon

\* ProcInv holds for ever.
LEMMA ProcsInductive == ASSUME NoReuse PROVE Spec => []ProcInv
<1>1. IndInv /\ ProcInv /\ [Next]_vars => ProcInv'
  BY NextKeepsProcs
<1> QED
  BY <1>1, Inductive, InitProcs, PTL DEF Spec

\* What ps reports of an ended container is what became of its own process: that
\* process has been reaped, and state and exit code are those of its wait status.
THEOREM StatusesAccurate == ASSUME NoReuse PROVE Spec => []StatusAccurate
  BY ProcsInductive, PTL DEF ProcInv

\* The processes have homes of their own in the table or in a start that is under
\* way, and the rootfs of those homes differ.
LEMMA HomesDiffer == IndInv /\ ProcInv => RootfsExclusive
<1> SUFFICES ASSUME IndInv, ProcInv,
                    NEW p \in Pids, AliveProc(p), SIGKILL \notin proc[p].sig,
                    NEW q \in Pids, AliveProc(q), SIGKILL \notin proc[q].sig,
                    p # q
             PROVE  proc[p].rootfs # proc[q].rootfs
  BY DEF RootfsExclusive
<1> USE DEF IndInv, ProcInv
<1>1. ASSUME NEW x \in Pids, AliveProc(x), SIGKILL \notin proc[x].sig
      PROVE  \E i \in Slots :
               /\ Live(i) /\ containers[i].rootfs = proc[x].rootfs
               /\ \/ containers[i].pid = x
                  \/ \E h \in Handlers : Owner(h) /\ pid[h] = x /\ idx[h] = i
  <2>1. CASE \E h \in Handlers : /\ pc[h] = "publish" /\ pid[h] = x
                                 /\ proc[x].rootfs = req[h].rootfs
    <3>1. PICK h \in Handlers : pc[h] = "publish" /\ pid[h] = x /\ proc[x].rootfs = req[h].rootfs
      BY <2>1
    <3>2. Owner(h) /\ idx[h] \in Slots
      BY <3>1 DEF Owner, HandlerInv
    <3>3. Live(idx[h]) /\ containers[idx[h]].rootfs = proc[x].rootfs
      BY <3>1, <3>2 DEF TableInv, SlotInv, Live, LiveStates
    <3> QED
      BY <3>1, <3>2, <3>3
  <2>2. CASE \E i \in Slots : /\ containers[i].used /\ containers[i].state = "RUNNING"
                              /\ containers[i].pid = x /\ containers[i].rootfs = proc[x].rootfs
    BY <2>2 DEF Live, LiveStates
  <2> QED
    BY <1>1, <2>1, <2>2 DEF HomeInv
<1>2. PICK i \in Slots : /\ Live(i) /\ containers[i].rootfs = proc[p].rootfs
                         /\ \/ containers[i].pid = p
                            \/ \E h \in Handlers : Owner(h) /\ pid[h] = p /\ idx[h] = i
  BY <1>1
<1>3. PICK j \in Slots : /\ Live(j) /\ containers[j].rootfs = proc[q].rootfs
                         /\ \/ containers[j].pid = q
                            \/ \E h \in Handlers : Owner(h) /\ pid[h] = q /\ idx[h] = j
  BY <1>1
<1>4. i # j
  <2> SUFFICES ASSUME i = j PROVE FALSE
    OBVIOUS
  <2>1. \A h \in Handlers : Owner(h) /\ idx[h] = i => containers[i].pid = NoPid
    BY DEF TableInv, SlotInv
  <2> QED
    BY <1>2, <1>3, <2>1, PidAssumption DEF TableInv, SlotInv
<1> QED
  BY <1>2, <1>3, <1>4 DEF TableInv, RootfsInv

\* Two container processes on one rootfs path are never alive together, unless SIGKILL
\* is already on its way to one of them, whatever starts, failed starts and exits race.
THEOREM RootfsesExclusive == ASSUME NoReuse PROVE Spec => []RootfsExclusive
  BY Inductive, ProcsInductive, HomesDiffer, PTL

\* The record of an ended container never changes again: the reaper never finds it a
\* second time, and stop refuses it.
THEOREM TerminalsFinal == ASSUME NoReuse PROVE Spec => TerminalFinal
<1>1. ASSUME IndInv, ProcInv, [Next]_vars, NEW i \in Slots,
             containers[i].used, containers[i].state \in DeadStates
      PROVE  containers'[i] = containers[i]
  <2>1. ~ Live(i) /\ ~ Starting(i)
    BY <1>1 DEF Live, Starting, LiveStates, DeadStates
  <2>2. ~ (RecordExit /\ i = First(WithPid(reaper.pid)))
    <3> SUFFICES ASSUME RecordExit, i = First(WithPid(reaper.pid)) PROVE FALSE
      OBVIOUS
    <3>1. WithPid(reaper.pid) # {} /\ WithPid(reaper.pid) \subseteq Slots
      BY DEF RecordExit, WithPid
    <3>2. containers[i].pid = reaper.pid
      BY <3>1, FirstIsIn DEF WithPid
    <3> QED
      BY <1>1, <3>2 DEF RecordExit, ProcInv, PidInv, DeadStates
  <2> QED
    BY <1>1, <2>1, <2>2, SlotSteps
<1>2. IndInv /\ ProcInv /\ [Next]_vars =>
        [\A i \in Slots :
           containers[i].used /\ containers[i].state \in DeadStates
             => containers'[i] = containers[i]]_vars
  BY <1>1
<1> QED
  BY <1>2, Inductive, ProcsInductive, PTL DEF Spec, TerminalFinal

-----------------------------------------------------------------------------
(* The answer of run. *)

\* The handler of a run has a positive answer.
Answered(h) == pc[h] \in {"reply", "done"} /\ resp[h].ok /\ req[h].type = "run"

\* RunReturnsExit, with the PID known to be one.
RunInv == \A h \in Handlers : Answered(h) =>
            /\ pid[h] \in Pids
            /\ proc[pid[h]].st = "reaped"
            /\ resp[h].exit_code = ExitCode(proc[pid[h]].status)

\* A process that has been reaped stays as it is.
LEMMA ReapedStays ==
  ASSUME NoReuse, IndInv, [Next]_vars, NEW p \in Pids, proc[p].st = "reaped"
  PROVE  proc'[p].st = "reaped" /\ proc'[p].status = proc[p].status
<1> USE DEF daemon, table, locals, handlerVars, host
<1>1. CASE Frame
  BY <1>1 DEF Frame, ProcsFramed
<1>2. CASE UNCHANGED proc
  BY <1>2
<1>3. ASSUME NEW h \in Handlers, Spawn(h)
      PROVE  proc'[p] = proc[p]
  BY <1>3, TypeEntry DEF IndInv, Spawn, FreshPid, NoReuse
<1>4. ASSUME NEW h \in Handlers, ProducerArgFails(h)
      PROVE  proc'[p].st = "reaped" /\ proc'[p].status = proc[p].status
  BY <1>4, SignalledTyped DEF IndInv, ProducerArgFails
<1>5. ASSUME NEW q \in Pids, Reap(q) PROVE proc'[p] = proc[p]
  BY <1>5, TypeEntry DEF IndInv, Reap, Zombie
<1>6. ASSUME NEW q \in Pids, ProcessStep(q) PROVE proc'[p] = proc[p]
  BY <1>6, ProcessSteps DEF IndInv, AliveProc, LivePhases
<1>7. \/ Frame \/ UNCHANGED proc
      \/ \E h \in Handlers : Spawn(h) \/ ProducerArgFails(h)
      \/ \E q \in Pids : Reap(q) \/ ProcessStep(q)
  <2>1. CASE MainStep \/ ShutdownSignal \/ KernelStep \/ UNCHANGED vars
    BY <2>1, MainFramed
  <2>2. ASSUME NEW h \in Handlers, ReserveSlot(h) \/ PublishPid(h) PROVE UNCHANGED proc
    BY <2>2 DEF ReserveSlot, PublishPid
  <2>3. CASE ReaperStep
    BY <2>3, Zenon DEF ReaperStep, RecordExit, RecordNothing, ReaperEnds, ReaperGoes
  <2>4. ASSUME NEW h \in Handlers,
               \/ QuietStep(h)
               \/ \E r \in Requests : Accept(h, r)
               \/ AcceptDrops(h) \/ ClientQuits(h) \/ ReplySigpipe(h)
               \/ SpawnFails(h) \/ AbortStart(h) \/ CreateProducer(h) \/ RegisterWithKernel(h)
               \/ StopMarks(h) \/ StopKills(h)
        PROVE  Frame
    BY <2>4, HandlerFramed
  <2> QED
    BY <2>1, <2>2, <2>3, <2>4, NextCases, Zenon
<1> QED
  BY <1>1, <1>2, <1>3, <1>4, <1>5, <1>6, <1>7

\* Only RunEnds gives a run a positive answer, and nothing changes it.
LEMMA AnswerSteps ==
  ASSUME IndInv, [Next]_vars, NEW h \in Handlers, Answered(h)'
  PROVE  \/ RunEnds(h)
         \/ Answered(h) /\ pid'[h] = pid[h] /\ resp'[h].exit_code = resp[h].exit_code
<1> USE DEF IndInv, daemon, table, locals, handlerVars, host, At, Goto
<1> DEFINE Kept == Answered(h) /\ pid'[h] = pid[h] /\ resp'[h].exit_code = resp[h].exit_code
<1>0. resp[h].ok => pc[h] \in {"reply", "done"}
  BY DEF HandlerInv
<1>1. req'[h] = req[h] /\ pid'[h] = pid[h] /\ resp'[h] = resp[h] => Kept
  BY <1>0 DEF Answered
<1>3. CASE \/ MainStep \/ ShutdownSignal \/ ReaperStep \/ (\E p \in Pids : ProcessStep(p))
           \/ KernelStep \/ UNCHANGED vars
  <2>1. UNCHANGED <<req, pid, resp>>
    BY <1>3, Zenon
       DEF MainStep, Boot, LeaveLoop, StopAllLive, ShutdownLogging, JoinReaper, BootsWithoutReaper, JoinUndefined, MainGoes,
           ShutdownSignal, ReaperStep, Reap, RecordExit, RecordNothing, ReaperEnds, ReaperGoes,
           KernelStep, HardLimitKill, HostKill, Sigkilled, StaleEntryRemoved, ListFreed, ProcessStep, Exec, SetupFails,
           InstallsHandler, ExitsOnSigterm, ExitsByItself, KilledBySigkill, PidTaken, Dies,
           Process, vars
  <2> QED
    BY <1>1, <2>1
<1>4. ASSUME NEW g \in Handlers,
             \/ Dispatch(g) \/ RecvFails(g) \/ Reply(g) \/ RunBlocks(g) \/ RunSpurious(g)
             \/ AcceptDrops(g) \/ ClientQuits(g) \/ ReplySigpipe(g)
             \/ ReserveSlot(g) \/ ProducerArgFails(g) \/ PublishPid(g) \/ CreateProducer(g)
      PROVE  Kept
  <2>1. UNCHANGED <<req, pid, resp>>
    BY <1>4, Zenon
       DEF Dispatch, RecvFails, Reply, RunBlocks, RunSpurious, Step, AcceptDrops, ClientQuits,
           ReplySigpipe, ReserveSlot, ProducerArgFails, PublishPid, CreateProducer
  <2> QED
    BY <1>1, <2>1
<1>5. ASSUME NEW g \in Handlers, NEW r \in Requests, Accept(g, r)
      PROVE  Kept
  <2>1. g # h
    BY <1>0, <1>5 DEF Accept, Answered, TypeOK
  <2> QED
    BY <1>1, <1>5, <2>1 DEF Accept, TypeOK
<1>6. ASSUME NEW g \in Handlers, Spawn(g) \/ StopMarks(g)
      PROVE  Kept
  <2>1. /\ UNCHANGED <<req, resp>> /\ pc[g] \in {"spawn", "stop"}
        /\ \E p : pid' = [pid EXCEPT ![g] = p]
    BY <1>6 DEF Spawn, StopMarks
  <2>2. g # h
    BY <1>0, <2>1 DEF Answered
  <2> QED
    BY <1>1, <2>1, <2>2 DEF TypeOK
<1>7. ASSUME NEW g \in Handlers, NEW code, Respond(g, FALSE, code), UNCHANGED <<req, pid>>
      PROVE  Kept
  <2>1. g # h
    BY <1>7 DEF Respond, Answered, TypeOK
  <2> QED
    BY <1>1, <1>7, <2>1 DEF Respond, TypeOK
<1>8. ASSUME NEW g \in Handlers, Respond(g, TRUE, 0), UNCHANGED <<req, pid>>,
             req[g].type # "run"
      PROVE  Kept
  <2>1. g # h
    BY <1>8 DEF Answered
  <2> QED
    BY <1>1, <1>8, <2>1 DEF Respond, TypeOK
<1>9. ASSUME NEW g \in Handlers,
             \/ StartRefused(g) \/ StopRefused(g) \/ UnknownReply(g)
             \/ SpawnFails(g) \/ AbortStart(g)
      PROVE  Kept
  <2>1. Respond(g, FALSE, -1) /\ UNCHANGED <<req, pid>>
    BY <1>9, Zenon
       DEF StartRefused, StopRefused, UnknownReply, Answer, SpawnFails, AbortStart, ReleaseSlot
  <2> QED
    BY <1>7, <2>1, Zenon
<1>10. ASSUME NEW g \in Handlers, PsReply(g) \/ LogsReply(g) \/ StopKills(g)
       PROVE  Kept
  <2>1. /\ Respond(g, TRUE, 0) \/ Respond(g, FALSE, -1)
        /\ UNCHANGED <<req, pid>>
        /\ pc[g] \in {"ps", "logs", "kill"}
    BY <1>10, Zenon DEF PsReply, LogsReply, StopKills, Answer
  <2>2. req[g].type # "run"
    BY <2>1 DEF HandlerInv
  <2> QED
    BY <1>7, <1>8, <2>1, <2>2, Zenon
<1>11. ASSUME NEW g \in Handlers, RegisterWithKernel(g)
       PROVE  Kept
  <2>1. CASE req[g].type = "start"
    <3>1. Respond(g, TRUE, 0) /\ UNCHANGED <<req, pid>>
      BY <1>11, <2>1, Zenon DEF RegisterWithKernel
    <3> QED
      BY <1>8, <2>1, <3>1, Zenon
  <2>2. CASE req[g].type # "start"
    BY <1>1, <1>11, <2>2 DEF RegisterWithKernel
  <2> QED
    BY <2>1, <2>2
<1>12. ASSUME NEW g \in Handlers, RunEnds(g)
       PROVE  RunEnds(h) \/ Kept
  BY <1>1, <1>12 DEF RunEnds, Answer, Respond, TypeOK
<1> HIDE DEF Kept
<1>13. ASSUME NEW g \in Handlers, QuietStep(g)
       PROVE  RunEnds(h) \/ Kept
  BY <1>4, <1>9, <1>10, <1>12, <1>13, Zenon DEF QuietStep
<1> QED
  BY <1>3, <1>4, <1>5, <1>6, <1>9, <1>10, <1>11, <1>13, NextCases, Zenon DEF Kept

\* Every step keeps the answers of run right.
LEMMA NextKeepsRun ==
  ASSUME NoReuse, IndInv, ProcInv, RunInv, [Next]_vars
  PROVE  RunInv'
<1> SUFFICES ASSUME NEW h \in Handlers, Answered(h)'
             PROVE  /\ pid'[h] \in Pids
                    /\ proc'[pid'[h]].st = "reaped"
                    /\ resp'[h].exit_code = ExitCode(proc'[pid'[h]].status)
  BY DEF RunInv
<1>1. CASE RunEnds(h)
  <2>1. /\ At(h, "run_wait") /\ Ended(idx[h])
        /\ resp' = [resp EXCEPT ![h] = [ok |-> TRUE, exit_code |-> containers[idx[h]].exit_code]]
        /\ UNCHANGED <<pid, proc>>
    BY <1>1, Zenon DEF RunEnds, Answer, Respond, locals, host
  <2>2. PICK k \in Slots : k = idx[h]
    BY <2>1 DEF IndInv, HandlerInv, At, Launched
  <2>3. pid[h] \in Pids /\ containers[k].used /\ containers[k].pid = pid[h]
    BY <2>1, <2>2 DEF IndInv, HandlerInv, TableInv, SlotInv, At, Launched
  <2>4. containers[k].state \in DeadStates
    BY <2>1, <2>2, <2>3 DEF IndInv, TableInv, SlotInv, Ended
  <2>5. proc[pid[h]].st = "reaped" /\ containers[k].exit_code = ExitCode(proc[pid[h]].status)
    BY <2>3, <2>4 DEF ProcInv, StatusAccurate
  <2>6. resp'[h].exit_code = containers[k].exit_code
    BY <2>1, <2>2 DEF IndInv, TypeOK
  <2> QED
    BY <2>1, <2>3, <2>5, <2>6
<1>2. CASE Answered(h) /\ pid'[h] = pid[h] /\ resp'[h].exit_code = resp[h].exit_code
  <2>1. pid[h] \in Pids /\ proc[pid[h]].st = "reaped"
        /\ resp[h].exit_code = ExitCode(proc[pid[h]].status)
    BY <1>2 DEF RunInv
  <2>2. proc'[pid[h]].st = "reaped" /\ proc'[pid[h]].status = proc[pid[h]].status
    BY <2>1, ReapedStays
  <2> QED
    BY <1>2, <2>1, <2>2
<1> QED
  BY <1>1, <1>2, AnswerSteps

\* When run is answered its own container has been reaped, and the answer is that
\* container's exit status, spurious wakeups of state_cv included.
THEOREM RunsReturnExit == ASSUME NoReuse PROVE Spec => []RunReturnsExit
<1>1. Init => RunInv
  BY DEF Init, RunInv, Answered
<1>2. IndInv /\ ProcInv /\ RunInv /\ [Next]_vars => RunInv'
  BY NextKeepsRun
<1>3. RunInv => RunReturnsExit
  BY DEF RunInv, Answered, RunReturnsExit
<1> QED
  BY <1>1, <1>2, <1>3, Inductive, ProcsInductive, PTL DEF Spec
-----------------------------------------------------------------------------
(* Who is sent SIGKILL; Runtime's proofs need it.                          *)

\* The child of a start that failed: no slot has its PID, and none will.
Aborted(p) ==
  /\ proc[p].st # "unborn"
  /\ \A i \in Slots : containers[i].used => containers[i].pid # p
  /\ \A h \in Handlers : pc[h] = "publish" => pid[h] # p

\* Who died of SIGKILL was sent it.
SigkillInv ==
  \A p \in Pids : proc[p].status = Signaled(SIGKILL) => SIGKILL \in proc[p].sig

\* A step of one of the supervisor's threads.
ThreadStep ==
  \/ MainStep \/ ShutdownSignal
  \/ \E h \in Handlers :
       \/ \E r \in Requests : Accept(h, r)
       \/ AcceptDrops(h) \/ ClientQuits(h) \/ HandlerStep(h) \/ RunSpurious(h)
  \/ ReaperStep

\* Which of them change processes.
LEMMA ThreadSteps ==
  ASSUME ThreadStep
  PROVE  \/ UNCHANGED proc
         \/ \E S : proc' = Signalled(S, SIGTERM)
         \/ \E p \in Pids : Reap(p)
         \/ \E h \in Handlers : Spawn(h) \/ ProducerArgFails(h)
<1> USE DEF daemon, table, locals, handlerVars, host
<1>1. MainStep \/ ShutdownSignal => UNCHANGED proc \/ \E S : proc' = Signalled(S, SIGTERM)
  BY Zenon DEF MainStep, ShutdownSignal, Boot, LeaveLoop, StopAllLive, ShutdownLogging, JoinReaper, BootsWithoutReaper, JoinUndefined,
               MainGoes
<1>2. ASSUME NEW h \in Handlers,
             \/ \E r \in Requests : Accept(h, r)
             \/ AcceptDrops(h) \/ ClientQuits(h) \/ HandlerStep(h) \/ RunSpurious(h)
      PROVE  UNCHANGED proc \/ StopKills(h) \/ Spawn(h) \/ ProducerArgFails(h)
  BY <1>2, Zenon
     DEF HandlerStep, Dispatch, RecvFails, Reply, StartRefused, RunBlocks, RunSpurious, RunEnds,
         StopRefused, PsReply, LogsReply, UnknownReply, Step, Answer, Accept, AcceptDrops,
         ClientQuits, ReplySigpipe, ReserveSlot, SpawnFails, AbortStart, ReleaseSlot, PublishPid,
         CreateProducer, RegisterWithKernel, StopMarks
<1>3. ASSUME NEW h \in Handlers, StopKills(h) PROVE \E S : proc' = Signalled(S, SIGTERM)
  BY <1>3, Zenon DEF StopKills
<1>4. ReaperStep => UNCHANGED proc \/ \E p \in Pids : Reap(p)
  BY Zenon DEF ReaperStep, RecordExit, RecordNothing, ReaperEnds, ReaperGoes
<1> QED
  BY <1>1, <1>2, <1>3, <1>4, Zenon DEF ThreadStep

\* Which steps change processes.
LEMMA ProcSteps ==
  ASSUME Next
  PROVE  \/ UNCHANGED proc
         \/ \E S : proc' = Signalled(S, SIGTERM)
         \/ \E p \in Pids : Sigkilled(p) \/ Reap(p) \/ ProcessStep(p)
         \/ \E h \in Handlers : Spawn(h) \/ ProducerArgFails(h)
<1>1. KernelStep => UNCHANGED proc \/ \E p \in Pids : Sigkilled(p)
  BY Zenon DEF KernelStep, ListFreed, StaleEntryRemoved, HardLimitKill, HostKill
<1>2. ThreadStep \/ KernelStep \/ \E p \in Pids : ProcessStep(p)
  BY Zenon DEF Next, ThreadStep
<1> QED
  BY <1>1, <1>2, ThreadSteps, Zenon

\* A handler comes to the publication of a PID from clone() only.
LEMMA PublishSteps ==
  ASSUME IndInv, Next, NEW h \in Handlers, pc'[h] = "publish"
  PROVE  Spawn(h) \/ (pc[h] = "publish" /\ pid'[h] = pid[h])
<1> USE DEF IndInv, daemon, table, locals, handlerVars, host, At, Goto
<1>1. CASE UNCHANGED <<pc, pid>>
  BY <1>1
<1>2. ASSUME NEW g \in Handlers, NEW label, label # "publish", pc' = [pc EXCEPT ![g] = label],
             \A f \in Handlers \ {g} : pid'[f] = pid[f]
      PROVE  pc[h] = "publish" /\ pid'[h] = pid[h]
  BY <1>2 DEF TypeOK
<1>3. ASSUME NEW g \in Handlers, QuietStep(g)
      PROVE  pc[h] = "publish" /\ pid'[h] = pid[h]
  <2>1. UNCHANGED pid
    BY <1>3, Zenon DEF QuietStep, Dispatch, RecvFails, Reply, StartRefused, RunBlocks,
                RunSpurious, RunEnds, StopRefused, PsReply, LogsReply, UnknownReply, Step, Answer
  <2>2. CASE Dispatch(g)
    <3>1. req[g] \in Requests
      BY <2>2 DEF Dispatch, HandlerInv
    <3> QED
      BY <1>2, <2>1, <2>2, <3>1, RequestTyped DEF Dispatch, Step, RequestTypes
  <2>3. QuietStep(g) /\ ~ Dispatch(g) =>
          \E label \in {"done", "reply", "blocked", "run_wait"} : pc' = [pc EXCEPT ![g] = label]
    BY Zenon DEF QuietStep, RecvFails, Reply, StartRefused, RunBlocks, RunSpurious,
              RunEnds, StopRefused, PsReply, LogsReply, UnknownReply, Step, Answer, Respond
  <2> QED
    BY <1>2, <1>3, <2>1, <2>2, <2>3
<1>4. ASSUME NEW g \in Handlers,
             \/ \E r \in Requests : Accept(g, r)
             \/ AcceptDrops(g) \/ ClientQuits(g) \/ ReplySigpipe(g)
             \/ ReserveSlot(g) \/ SpawnFails(g) \/ AbortStart(g) \/ ProducerArgFails(g)
             \/ PublishPid(g) \/ CreateProducer(g) \/ RegisterWithKernel(g) \/ StopKills(g)
      PROVE  pc[h] = "publish" /\ pid'[h] = pid[h]
  <2>1. UNCHANGED pid
    BY <1>4, Zenon
       DEF Accept, AcceptDrops, ClientQuits, ReplySigpipe, ReserveSlot, SpawnFails, AbortStart,
           ReleaseSlot, ProducerArgFails, PublishPid, CreateProducer, RegisterWithKernel, StopKills
  <2>2. \/ UNCHANGED pc
        \/ \E label \in {"recv", "done", "spawn", "reply", "abort", "logger", "register",
                         "run_wait"} : pc' = [pc EXCEPT ![g] = label]
    BY <1>4, Zenon
       DEF Accept, AcceptDrops, ClientQuits, ReplySigpipe, ReserveSlot, SpawnFails, AbortStart,
           ReleaseSlot, ProducerArgFails, PublishPid, CreateProducer, RegisterWithKernel, StopKills,
           Respond
  <2> QED
    BY <1>1, <1>2, <2>1, <2>2
<1>5. ASSUME NEW g \in Handlers, StopMarks(g)
      PROVE  pc[h] = "publish" /\ pid'[h] = pid[h]
  <2>1. pc' = [pc EXCEPT ![g] = "kill"] /\ \A f \in Handlers \ {g} : pid'[f] = pid[f]
    BY <1>5 DEF StopMarks, TypeOK
  <2> QED
    BY <1>2, <2>1
<1>6. ASSUME NEW g \in Handlers, Spawn(g)
      PROVE  Spawn(h) \/ (pc[h] = "publish" /\ pid'[h] = pid[h])
  <2>1. \A f \in Handlers \ {g} : pc'[f] = pc[f] /\ pid'[f] = pid[f]
    BY <1>6 DEF Spawn, TypeOK
  <2> QED
    BY <1>6, <2>1
<1>7. CASE RecordExit
  <2>1. \E i : pc' = WakeRunners(i)
    BY <1>7, Zenon DEF RecordExit
  <2>2. pid' = pid
    BY <1>7, Zenon DEF RecordExit
  <2> QED
    BY <2>1, <2>2 DEF WakeRunners
<1>8. MainStep \/ ShutdownSignal \/ ReaperStep \/ KernelStep \/ (\E p \in Pids : ProcessStep(p)) =>
        RecordExit \/ UNCHANGED <<pc, pid>>
  BY Zenon
     DEF MainStep, ShutdownSignal, Boot, LeaveLoop, StopAllLive, ShutdownLogging, JoinReaper, BootsWithoutReaper, JoinUndefined,
         MainGoes, ReaperStep, Reap, RecordNothing, ReaperEnds, ReaperGoes, KernelStep, ListFreed,
         StaleEntryRemoved, HardLimitKill, HostKill, Sigkilled, ProcessStep, Exec, SetupFails, InstallsHandler,
         ExitsOnSigterm, ExitsByItself, KilledBySigkill, PidTaken, Dies, Process
<1> QED
  BY <1>1, <1>3, <1>4, <1>5, <1>6, <1>7, <1>8, NextCases, Zenon

\* A slot gets a PID from the handler that publishes it only.
LEMMA SlotPidSteps ==
  ASSUME IndInv, Next, NEW i \in Slots, NEW p \in Pids,
         containers'[i].used, containers'[i].pid = p
  PROVE  \/ containers[i].used /\ containers[i].pid = p
         \/ \E h \in Handlers : pc[h] = "publish" /\ pid[h] = p
<1> USE DEF IndInv, daemon, table, locals, handlerVars, host, At, Goto
<1>1. CASE SlotsFramed \/ UNCHANGED containers
  BY <1>1 DEF SlotsFramed
<1>2. ASSUME NEW h \in Handlers, ReserveSlot(h)
      PROVE  containers[i].used /\ containers[i].pid = p
  <2>1. PICK k \in Slots : k = First(FreeSlots)
    BY <1>2, FirstIsIn DEF ReserveSlot, Admissible, FreeSlots
  <2>2. containers' = [containers EXCEPT ![k] = Reserved(h)]
    BY <1>2, <2>1 DEF ReserveSlot
  <2>3. /\ containers'[k].pid = NoPid
        /\ \A j \in Slots \ {k} : containers'[j] = containers[j]
    BY <2>2, TypeEntry DEF Reserved, FreeSlot
  <2> QED
    BY <2>3, PidAssumption
<1>3. ASSUME NEW h \in Handlers, PublishPid(h)
      PROVE  \/ containers[i].used /\ containers[i].pid = p
             \/ pc[h] = "publish" /\ pid[h] = p
  <2>0. containers' = [containers EXCEPT ![idx[h]].pid = pid[h], ![idx[h]].state = "RUNNING"]
    BY <1>3 DEF PublishPid
  <2>1. pc[h] = "publish"
    BY <1>3 DEF PublishPid
  <2>2. PICK k \in Slots : k = idx[h]
    BY <2>1 DEF HandlerInv, Owner
  <2>3. /\ containers'[k].pid = pid[h]
        /\ \A j \in Slots \ {k} : containers'[j] = containers[j]
    BY <2>0, <2>2, TypeEntry DEF ContainerType
  <2> QED
    BY <2>1, <2>3
<1>4. CASE RecordExit
  <2>1. PICK k \in Slots : k = First(WithPid(reaper.pid))
    BY <1>4, FirstIsIn DEF RecordExit, WithPid
  <2>2. containers' = [containers EXCEPT ![k] = ExitRecord(k)]
    BY <1>4, <2>1 DEF RecordExit
  <2>3. \A j \in Slots : containers'[j].used = containers[j].used /\ containers'[j].pid = containers[j].pid
    BY <2>2, TypeEntry DEF ContainerType, ExitRecord
  <2> QED
    BY <2>3
<1>5. ASSUME NEW h \in Handlers, Spawn(h) \/ ProducerArgFails(h) PROVE UNCHANGED containers
  BY <1>5, Zenon DEF Spawn, ProducerArgFails
<1>6. (\E q \in Pids : Reap(q) \/ ProcessStep(q)) => UNCHANGED containers
  BY Zenon
     DEF Reap, ProcessStep, Exec, SetupFails, InstallsHandler, ExitsOnSigterm, ExitsByItself,
         KilledBySigkill, PidTaken, Dies, Process
<1>7. MainStep \/ ShutdownSignal \/ RecordNothing \/ ReaperEnds \/ KernelStep => SlotsFramed
  BY MainFramed DEF Frame
<1>8. ASSUME NEW h \in Handlers,
             \/ QuietStep(h)
             \/ (\E r \in Requests : Accept(h, r))
                \/ AcceptDrops(h) \/ ClientQuits(h) \/ ReplySigpipe(h)
             \/ SpawnFails(h) \/ AbortStart(h) \/ CreateProducer(h) \/ RegisterWithKernel(h)
             \/ StopMarks(h) \/ StopKills(h)
      PROVE  SlotsFramed
  BY <1>8, HandlerFramed DEF Frame
<1> QED
  BY <1>1, <1>2, <1>3, <1>4, <1>5, <1>6, <1>7, <1>8, NextCases, Zenon DEF ReaperStep

\* A process that has been born is never unborn again.
LEMMA BornStays ==
  ASSUME NoReuse, IndInv, Next, NEW p \in Pids, proc[p].st # "unborn"
  PROVE  proc'[p].st # "unborn"
<1> USE DEF IndInv, daemon, table, locals, handlerVars, host
<1>1. ASSUME NEW S, NEW s \in {SIGKILL, SIGTERM}, proc' = Signalled(S, s)
      PROVE  proc'[p].st # "unborn"
  BY <1>1, SignalledTyped
<1>2. ASSUME NEW h \in Handlers, Spawn(h) PROVE proc'[p].st # "unborn"
  BY <1>2, TypeEntry DEF Spawn, NoProcess
<1>3. ASSUME NEW q \in Pids, Reap(q) \/ ProcessStep(q) PROVE proc'[p].st # "unborn"
  BY <1>3, ProcessSteps, TypeEntry DEF Reap, ProcessType, AliveProc, LivePhases
<1>4. ASSUME NEW q \in Pids, Sigkilled(q) PROVE proc'[p].st # "unborn"
  BY <1>1, <1>4 DEF Sigkilled
<1>5. ASSUME NEW h \in Handlers, ProducerArgFails(h) PROVE proc'[p].st # "unborn"
  BY <1>1, <1>5 DEF ProducerArgFails
<1>6. SIGTERM \in {SIGKILL, SIGTERM} /\ \A S : proc' = Signalled(S, SIGTERM) => proc'[p].st # "unborn"
  BY <1>1
<1> QED
  BY <1>2, <1>3, <1>4, <1>5, <1>6, ProcSteps, Zenon

\* The child of a failed start stays without a slot.
LEMMA AbortedStays ==
  ASSUME NoReuse, IndInv, Next, NEW p \in Pids, Aborted(p)
  PROVE  Aborted(p)'
<1> USE DEF IndInv
<1>1. \A i \in Slots : containers'[i].used => containers'[i].pid # p
  BY SlotPidSteps DEF Aborted
<1>2. \A h \in Handlers : pc'[h] = "publish" => pid'[h] # p
  <2> SUFFICES ASSUME NEW h \in Handlers, pc'[h] = "publish" PROVE pid'[h] # p
    OBVIOUS
  <2>1. CASE Spawn(h)
    <3>1. pid'[h] \in Pids /\ proc[pid'[h]].st = "unborn"
      BY <2>1 DEF Spawn, FreshPid, NoReuse, TypeOK
    <3> QED
      BY <3>1 DEF Aborted
  <2>2. CASE pc[h] = "publish" /\ pid'[h] = pid[h]
    BY <2>2 DEF Aborted
  <2> QED
    BY <2>1, <2>2, PublishSteps
<1>3. proc'[p].st # "unborn"
  BY BornStays DEF Aborted
<1> QED
  BY <1>1, <1>2, <1>3 DEF Aborted

\* kill() with a PID signals no other process.
LEMMA OthersUnsignalled ==
  ASSUME NEW q \in Pids, NEW p \in Pids \ {q}, NEW s
  PROVE  Signalled({q}, s)[p] = proc[p]
  BY PidAssumption DEF Signalled, Targets

\* The supervisor sends SIGKILL to the child of a failed start and to nobody else.
LEMMA SigkillSteps ==
  ASSUME NoReuse, IndInv, ProcInv, ThreadStep \/ \E q \in Pids : ProcessStep(q),
         NEW p \in Pids, SIGKILL \in proc'[p].sig
  PROVE  SIGKILL \in proc[p].sig \/ Aborted(p)'
<1> USE DEF IndInv, daemon, table, locals, handlerVars, host, At, Goto
<1>0. proc[p] \in ProcessType
  BY TypeEntry
<1>1. ASSUME NEW S, proc' = Signalled(S, SIGTERM) PROVE SIGKILL \in proc[p].sig
  <2>1. proc'[p] = proc[p] \/ proc'[p] = [proc[p] EXCEPT !.sig = @ \cup {SIGTERM}]
    BY <1>1 DEF Signalled
  <2> QED
    BY <1>0, <2>1 DEF ProcessType, SIGKILL, SIGTERM
<1>2. ASSUME NEW q \in Pids, proc' = Signalled({q}, SIGKILL), q # p PROVE SIGKILL \in proc[p].sig
  BY <1>2, OthersUnsignalled
<1>4. ASSUME NEW q \in Pids, Reap(q) \/ ProcessStep(q) PROVE SIGKILL \in proc[p].sig
  BY <1>4, ProcessSteps, TypeEntry DEF Reap, ProcessType
<1>5. ASSUME NEW h \in Handlers, Spawn(h) PROVE SIGKILL \in proc[p].sig
  <2>1. PICK q \in Pids : proc' = [proc EXCEPT ![q] = [NoProcess EXCEPT !.st = "setup",
                                                         !.rootfs = req[h].rootfs]]
    BY <1>5 DEF Spawn
  <2>2. proc'[q].sig = {} /\ (p # q => proc'[p] = proc[p])
    BY <2>1, TypeEntry DEF NoProcess
  <2> QED
    BY <2>2
<1>6. ASSUME NEW h \in Handlers, ProducerArgFails(h) PROVE SIGKILL \in proc[p].sig \/ Aborted(p)'
  <2>1. /\ pc[h] = "publish" /\ pc' = [pc EXCEPT ![h] = "abort"]
        /\ proc' = Signalled({pid[h]}, SIGKILL)
        /\ UNCHANGED <<pid, containers>>
    BY <1>6 DEF ProducerArgFails
  <2>2. PICK c \in Pids : c = pid[h]
    BY <2>1 DEF HandlerInv
  <2>3. CASE c # p
    BY <1>2, <2>1, <2>2, <2>3
  <2>4. CASE c = p
    <3>1. Holder(h) /\ \A g \in Handlers \ {h} : pc'[g] = pc[g]
      BY <2>1 DEF Holder, TypeOK
    <3>2. \A i \in Slots : containers'[i].used => containers'[i].pid # p
      <4>1. \A i \in Slots : containers[i].used => containers[i].pid # pid[h]
        BY <3>1 DEF ProcInv, PidInv
      <4> QED
        BY <2>1, <2>2, <2>4, <4>1
    <3>3. pc'[h] = "abort"
      BY <2>1 DEF TypeOK
    <3>4. \A g \in Handlers : pc'[g] = "publish" => pid'[g] # p
      <4>1. \A g \in Handlers : pc[g] = "publish" /\ g # h => pid[g] # pid[h]
        BY <3>1 DEF ProcInv, PidInv, Holder
      <4> QED
        BY <2>1, <2>2, <2>4, <3>1, <3>3, <4>1
    <3>5. proc[p].st # "unborn" /\ proc'[p].st = proc[p].st
      <4>1. Child(pid[h]) \/ proc[pid[h]].st = "reaped"
        BY <3>1 DEF ProcInv, PidInv
      <4>2. proc[p].st # "unborn"
        BY <2>2, <2>4, <4>1 DEF Child, AliveProc, LivePhases
      <4> QED
        BY <2>1, <4>2, SignalledTyped
    <3> QED
      BY <3>2, <3>4, <3>5 DEF Aborted
  <2> QED
    BY <2>3, <2>4
<1> QED
  BY <1>1, <1>4, <1>5, <1>6, ThreadSteps, Zenon

\* Who dies of SIGKILL was sent it.
LEMMA SigkillInductive ==
  ASSUME NoReuse, IndInv, SigkillInv, Next
  PROVE  SigkillInv'
<1> USE DEF IndInv, daemon, table, locals, handlerVars, host
<1> SUFFICES ASSUME NEW p \in Pids, proc'[p].status = Signaled(SIGKILL)
             PROVE  SIGKILL \in proc'[p].sig
  BY DEF SigkillInv
<1>1. CASE proc'[p].status = proc[p].status /\ proc[p].sig \subseteq proc'[p].sig
  BY <1>1 DEF SigkillInv
<1>2. ASSUME NEW S, NEW s \in {SIGKILL, SIGTERM}, proc' = Signalled(S, s)
      PROVE  SIGKILL \in proc'[p].sig
  BY <1>1, <1>2, SignalledTyped
<1>3. ASSUME NEW q \in Pids, Sigkilled(q) PROVE SIGKILL \in proc'[p].sig
  BY <1>2, <1>3 DEF Sigkilled
<1>4. ASSUME NEW h \in Handlers, ProducerArgFails(h) PROVE SIGKILL \in proc'[p].sig
  BY <1>2, <1>4 DEF ProducerArgFails
<1>5. ASSUME NEW q \in Pids, Reap(q) PROVE SIGKILL \in proc'[p].sig
  BY <1>1, <1>5, TypeEntry DEF Reap, ProcessType
<1>6. ASSUME NEW h \in Handlers, Spawn(h) PROVE SIGKILL \in proc'[p].sig
  <2>1. PICK q \in Pids : proc' = [proc EXCEPT ![q] = [NoProcess EXCEPT !.st = "setup",
                                                         !.rootfs = req[h].rootfs]]
    BY <1>6 DEF Spawn
  <2>2. proc'[q].status.kind = "none" /\ (p # q => proc'[p] = proc[p])
    BY <2>1, TypeEntry DEF NoProcess, NoStatus
  <2> QED
    BY <1>1, <2>2 DEF Signaled
<1>7. ASSUME NEW q \in Pids, ProcessStep(q) PROVE SIGKILL \in proc'[p].sig
  <2>1. /\ proc'[q].sig = proc[q].sig /\ AliveProc(q)
        /\ \A r \in Pids \ {q} : proc'[r] = proc[r]
    BY <1>7, ProcessSteps
  <2>2. CASE p # q
    BY <1>1, <2>1, <2>2
  <2>3. CASE p = q
    <3>1. ASSUME NEW st, NEW status, Process(p, st, status) PROVE proc'[p].status = status
      BY <3>1, TypeEntry DEF Process, ProcessType
    <3>2. ASSUME NEW status, Dies(p, status) PROVE status = Signaled(SIGKILL)
      BY <3>1, <3>2 DEF Dies
    <3>3. ~ Exec(p) /\ ~ InstallsHandler(p)
      BY <3>1 DEF Exec, InstallsHandler, NoStatus, Signaled
    <3>4. ~ SetupFails(p) /\ ~ ExitsOnSigterm(p) /\ ~ ExitsByItself(p)
      BY <3>2 DEF SetupFails, ExitsOnSigterm, ExitsByItself, SetupDeaths, OwnDeaths, Exited,
                  Signaled, SIGKILL, SIGSEGV
    <3>5. KilledBySigkill(p)
      BY <1>7, <2>3, <3>3, <3>4, Zenon DEF ProcessStep, PidTaken, NoReuse
    <3> QED
      BY <2>1, <2>3, <3>5 DEF KilledBySigkill
  <2> QED
    BY <2>2, <2>3
<1>8. UNCHANGED proc => SIGKILL \in proc'[p].sig
  BY <1>1
<1>9. SIGTERM \in {SIGKILL, SIGTERM} /\ \A S : proc' = Signalled(S, SIGTERM) => SIGKILL \in proc'[p].sig
  BY <1>2
<1> QED
  BY <1>3, <1>4, <1>5, <1>6, <1>7, <1>8, <1>9, ProcSteps, Zenon

=============================================================================
