---------------------------- MODULE RuntimeProofs ----------------------------
(***************************************************************************)
(* Proofs about Runtime: the composition implements Supervisor and Monitor, *)
(* and a container reported as killed was killed by the monitor or by the  *)
(* host, never by the supervisor itself.                                   *)
(*                                                                         *)
(* The invariants of the two components hold of the composition because    *)
(* each of its steps is a step of both components, or of one of them only; *)
(* that, in turn, follows from the invariants of both and from Link, which *)
(* ties the sizes and the SIGKILLs sent so far to the processes.           *)
(***************************************************************************)
EXTENDS Runtime, TLAPS

\* The proofs about the two components, for the components as they are composed.
SP == INSTANCE SupervisorProcessProofs WITH
  OtherPids <- {}, Disturbances <- Disturbances \cup {"call", "limit", "unload"}

MP == INSTANCE MonitorProofs WITH
  proc <- processes,
  Requests <- [pid : Pids, soft_mib : {Soft}, hard_mib : {Hard}],
  ULONG_BITS <- 16, Wrap <- FALSE, CallsMayFail <- "call" \in Disturbances

-----------------------------------------------------------------------------
(* The components and the modules of their proofs have the same steps.     *)

\* No PID is given out again.
LEMMA NoReuse == SP!NoReuse
  BY SupervisorAssumption DEF SP!NoReuse

\* The supervisor starts as Supervisor says.
LEMMA SameInit ==
  Sup!Init => SP!Init /\ View!Init
  BY Zenon
     DEF Sup!Init, View!Init, SP!Init, Sup!Slots, View!Slots, SP!Slots, Sup!FreeSlot,
         View!FreeSlot, SP!FreeSlot, Sup!NoStatus, View!NoStatus, SP!NoStatus,
         Sup!NoProcess, View!NoProcess, SP!NoProcess

\* What the main thread does here it may do in any environment.
LEMMA SameMain ==
  (Sup!MainStep => SP!MainStep) /\ (Sup!ShutdownSignal => SP!ShutdownSignal)
  BY Zenon
     DEF Sup!MainStep, SP!MainStep, Sup!Boot, SP!Boot, Sup!MainGoes, SP!MainGoes,
         Sup!table, SP!table, Sup!handlerVars, SP!handlerVars, Sup!locals, SP!locals,
         Sup!host, SP!host, Sup!LeaveLoop, SP!LeaveLoop, Sup!StopAllLive,
         SP!StopAllLive, Sup!Slots, SP!Slots, Sup!Live, SP!Live, Sup!LiveStates,
         SP!LiveStates, Sup!Signalled, SP!Signalled, Sup!Targets, SP!Targets,
         Sup!Delivered, SP!Delivered, Sup!SIGKILL, SP!SIGKILL, Sup!AliveProc,
         SP!AliveProc, Sup!LivePhases, SP!LivePhases, Sup!SIGTERM, SP!SIGTERM,
         Sup!ShutdownLogging, SP!ShutdownLogging, Sup!JoinReaper, SP!JoinReaper,
         Sup!BootsWithoutReaper, SP!BootsWithoutReaper, Sup!JoinUndefined,
         SP!JoinUndefined, Sup!ShutdownSignal, SP!ShutdownSignal, Sup!Up, SP!Up

\* The same of a handler thread.
LEMMA SameHandler ==
  ASSUME NEW h \in Handlers
  PROVE  /\ Sup!HandlerStep(h) => SP!HandlerStep(h)
         /\ Sup!RunSpurious(h) => SP!RunSpurious(h)
         /\ \A r \in Requests : Sup!Accept(h, r) => SP!Accept(h, r)
  BY Zenon
     DEF Sup!HandlerStep, SP!HandlerStep, Sup!Dispatch, SP!Dispatch, Sup!At, SP!At,
         Sup!Up, SP!Up, Sup!Step, SP!Step, Sup!Goto, SP!Goto, Sup!daemon, SP!daemon,
         Sup!table, SP!table, Sup!locals, SP!locals, Sup!host, SP!host, Sup!RecvFails,
         SP!RecvFails, Sup!Reply, SP!Reply, Sup!ReplySigpipe, SP!ReplySigpipe,
         Sup!handlerVars, SP!handlerVars, Sup!StartRefused, SP!StartRefused,
         Sup!Admissible, SP!Admissible, Sup!WithId, SP!WithId, Sup!Slots, SP!Slots,
         Sup!UsesRootfs, SP!UsesRootfs, Sup!Live, SP!Live, Sup!LiveStates,
         SP!LiveStates, Sup!FreeSlots, SP!FreeSlots, Sup!Answer, SP!Answer,
         Sup!Respond, SP!Respond, Sup!ReserveSlot, SP!ReserveSlot, Sup!First,
         SP!First, Sup!Reserved, SP!Reserved, Sup!FreeSlot, SP!FreeSlot,
         Sup!SpawnFails, SP!SpawnFails, Sup!ReleaseSlot, SP!ReleaseSlot, Sup!Spawn,
         SP!Spawn, Sup!FreshPid, SP!FreshPid, Sup!NoProcess, SP!NoProcess,
         Sup!NoStatus, SP!NoStatus, Sup!ProducerArgFails, SP!ProducerArgFails,
         Sup!Signalled, SP!Signalled, Sup!Targets, SP!Targets, Sup!Delivered,
         SP!Delivered, Sup!SIGKILL, SP!SIGKILL, Sup!AliveProc, SP!AliveProc,
         Sup!LivePhases, SP!LivePhases, Sup!SIGTERM, SP!SIGTERM, Sup!AbortStart,
         SP!AbortStart, Sup!PublishPid, SP!PublishPid, Sup!CreateProducer,
         SP!CreateProducer, Sup!RegisterWithKernel, SP!RegisterWithKernel,
         Sup!RunBlocks, SP!RunBlocks, Sup!Ended, SP!Ended, Sup!RunEnds, SP!RunEnds,
         Sup!StopRefused, SP!StopRefused, Sup!Stoppable, SP!Stoppable, Sup!StopMarks,
         SP!StopMarks, Sup!StopKills, SP!StopKills, Sup!Exists, SP!Exists, Sup!Child,
         SP!Child, Sup!PsReply, SP!PsReply, Sup!LogsReply, SP!LogsReply,
         Sup!UnknownReply, SP!UnknownReply, Sup!RunSpurious, SP!RunSpurious,
         Sup!Accept, SP!Accept

\* The same of the reaper.
LEMMA SameReaper ==
  /\ Sup!RecordNothing => SP!RecordNothing
  /\ Sup!ReaperEnds => SP!ReaperEnds
  /\ \A p \in Pids : Sup!Reap(p) => SP!Reap(p)
  BY Zenon
     DEF Sup!RecordNothing, SP!RecordNothing, Sup!WithPid, SP!WithPid, Sup!Slots,
         SP!Slots, Sup!ReaperGoes, SP!ReaperGoes, Sup!Up, SP!Up, Sup!table, SP!table,
         Sup!handlerVars, SP!handlerVars, Sup!locals, SP!locals, Sup!host, SP!host,
         Sup!ReaperEnds, SP!ReaperEnds, Sup!NoChildren, SP!NoChildren, Sup!Child,
         SP!Child, Sup!AliveProc, SP!AliveProc, Sup!LivePhases, SP!LivePhases,
         Sup!Reap, SP!Reap, Sup!Zombie, SP!Zombie

\* The same of a container process.
LEMMA SameProcess ==
  ASSUME NEW p \in Pids
  PROVE  Sup!ProcessStep(p) => SP!ProcessStep(p)
  BY Zenon
     DEF Sup!ProcessStep, SP!ProcessStep, Sup!Exec, SP!Exec, Sup!Process, SP!Process,
         Sup!daemon, SP!daemon, Sup!table, SP!table, Sup!handlerVars, SP!handlerVars,
         Sup!locals, SP!locals, Sup!NoStatus, SP!NoStatus, Sup!SetupFails,
         SP!SetupFails, Sup!SetupDeaths, SP!SetupDeaths, Sup!Exited, SP!Exited,
         Sup!Dies, SP!Dies, Sup!InstallsHandler, SP!InstallsHandler,
         Sup!ExitsOnSigterm, SP!ExitsOnSigterm, Sup!SIGTERM, SP!SIGTERM,
         Sup!ExitsByItself, SP!ExitsByItself, Sup!OwnDeaths, SP!OwnDeaths,
         Sup!Signaled, SP!Signaled, Sup!SIGSEGV, SP!SIGSEGV, Sup!KilledBySigkill,
         SP!KilledBySigkill, Sup!AliveProc, SP!AliveProc, Sup!LivePhases,
         SP!LivePhases, Sup!SIGKILL, SP!SIGKILL, Sup!PidTaken, SP!PidTaken

\* The same of the two steps that reach the kernel.
LEMMA SameIoctls ==
  /\ \A h \in Handlers : View!RegisterWithKernel(h) => SP!RegisterWithKernel(h)
  /\ View!RecordExit => SP!RecordExit
  BY Zenon
     DEF View!RegisterWithKernel, SP!RegisterWithKernel, View!At, SP!At, View!Up,
         SP!Up, View!Respond, SP!Respond, View!Goto, SP!Goto, View!daemon, SP!daemon,
         View!table, SP!table, View!locals, SP!locals, View!RecordExit, SP!RecordExit,
         View!WithPid, SP!WithPid, View!Slots, SP!Slots, View!First, SP!First,
         View!ExitRecord, SP!ExitRecord, View!FinalState, SP!FinalState,
         View!ExitCode, SP!ExitCode, View!WakeRunners, SP!WakeRunners

\* The steps of the proof module are those of Supervisor in this environment.
LEMMA SameNext ==
  SP!Next => View!Next
  BY Zenon
     DEF View!Next, SP!Next, View!MainStep, SP!MainStep, View!Boot, SP!Boot,
         View!MainGoes, SP!MainGoes, View!table, SP!table, View!handlerVars,
         SP!handlerVars, View!locals, SP!locals, View!host, SP!host, View!LeaveLoop,
         SP!LeaveLoop, View!StopAllLive, SP!StopAllLive, View!Slots, SP!Slots,
         View!Live, SP!Live, View!LiveStates, SP!LiveStates, View!Signalled,
         SP!Signalled, View!Targets, SP!Targets, View!Delivered, SP!Delivered,
         View!SIGKILL, SP!SIGKILL, View!AliveProc, SP!AliveProc, View!LivePhases,
         SP!LivePhases, View!SIGTERM, SP!SIGTERM, View!ShutdownLogging,
         SP!ShutdownLogging, View!JoinReaper, SP!JoinReaper, View!ShutdownSignal,
         SP!ShutdownSignal, View!Up, SP!Up, View!Accept, SP!Accept, View!Goto,
         SP!Goto, View!daemon, SP!daemon, View!AcceptDrops, SP!AcceptDrops,
         View!ClientQuits, SP!ClientQuits, View!HandlerStep, SP!HandlerStep,
         View!Dispatch, SP!Dispatch, View!At, SP!At, View!Step, SP!Step,
         View!RecvFails, SP!RecvFails, View!Reply, SP!Reply, View!ReplySigpipe,
         SP!ReplySigpipe, View!StartRefused, SP!StartRefused, View!Admissible,
         SP!Admissible, View!WithId, SP!WithId, View!UsesRootfs, SP!UsesRootfs,
         View!FreeSlots, SP!FreeSlots, View!Answer, SP!Answer, View!Respond,
         SP!Respond, View!ReserveSlot, SP!ReserveSlot, View!First, SP!First,
         View!Reserved, SP!Reserved, View!FreeSlot, SP!FreeSlot, View!SpawnFails,
         SP!SpawnFails, View!ReleaseSlot, SP!ReleaseSlot, View!Spawn, SP!Spawn,
         View!FreshPid, SP!FreshPid, View!NoProcess, SP!NoProcess, View!NoStatus,
         SP!NoStatus, View!ProducerArgFails, SP!ProducerArgFails, View!AbortStart,
         SP!AbortStart, View!PublishPid, SP!PublishPid, View!CreateProducer,
         SP!CreateProducer, View!RegisterWithKernel, SP!RegisterWithKernel,
         View!RunBlocks, SP!RunBlocks, View!Ended, SP!Ended, View!RunEnds, SP!RunEnds,
         View!StopRefused, SP!StopRefused, View!Stoppable, SP!Stoppable,
         View!StopMarks, SP!StopMarks, View!StopKills, SP!StopKills, View!Exists,
         SP!Exists, View!Child, SP!Child, View!PsReply, SP!PsReply, View!LogsReply,
         SP!LogsReply, View!UnknownReply, SP!UnknownReply, View!RunSpurious,
         SP!RunSpurious, View!ReaperStep, SP!ReaperStep, View!Reap, SP!Reap,
         View!Zombie, SP!Zombie, View!RecordExit, SP!RecordExit, View!WithPid,
         SP!WithPid, View!ExitRecord, SP!ExitRecord, View!FinalState, SP!FinalState,
         View!ExitCode, SP!ExitCode, View!WakeRunners, SP!WakeRunners,
         View!RecordNothing, SP!RecordNothing, View!ReaperGoes, SP!ReaperGoes,
         View!ReaperEnds, SP!ReaperEnds, View!NoChildren, SP!NoChildren,
         View!ProcessStep, SP!ProcessStep, View!Exec, SP!Exec, View!Process,
         SP!Process, View!SetupFails, SP!SetupFails, View!SetupDeaths, SP!SetupDeaths,
         View!Exited, SP!Exited, View!Dies, SP!Dies, View!InstallsHandler,
         SP!InstallsHandler, View!ExitsOnSigterm, SP!ExitsOnSigterm,
         View!ExitsByItself, SP!ExitsByItself, View!OwnDeaths, SP!OwnDeaths,
         View!Signaled, SP!Signaled, View!SIGSEGV, SP!SIGSEGV, View!KilledBySigkill,
         SP!KilledBySigkill, View!PidTaken, SP!PidTaken, View!KernelStep,
         SP!KernelStep, View!ListFreed, SP!ListFreed, View!HardLimitKill,
         SP!HardLimitKill, View!StaleEntryRemoved, SP!StaleEntryRemoved,
         View!BootsWithoutReaper, SP!BootsWithoutReaper, View!JoinUndefined,
         SP!JoinUndefined, View!Sigkilled, SP!Sigkilled, View!HostKill, SP!HostKill

\* The same of Monitor.
LEMMA SameMonitor ==
  /\ Mon!Next => MP!Next
  /\ Mon!ThreadStep => MP!ThreadStep
  BY Zenon
     DEF Mon!Next, MP!Next, Mon!CreateDevice, MP!CreateDevice, Mon!scan, MP!scan,
         Mon!history, MP!history, Mon!InitStep, MP!InitStep, Mon!RunThread,
         MP!RunThread, Mon!ThreadFails, MP!ThreadFails, Mon!Vanish, MP!Vanish,
         Mon!ExitBegins, MP!ExitBegins, Mon!ExitStep, MP!ExitStep, Mon!ExitFreesList,
         MP!ExitFreesList, Mon!ExitEnds, MP!ExitEnds, Mon!Register, MP!Register,
         Mon!RegisterRefused, MP!RegisterRefused, Mon!Open, MP!Open, Mon!ULong,
         MP!ULong, Mon!RegisterUpdates, MP!RegisterUpdates, Mon!Registers,
         MP!Registers, Mon!Locked, MP!Locked, Mon!Registered, MP!Registered,
         Mon!Enters, MP!Enters, Mon!Position, MP!Position, Mon!NewEntry, MP!NewEntry,
         Mon!RegisterAdds, MP!RegisterAdds, Mon!RegisterNoMemory, MP!RegisterNoMemory,
         Mon!Unregister, MP!Unregister, Mon!ThreadStep, MP!ThreadStep, Mon!ThreadEnds,
         MP!ThreadEnds, Mon!StopSeen, MP!StopSeen, Mon!ThreadGoes, MP!ThreadGoes,
         Mon!ScanBegins, MP!ScanBegins, Mon!ScanEnds, MP!ScanEnds, Mon!Wakes,
         MP!Wakes, Mon!CheckExists, MP!CheckExists, Mon!Current, MP!Current,
         Mon!RemoveCurrent, MP!RemoveCurrent, Mon!ReadRss, MP!ReadRss, Mon!HasMm,
         MP!HasMm, Mon!RssMib, MP!RssMib, Mon!Judge, MP!Judge, Mon!OverSoft,
         MP!OverSoft, Mon!OverHard, MP!OverHard, Mon!SendSigkill, MP!SendSigkill,
         Mon!Birth, MP!Birth, Mon!environment, MP!environment, Mon!Resize, MP!Resize,
         Mon!Exits, MP!Exits, Mon!Phase, MP!Phase, Mon!Reaped, MP!Reaped,
         Mon!RemoveAt, MP!RemoveAt

-----------------------------------------------------------------------------
(* The invariant.                                                          *)

\* Somebody outside the supervisor has sent it SIGKILL.
KilledByOthers(p) == Victim(p) \/ p \in host_victims

\* A process has a size only while it lives and a peak only once it was born, and
\* SIGKILL is on its way only to whom the monitor or the host killed or to the child
\* of a start that failed.
Link ==
  /\ rss \in [Pids -> RssLevels]
  /\ \A p \in Pids : ~ SP!AliveProc(p) => rss[p] = 0
  /\ \A p \in Pids : proc[p].st = "unborn" => peak[p] = 0
  /\ \A p \in Pids : SP!SIGKILL \in proc[p].sig => KilledByOthers(p) \/ SP!Aborted(p)

\* The inductive invariant: those of the two components, and what links them.
Inv ==
  /\ SP!IndInv /\ SP!ProcInv /\ SP!SigkillInv
  /\ MP!IndInv /\ MP!PeakInv
  /\ Link

\* A step of the supervisor's threads that does not reach the kernel.
Threads == MainStep \/ Signal \/ Reap \/ \E h \in Handlers : Handle(h) \/ Arrive(h)

\* Such steps leave the monitor alone.
LEMMA ThreadsAre ==
  ASSUME Threads
  PROVE  SP!ThreadStep /\ UNCHANGED <<listVars, rss, peak, victims, host_victims>>
<1>1. MainStep \/ Signal => SP!ThreadStep
  BY SameMain, Zenon DEF MainStep, Signal, Alone, SP!ThreadStep
<1>2. Reap => SP!ThreadStep
  BY SameReaper, Zenon DEF Reap, Alone, SP!ThreadStep, SP!ReaperStep
<1>3. ASSUME NEW h \in Handlers, Handle(h) \/ Arrive(h) PROVE SP!ThreadStep
  BY <1>3, SameHandler, Zenon DEF Handle, Arrive, Alone, SP!ThreadStep
<1>4. UNCHANGED <<listVars, rss, peak, victims, host_victims>>
  BY Zenon DEF Threads, MainStep, Signal, Reap, Handle, Arrive, Alone
<1> QED
  BY <1>1, <1>2, <1>3, <1>4, Zenon DEF Threads

\* The processes as Monitor sees them.
LEMMA ProcessIs ==
  ASSUME NEW p \in Pids
  PROVE  /\ processes[p].st = Phase(p)
         /\ processes[p].rss = rss[p]
         /\ processes[p].killed = Victim(p)
  BY DEF processes, Victim

\* What Monitor knows of a process from its phase.
LEMMA PhaseIs ==
  ASSUME SP!TypeOK, MP!TypeOK, NEW p \in Pids
  PROVE  /\ Phase(p) = "alive" <=> SP!AliveProc(p)
         /\ Phase(p) = "gone" <=> proc[p].st = "reaped"
         /\ Phase(p) = "zombie" <=> proc[p].st = "zombie"
         /\ Phase(p) = "unborn" <=> proc[p].st = "unborn"
         /\ Phase(p) \in {"unborn", "alive", "zombie", "gone"}
<1>1. proc[p].st \in {"setup", "default", "handler", "unborn", "zombie", "reaped", "other"}
  BY DEF SP!TypeOK, SP!LivePhases
<1>2. Phase(p) \in {"unborn", "alive", "zombie", "gone"}
  BY ProcessIs DEF MP!TypeOK
<1> QED
  BY <1>1, <1>2 DEF Phase, Sup!AliveProc, SP!AliveProc, Sup!LivePhases, SP!LivePhases

\* A SIGKILL of the host is one of Supervisor's steps; it marks one process and leaves
\* everything else alone.
LEMMA HostKillIs ==
  ASSUME SP!TypeOK, NEW p \in Pids, HostKill(p)
  PROVE  /\ SP!HostKill(p)
         /\ UNCHANGED <<listVars, rss, peak, victims>>
         /\ host_victims' = host_victims \cup {p}
         /\ \A q \in Pids : proc'[q].st = proc[q].st
         /\ \A q \in Pids \ {p} : proc'[q] = proc[q]
<1>1. SP!HostKill(p)
  BY Zenon
     DEF HostKill, Sup!HostKill, SP!HostKill, Sup!Sigkilled, SP!Sigkilled, Sup!Signalled,
         SP!Signalled, Sup!Targets, SP!Targets, Sup!Delivered, SP!Delivered, Sup!AliveProc,
         SP!AliveProc, Sup!LivePhases, SP!LivePhases, Sup!SIGKILL, SP!SIGKILL,
         Sup!SIGTERM, SP!SIGTERM, Sup!daemon, SP!daemon, Sup!table, SP!table,
         Sup!handlerVars, SP!handlerVars, Sup!locals, SP!locals
<1>2. proc' = SP!Signalled({p}, SP!SIGKILL)
  BY <1>1 DEF SP!HostKill, SP!Sigkilled
<1>3. \A q \in Pids : proc'[q].st = proc[q].st
  BY <1>2, SP!SignalledTyped, SupervisorAssumption DEF SP!RequestTypes
<1>4. \A q \in Pids \ {p} : proc'[q] = proc[q]
  BY <1>2, SupervisorAssumption DEF SP!Signalled, SP!Targets
<1> QED
  BY <1>1, <1>3, <1>4 DEF HostKill

\* The entry the scan has in its hands.
LEMMA CurrentIs ==
  ASSUME MP!IndInv, thread \in {"rss", "judge", "kill"} \/ cursor <= Len(monitor_list)
  PROVE  /\ cursor \in DOMAIN monitor_list
         /\ MP!Current \in MP!Entry /\ MP!Current.pid \in Pids
         /\ MP!Current.pid \in monitored
<1>1. cursor \in DOMAIN monitor_list /\ \A i \in DOMAIN monitor_list : monitor_list[i] \in MP!Entry
  BY MP!ListTyped, SupervisorAssumption, MonitorAssumption DEF MP!IndInv, MP!ScanInv, MP!OnEntry
<1> QED
  BY <1>1 DEF MP!Current, MP!Entry, monitored

-----------------------------------------------------------------------------
(* Every step is a step of Supervisor, or none of its concern.             *)

\* Removing an entry takes its PID from the set Supervisor knows.
LEMMA RemovedPid ==
  ASSUME MP!IndInv, NEW k \in DOMAIN monitor_list,
         monitor_list' = MP!RemoveAt(monitor_list, k)
  PROVE  monitored' = monitored \ {monitor_list[k].pid}
<1> DEFINE n == Len(monitor_list)
<1>1. n \in Nat /\ DOMAIN monitor_list = 1 .. n
  BY MP!ListTyped, SupervisorAssumption, MonitorAssumption DEF MP!IndInv
<1>2. /\ DOMAIN monitor_list' = 1 .. n - 1
      /\ \A i \in DOMAIN monitor_list' :
           /\ i < k => monitor_list'[i] = monitor_list[i]
           /\ i >= k => monitor_list'[i] = monitor_list[i + 1] /\ i + 1 \in DOMAIN monitor_list
  BY MP!Removed, SupervisorAssumption, MonitorAssumption DEF MP!IndInv
<1>3. \A i \in DOMAIN monitor_list : i # k => monitor_list[i].pid # monitor_list[k].pid
  BY DEF MP!IndInv, MP!OneEntryPerPid
<1> HIDE DEF n
<1>4. ASSUME NEW p \in monitored' PROVE p \in monitored \ {monitor_list[k].pid}
  <2>1. PICK i \in 1 .. n - 1 : p = monitor_list'[i].pid
    BY <1>2, <1>4 DEF monitored
  <2>2. CASE i < k
    BY <1>1, <1>2, <1>3, <2>1, <2>2 DEF monitored
  <2>3. CASE i >= k
    <3>1. i + 1 \in DOMAIN monitor_list /\ i + 1 # k /\ p = monitor_list[i + 1].pid
      BY <1>1, <1>2, <2>1, <2>3
    <3> QED
      BY <1>3, <3>1 DEF monitored
  <2> QED
    BY <1>1, <2>2, <2>3
<1>5. ASSUME NEW p \in monitored, p # monitor_list[k].pid PROVE p \in monitored'
  <2>1. PICK i \in 1 .. n : p = monitor_list[i].pid
    BY <1>1, <1>5 DEF monitored
  <2>2. CASE i < k
    BY <1>1, <1>2, <2>1, <2>2 DEF monitored
  <2>3. CASE i > k
    <3>1. i - 1 \in DOMAIN monitor_list' /\ monitor_list'[i - 1] = monitor_list[i]
      BY <1>1, <1>2, <2>1, <2>3
    <3> QED
      BY <2>1, <3>1 DEF monitored
  <2> QED
    BY <1>1, <1>5, <2>1, <2>2, <2>3
<1> QED
  BY <1>4, <1>5

\* A scan step that leaves the processes alone forgets at most a dead one.
LEMMA ScanSteps ==
  ASSUME SP!TypeOK, MP!IndInv, MP!PeakInv, MP!ThreadStep
  PROVE  \/ monitored' = monitored
         \/ \E p \in monitored \cap Pids :
              proc[p].st \in {"zombie", "reaped"} /\ monitored' = monitored \ {p}
<1>1. monitor_list' = monitor_list => monitored' = monitored
  BY DEF monitored
<1>2. CASE MP!ThreadEnds \/ MP!ScanBegins \/ MP!ScanEnds \/ MP!Wakes \/ MP!SendSigkill
  BY <1>1, <1>2
     DEF MP!ThreadEnds, MP!ScanBegins, MP!ScanEnds, MP!Wakes, MP!SendSigkill, MP!ThreadGoes
<1>3. CASE MP!Judge
  <2>1. /\ DOMAIN monitor_list' = DOMAIN monitor_list
        /\ \A i \in DOMAIN monitor_list : monitor_list'[i].pid = monitor_list[i].pid
    BY <1>3, MP!JudgedList, SupervisorAssumption, MonitorAssumption
  <2> QED
    BY <2>1 DEF monitored
<1>4. ASSUME MP!RemoveCurrent, MP!Current.pid \in monitored \cap Pids,
             cursor \in DOMAIN monitor_list, processes[MP!Current.pid].st # "alive"
      PROVE  \E p \in monitored \cap Pids :
              proc[p].st \in {"zombie", "reaped"} /\ monitored' = monitored \ {p}
  <2>1. PICK p \in monitored \cap Pids : p = MP!Current.pid
    BY <1>4
  <2>2. processes[p].st # "unborn"
    BY <1>4, <2>1 DEF MP!PeakInv, MP!Current
  <2>3. proc[p].st \in {"zombie", "reaped"}
    BY <1>4, <2>1, <2>2, PhaseIs, ProcessIs DEF MP!IndInv
  <2>4. monitored' = monitored \ {p}
    BY <1>4, <2>1, RemovedPid DEF MP!RemoveCurrent, MP!Current
  <2> QED
    BY <2>1, <2>3, <2>4
<1>5. CASE MP!CheckExists
  <2>1. cursor \in DOMAIN monitor_list /\ MP!Current.pid \in monitored \cap Pids
    BY <1>5, CurrentIs DEF MP!CheckExists
  <2>2. CASE monitor_list' = monitor_list
    BY <1>1, <2>2
  <2>3. CASE MP!RemoveCurrent /\ processes[MP!Current.pid].st = "gone"
    BY <1>4, <2>1, <2>3
  <2> QED
    BY <1>5, <2>2, <2>3 DEF MP!CheckExists
<1>6. CASE MP!ReadRss
  <2>1. cursor \in DOMAIN monitor_list /\ MP!Current.pid \in monitored \cap Pids
    BY <1>6, CurrentIs DEF MP!ReadRss
  <2>2. CASE monitor_list' = monitor_list
    BY <1>1, <2>2
  <2>3. CASE MP!RemoveCurrent /\ processes[MP!Current.pid].st # "alive"
    BY <1>4, <2>1, <2>3
  <2> QED
    BY <1>6, <2>2, <2>3 DEF MP!ReadRss, MP!HasMm
<1> QED
  BY <1>2, <1>3, <1>5, <1>6 DEF MP!ThreadStep

\* The steps of the kernel module, as the supervisor sees them.
LEMMA KernelSteps ==
  ASSUME Inv, MonitorStep \/ Unload
  PROVE  SP!KernelStep \/ UNCHANGED SP!vars
<1> USE DEF SP!vars, SP!daemon, SP!table, SP!handlerVars, SP!locals, SP!host, supervisorVars,
            processVars
<1>1. CASE Scan
  <2>1. MP!ThreadStep /\ UNCHANGED <<supervisorVars, processVars>>
    BY <1>1, SameMonitor DEF Scan
  <2>2. CASE monitored' = monitored
    BY <2>1, <2>2
  <2>3. ASSUME NEW p \in monitored \cap Pids, proc[p].st \in {"zombie", "reaped"},
               monitored' = monitored \ {p}
        PROVE  SP!KernelStep
    <3>1. SP!StaleEntryRemoved(p)
      BY <2>1, <2>3 DEF SP!StaleEntryRemoved
    <3> QED
      BY <3>1 DEF SP!KernelStep
  <2> QED
    BY <2>1, <2>2, <2>3, ScanSteps DEF Inv, SP!IndInv
<1>2. CASE Kill
  <2>1. UNCHANGED <<supervisorVars, monitor_list>> /\ thread = "kill"
    BY <1>2 DEF Kill, Mon!SendSigkill
  <2>2. monitored' = monitored
    BY <2>1 DEF monitored
  <2>3. PICK p \in Pids : p = MP!Current.pid /\ p \in monitored
    BY <2>1, CurrentIs DEF Inv
  <2>4. IF Sup!AliveProc(p) THEN proc' = Sup!Signalled({p}, KillSignal) ELSE UNCHANGED proc
    BY <1>2, <2>3 DEF Kill, Mon!Current, MP!Current
  <2>5. CASE Sup!AliveProc(p)
    <3>1. proc' = SP!Signalled({p}, SP!SIGKILL)
      BY <2>4, <2>5, Zenon
         DEF KillSignal, Sup!Signalled, SP!Signalled, Sup!Targets, SP!Targets, Sup!Delivered,
             SP!Delivered, Sup!AliveProc, SP!AliveProc, Sup!LivePhases, SP!LivePhases,
             Sup!SIGKILL, SP!SIGKILL, Sup!SIGTERM, SP!SIGTERM
    <3>2. SP!Delivered(p, SP!SIGKILL)
      BY <2>5 DEF SP!Delivered, Sup!AliveProc, SP!AliveProc, Sup!LivePhases, SP!LivePhases
    <3>3. SP!HardLimitKill(p)
      BY <2>1, <2>2, <2>3, <3>1, <3>2 DEF SP!HardLimitKill, SP!Sigkilled
    <3> QED
      BY <3>3 DEF SP!KernelStep
  <2>6. CASE ~ Sup!AliveProc(p)
    BY <2>1, <2>2, <2>4, <2>6
  <2> QED
    BY <2>5, <2>6
<1>3. CASE UnloadStep
  <2>1. monitor_list' = <<>> /\ UNCHANGED <<supervisorVars, processVars>>
    BY <1>3 DEF UnloadStep, Mon!ExitStep, Mon!ExitFreesList, Mon!ExitEnds, Mon!Vanish
  <2>2. monitored' = {}
    BY <2>1 DEF monitored
  <2>3. SP!ListFreed
    BY <2>1, <2>2 DEF SP!ListFreed
  <2> QED
    BY <2>3 DEF SP!KernelStep
<1>4. CASE Unload
  <2>1. UNCHANGED <<supervisorVars, processVars, monitor_list>>
    BY <1>4 DEF Unload, Mon!ExitBegins
  <2>2. monitored' = monitored
    BY <2>1 DEF monitored
  <2> QED
    BY <2>1, <2>2
<1> QED
  BY <1>1, <1>2, <1>3, <1>4 DEF MonitorStep

\* The composition does what Supervisor says, in an environment that may fail, kill
\* and be unloaded.
LEMMA SupervisorSteps ==
  ASSUME Inv, [Next]_vars
  PROVE  SP!Next \/ UNCHANGED SP!vars
<1> USE DEF SP!vars, SP!daemon, SP!table, SP!handlerVars, SP!locals, SP!host, supervisorVars,
            processVars
<1>1. CASE Threads
  BY <1>1, ThreadsAre, Zenon DEF SP!ThreadStep, SP!Next
<1>2. CASE RecordExit
  BY <1>2, SameIoctls, Zenon DEF RecordExit, SP!Next, SP!ReaperStep
<1>3. ASSUME NEW h \in Handlers, Register(h) PROVE SP!Next
  BY <1>3, SameIoctls, Zenon DEF Register, SP!Next, SP!HandlerStep
<1>4. CASE MonitorStep \/ Unload
  BY <1>4, KernelSteps, Zenon DEF SP!Next
<1>5. ASSUME NEW p \in Pids, ProcessStep(p) PROVE SP!Next
  BY <1>5, SameProcess, Zenon DEF ProcessStep, SP!Next
<1>6. ASSUME NEW p \in Pids, Resize(p) PROVE UNCHANGED SP!vars
  <2>1. UNCHANGED <<supervisorVars, proc, monitor_list>>
    BY <1>6 DEF Resize, listVars
  <2>2. monitored' = monitored
    BY <2>1 DEF monitored
  <2> QED
    BY <2>1, <2>2
<1>7. CASE UNCHANGED vars
  <2>1. UNCHANGED <<supervisorVars, proc, monitor_list>>
    BY <1>7 DEF vars, listVars
  <2>2. monitored' = monitored
    BY <2>1 DEF monitored
  <2> QED
    BY <2>1, <2>2
<1>8. ASSUME NEW p \in Pids, HostKill(p) PROVE SP!Next
  BY <1>8, HostKillIs, Zenon DEF Inv, SP!IndInv, SP!KernelStep, SP!Next
<1> QED
  BY <1>1, <1>2, <1>3, <1>4, <1>5, <1>6, <1>7, <1>8, Zenon DEF Next, Threads

-----------------------------------------------------------------------------
(* Every step is a step of Monitor, or none of its concern.                *)

\* A step that leaves the phases and the sizes of the processes alone.
LEMMA SamePhases ==
  ASSUME SP!TypeOK, UNCHANGED <<rss, victims>>, \A p \in Pids : proc'[p].st = proc[p].st
  PROVE  processes' = processes
<1>1. \A p \in Pids : Phase(p)' = Phase(p)
  BY DEF Phase, Sup!AliveProc
<1> QED
  BY <1>1 DEF processes

\* One process enters another phase of its life.
LEMMA OnePhase ==
  ASSUME NEW p \in Pids, UNCHANGED victims,
         \A q \in Pids \ {p} : proc'[q].st = proc[q].st /\ rss'[q] = rss[q]
  PROVE  processes' = [processes EXCEPT ![p] =
                         [st |-> Phase(p)', rss |-> rss'[p], killed |-> Victim(p)]]
<1>1. \A q \in Pids \ {p} : Phase(q)' = Phase(q)
  BY DEF Phase, Sup!AliveProc
<1> QED
  BY <1>1, Zenon DEF processes, Victim

\* clone() is a birth.
LEMMA SpawnIsBirth ==
  ASSUME Inv, NEW h \in Handlers, SP!Spawn(h), UNCHANGED <<listVars, rss, peak, victims>>
  PROVE  \E p \in Pids : Mon!Birth(p)
<1>1. PICK p \in Pids :
        /\ SP!FreshPid(p)
        /\ proc' = [proc EXCEPT ![p] = [SP!NoProcess EXCEPT !.st = "setup",
                                         !.rootfs = req[h].rootfs]]
  BY DEF SP!Spawn
<1>2. proc[p].st = "unborn"
  BY <1>1, NoReuse DEF SP!FreshPid, SP!NoReuse
<1>3. proc'[p].st = "setup" /\ \A q \in Pids \ {p} : proc'[q] = proc[q]
  BY <1>1 DEF SP!NoProcess, Inv, SP!IndInv, SP!TypeOK
<1>4. processes[p].st = "unborn" /\ Phase(p)' = "alive"
  BY <1>2, <1>3, PhaseIs, ProcessIs
     DEF Inv, SP!IndInv, MP!IndInv, Phase, Sup!AliveProc, Sup!LivePhases
<1>5. rss[p] = 0 /\ peak[p] = 0 /\ peak \in [Pids -> RssLevels]
  BY <1>2 DEF Inv, Link, SP!AliveProc, SP!LivePhases, MP!IndInv, MP!TypeOK
<1>6. \A v \in victims : v.pid # p
  BY <1>4 DEF Inv, MP!PeakInv
<1>7. ~ Victim(p)
  BY <1>6 DEF Victim
<1>8. processes' = [processes EXCEPT ![p] = [st |-> "alive", rss |-> 0, killed |-> FALSE]]
  <2>1. processes' = [processes EXCEPT ![p] =
                        [st |-> Phase(p)', rss |-> rss'[p], killed |-> Victim(p)]]
    BY <1>3, OnePhase
  <2>2. Victim(p) = FALSE
    BY <1>7 DEF Victim
  <2> QED
    BY <1>4, <1>5, <2>1, <2>2
<1>9. peak' = [peak EXCEPT ![p] = 0] /\ victims' = {v \in victims : v.pid # p}
  BY <1>5, <1>6
<1> QED
  BY <1>4, <1>8, <1>9 DEF Mon!Birth, Mon!environment, Mon!scan, listVars

\* A process of the monitor's in its next phase, without a size.
LEMMA PhaseStep ==
  ASSUME Inv, NEW p \in Pids, NEW from, NEW to \in {"zombie", "gone"},
         processes[p].st = from, Phase(p)' = to,
         rss'[p] = 0, UNCHANGED <<listVars, peak, victims>>,
         \A q \in Pids \ {p} : proc'[q].st = proc[q].st /\ rss'[q] = rss[q]
  PROVE  Mon!Phase(p, from, to)
<1>1. processes' = [processes EXCEPT ![p] = [st |-> to, rss |-> 0, killed |-> Victim(p)]]
  BY OnePhase
<1>2. [processes[p] EXCEPT !.st = to, !.rss = 0] = [st |-> to, rss |-> 0, killed |-> Victim(p)]
  <2>1. /\ processes[p] \in [st : {"unborn", "alive", "zombie", "gone"}, rss : RssLevels,
                             killed : BOOLEAN]
        /\ to \in {"unborn", "alive", "zombie", "gone"}
        /\ 0 \in RssLevels
    BY MonitorAssumption DEF Inv, MP!IndInv, MP!TypeOK
  <2> DEFINE x == [processes[p] EXCEPT !.st = to, !.rss = 0]
  <2>2. x \in [st : {"unborn", "alive", "zombie", "gone"}, rss : RssLevels, killed : BOOLEAN]
    BY <2>1, Zenon
  <2>3. x.st = to /\ x.rss = 0 /\ x.killed = processes[p].killed
    BY <2>1
  <2> HIDE DEF x
  <2>4. x = [st |-> to, rss |-> 0, killed |-> Victim(p)]
    BY <2>2, <2>3, ProcessIs
  <2> QED
    BY <2>4 DEF x
<1>3. [processes EXCEPT ![p].st = to, ![p].rss = 0]
        = [processes EXCEPT ![p] = [processes[p] EXCEPT !.st = to, !.rss = 0]]
  <2>1. processes = [q \in Pids |-> processes[q]]
    BY DEF Inv, MP!IndInv, MP!TypeOK
  <2> QED
    BY <2>1
<1> QED
  BY <1>1, <1>2, <1>3 DEF Mon!Phase, Mon!environment, Mon!scan, Mon!history, listVars

\* The supervisor's threads, as the monitor sees them: they create and reap processes,
\* and a signal on its way is none of its concern.
LEMMA ThreadsForMonitor ==
  ASSUME Inv, Threads
  PROVE  Mon!Next \/ UNCHANGED Mon!vars
<1>0. SP!TypeOK /\ MP!TypeOK /\ SP!ThreadStep /\ UNCHANGED <<listVars, rss, peak, victims>>
  BY ThreadsAre DEF Inv, SP!IndInv, MP!IndInv
<1>1. processes' = processes => UNCHANGED Mon!vars
  BY <1>0 DEF Mon!vars, Mon!scan, Mon!history, listVars
<1>2. ASSUME NEW S, NEW s \in {SP!SIGKILL, SP!SIGTERM}, proc' = SP!Signalled(S, s)
      PROVE  processes' = processes
  <2>1. \A p \in Pids : proc'[p].st = proc[p].st
    BY <1>0, <1>2, SP!SignalledTyped, SupervisorAssumption DEF SP!RequestTypes
  <2> QED
    BY <1>0, <2>1, SamePhases
<1>3. UNCHANGED proc => processes' = processes
  BY <1>0, SamePhases
<1>4. ASSUME NEW S, proc' = SP!Signalled(S, SP!SIGTERM) PROVE processes' = processes
  BY <1>2, <1>4
<1>5. ASSUME NEW h \in Handlers, SP!ProducerArgFails(h) PROVE processes' = processes
  BY <1>2, <1>5 DEF SP!ProducerArgFails
<1>6. ASSUME NEW h \in Handlers, SP!Spawn(h) PROVE Mon!Next
  BY <1>0, <1>6, SpawnIsBirth DEF Mon!Next
<1>7. ASSUME NEW p \in Pids, SP!Reap(p) PROVE Mon!Next
  <2>1. proc[p].st = "zombie" /\ proc' = [proc EXCEPT ![p].st = "reaped"]
    BY <1>7 DEF SP!Reap, SP!Zombie
  <2>2. proc'[p].st = "reaped" /\ \A q \in Pids \ {p} : proc'[q].st = proc[q].st
    BY <1>0, <2>1 DEF SP!TypeOK
  <2>3. processes[p].st = "zombie" /\ Phase(p)' = "gone"
    BY <1>0, <2>1, <2>2, PhaseIs, ProcessIs DEF Phase, Sup!AliveProc, Sup!LivePhases
  <2>4. rss'[p] = 0
    BY <1>0, <2>1 DEF Inv, Link, SP!AliveProc, SP!LivePhases
  <2>5. Mon!Reaped(p)
    BY <1>0, <2>2, <2>3, <2>4, PhaseStep DEF Mon!Reaped
  <2> QED
    BY <2>5 DEF Mon!Next
<1>8. \/ UNCHANGED proc
      \/ \E S : proc' = SP!Signalled(S, SP!SIGTERM)
      \/ \E p \in Pids : SP!Reap(p)
      \/ \E h \in Handlers : SP!Spawn(h) \/ SP!ProducerArgFails(h)
  BY <1>0, SP!ThreadSteps, SupervisorAssumption DEF SP!RequestTypes
<1> QED
  BY <1>1, <1>3, <1>4, <1>5, <1>6, <1>7, <1>8, Zenon

\* The composition does what Monitor says.
LEMMA MonitorSteps ==
  ASSUME Inv, [Next]_vars
  PROVE  Mon!Next \/ UNCHANGED Mon!vars
<1>0. SP!TypeOK /\ MP!TypeOK
  BY DEF Inv, SP!IndInv, MP!IndInv
<1>1. ASSUME UNCHANGED <<listVars, processVars>> PROVE UNCHANGED Mon!vars
  <2>1. processes' = processes
    BY <1>0, <1>1, SamePhases DEF processVars
  <2> QED
    BY <1>1, <2>1 DEF Mon!vars, Mon!scan, Mon!history, listVars, processVars
<1>2. ASSUME NEW h \in Handlers, Register(h) PROVE Mon!Next \/ UNCHANGED Mon!vars
  <2>1. pid[h] \in Pids
    BY <1>2 DEF Register, Inv, SP!IndInv, SP!HandlerInv, SP!Launched
  <2>2. RequestOf(h) \in [pid : Pids, soft_mib : {Soft}, hard_mib : {Hard}]
    BY <2>1 DEF RequestOf
  <2>3. CASE Mon!Register(RequestOf(h))
    BY <2>2, <2>3, Zenon DEF Mon!Next
  <2>4. CASE UNCHANGED <<listVars, processVars>>
    BY <1>1, <2>4
  <2> QED
    BY <1>2, <2>3, <2>4 DEF Register
<1>3. CASE RecordExit
  <2>1. reaper.pid \in Pids
    BY <1>3 DEF RecordExit, Inv, SP!IndInv, SP!TableInv, SP!SlotInv
  <2>2. CASE Mon!Unregister(reaper.pid)
    BY <2>1, <2>2, Zenon DEF Mon!Next
  <2>3. CASE UNCHANGED <<listVars, processVars>>
    BY <1>1, <2>3
  <2> QED
    BY <1>3, <2>2, <2>3 DEF RecordExit
<1>4. CASE MonitorStep \/ Unload
  BY <1>4, Zenon DEF MonitorStep, Unload, Scan, Kill, UnloadStep, Mon!Next, Mon!ThreadStep
<1>5. ASSUME NEW p \in Pids, ProcessStep(p) PROVE Mon!Next \/ UNCHANGED Mon!vars
  <2>1. /\ SP!AliveProc(p)
        /\ SP!AliveProc(p)' \/ proc'[p].st = "zombie"
        /\ \A q \in Pids \ {p} : proc'[q] = proc[q]
    BY <1>0, <1>5, SameProcess, NoReuse, SP!ProcessSteps, SupervisorAssumption
       DEF ProcessStep, SP!RequestTypes
  <2>2. /\ UNCHANGED <<listVars, peak, victims>>
        /\ rss' = [rss EXCEPT ![p] = IF SP!AliveProc(p)' THEN @ ELSE 0]
    BY <1>5 DEF ProcessStep, SP!AliveProc, SP!LivePhases, Sup!LivePhases
  <2>3. rss \in [Pids -> RssLevels]
    BY DEF Inv, Link
  <2>4. CASE SP!AliveProc(p)'
    <3>1. rss' = rss
      BY <2>2, <2>3, <2>4
    <3>2. \A q \in Pids : Phase(q)' = Phase(q)
      BY <2>1, <2>4 DEF Phase, Sup!AliveProc, SP!AliveProc, Sup!LivePhases, SP!LivePhases
    <3>3. processes' = processes
      BY <2>2, <3>1, <3>2 DEF processes
    <3> QED
      BY <2>2, <3>3 DEF Mon!vars, Mon!scan, Mon!history, listVars
  <2>5. CASE ~ SP!AliveProc(p)'
    <3>1. rss'[p] = 0 /\ \A q \in Pids \ {p} : rss'[q] = rss[q]
      BY <2>2, <2>3, <2>5
    <3>2. processes[p].st = "alive" /\ Phase(p)' = "zombie"
      BY <1>0, <2>1, <2>5, PhaseIs, ProcessIs
         DEF Phase, Sup!AliveProc, SP!AliveProc, Sup!LivePhases, SP!LivePhases
    <3>3. Mon!Exits(p)
      BY <2>1, <2>2, <3>1, <3>2, PhaseStep DEF Mon!Exits
    <3> QED
      BY <3>3 DEF Mon!Next
  <2> QED
    BY <2>4, <2>5
<1>6. ASSUME NEW p \in Pids, Resize(p) PROVE Mon!Next
  BY <1>6, Zenon DEF Resize, Mon!Next
<1>7. CASE UNCHANGED vars
  BY <1>1, <1>7 DEF vars, processVars
<1>8. ASSUME NEW p \in Pids, HostKill(p) PROVE UNCHANGED Mon!vars
  <2>1. UNCHANGED <<listVars, rss, peak, victims>> /\ processes' = processes
    BY <1>0, <1>8, HostKillIs, SamePhases
  <2> QED
    BY <2>1 DEF Mon!vars, Mon!scan, Mon!history, listVars
<1> QED
  BY <1>2, <1>3, <1>4, <1>5, <1>6, <1>7, <1>8, ThreadsForMonitor, Zenon DEF Next, Threads

-----------------------------------------------------------------------------
(* The invariant holds.                                                    *)

\* Nobody the monitor or the host killed is forgotten.
LEMMA VictimsStay ==
  ASSUME Inv, [Next]_vars, NEW p \in Pids, KilledByOthers(p)
  PROVE  KilledByOthers(p)'
<1>1. victims \subseteq victims' /\ host_victims \subseteq host_victims'
  <2>1. Threads => UNCHANGED <<victims, host_victims>>
    BY ThreadsAre
  <2>2. ASSUME NEW h \in Handlers, Register(h) PROVE UNCHANGED <<victims, host_victims>>
    BY <2>2 DEF Register, processVars
  <2>3. RecordExit \/ Scan \/ UnloadStep \/ Unload \/ UNCHANGED vars => UNCHANGED <<victims, host_victims>>
    BY DEF RecordExit, Scan, UnloadStep, Unload, vars, processVars
  <2>4. Kill => victims \subseteq victims' /\ UNCHANGED host_victims
    BY DEF Kill
  <2>5. ASSUME NEW q \in Pids, ProcessStep(q) \/ Resize(q) PROVE UNCHANGED <<victims, host_victims>>
    BY <2>5 DEF ProcessStep, Resize
  <2>6. ASSUME NEW q \in Pids, HostKill(q)
        PROVE  UNCHANGED victims /\ host_victims \subseteq host_victims'
    BY <2>6 DEF HostKill
  <2> QED
    BY <2>1, <2>2, <2>3, <2>4, <2>5, <2>6 DEF Next, Threads, MonitorStep
<1> QED
  BY <1>1 DEF KilledByOthers, Victim

\* SIGKILL is sent by the monitor, which remembers it, by the host, or to the child of
\* a failed start.
LEMMA SigkillLinked ==
  ASSUME Inv, [Next]_vars, NEW p \in Pids, SP!SIGKILL \in proc'[p].sig
  PROVE  SP!SIGKILL \in proc[p].sig \/ KilledByOthers(p)' \/ SP!Aborted(p)'
<1>1. UNCHANGED proc => SP!SIGKILL \in proc[p].sig
  OBVIOUS
<1>2. CASE SP!ThreadStep \/ \E q \in Pids : SP!ProcessStep(q)
  BY <1>2, NoReuse, SP!SigkillSteps, SupervisorAssumption DEF Inv, SP!RequestTypes
<1>3. CASE Kill
  <2>1. PICK q \in Pids : q = MP!Current.pid
    BY <1>3, CurrentIs DEF Kill, Inv
  <2>2. CASE Sup!AliveProc(q)
    <3>1. /\ proc' = Sup!Signalled({q}, KillSignal)
          /\ [pid |-> q, hard_limit |-> MP!Current.hard_limit] \in victims'
      BY <1>3, <2>1, <2>2 DEF Kill, Mon!Current, MP!Current
    <3>2. KilledByOthers(q)'
      BY <3>1 DEF KilledByOthers, Victim
    <3>3. p # q => proc'[p] = proc[p]
      BY <3>1, SupervisorAssumption DEF Sup!Signalled, Sup!Targets
    <3> QED
      BY <3>2, <3>3
  <2>3. CASE ~ Sup!AliveProc(q)
    BY <1>1, <1>3, <2>1, <2>3 DEF Kill, Mon!Current, MP!Current
  <2> QED
    BY <2>2, <2>3
<1>4. Threads => SP!ThreadStep
  BY ThreadsAre
<1>5. ASSUME NEW q \in Pids, ProcessStep(q) PROVE SP!ProcessStep(q)
  BY <1>5, SameProcess DEF ProcessStep
<1>6. ASSUME NEW h \in Handlers, Register(h) PROVE UNCHANGED proc
  BY <1>6 DEF Register, processVars
<1>7. RecordExit \/ Scan \/ UnloadStep \/ Unload \/ UNCHANGED vars => UNCHANGED proc
  BY DEF RecordExit, Scan, UnloadStep, Unload, vars, processVars
<1>8. ASSUME NEW q \in Pids, Resize(q) PROVE UNCHANGED proc
  BY <1>8 DEF Resize
<1>9. ASSUME NEW q \in Pids, HostKill(q)
      PROVE  SP!SIGKILL \in proc[p].sig \/ KilledByOthers(p)'
  BY <1>9, HostKillIs DEF Inv, SP!IndInv, KilledByOthers
<1> QED
  BY <1>1, <1>2, <1>3, <1>4, <1>5, <1>6, <1>7, <1>8, <1>9, Zenon DEF Next, Threads, MonitorStep

\* What a step may do to the sizes and the peaks.
LEMMA SizeSteps ==
  ASSUME Inv, [Next]_vars
  PROVE  /\ rss' \in [Pids -> RssLevels]
         /\ \A p \in Pids : ~ SP!AliveProc(p)' => rss'[p] = 0
         /\ \A p \in Pids : peak'[p] = peak[p] \/ SP!AliveProc(p)
<1>0. SP!TypeOK /\ MP!TypeOK /\ rss \in [Pids -> RssLevels]
  BY DEF Inv, SP!IndInv, MP!IndInv, Link
<1>1. ASSUME UNCHANGED <<rss, peak>>, \A p \in Pids : SP!AliveProc(p) => SP!AliveProc(p)'
      PROVE  /\ rss' \in [Pids -> RssLevels]
             /\ \A p \in Pids : ~ SP!AliveProc(p)' => rss'[p] = 0
             /\ \A p \in Pids : peak'[p] = peak[p] \/ SP!AliveProc(p)
  BY <1>0, <1>1 DEF Inv, Link
<1>2. ASSUME UNCHANGED <<rss, peak>>, \A p \in Pids : proc'[p].st = proc[p].st
      PROVE  /\ rss' \in [Pids -> RssLevels]
             /\ \A p \in Pids : ~ SP!AliveProc(p)' => rss'[p] = 0
             /\ \A p \in Pids : peak'[p] = peak[p] \/ SP!AliveProc(p)
  BY <1>1, <1>2 DEF SP!AliveProc
<1>3. CASE Threads
  <2>1. SP!ThreadStep /\ UNCHANGED <<rss, peak>>
    BY <1>3, ThreadsAre
  <2>2. ASSUME NEW S, NEW s \in {SP!SIGKILL, SP!SIGTERM}, proc' = SP!Signalled(S, s)
        PROVE  \A p \in Pids : proc'[p].st = proc[p].st
    BY <1>0, <2>2, SP!SignalledTyped, SupervisorAssumption DEF SP!RequestTypes
  <2>3. ASSUME NEW S, proc' = SP!Signalled(S, SP!SIGTERM)
        PROVE  \A p \in Pids : proc'[p].st = proc[p].st
    BY <2>2, <2>3
  <2>4. ASSUME NEW h \in Handlers, SP!ProducerArgFails(h)
        PROVE  \A p \in Pids : proc'[p].st = proc[p].st
    BY <2>2, <2>4 DEF SP!ProducerArgFails
  <2>5. ASSUME NEW h \in Handlers, SP!Spawn(h)
        PROVE  \A p \in Pids : SP!AliveProc(p) => SP!AliveProc(p)'
    BY <1>0, <2>5 DEF SP!Spawn, SP!NoProcess, SP!AliveProc, SP!LivePhases, SP!TypeOK
  <2>6. ASSUME NEW q \in Pids, SP!Reap(q)
        PROVE  \A p \in Pids : SP!AliveProc(p) => SP!AliveProc(p)'
    BY <1>0, <2>6 DEF SP!Reap, SP!Zombie, SP!AliveProc, SP!LivePhases, SP!TypeOK
  <2>7. UNCHANGED proc => \A p \in Pids : proc'[p].st = proc[p].st
    OBVIOUS
  <2>8. \/ UNCHANGED proc
        \/ \E S : proc' = SP!Signalled(S, SP!SIGTERM)
        \/ \E p \in Pids : SP!Reap(p)
        \/ \E h \in Handlers : SP!Spawn(h) \/ SP!ProducerArgFails(h)
    BY <2>1, SP!ThreadSteps, SupervisorAssumption DEF SP!RequestTypes
  <2>9. \/ \A p \in Pids : proc'[p].st = proc[p].st
        \/ \A p \in Pids : SP!AliveProc(p) => SP!AliveProc(p)'
    BY <2>3, <2>4, <2>5, <2>6, <2>7, <2>8, Zenon
  <2> QED
    BY <1>1, <1>2, <2>1, <2>9
<1>4. ASSUME UNCHANGED <<proc, rss, peak>>
      PROVE  /\ rss' \in [Pids -> RssLevels]
             /\ \A p \in Pids : ~ SP!AliveProc(p)' => rss'[p] = 0
             /\ \A p \in Pids : peak'[p] = peak[p] \/ SP!AliveProc(p)
  BY <1>2, <1>4
<1>5. ASSUME NEW h \in Handlers, Register(h) PROVE UNCHANGED <<proc, rss, peak>>
  BY <1>5 DEF Register, processVars
<1>6. RecordExit \/ Scan \/ UnloadStep \/ Unload \/ UNCHANGED vars => UNCHANGED <<proc, rss, peak>>
  BY DEF RecordExit, Scan, UnloadStep, Unload, vars, processVars
<1>7. CASE Kill
  <2>1. UNCHANGED <<rss, peak>> /\ \A p \in Pids : proc'[p].st = proc[p].st
    <3>1. UNCHANGED <<rss, peak>>
      BY <1>7 DEF Kill, Mon!SendSigkill
    <3>2. UNCHANGED proc \/ proc' = Sup!Signalled({Mon!Current.pid}, KillSignal)
      BY <1>7 DEF Kill
    <3>3. \A p \in Pids : proc[p] \in SP!ProcessType
      BY <1>0, SP!TypeEntry, SupervisorAssumption DEF SP!RequestTypes
    <3> QED
      BY <3>1, <3>2, <3>3 DEF Sup!Signalled, SP!ProcessType
  <2> QED
    BY <1>2, <2>1
<1>8. ASSUME NEW q \in Pids, ProcessStep(q)
      PROVE  /\ rss' \in [Pids -> RssLevels]
             /\ \A p \in Pids : ~ SP!AliveProc(p)' => rss'[p] = 0
             /\ \A p \in Pids : peak'[p] = peak[p] \/ SP!AliveProc(p)
  <2>1. \A p \in Pids \ {q} : proc'[p] = proc[p]
    BY <1>0, <1>8, SameProcess, NoReuse, SP!ProcessSteps, SupervisorAssumption
       DEF ProcessStep, SP!RequestTypes
  <2>2. UNCHANGED peak /\ rss' = [rss EXCEPT ![q] = IF SP!AliveProc(q)' THEN @ ELSE 0]
    BY <1>8 DEF ProcessStep, SP!AliveProc, SP!LivePhases, Sup!LivePhases
  <2>3. \A p \in Pids \ {q} : SP!AliveProc(p)' <=> SP!AliveProc(p)
    BY <2>1 DEF SP!AliveProc
  <2> QED
    BY <1>0, <2>2, <2>3, MonitorAssumption DEF Inv, Link
<1>9. ASSUME NEW q \in Pids, Resize(q)
      PROVE  /\ rss' \in [Pids -> RssLevels]
             /\ \A p \in Pids : ~ SP!AliveProc(p)' => rss'[p] = 0
             /\ \A p \in Pids : peak'[p] = peak[p] \/ SP!AliveProc(p)
  <2>1. UNCHANGED proc /\ processes[q].st = "alive"
    BY <1>9 DEF Resize, Mon!Resize
  <2>2. PICK r \in RssLevels : rss' = [rss EXCEPT ![q] = r]
    BY <1>9 DEF Resize
  <2>3. SP!AliveProc(q) /\ \A p \in Pids : SP!AliveProc(p)' <=> SP!AliveProc(p)
    BY <1>0, <2>1, PhaseIs, ProcessIs DEF SP!AliveProc
  <2>4. \A p \in Pids \ {q} : peak'[p] = peak[p]
    BY <1>9 DEF Resize, Mon!Resize, Inv, MP!IndInv, MP!TypeOK
  <2> QED
    BY <1>0, <2>2, <2>3, <2>4 DEF Inv, Link
<1>10. ASSUME NEW q \in Pids, HostKill(q)
       PROVE  /\ rss' \in [Pids -> RssLevels]
              /\ \A p \in Pids : ~ SP!AliveProc(p)' => rss'[p] = 0
              /\ \A p \in Pids : peak'[p] = peak[p] \/ SP!AliveProc(p)
  BY <1>0, <1>2, <1>10, HostKillIs
<1> QED
  BY <1>3, <1>4, <1>5, <1>6, <1>7, <1>8, <1>9, <1>10, Zenon DEF Next, Threads, MonitorStep

\* Every step keeps the invariant.
LEMMA NextKeepsInv ==
  ASSUME Inv, [Next]_vars
  PROVE  Inv'
<1>1. SP!Next \/ UNCHANGED SP!vars
  BY SupervisorSteps
<1>2. MP!Next \/ UNCHANGED MP!vars
  BY MonitorSteps, SameMonitor, Zenon
     DEF Mon!vars, MP!vars, Mon!scan, MP!scan, Mon!history, MP!history
<1>3. SP!IndInv'
  BY <1>1, SP!NextKeepsInd, SupervisorAssumption DEF SP!RequestTypes, Inv
<1>4. SP!ProcInv'
  BY <1>1, NoReuse, SP!NextKeepsProcs, SupervisorAssumption DEF SP!RequestTypes, Inv
<1>5. SP!SigkillInv'
  <2>1. CASE SP!Next
    BY <2>1, NoReuse, SP!SigkillInductive, SupervisorAssumption DEF SP!RequestTypes, Inv
  <2>2. CASE UNCHANGED SP!vars
    BY <2>2 DEF SP!vars, SP!host, Inv, SP!SigkillInv
  <2> QED
    BY <1>1, <2>1, <2>2
<1>6. MP!IndInv'
  BY <1>2, MP!NextKeepsInd, SupervisorAssumption, MonitorAssumption DEF Inv
<1>7. MP!PeakInv'
  BY <1>2, MP!NextKeepsPeaks, SupervisorAssumption, MonitorAssumption DEF Inv
<1>8. ASSUME NEW p \in Pids, proc'[p].st = "unborn" PROVE peak'[p] = 0
  <2>1. proc[p].st = "unborn"
    <3>1. CASE SP!Next
      BY <1>8, <3>1, NoReuse, SP!BornStays, SupervisorAssumption DEF SP!RequestTypes, Inv
    <3>2. CASE UNCHANGED SP!vars
      BY <1>8, <3>2 DEF SP!vars, SP!host
    <3> QED
      BY <1>1, <3>1, <3>2
  <2>2. peak[p] = 0 /\ ~ SP!AliveProc(p)
    BY <2>1 DEF Inv, Link, SP!AliveProc, SP!LivePhases
  <2> QED
    BY <2>2, SizeSteps
<1>9. ASSUME NEW p \in Pids, SP!SIGKILL \in proc'[p].sig PROVE KilledByOthers(p)' \/ SP!Aborted(p)'
  <2>1. CASE SP!SIGKILL \in proc[p].sig
    <3>1. KilledByOthers(p) \/ SP!Aborted(p)
      BY <2>1 DEF Inv, Link
    <3>2. KilledByOthers(p) => KilledByOthers(p)'
      BY VictimsStay
    <3>3. CASE SP!Aborted(p) /\ SP!Next
      BY <3>3, NoReuse, SP!AbortedStays, SupervisorAssumption DEF SP!RequestTypes, Inv
    <3>4. CASE SP!Aborted(p) /\ UNCHANGED SP!vars
      BY <3>4 DEF SP!vars, SP!host, SP!table, SP!handlerVars, SP!locals, SP!Aborted
    <3> QED
      BY <1>1, <3>1, <3>2, <3>3, <3>4
  <2> QED
    BY <1>9, <2>1, SigkillLinked
<1>10. Link'
  BY <1>8, <1>9, SizeSteps DEF Link
<1> QED
  BY <1>3, <1>4, <1>5, <1>6, <1>7, <1>10 DEF Inv

\* The invariant holds initially: the module is loaded and its list is empty.
LEMMA InitInv == Init => Inv
<1> SUFFICES ASSUME Init PROVE Inv
  OBVIOUS
<1>1. SP!Init
  BY SameInit DEF Init
<1>2. SP!IndInv
  BY <1>1, SP!InitInd, SupervisorAssumption DEF SP!RequestTypes
<1>3. SP!ProcInv
  BY <1>1, SP!InitProcs, SupervisorAssumption DEF SP!RequestTypes
<1>4. proc = [p \in Pids |-> SP!NoProcess]
  BY <1>1 DEF SP!Init
<1>5. SP!SigkillInv
  BY <1>4 DEF SP!SigkillInv, SP!NoProcess, SP!NoStatus, SP!Signaled
<1>6. \A p \in Pids : /\ proc[p].st = "unborn" /\ proc[p].sig = {}
                       /\ rss[p] = 0 /\ peak[p] = 0 /\ ~ SP!AliveProc(p)
  BY <1>4 DEF Init, SP!NoProcess, SP!AliveProc, SP!LivePhases
<1>7. Link
  BY <1>6, MonitorAssumption DEF Init, Link
<1>8. processes = [p \in Pids |-> [st |-> "unborn", rss |-> 0, killed |-> FALSE]]
  <2>1. \A p \in Pids : Phase(p) = "unborn"
    BY <1>6 DEF Phase, Sup!AliveProc, Sup!LivePhases
  <2> QED
    BY <1>6, <2>1 DEF processes, Init
<1>9. MP!TypeOK
  <2>1. monitor_list = <<>> /\ monitor_list \in Seq(MP!Entry)
    BY DEF Init
  <2>2. processes \in [Pids -> [st : {"unborn", "alive", "zombie", "gone"}, rss : RssLevels,
                                killed : BOOLEAN]]
    BY <1>8, MonitorAssumption
  <2> QED
    BY <2>1, <2>2, MonitorAssumption DEF Init, MP!TypeOK, MP!Entry, MP!Locked
<1>10. MP!IndInv
  BY <1>9 DEF Init, MP!IndInv, MP!ScanInv, MP!OnEntry, MP!OneEntryPerPid, MP!WarnInv, MP!WarnedOnce,
              MP!KillInv, MP!VisitInv, MP!Locked
<1>11. MP!PeakInv
  BY <1>8 DEF Init, MP!PeakInv, MP!KillJustified
<1> QED
  BY <1>2, <1>3, <1>5, <1>7, <1>10, <1>11 DEF Inv

\* The invariant holds.
LEMMA Inductive == Spec => []Inv
  BY InitInv, NextKeepsInv, PTL DEF Spec

\* reaper_main reports a container as killed with exit code 137 only if the monitor or
\* somebody else on the host killed it: the SIGKILL the supervisor itself sends goes to
\* the child of a start that failed, which is in no slot.
THEOREM OnlyKilledFromOutside == Spec => []KilledFromOutside
<1>1. Inv => KilledFromOutside
  <2> SUFFICES ASSUME Inv, NEW i \in Sup!Slots, containers[i].used, containers[i].state = "KILLED",
                      containers[i].exit_code = 137
               PROVE  KilledByOthers(containers[i].pid)
    BY DEF KilledFromOutside, KilledByOthers
  <2>1. i \in SP!Slots
    BY DEF Sup!Slots, SP!Slots
  <2>2. PICK p \in Pids : p = containers[i].pid
    BY <2>1 DEF Inv, SP!IndInv, SP!TypeOK, SP!TableInv, SP!SlotInv
  <2>3. 137 = SP!ExitCode(proc[p].status) /\ proc[p].status.kind = "signaled"
    BY <2>1, <2>2 DEF Inv, SP!ProcInv, SP!StatusAccurate, SP!DeadStates
  <2>4. proc[p].status \in SP!Statuses
    BY DEF Inv, SP!IndInv, SP!TypeOK
  <2>5. proc[p].status = SP!Signaled(SP!SIGKILL)
    BY <2>3, <2>4 DEF SP!Statuses, SP!OwnDeaths, SP!SetupDeaths, SP!NoStatus, SP!Exited,
                      SP!Signaled, SP!SIGSEGV, SP!SIGKILL, SP!ExitCode
  <2>6. KilledByOthers(p) \/ SP!Aborted(p)
    BY <2>5 DEF Inv, SP!SigkillInv, Link
  <2> QED
    BY <2>1, <2>2, <2>6 DEF SP!Aborted
<1> QED
  BY <1>1, Inductive, PTL

\* Whatever the kernel module does, the composition is a behaviour of Supervisor: the
\* supervisor's model of the monitor leaves nothing out.
THEOREM ImplementsSupervisor == Spec => SupervisorImplemented
<1>1. Init => View!Init
  BY SameInit DEF Init
<1>2. Inv /\ [Next]_vars => [View!Next]_(View!vars)
  <2> SUFFICES ASSUME Inv, [Next]_vars PROVE View!Next \/ UNCHANGED View!vars
    OBVIOUS
  <2>1. SP!Next => View!Next
    BY SameNext
  <2>2. UNCHANGED SP!vars => UNCHANGED View!vars
    BY Zenon DEF View!vars, SP!vars, View!daemon, SP!daemon, View!table, SP!table,
       View!handlerVars, SP!handlerVars, View!locals, SP!locals, View!host, SP!host
  <2> QED
    BY <2>1, <2>2, SupervisorSteps
<1> QED
  BY <1>1, <1>2, Inductive, PTL DEF Spec, SupervisorImplemented, View!Spec

\* Whatever the supervisor and its containers do, the monitor sees nothing but what
\* Monitor lets its environment do.
THEOREM ImplementsMonitor == Spec => MonitorImplemented
<1>1. Inv /\ [Next]_vars => [Mon!Next]_(Mon!vars)
  BY MonitorSteps
<1> QED
  BY <1>1, Inductive, PTL DEF Spec, MonitorImplemented

\* In the composition, too, the monitor kills only containers that really exceeded the
\* hard limit they were registered with.
THEOREM OnlyOverLimitKilled == Spec => []Mon!KillJustified
<1>1. Inv => Mon!KillJustified
  BY DEF Inv, MP!PeakInv, MP!KillJustified, Mon!KillJustified
<1> QED
  BY <1>1, Inductive, PTL

=============================================================================
