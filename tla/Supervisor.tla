----------------------------- MODULE Supervisor -----------------------------
(***************************************************************************)
(* The container life cycle of the supervisor (engine.c): the container    *)
(* table, one handler thread per client request (start, run, stop, ps,     *)
(* logs), the reaper thread, the main thread with its shutdown sequence,   *)
(* and the container processes they create, signal and reap.               *)
(*                                                                         *)
(* A section of code under containers_mutex is one action, and so is each  *)
(* system call outside it.  A container process is PID 1 of its own PID    *)
(* namespace: a SIGTERM from outside reaches it only if it has a handler   *)
(* of its own, and until execl() it still runs the supervisor's handler,   *)
(* which ends nothing.                                                     *)
(***************************************************************************)
EXTENDS Integers, FiniteSets

CONSTANTS
  MAX_CONTAINERS,  \* slots of the container table
  Ids,             \* container names
  Rootfs,          \* rootfs path strings, as clients spell them
  Requests,        \* the requests clients may send
  Handlers,        \* client connections, each with its handler thread
  Pids,            \* host PIDs
  OtherPids,       \* PIDs of host processes that are not containers
  NoPid,           \* -1
  None,            \* a field or local variable not yet assigned
  Disturbances     \* what may go wrong in this instance

ASSUME MaxAssumption     == MAX_CONTAINERS \in Nat \ {0}
ASSUME PidAssumption     == OtherPids \subseteq Pids /\ NoPid \notin Pids

\* A pipe, malloc, clone, pthread_create or ioctl fails; a client goes away
\* before its answer; the supervisor gets SIGINT or SIGTERM; a container runs
\* over its hard limit; somebody else on the host sends it SIGKILL; the kernel
\* module is unloaded; the host's PIDs wrap around.
ASSUME DisturbanceAssumption ==
  Disturbances \subseteq
    {"call", "client", "shutdown", "limit", "host", "unload", "wrap"}

RequestTypes == {"start", "run", "stop", "ps", "logs", "unknown"}

ASSUME RequestAssumption ==
  Requests \subseteq [type : RequestTypes, id : Ids, rootfs : Rootfs]

VARIABLES
  containers,         \* the container table
  logger,             \* whether a slot's producer thread exists
  supervisor_running,
  main,               \* state of the main thread
  reaper,             \* state and local variables of the reaper thread
  pc, req, idx, pid, resp,  \* state and local variables of a handler thread
  client,             \* state of a client, as its connection shows it
  proc,               \* the processes of the host
  monitored           \* PIDs registered with the kernel monitor

daemon      == <<supervisor_running, main, reaper>>
table       == <<containers, logger>>
locals      == <<req, idx, pid>>
handlerVars == <<pc, locals, resp>>
host        == <<proc, monitored>>
vars        == <<daemon, table, handlerVars, client, host>>

Slots == 0 .. MAX_CONTAINERS - 1

SIGKILL == 9
SIGSEGV == 11
SIGTERM == 15

-----------------------------------------------------------------------------
(* Exit statuses and processes.                                            *)

Exited(n)   == [kind |-> "exited", n |-> n]
Signaled(n) == [kind |-> "signaled", n |-> n]
NoStatus    == [kind |-> "none", n |-> 0]

\* How a container may die of its own accord.
OwnDeaths == {Exited(0), Signaled(SIGSEGV)}

\* chroot or chdir failed; execl failed.
SetupDeaths == {Exited(1), Exited(127)}

Statuses == OwnDeaths \cup SetupDeaths \cup {NoStatus, Signaled(SIGKILL)}

\* exit_code as the reaper stores it.
ExitCode(s) == IF s.kind = "exited" THEN s.n ELSE 128 + s.n

NoProcess == [st |-> "unborn", sig |-> {}, status |-> NoStatus, rootfs |-> None]

LivePhases == {"setup", "default", "handler"}

AliveProc(p) == proc[p].st \in LivePhases
Child(p)     == AliveProc(p) \/ proc[p].st = "zombie"

\* kill() finds a zombie too; a reaped PID is gone (ESRCH).
Exists(p) == Child(p) \/ proc[p].st = "other"

Targets(p) == IF p = NoPid THEN Pids ELSE {p}

Delivered(p, s) ==
  \/ proc[p].st = "other"
  \/ s = SIGKILL /\ AliveProc(p)
  \/ s = SIGTERM /\ proc[p].st = "handler"

\* kill(p, s) for every p in S; kill(-1, s) signals every process.
Signalled(S, s) ==
  [p \in Pids |->
     IF (\E q \in S : p \in Targets(q)) /\ Delivered(p, s)
     THEN [proc[p] EXCEPT !.sig = @ \cup {s}]
     ELSE proc[p]]

-----------------------------------------------------------------------------
(* The container table.                                                    *)

LiveStates == {"STARTING", "RUNNING"}
DeadStates == {"STOPPED", "EXITED", "KILLED"}

FreeSlot == [used |-> FALSE, id |-> None, rootfs |-> None, pid |-> NoPid,
             state |-> None, stop_requested |-> FALSE, exit_code |-> -1]

Live(i) == containers[i].used /\ containers[i].state \in LiveStates

\* Variant of First with a bug: the search runs one past its last match.
OnePast(S) == 1 + CHOOSE i \in S : \A j \in S : j <= i

First(S) == CHOOSE i \in S : \A j \in S : i <= j

FreeSlots   == {i \in Slots : ~ containers[i].used}
WithId(id)  == {i \in Slots : containers[i].used /\ containers[i].id = id}
WithPid(p)  == {i \in Slots : containers[i].used /\ containers[i].pid = p}

\* Variant of UsesRootfs with a bug: a container still STARTING is overlooked.
RunsOnRootfs(r) ==
  {i \in Slots : containers[i].used /\ containers[i].state = "RUNNING"
                 /\ containers[i].rootfs = r}

\* Slots of live containers on this rootfs path: rootfs_in_use_locked.
UsesRootfs(r) == {i \in Slots : Live(i) /\ containers[i].rootfs = r}

-----------------------------------------------------------------------------

Up == main \notin {"exited", "dead"}

Init ==
  /\ containers = [i \in Slots |-> FreeSlot]
  /\ logger = [i \in Slots |-> FALSE]
  /\ supervisor_running = TRUE
  /\ main = "boot"
  /\ reaper = [pc |-> "waitpid", pid |-> NoPid, status |-> NoStatus]
  /\ pc = [h \in Handlers |-> "free"]
  /\ req = [h \in Handlers |-> None]
  /\ idx = [h \in Handlers |-> -1]
  /\ pid = [h \in Handlers |-> NoPid]
  /\ resp = [h \in Handlers |-> [ok |-> FALSE, exit_code |-> -1]]
  /\ client = [h \in Handlers |-> "none"]
  /\ proc = [p \in Pids |->
               IF p \in OtherPids THEN [NoProcess EXCEPT !.st = "other"]
                                  ELSE NoProcess]
  /\ monitored = {}

\* The handler is at this point of its code in a supervisor that runs.
At(h, label) == Up /\ pc[h] = label

Goto(h, label) == pc' = [pc EXCEPT ![h] = label]

\* A step that changes nothing but the handler's position.
Step(h, label) == Goto(h, label) /\ UNCHANGED <<daemon, table, locals, resp, client, host>>

\* set_response, then on to send_all.
Respond(h, ok, code) ==
  /\ resp' = [resp EXCEPT ![h] = [ok |-> ok, exit_code |-> code]]
  /\ Goto(h, "reply")

\* A step that does nothing but choose the answer.
Answer(h, ok, code) ==
  Respond(h, ok, code) /\ UNCHANGED <<daemon, table, locals, client, host>>

-----------------------------------------------------------------------------
(* The main thread: run_supervisor and the signal handler.                 *)

MainGoes(from, to) ==
  /\ main = from /\ main' = to
  /\ UNCHANGED <<supervisor_running, reaper, table, handlerVars, client, host>>

\* pthread_create fails for the reaper, and nobody looks at its result.
BootsWithoutReaper ==
  /\ "call" \in Disturbances
  /\ main = "boot" /\ main' = "accept"
  /\ reaper' = [reaper EXCEPT !.pc = "none"]
  /\ UNCHANGED <<supervisor_running, table, handlerVars, client, host>>

Boot ==
  \/ MainGoes("boot", "accept")
  \/ "call" \in Disturbances /\ MainGoes("boot", "exited")
  \/ BootsWithoutReaper

\* SIGINT or SIGTERM: supervisor_signal_handler.
ShutdownSignal ==
  /\ "shutdown" \in Disturbances
  /\ Up /\ supervisor_running
  /\ supervisor_running' = FALSE
  /\ UNCHANGED <<main, reaper, table, handlerVars, client, host>>

Accept(h, r) ==
  /\ main = "accept" /\ supervisor_running
  /\ pc[h] = "free"
  /\ Goto(h, "recv")
  /\ req' = [req EXCEPT ![h] = r]
  /\ client' = [client EXCEPT ![h] = "waiting"]
  /\ UNCHANGED <<daemon, table, idx, pid, resp, host>>

\* malloc or pthread_create failed: the connection is closed unanswered.
AcceptDrops(h) ==
  /\ "call" \in Disturbances
  /\ main = "accept" /\ supervisor_running
  /\ pc[h] = "free"
  /\ Goto(h, "done")
  /\ client' = [client EXCEPT ![h] = "dropped"]
  /\ UNCHANGED <<daemon, table, locals, resp, host>>

LeaveLoop == ~ supervisor_running /\ MainGoes("accept", "stop_all")

StopAllLive ==
  /\ main = "stop_all" /\ main' = "sleep"
  /\ containers' = [i \in Slots |->
                      [containers[i] EXCEPT !.stop_requested = @ \/ Live(i)]]
  /\ proc' = Signalled({containers[i].pid : i \in {j \in Slots : Live(j)}}, SIGTERM)
  /\ UNCHANGED <<supervisor_running, reaper, logger, handlerVars, client, monitored>>

\* log_buffer_shutdown and the join of the log consumer, which ends by itself
\* (LogPipeline!ShutdownEndsConsumer).
ShutdownLogging == MainGoes("sleep", "join_reaper")

JoinReaper == reaper.pc = "done" /\ MainGoes("join_reaper", "exited")

\* The join of a thread that was never created is undefined: here it returns, or
\* the process dies.  Whether there is a consumer shows nowhere but in its join.
JoinUndefined ==
  \/ "call" \in Disturbances /\ MainGoes("sleep", "dead")
  \/ reaper.pc = "none" /\ (MainGoes("join_reaper", "exited") \/ MainGoes("join_reaper", "dead"))

MainStep ==
  Boot \/ LeaveLoop \/ StopAllLive \/ ShutdownLogging \/ JoinReaper \/ JoinUndefined

-----------------------------------------------------------------------------
(* Handler threads: client_handler_main, receiving and answering.          *)

\* The client is interrupted while it waits for the answer.
ClientQuits(h) ==
  /\ "client" \in Disturbances
  /\ client[h] = "waiting"
  /\ client' = [client EXCEPT ![h] = "gone"]
  /\ UNCHANGED <<daemon, table, handlerVars, host>>

Dispatch(h) ==
  /\ At(h, "recv")
  /\ Step(h, IF req[h].type = "run" THEN "start" ELSE req[h].type)

\* The client closed its end before the whole request was there.
RecvFails(h) == At(h, "recv") /\ client[h] = "gone" /\ Step(h, "done")

Reply(h) ==
  /\ At(h, "reply") /\ client[h] = "waiting"
  /\ client' = [client EXCEPT ![h] = "answered"]
  /\ Goto(h, "done")
  /\ UNCHANGED <<daemon, table, locals, resp, host>>

\* send() to a closed peer raises SIGPIPE, which nobody catches or blocks:
\* the supervisor process dies.
ReplySigpipe(h) ==
  /\ At(h, "reply") /\ client[h] = "gone"
  /\ main' = "dead"
  /\ UNCHANGED <<supervisor_running, reaper, table, handlerVars, client, host>>

-----------------------------------------------------------------------------
(* Handler threads: start_container_internal.                              *)

\* Variant of Admissible with a bug: the ID is not looked up.
RootfsAdmissible(h) == UsesRootfs(req[h].rootfs) = {} /\ FreeSlots # {}

\* The name is new, no live container is on the rootfs, and there is a slot.
Admissible(h) ==
  /\ WithId(req[h].id) = {}
  /\ UsesRootfs(req[h].rootfs) = {}
  /\ FreeSlots # {}

StartRefused(h) == At(h, "start") /\ ~ Admissible(h) /\ Answer(h, FALSE, -1)

\* The slot's record for a new container.
Reserved(h) == [FreeSlot EXCEPT !.used = TRUE, !.id = req[h].id,
                                !.rootfs = req[h].rootfs, !.state = "STARTING"]

\* The first locked section: the checks and the reservation are one step.
ReserveSlot(h) ==
  /\ At(h, "start") /\ Admissible(h)
  /\ idx' = [idx EXCEPT ![h] = First(FreeSlots)]
  /\ containers' = [containers EXCEPT ![First(FreeSlots)] = Reserved(h)]
  /\ Goto(h, "spawn")
  /\ UNCHANGED <<daemon, logger, req, pid, resp, client, host>>

\* The start failed: the slot is given back.
ReleaseSlot(h) ==
  /\ containers' = [containers EXCEPT ![idx[h]].used = FALSE]
  /\ Respond(h, FALSE, -1)
  /\ UNCHANGED <<daemon, logger, locals, client, host>>

\* pipe, malloc or clone failed.
SpawnFails(h) == "call" \in Disturbances /\ At(h, "spawn") /\ ReleaseSlot(h)

FreshPid(p) ==
  \/ proc[p].st = "unborn"
  \/ "wrap" \in Disturbances /\ proc[p].st = "reaped"

\* clone(): from here on the child may run, die and be reaped.
Spawn(h) ==
  /\ At(h, "spawn")
  /\ \E p \in Pids :
       /\ FreshPid(p)
       /\ proc' = [proc EXCEPT ![p] = [NoProcess EXCEPT !.st = "setup",
                                         !.rootfs = req[h].rootfs]]
       /\ pid' = [pid EXCEPT ![h] = p]
  /\ Goto(h, "publish")
  /\ UNCHANGED <<daemon, table, req, idx, resp, client, monitored>>

\* Variant of ProducerArgFails with a bug: it comes after the publication.
ProducerArgFailsLate(h) ==
  /\ "call" \in Disturbances
  /\ At(h, "logger")
  /\ proc' = Signalled({pid[h]}, SIGKILL)
  /\ Goto(h, "abort")
  /\ UNCHANGED <<daemon, table, locals, resp, client, monitored>>

\* No memory for producer_arg_t: the child is killed and the slot given back.
ProducerArgFails(h) ==
  /\ "call" \in Disturbances
  /\ At(h, "publish")
  /\ proc' = Signalled({pid[h]}, SIGKILL)
  /\ Goto(h, "abort")
  /\ UNCHANGED <<daemon, table, locals, resp, client, monitored>>

AbortStart(h) == At(h, "abort") /\ ReleaseSlot(h)

\* The second locked section: only now can the reaper find the child's slot.
PublishPid(h) ==
  /\ At(h, "publish")
  /\ containers' = [containers EXCEPT ![idx[h]].pid = pid[h],
                                      ![idx[h]].state = "RUNNING"]
  /\ Goto(h, "logger")
  /\ UNCHANGED <<daemon, logger, locals, resp, client, host>>

\* The result of pthread_create is not looked at.
CreateProducer(h) ==
  /\ At(h, "logger")
  /\ \/ logger' = [logger EXCEPT ![idx[h]] = TRUE]
     \/ "call" \in Disturbances /\ UNCHANGED logger
  /\ Goto(h, "register")
  /\ UNCHANGED <<daemon, containers, locals, resp, client, host>>

\* A failed registration only prints a warning.
RegisterWithKernel(h) ==
  /\ At(h, "register")
  /\ \/ monitored' = monitored \cup {pid[h]}
     \/ "call" \in Disturbances /\ UNCHANGED monitored
  /\ IF req[h].type = "start"
     THEN Respond(h, TRUE, 0)
     ELSE Goto(h, "run_wait") /\ UNCHANGED resp
  /\ UNCHANGED <<daemon, table, locals, client, proc>>

-----------------------------------------------------------------------------
(* Handler threads: the wait of run, stop_container_by_id, ps and logs.    *)

\* Variant of Ended with a bug: the state is not looked at again after a wakeup.
EndedUnchecked(i) == TRUE

Ended(i) == containers[i].state \notin LiveStates

RunBlocks(h) == At(h, "run_wait") /\ ~ Ended(idx[h]) /\ Step(h, "blocked")

RunSpurious(h) == At(h, "blocked") /\ Step(h, "run_wait")

RunEnds(h) ==
  /\ At(h, "run_wait") /\ Ended(idx[h])
  /\ Answer(h, TRUE, containers[idx[h]].exit_code)

\* Variant of Stoppable with a bug: a container that has ended is marked too.
StoppableAny(h) == WithId(req[h].id)

\* The slot stop finds, if its container is live.
Stoppable(h) == {i \in WithId(req[h].id) : ~ Ended(i)}

StopRefused(h) == At(h, "stop") /\ Stoppable(h) = {} /\ Answer(h, FALSE, -1)

\* The locked section: the flag is set and the PID copied.
StopMarks(h) ==
  /\ At(h, "stop")
  /\ \E i \in Stoppable(h) :
       /\ containers' = [containers EXCEPT ![i].stop_requested = TRUE]
       /\ idx' = [idx EXCEPT ![h] = i]
       /\ pid' = [pid EXCEPT ![h] = containers[i].pid]
  /\ Goto(h, "kill")
  /\ UNCHANGED <<daemon, logger, req, resp, client, host>>

\* kill() after the unlock, with the PID read before it.
StopKills(h) ==
  /\ At(h, "kill")
  /\ proc' = Signalled({pid[h]}, SIGTERM)
  /\ IF \E p \in Targets(pid[h]) : Exists(p)
     THEN Respond(h, TRUE, 0)
     ELSE Respond(h, FALSE, -1)
  /\ UNCHANGED <<daemon, table, locals, client, monitored>>

PsReply(h) == At(h, "ps") /\ Answer(h, TRUE, 0)

\* The log file may not exist yet.
LogsReply(h) ==
  /\ At(h, "logs")
  /\ \/ WithId(req[h].id) # {} /\ Answer(h, TRUE, 0)
     \/ Answer(h, FALSE, -1)

UnknownReply(h) == At(h, "unknown") /\ Answer(h, FALSE, -1)

HandlerStep(h) ==
  \/ Dispatch(h) \/ RecvFails(h) \/ Reply(h) \/ ReplySigpipe(h)
  \/ StartRefused(h) \/ ReserveSlot(h) \/ SpawnFails(h) \/ Spawn(h)
  \/ ProducerArgFails(h) \/ AbortStart(h) \/ PublishPid(h) \/ CreateProducer(h)
  \/ RegisterWithKernel(h) \/ RunBlocks(h) \/ RunEnds(h)
  \/ StopRefused(h) \/ StopMarks(h) \/ StopKills(h)
  \/ PsReply(h) \/ LogsReply(h) \/ UnknownReply(h)

-----------------------------------------------------------------------------
(* The reaper thread: reaper_main.                                         *)

\* Variant of Zombie with a bug: the reaper waits for the PIDs of the table only.
KnownZombie(p) == proc[p].st = "zombie" /\ WithPid(p) # {}

\* A child waitpid(-1) returns.
Zombie(p) == proc[p].st = "zombie"

Reap(p) ==
  /\ Up /\ reaper.pc = "waitpid"
  /\ Zombie(p)
  /\ proc' = [proc EXCEPT ![p].st = "reaped"]
  /\ reaper' = [pc |-> "record", pid |-> p, status |-> proc[p].status]
  /\ UNCHANGED <<supervisor_running, main, table, handlerVars, client, monitored>>

\* Variant of FinalState with a bug: stop_requested counts only for exits.
FinalStateBySignal(status, stop_requested) ==
  IF status.kind = "signaled" THEN "KILLED"
  ELSE IF stop_requested THEN "STOPPED"
  ELSE "EXITED"

\* The final state of a container, from its wait status and the stop flag.
FinalState(status, stop_requested) ==
  IF stop_requested THEN "STOPPED"
  ELSE IF status.kind = "exited" THEN "EXITED"
  ELSE "KILLED"

\* Variants of ExitRecord with a bug: the slot is given back with the exit;
\* the exit code of a stopped container is not stored.
ExitRecordFreed(i) ==
  [containers[i] EXCEPT
     !.used = FALSE,
     !.state = FinalState(reaper.status, containers[i].stop_requested),
     !.exit_code = ExitCode(reaper.status)]

ExitRecordPartial(i) ==
  [containers[i] EXCEPT
     !.state = FinalState(reaper.status, containers[i].stop_requested),
     !.exit_code = IF containers[i].stop_requested THEN @
                                                   ELSE ExitCode(reaper.status)]

\* The record of a container that has ended.
ExitRecord(i) ==
  [containers[i] EXCEPT
     !.state = FinalState(reaper.status, containers[i].stop_requested),
     !.exit_code = ExitCode(reaper.status)]

\* Variant of WakeRunners with a bug: the broadcast is forgotten.
WakeNobody(i) == pc

\* pthread_cond_broadcast on the slot's state_cv.
WakeRunners(i) ==
  [h \in Handlers |->
     IF pc[h] = "blocked" /\ idx[h] = i THEN "run_wait" ELSE pc[h]]

\* The locked section for a child whose slot is found; a failed unregister
\* only prints a warning.
RecordExit ==
  /\ Up /\ reaper.pc = "record"
  /\ WithPid(reaper.pid) # {}
  /\ LET i == First(WithPid(reaper.pid)) IN
       /\ containers' = [containers EXCEPT ![i] = ExitRecord(i)]
       /\ pc' = WakeRunners(i)
  /\ \/ monitored' = monitored \ {reaper.pid}
     \/ "call" \in Disturbances /\ UNCHANGED monitored
  /\ reaper' = [reaper EXCEPT !.pc = "waitpid"]
  /\ UNCHANGED <<supervisor_running, main, logger, locals, resp, client, proc>>

\* A step of the reaper that touches nothing else.
ReaperGoes(from, to) ==
  /\ Up /\ reaper.pc = from
  /\ reaper' = [reaper EXCEPT !.pc = to]
  /\ UNCHANGED <<supervisor_running, main, table, handlerVars, client, host>>

\* No slot carries the PID: the status is forgotten.
RecordNothing == WithPid(reaper.pid) = {} /\ ReaperGoes("record", "waitpid")

\* Variant of NoChildren with a bug: the table is asked too.
NoChildrenNorLive == ~ \E p \in Pids, i \in Slots : Child(p) \/ Live(i)

\* waitpid(-1) fails with ECHILD.
NoChildren == ~ \E p \in Pids : Child(p)

\* ECHILD with supervisor_running still set only sleeps and tries again.
ReaperEnds == NoChildren /\ ~ supervisor_running /\ ReaperGoes("waitpid", "done")

ReaperStep == (\E p \in Pids : Reap(p)) \/ RecordExit \/ RecordNothing \/ ReaperEnds

-----------------------------------------------------------------------------
(* The container processes: child_main, then the container's own program,  *)
(* and the kernel's signals.                                               *)

Process(p, st, status) ==
  /\ proc' = [proc EXCEPT ![p].st = st, ![p].status = status]
  /\ UNCHANGED <<daemon, table, handlerVars, client, monitored>>

Dies(p, status) == Process(p, "zombie", status)

\* child_main reaches execl(): caught signals go back to their default.
Exec(p) == proc[p].st = "setup" /\ Process(p, "default", NoStatus)

SetupFails(p) == proc[p].st = "setup" /\ \E s \in SetupDeaths : Dies(p, s)

InstallsHandler(p) == proc[p].st = "default" /\ Process(p, "handler", NoStatus)

ExitsOnSigterm(p) ==
  proc[p].st = "handler" /\ SIGTERM \in proc[p].sig /\ Dies(p, Exited(0))

ExitsByItself(p) ==
  proc[p].st \in {"default", "handler"} /\ \E s \in OwnDeaths : Dies(p, s)

KilledBySigkill(p) ==
  AliveProc(p) /\ SIGKILL \in proc[p].sig /\ Dies(p, Signaled(SIGKILL))

\* Another process of the host gets a PID that wrapped around.
PidTaken(p) ==
  "wrap" \in Disturbances /\ proc[p].st = "reaped" /\ Process(p, "other", NoStatus)

ProcessStep(p) ==
  \/ Exec(p) \/ SetupFails(p) \/ InstallsHandler(p)
  \/ ExitsOnSigterm(p) \/ ExitsByItself(p) \/ KilledBySigkill(p) \/ PidTaken(p)

-----------------------------------------------------------------------------
(* The kernel monitor, as the supervisor may observe it (Runtime shows that *)
(* Monitor does nothing else), and the rest of the host.                   *)

\* SIGKILL reaches a process from outside the supervisor.
Sigkilled(p) ==
  /\ Delivered(p, SIGKILL)
  /\ proc' = Signalled({p}, SIGKILL)
  /\ UNCHANGED <<daemon, table, handlerVars, client, monitored>>

\* It finds a registered process over its hard limit.
HardLimitKill(p) ==
  /\ "limit" \in Disturbances
  /\ p \in monitored
  /\ Sigkilled(p)

\* The host's memory runs out, or an administrator uses kill -9.
HostKill(p) ==
  /\ "host" \in Disturbances
  /\ AliveProc(p) /\ SIGKILL \notin proc[p].sig
  /\ Sigkilled(p)

\* It finds a registered process gone, or a zombie.
StaleEntryRemoved(p) ==
  /\ p \in monitored
  /\ proc[p].st \in {"zombie", "reaped"}
  /\ monitored' = monitored \ {p}
  /\ UNCHANGED <<daemon, table, handlerVars, client, proc>>

\* The module is unloaded, and its list with it.
ListFreed ==
  /\ "unload" \in Disturbances
  /\ monitored' = {}
  /\ UNCHANGED <<daemon, table, handlerVars, client, proc>>

KernelStep ==
  ListFreed \/ \E p \in Pids : HardLimitKill(p) \/ HostKill(p) \/ StaleEntryRemoved(p)

-----------------------------------------------------------------------------

Next ==
  \/ MainStep \/ ShutdownSignal
  \/ \E h \in Handlers :
       \/ \E r \in Requests : Accept(h, r)
       \/ AcceptDrops(h) \/ ClientQuits(h) \/ HandlerStep(h) \/ RunSpurious(h)
  \/ ReaperStep
  \/ \E p \in Pids : ProcessStep(p)
  \/ KernelStep

Spec == Init /\ [][Next]_vars

\* The supervisor's threads are scheduled and SIGKILL is delivered; clients
\* and containers owe nothing.
Fairness ==
  /\ WF_vars(MainStep) /\ WF_vars(ReaperStep)
  /\ \A h \in Handlers : WF_vars(HandlerStep(h))
  /\ \A p \in Pids : WF_vars(KilledBySigkill(p))

FairSpec == Spec /\ Fairness

\* Containers that are as helpful as they can be: they get through their setup
\* and exit on a SIGTERM that reaches a handler.
HelpfulSpec ==
  FairSpec /\ \A p \in Pids : /\ WF_vars(Exec(p) \/ SetupFails(p))
                               /\ WF_vars(ExitsOnSigterm(p))

-----------------------------------------------------------------------------
(* Properties.                                                             *)

Labels ==
  {"free", "recv", "start", "spawn", "publish", "abort", "logger", "register",
   "run_wait", "blocked", "stop", "kill", "ps", "logs", "unknown", "reply", "done"}

\* Type invariant of the supervisor.
TypeOK ==
  /\ containers \in [Slots ->
       [used : BOOLEAN, id : Ids \cup {None}, rootfs : Rootfs \cup {None},
        pid : Pids \cup {NoPid}, state : LiveStates \cup DeadStates \cup {None},
        stop_requested : BOOLEAN, exit_code : Int]]
  /\ logger \in [Slots -> BOOLEAN]
  /\ supervisor_running \in BOOLEAN
  /\ main \in {"boot", "accept", "stop_all", "sleep", "join_reaper", "exited",
               "dead"}
  /\ reaper \in [pc : {"none", "waitpid", "record", "done"}, pid : Pids \cup {NoPid},
                 status : Statuses]
  /\ pc \in [Handlers -> Labels]
  /\ req \in [Handlers -> Requests \cup {None}]
  /\ idx \in [Handlers -> Slots \cup {-1}]
  /\ pid \in [Handlers -> Pids \cup {NoPid}]
  /\ resp \in [Handlers -> [ok : BOOLEAN, exit_code : Int]]
  /\ client \in [Handlers -> {"none", "waiting", "answered", "gone", "dropped"}]
  /\ proc \in [Pids ->
       [st : LivePhases \cup {"unborn", "zombie", "reaped", "other"},
        sig : SUBSET {SIGKILL, SIGTERM}, status : Statuses,
        rootfs : Rootfs \cup {None}]]
  /\ monitored \subseteq Pids

\* find_container_by_id_locked has at most one answer: concurrent starts, failed
\* ones included, never leave two used slots with one container ID.
UniqueIds ==
  \A i, j \in Slots :
    i # j /\ containers[i].used /\ containers[j].used
      => containers[i].id # containers[j].id

\* project-guide.md: no two live containers share a rootfs.  The table answers
\* for the processes: two container processes on one rootfs path are never
\* alive together, whatever starts, failures and exits race, unless SIGKILL
\* is already on its way to one of them (the path of a failed start).
RootfsExclusive ==
  \A p, q \in {x \in Pids : AliveProc(x) /\ SIGKILL \notin proc[x].sig} :
    p # q => proc[p].rootfs # proc[q].rootfs

\* What ps reports of an ended container is what became of its own process:
\* that process has been reaped, and state and exit code are those of its
\* status (reaper_main).
StatusAccurate ==
  \A i \in Slots : containers[i].used /\ containers[i].state \in DeadStates =>
    LET status == proc[containers[i].pid].status IN
      /\ proc[containers[i].pid].st = "reaped"
      /\ containers[i].exit_code = ExitCode(status)
      /\ containers[i].state = "EXITED" => status.kind = "exited"
      /\ containers[i].state = "KILLED" => status.kind = "signaled"

\* When run is answered its own container is dead and the answer is that
\* container's exit status, spurious wakeups of state_cv included.
RunReturnsExit ==
  \A h \in Handlers :
    (pc[h] \in {"reply", "done"} /\ resp[h].ok /\ req[h].type = "run") =>
      /\ proc[pid[h]].st = "reaped"
      /\ resp[h].exit_code = ExitCode(proc[pid[h]].status)

\* A stop that found its container running stays attributed to it: however
\* the container's death races with the signal, the container ends STOPPED
\* (stop_requested is set before kill and under the reaper's lock).
StopAttributed ==
  \A h \in Handlers :
    (req[h] # None /\ req[h].type = "stop" /\ pid[h] # NoPid) =>
      /\ containers[idx[h]].used
      /\ containers[idx[h]].pid = pid[h]
      /\ containers[idx[h]].state \in {"RUNNING", "STOPPED"}

\* A slot whose producer thread exists is never given back or renamed: the
\* log consumer, which looks the log file up by slot long after the container
\* printed, cannot write into another container's log.
ProducerSlotPinned ==
  [][\A i \in Slots : logger[i] =>
       /\ containers'[i].used
       /\ containers'[i].id = containers[i].id]_vars

\* The record of an ended container never changes again.
TerminalFinal ==
  [][\A i \in Slots :
       containers[i].used /\ containers[i].state \in DeadStates
         => containers'[i] = containers[i]]_vars

\* The supervisor runs and its reaper was created.
Reaping == Up /\ reaper.pc # "none"

\* Every child that dies is reaped, also one no slot knows of.
NoZombies ==
  \A p \in Pids : (proc[p].st = "zombie") ~> (proc[p].st = "reaped" \/ ~ Reaping)

Waits(h) == pc[h] \in {"run_wait", "blocked"}

\* A run whose container dies while the handler waits for it is answered:
\* the broadcast on state_cv reaches the waiting handler.
RunWakes ==
  \A h \in Handlers :
    (Waits(h) /\ proc[pid[h]].st = "zombie") ~> (pc[h] = "done" \/ ~ Reaping)

\* If every container process comes to an end, a shutdown signal ends the
\* supervisor: both joins of run_supervisor return.
ShutdownCompletes ==
  (<>(~ supervisor_running) /\ <>[](\A p \in Pids : ~ AliveProc(p))) => <>(~ Up)

\* project-guide.md: "`run` blocks until that container exits, then returns
\* the container exit status".
RunReturns ==
  \A h \in Handlers :
    (Waits(h) /\ ~ AliveProc(pid[h])) ~> (pc[h] = "done" \/ ~ Up)

\* README.md: stop is to "Gracefully stop a container": processes of the host
\* that are no containers are not signalled.
OnlyContainersSignalled == \A p \in OtherPids : proc[p].sig = {}

\* README.md: "All containers and supervisor processes exit cleanly", after
\* SIGINT or SIGTERM.
ShutdownTerminates == (~ supervisor_running) ~> (~ Up)

=============================================================================
