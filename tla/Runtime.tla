------------------------------ MODULE Runtime ------------------------------
(***************************************************************************)
(* Supervisor and kernel monitor together.  They share the processes and   *)
(* meet in two ioctls: start_container_internal registers the child,       *)
(* reaper_main unregisters it; the monitor's SIGKILL comes back to the     *)
(* supervisor as a wait status.                                            *)
(*                                                                         *)
(* Each component is its own module, instantiated: Supervisor sees the     *)
(* monitor's list as a set of PIDs, Monitor sees a process as alive, zombie *)
(* or gone.  What each module assumes of the other one is thereby checked. *)
(* SIGKILL has three senders: the monitor, the host, and the supervisor,   *)
(* which kills the child of a start that fails after its clone.            *)
(***************************************************************************)
EXTENDS Integers, Sequences, FiniteSets

CONSTANTS
  MAX_CONTAINERS, Ids, Rootfs, Requests, Handlers, Pids, NoPid, None,
  Disturbances,             \* as in Supervisor
  RssLevels, UnitsPerMib,   \* as in Monitor
  Soft, Hard                \* the limits of every container, in MiB

\* What Supervisor and Monitor assume of their constants, but for PIDs that are
\* given out again.
ASSUME SupervisorAssumption ==
  /\ MAX_CONTAINERS \in Nat \ {0}
  /\ Pids \subseteq Nat \ {0} /\ NoPid \notin Pids
  /\ Requests \subseteq [type : {"start", "run", "stop", "ps", "logs", "unknown"},
                          id : Ids, rootfs : Rootfs]
  /\ Disturbances \subseteq {"call", "shutdown", "unload", "host"}

ASSUME MonitorAssumption ==
  /\ 0 \in RssLevels /\ RssLevels \subseteq Nat
  /\ UnitsPerMib \in Nat \ {0}
  /\ Soft \in Int /\ Hard \in Int

VARIABLES
  containers, logger, supervisor_running, main, reaper,       \* Supervisor
  pc, req, idx, pid, resp, client, proc,
  module, monitor_list, thread, cursor, rss_mib, should_stop, \* Monitor
  ret, peak, warnings, visited, victims,
  rss,                                                        \* size of a process
  host_victims                                                \* whom the host has killed

supervisorVars == <<containers, logger, supervisor_running, main, reaper, pc, req,
                    idx, pid, resp, client>>
listVars       == <<module, monitor_list, thread, cursor, rss_mib, visited,
                    should_stop, ret, warnings>>
vars           == <<supervisorVars, proc, listVars, peak, victims, rss, host_victims>>

monitored == {monitor_list[i].pid : i \in DOMAIN monitor_list}

Sup == INSTANCE Supervisor WITH OtherPids <- {}

\* What Supervisor expects of its environment: the module may be missing, kill
\* and be unloaded.
View == INSTANCE Supervisor WITH
  OtherPids <- {}, Disturbances <- Disturbances \cup {"call", "limit", "unload"}

Phase(p) == IF Sup!AliveProc(p) THEN "alive"
            ELSE IF proc[p].st = "reaped" THEN "gone" ELSE proc[p].st

\* The processes as Monitor sees them.
processes == [p \in Pids |-> [st |-> Phase(p), rss |-> rss[p],
                              killed |-> \E v \in victims : v.pid = p]]

Mon == INSTANCE Monitor WITH
  proc <- processes,
  Requests <- [pid : Pids, soft_mib : {Soft}, hard_mib : {Hard}],
  ULONG_BITS <- 16, Wrap <- FALSE, CallsMayFail <- "call" \in Disturbances

\* The module is loaded before the supervisor starts.
Init ==
  /\ module = "loaded" /\ thread = "top" /\ cursor = 1 /\ rss_mib = 0
  /\ should_stop = FALSE /\ ret = "none" /\ monitor_list = <<>>
  /\ peak = [p \in Pids |-> 0] /\ warnings = [p \in Pids |-> 0]
  /\ visited = {} /\ victims = {}
  /\ rss = [p \in Pids |-> 0]
  /\ host_victims = {}
  /\ Sup!Init

-----------------------------------------------------------------------------
(* Where the two meet.  Every step of the monitor happens as Monitor says, *)
(* every step of the supervisor as Supervisor says.                        *)

processVars == <<proc, rss, peak, victims, host_victims>>

\* Variant of RequestOf with a bug: the limits are swapped.
RequestSwapped(h) == [pid |-> pid[h], soft_mib |-> Hard, hard_mib |-> Soft]

RequestOf(h) == [pid |-> pid[h], soft_mib |-> Soft, hard_mib |-> Hard]

\* register_container_with_kernel; there may be no device to open.
Register(h) ==
  /\ pc[h] = "register"
  /\ UNCHANGED processVars
  /\ \/ Mon!Register(RequestOf(h))
     \/ ~ Mon!Open /\ UNCHANGED listVars
  /\ View!RegisterWithKernel(h)

\* unregister_container_from_kernel, called by the reaper under its lock.
RecordExit ==
  /\ reaper.pc = "record"
  /\ UNCHANGED processVars
  /\ \/ Mon!Unregister(reaper.pid)
     \/ ~ Mon!Open /\ UNCHANGED listVars
  /\ View!RecordExit

Victim(p) == \E v \in victims : v.pid = p

\* Variant of KillSignal with a bug: the process is asked, not killed.
KillSignalTerm == Sup!SIGTERM

KillSignal == Sup!SIGKILL

\* The kernel thread sends SIGKILL to a process of the supervisor's.
Kill ==
  /\ thread = "kill"
  /\ LET e == Mon!Current IN
       IF Sup!AliveProc(e.pid)
       THEN /\ proc' = Sup!Signalled({e.pid}, KillSignal)
            /\ victims' = victims \cup {[pid |-> e.pid, hard_limit |-> e.hard_limit]}
       ELSE UNCHANGED <<proc, victims>>
  /\ UNCHANGED <<supervisorVars, rss, host_victims>>
  /\ Mon!SendSigkill

-----------------------------------------------------------------------------
(* What each of them does alone.                                           *)

Scan ==
  /\ thread # "kill"
  /\ UNCHANGED <<supervisorVars, processVars>>
  /\ Mon!ThreadStep

Unload ==
  /\ "unload" \in Disturbances
  /\ UNCHANGED <<supervisorVars, processVars>>
  /\ Mon!ExitBegins

UnloadStep == UNCHANGED <<supervisorVars, processVars>> /\ Mon!ExitStep

MonitorStep == Scan \/ Kill \/ UnloadStep

Alone(A) == UNCHANGED <<listVars, rss, peak, victims, host_victims>> /\ A

Handle(h) == pc[h] # "register" /\ Alone(Sup!HandlerStep(h))

Arrive(h) ==
  Alone(Sup!RunSpurious(h) \/ \E r \in Requests : Sup!Accept(h, r))

MainStep == Alone(Sup!MainStep)
Signal   == Alone(Sup!ShutdownSignal)

Reap == Alone(Sup!RecordNothing \/ Sup!ReaperEnds \/ \E p \in Pids : Sup!Reap(p))

ProcessStep(p) ==
  /\ UNCHANGED <<listVars, peak, victims, host_victims>>
  /\ Sup!ProcessStep(p)
  /\ rss' = [rss EXCEPT ![p] = IF proc'[p].st \in Sup!LivePhases THEN @ ELSE 0]

\* The OOM killer or kill -9; neither the supervisor nor the monitor is told.
HostKill(p) ==
  /\ UNCHANGED <<listVars, rss, peak, victims>>
  /\ Sup!HostKill(p)
  /\ host_victims' = host_victims \cup {p}

Resize(p) ==
  /\ UNCHANGED <<supervisorVars, proc, listVars, victims, host_victims>>
  /\ \E r \in RssLevels : rss' = [rss EXCEPT ![p] = r]
  /\ Mon!Resize(p)

Next ==
  \/ MainStep \/ Signal \/ Reap \/ RecordExit
  \/ \E h \in Handlers : Register(h) \/ Handle(h) \/ Arrive(h)
  \/ MonitorStep \/ Unload
  \/ \E p \in Pids : ProcessStep(p) \/ HostKill(p) \/ Resize(p)

\* Threads are scheduled, a waiter gets monitor_lock in its turn, and SIGKILL
\* is delivered.
Fairness ==
  /\ WF_vars(MainStep) /\ WF_vars(MonitorStep) /\ WF_vars(Reap) /\ SF_vars(RecordExit)
  /\ \A h \in Handlers : WF_vars(Handle(h)) /\ SF_vars(Register(h))
  /\ \A p \in Pids : WF_vars(Alone(Sup!KilledBySigkill(p)))

Spec == Init /\ [][Next]_vars /\ Fairness

-----------------------------------------------------------------------------
(* Properties.                                                             *)

\* The supervisor never sees the monitor do what its own model of the monitor
\* leaves out: the composition implements Supervisor.
SupervisorImplemented == View!Spec

\* The supervisor and its containers never do to the monitor what Monitor
\* leaves out, such as registering a PID that is not there yet.
MonitorImplemented == [][Mon!Next]_(Mon!vars)

\* ps says "killed, exit 137" of a container only if somebody outside the
\* supervisor killed it, the monitor or the host: the SIGKILL the supervisor
\* itself sends, to the child of a start that fails after its clone, is never
\* recorded as a container's death.  (reaper_main derives state and exit code
\* from the wait status alone and does not know the sender.)
KilledFromOutside ==
  \A i \in Sup!Slots :
    (containers[i].used /\ containers[i].state = "KILLED" /\ containers[i].exit_code = 137)
      => Victim(containers[i].pid) \/ containers[i].pid \in host_victims

\* A container the monitor has killed is never left RUNNING in the table: a
\* registered child is always one the reaper can find.
KillRecorded ==
  \A p \in Pids :
    Victim(p) ~> (~ Sup!Reaping \/ \E i \in Sup!WithPid(p) : Sup!Ended(i))

\* A container that stays over its hard limit is killed, however its start, its
\* registration and the scan interleave, unless kmalloc had no memory for its
\* entry.
LimitEnforced ==
  \A p \in Pids :
    <>[](Sup!Up /\ Sup!AliveProc(p) /\ module = "loaded" /\ rss[p] \div UnitsPerMib > Hard)
      => <>(Victim(p) \/ ret = "ENOMEM")

\* The monitor forgets a reaped container, also one that was registered only
\* after the reaper had unregistered it.
EntryForgotten == \A p \in Pids : (proc[p].st = "reaped") ~> (p \notin monitored)

=============================================================================
