------------------------------- MODULE Monitor -------------------------------
(***************************************************************************)
(* The kernel memory monitor (monitor.c): the list of registered PIDs, the *)
(* ioctls that change it, the kernel thread that scans it once a second,   *)
(* and loading and unloading of the module.                                *)
(*                                                                         *)
(* The scan holds monitor_lock from its first entry to its last, so an     *)
(* ioctl is one action taken while the lock is free.  Within the scan each *)
(* look at a process is an action of its own: the process may grow, die,   *)
(* be reaped, or its PID be given to another process in between.           *)
(***************************************************************************)
EXTENDS Integers, Sequences, SequencesExt

CONSTANTS
  Pids,          \* host PIDs
  Requests,      \* registrations the engine may send, limits as int MiB
  RssLevels,     \* sizes a process may have, in fractions of a MiB
  UnitsPerMib,   \* those fractions in a MiB
  ULONG_BITS,    \* width of unsigned long
  Wrap,          \* whether a PID may be given out again
  CallsMayFail   \* whether kmalloc and kthread_run may fail

ASSUME PidsAssumption     == Pids \subseteq Nat \ {0}
ASSUME RequestsAssumption ==
  Requests \subseteq [pid : Pids \cup {0}, soft_mib : Int, hard_mib : Int]
ASSUME RssAssumption      == 0 \in RssLevels /\ RssLevels \subseteq Nat
ASSUME UnitsAssumption    == UnitsPerMib \in Nat \ {0} /\ ULONG_BITS \in Nat \ {0}
\* Arithmetic of ^, which the provers do not know.
ASSUME WidthAssumption    == 2 ^ ULONG_BITS \in Nat \ {0}
ASSUME BooleanAssumption  == {Wrap, CallsMayFail} \subseteq BOOLEAN

VARIABLES
  module,        \* progress of monitor_init and monitor_exit
  monitor_list,  \* the list of struct monitor_entry
  thread,        \* state of monitor_thread_fn
  cursor,        \* the list position the scan has reached
  rss_mib,       \* local of the scan
  should_stop,   \* kthread_should_stop()
  ret,           \* result of the latest ioctl
  proc,          \* the processes: [st, rss, killed]
  \* History, for the properties only.
  peak,          \* the largest size of a process so far
  warnings,      \* soft-limit warnings since the PID's registration
  visited,       \* PIDs this pass of the scan has looked at
  victims        \* PIDs and hard limits of the kills so far

scan    == <<thread, cursor, rss_mib, visited>>
history == <<peak, warnings, victims>>
vars    == <<module, monitor_list, scan, should_stop, ret, proc, history>>

\* Variant of ULong with a bug: a negative limit stays negative.
SignedLimit(n) == n

\* The engine's int limits become unsigned long in monitor_request_t.
ULong(n) == n % 2 ^ ULONG_BITS

\* get_mm_rss() * PAGE_SIZE / (1024 * 1024)
RssMib(p) == proc[p].rss \div UnitsPerMib

Locked == thread \in {"exists", "rss", "judge", "kill"}

\* Variant of Registered with a bug: the PID is not found.
NeverRegistered(p) == FALSE

Registered(p) == \E i \in DOMAIN monitor_list : monitor_list[i].pid = p

Position(p) == CHOOSE i \in DOMAIN monitor_list : monitor_list[i].pid = p

Init ==
  /\ module = "unloaded"
  /\ monitor_list = <<>>
  /\ thread = "none" /\ cursor = 1 /\ rss_mib = 0 /\ visited = {}
  /\ should_stop = FALSE
  /\ ret = "none"
  /\ proc = [p \in Pids |-> [st |-> "unborn", rss |-> 0, killed |-> FALSE]]
  /\ peak = [p \in Pids |-> 0]
  /\ warnings = [p \in Pids |-> 0]
  /\ victims = {}

-----------------------------------------------------------------------------
(* monitor_init and monitor_exit.  A failure before device_create undoes   *)
(* what was done and changes nothing here.                                 *)

\* From device_create on, the device can be opened.
CreateDevice ==
  /\ module = "unloaded" /\ module' = "device"
  /\ UNCHANGED <<monitor_list, scan, should_stop, ret, proc, history>>

RunThread ==
  /\ module = "device" /\ module' = "loaded"
  /\ thread' = "top"
  /\ should_stop' = FALSE
  /\ UNCHANGED <<monitor_list, cursor, rss_mib, visited, ret, proc, history>>

\* The module's memory goes, and with it the only way to its entries.
Vanish ==
  /\ module' = "unloaded"
  /\ monitor_list' = <<>>
  /\ UNCHANGED <<scan, should_stop, ret, proc, history>>

\* kthread_run failed: device, class and region are undone, the list is not.
ThreadFails == CallsMayFail /\ module = "device" /\ Vanish

\* rmmod waits for open files, and none is opened any more.
ExitBegins ==
  /\ module = "loaded" /\ module' = "stopping"
  /\ should_stop' = TRUE
  /\ UNCHANGED <<monitor_list, scan, ret, proc, history>>

\* kthread_stop has returned.
ExitFreesList ==
  /\ module = "stopping" /\ module' = "freed"
  /\ thread = "done"
  /\ monitor_list' = <<>>
  /\ UNCHANGED <<scan, should_stop, ret, proc, history>>

ExitEnds == module = "freed" /\ Vanish

-----------------------------------------------------------------------------
(* monitor_ioctl, with the conversion of the engine's limits on the way.   *)

Open == module \in {"device", "loaded"}

\* Variant of NewEntry with a bug: the limits are taken for GiB.
NewEntryInGib(r) == [pid |-> r.pid, soft_limit |-> ULong(r.soft_mib * 1024),
                     hard_limit |-> ULong(r.hard_mib * 1024), soft_warned |-> FALSE]

NewEntry(r) == [pid |-> r.pid, soft_limit |-> ULong(r.soft_mib),
                hard_limit |-> ULong(r.hard_mib), soft_warned |-> FALSE]

RegisterRefused(r) ==
  /\ Open
  /\ r.pid <= 0 \/ ULong(r.hard_mib) = 0
  /\ ret' = "EINVAL"
  /\ UNCHANGED <<module, monitor_list, scan, should_stop, proc, history>>

\* The engine registers the PIDs its clone() returned.
Registers(r) ==
  /\ Open /\ ~ Locked
  /\ r.pid > 0 /\ ULong(r.hard_mib) # 0
  /\ proc[r.pid].st # "unborn"

\* The list changes to L; the history of the PID's warnings starts over.
Enters(r, L) ==
  /\ monitor_list' = L
  /\ ret' = "0"
  /\ warnings' = [warnings EXCEPT ![r.pid] = 0]
  /\ UNCHANGED <<module, scan, should_stop, proc, peak, victims>>

RegisterUpdates(r) ==
  /\ Registers(r) /\ Registered(r.pid)
  /\ Enters(r, [monitor_list EXCEPT ![Position(r.pid)] = NewEntry(r)])

RegisterAdds(r) ==
  /\ Registers(r) /\ ~ Registered(r.pid)
  /\ Enters(r, Append(monitor_list, NewEntry(r)))

RegisterNoMemory(r) ==
  /\ CallsMayFail
  /\ Registers(r) /\ ~ Registered(r.pid)
  /\ ret' = "ENOMEM"
  /\ UNCHANGED <<module, monitor_list, scan, should_stop, proc, history>>

Register(r) ==
  RegisterRefused(r) \/ RegisterUpdates(r) \/ RegisterAdds(r) \/ RegisterNoMemory(r)

Unregister(p) ==
  /\ Open /\ ~ Locked
  /\ IF Registered(p)
     THEN monitor_list' = RemoveAt(monitor_list, Position(p)) /\ ret' = "0"
     ELSE UNCHANGED monitor_list /\ ret' = "ENOENT"
  /\ UNCHANGED <<module, scan, should_stop, proc, history>>

-----------------------------------------------------------------------------
(* monitor_thread_fn.                                                      *)

Current == monitor_list[cursor]

\* A step of the thread that moves nothing else.
ThreadGoes(from, to) ==
  /\ thread = from /\ thread' = to
  /\ UNCHANGED <<module, monitor_list, cursor, rss_mib, visited, should_stop, ret,
                 proc, history>>

\* Variant of StopSeen with a bug: the thread stays while PIDs are listed.
StopSeenWhenIdle == should_stop /\ monitor_list = <<>>

StopSeen == should_stop

ThreadEnds == StopSeen /\ ThreadGoes("top", "done")

ScanBegins ==
  /\ thread = "top" /\ thread' = "exists"
  /\ ~ StopSeen
  /\ cursor' = 1
  /\ visited' = {}
  /\ UNCHANGED <<module, monitor_list, rss_mib, should_stop, ret, proc, history>>

ScanEnds == cursor > Len(monitor_list) /\ ThreadGoes("exists", "sleep")

Wakes == ThreadGoes("sleep", "top")

\* Variants of RemoveCurrent with a bug: the iteration moves on from the entry
\* behind the deleted one; the entry is passed over and stays.
RemoveCurrentAndSkip ==
  /\ monitor_list' = RemoveAt(monitor_list, cursor)
  /\ cursor' = cursor + 1
  /\ thread' = "exists"

RemoveForgotten ==
  /\ monitor_list' = monitor_list
  /\ cursor' = cursor + 1
  /\ thread' = "exists"

\* list_del in list_for_each_entry_safe: the next entry moves up.
RemoveCurrent ==
  /\ monitor_list' = RemoveAt(monitor_list, cursor)
  /\ cursor' = cursor
  /\ thread' = "exists"

CheckExists ==
  /\ thread = "exists"
  /\ cursor <= Len(monitor_list)
  /\ visited' = visited \cup {Current.pid}
  /\ IF proc[Current.pid].st = "gone"
     THEN RemoveCurrent
     ELSE thread' = "rss" /\ UNCHANGED <<monitor_list, cursor>>
  /\ UNCHANGED <<module, rss_mib, should_stop, ret, proc, history>>

\* A process that is gone by now, or a zombie, has no mm.
HasMm(p) == proc[p].st = "alive"

ReadRss ==
  /\ thread = "rss"
  /\ IF HasMm(Current.pid)
     THEN /\ rss_mib' = RssMib(Current.pid)
          /\ thread' = "judge"
          /\ UNCHANGED <<monitor_list, cursor>>
     ELSE RemoveCurrent /\ UNCHANGED rss_mib
  /\ UNCHANGED <<module, visited, should_stop, ret, proc, history>>

\* Variants of OverHard with a bug: the limit itself is too much; a process
\* warned before is left alone.
OverHardInclusive == rss_mib >= Current.hard_limit
OverHardUnwarned  == rss_mib > Current.hard_limit /\ ~ Current.soft_warned

OverHard == rss_mib > Current.hard_limit

\* Variants of OverSoft with a bug: the flag is not looked at; a process over
\* its hard limit is not warned of.
OverSoftAlways  == rss_mib > Current.soft_limit
OverSoftOneTier == ~ Current.soft_warned /\ rss_mib > Current.soft_limit /\ ~ OverHard

OverSoft == ~ Current.soft_warned /\ rss_mib > Current.soft_limit

\* The soft limit, then the hard limit.
Judge ==
  /\ thread = "judge"
  /\ IF OverSoft
     THEN /\ monitor_list' = [monitor_list EXCEPT ![cursor].soft_warned = TRUE]
          /\ warnings' = [warnings EXCEPT ![Current.pid] = @ + 1]
     ELSE UNCHANGED <<monitor_list, warnings>>
  /\ IF OverHard
     THEN thread' = "kill" /\ UNCHANGED cursor
     ELSE thread' = "exists" /\ cursor' = cursor + 1
  /\ UNCHANGED <<module, rss_mib, visited, should_stop, ret, proc, peak,
                 victims>>

\* kill_process_by_pid; the entry stays.
SendSigkill ==
  /\ thread = "kill"
  /\ IF proc[Current.pid].st = "alive"
     THEN /\ proc' = [proc EXCEPT ![Current.pid].killed = TRUE]
          /\ victims' = victims \cup {[pid |-> Current.pid,
                                       hard_limit |-> Current.hard_limit]}
     ELSE UNCHANGED <<proc, victims>>
  /\ thread' = "exists"
  /\ cursor' = cursor + 1
  /\ UNCHANGED <<module, monitor_list, rss_mib, visited, should_stop, ret, peak,
                 warnings>>

ThreadStep ==
  \/ ThreadEnds \/ ScanBegins \/ ScanEnds \/ Wakes
  \/ CheckExists \/ ReadRss \/ Judge \/ SendSigkill

-----------------------------------------------------------------------------
(* The processes of the host.                                              *)

environment == <<module, monitor_list, scan, should_stop, ret>>

Birth(p) ==
  /\ proc[p].st = "unborn" \/ (Wrap /\ proc[p].st = "gone")
  /\ proc' = [proc EXCEPT ![p] = [st |-> "alive", rss |-> 0, killed |-> FALSE]]
  /\ peak' = [peak EXCEPT ![p] = 0]
  /\ victims' = {v \in victims : v.pid # p}
  /\ UNCHANGED <<environment, warnings>>

Resize(p) ==
  /\ proc[p].st = "alive"
  /\ \E r \in RssLevels \ {proc[p].rss} :
       /\ proc' = [proc EXCEPT ![p].rss = r]
       /\ peak' = [peak EXCEPT ![p] = IF r > @ THEN r ELSE @]
  /\ UNCHANGED <<environment, warnings, victims>>

Phase(p, from, to) ==
  /\ proc[p].st = from
  /\ proc' = [proc EXCEPT ![p].st = to, ![p].rss = 0]
  /\ UNCHANGED <<environment, history>>

Exits(p) == Phase(p, "alive", "zombie")

Reaped(p) == Phase(p, "zombie", "gone")

-----------------------------------------------------------------------------

InitStep == RunThread \/ ThreadFails
ExitStep == ExitFreesList \/ ExitEnds

Next ==
  \/ CreateDevice \/ InitStep \/ ExitBegins \/ ExitStep
  \/ \E r \in Requests : Register(r)
  \/ \E p \in Pids : Unregister(p)
  \/ ThreadStep
  \/ \E p \in Pids : Birth(p) \/ Resize(p) \/ Exits(p) \/ Reaped(p)

Spec == Init /\ [][Next]_vars

\* The kernel schedules the thread and finishes loading and unloading.
Fairness == WF_vars(ThreadStep) /\ WF_vars(InitStep) /\ WF_vars(ExitStep)

FairSpec == Spec /\ Fairness

-----------------------------------------------------------------------------
(* Properties.                                                             *)

ULongs == 0 .. 2 ^ ULONG_BITS - 1

\* Type invariant of the monitor.
TypeOK ==
  /\ module \in {"unloaded", "device", "loaded", "stopping", "freed"}
  /\ monitor_list \in Seq([pid : Pids, soft_limit : ULongs, hard_limit : ULongs,
                           soft_warned : BOOLEAN])
  /\ thread \in {"none", "top", "exists", "rss", "judge", "kill", "sleep", "done"}
  /\ cursor \in 1 .. Len(monitor_list) + 1 \/ ~ Locked
  /\ rss_mib \in Nat
  /\ should_stop \in BOOLEAN
  /\ ret \in {"none", "0", "EINVAL", "ENOMEM", "ENOENT"}
  /\ proc \in [Pids -> [st : {"unborn", "alive", "zombie", "gone"},
                        rss : RssLevels, killed : BOOLEAN]]
  /\ peak \in [Pids -> RssLevels]
  /\ warnings \in [Pids -> Nat]
  /\ visited \subseteq Pids
  /\ victims \subseteq [pid : Pids, hard_limit : ULongs]

\* A PID has one entry, however registrations repeat and PIDs come back: the
\* limits that unregistering or updating changes are the only ones in force.
OneEntryPerPid ==
  \A i, j \in DOMAIN monitor_list :
    i # j => monitor_list[i].pid # monitor_list[j].pid

\* The soft limit warns once per registration, also when the process shrinks
\* and grows again between scans.
WarnedOnce == \A p \in Pids : warnings[p] <= 1

\* A pass that deletes entries while it walks the list still looks at every
\* entry of the list.
PassVisitsAll ==
  thread = "exists" /\ cursor > Len(monitor_list) =>
    \A i \in DOMAIN monitor_list : monitor_list[i].pid \in visited

\* Whoever is about to be killed has been warned of, if the soft limit is not
\* above the hard limit (README.md: "enforces two-tier limits").
TwoTiers ==
  thread = "kill" /\ Current.soft_limit <= Current.hard_limit
    => warnings[Current.pid] = 1

\* Only a process that really exceeded its hard limit by a whole MiB, the
\* resolution of the check, is killed.
KillJustified ==
  \A v \in victims : peak[v.pid] >= (v.hard_limit + 1) * UnitsPerMib

OverLimit(p) ==
  /\ module = "loaded"
  /\ proc[p].st = "alive"
  /\ \E i \in DOMAIN monitor_list :
       monitor_list[i].pid = p /\ RssMib(p) > monitor_list[i].hard_limit

\* A registered process that stays over its hard limit is killed.
OverLimitKilled ==
  \A p \in Pids : <>[] OverLimit(p) => <>(proc[p].killed)

\* monitor_exit returns although the thread is in the middle of a scan.
UnloadCompletes == (module = "stopping") ~> (module = "unloaded")

=============================================================================
