# Verification of the OS-Jackfruit container runtime

OS-Jackfruit is a small container runtime: a supervisor process (`engine.c`)
that starts, runs, stops and lists containers on behalf of command line
clients, collects their output through a bounded buffer into log files, and a
kernel module (`monitor.c`) that watches their memory. This directory holds TLA+
models of it, TLC configurations that check the models on small instances, and
proofs checked by TLAPS. Lines are those of the files under `src/`;
`PROJECT.json` maps each definition to the lines it models.

## 1. Inventory

| Component | State it keeps | Operations | Module |
|---|---|---|---|
| Logging pipeline (`engine.c` 85-100, 226-281, 321-386) | `log_buffer_t`: ring, head, tail, count, shutdown flag, two condition variables; a pipe per container | push, pop, shutdown, producer and consumer loops | `LogPipeline`; its promise in `LogQueue` |
| Supervisor (`engine.c` 436-921) | `containers[]` under `containers_mutex`, `supervisor_running`, one handler thread per connection, reaper, main thread | start, run, stop, ps, logs; reap; boot and shutdown | `Supervisor` |
| Container processes (`child_main`, 388-433) | set-up phase, pending signals, exit status | setup, `execl`, exit, death by signal | `Supervisor` |
| Kernel monitor (`monitor.c`) | `monitor_list` under `monitor_lock`, the scan thread | register, unregister, scan, load, unload | `Monitor`; inside `Supervisor` a set of PIDs; composed with it in `Runtime` |
| Control socket (`engine.c` 740-747, 835-921) | the socket file, the listening descriptor, the backlog, one connection per request | unlink, bind, listen, accept, close on a signal, remove | `ControlSocket` |
| Command line client (`engine.c` 923-1084) | its request and the answer | parse, connect, send, receive, exit status | `CommandLine`, `ControlSocket` |
| Workloads (`cpu_hog.c`, `memory_hog.c`, `io_pulse.c`) | none shared | print, allocate, compute | not modelled: they are the arbitrary programs of the models |
| `boilerplate/`, `Makefile` | | | not modelled: skeleton and build rules |

How they interact. A handler thread reserves a slot under the table's lock, then
without it makes a pipe, clones the child and closes its copy of the write end,
then takes the lock again to store the PID, creates the producer thread and
registers the PID with the kernel by `ioctl`. The reaper waits for any child and
looks for its PID in the table; it broadcasts the slot's condition variable, on
which `run` waits, and unregisters the PID. The kernel thread kills by PID
number. The consumer finds the log file by slot index. On SIGINT or SIGTERM the
main thread sends SIGTERM to the live containers, shuts the buffer down, and
joins the consumer and the reaper. The socket file is removed before every bind
and at the end. A clone copies every descriptor the supervisor has open, the
listening socket and other clients' connections included.

What is hard. Several threads and processes interleave at every unlock: the
child may be dead and reaped before its PID is in the table; a stop acts on a
PID it copied before the unlock; a container cloned during another start
inherits that start's pipe; producers and the consumer sleep and are woken one
at a time; the shutdown may strike anywhere, between a test and the call it
guards too; every system call can fail; a supervisor can die and leave its socket
file and its containers; the kernel module can be unloaded at any time; PID
numbers are given out again. `PROJECT.json` lists these hazards line by line
with the properties aimed at them.

What makes a component correct. Pipeline: chunks arrive once and in order, none
is lost unaccounted, nobody sleeps for ever. Supervisor: IDs and rootfs paths
are exclusive, what `ps` and `run` report is what happened, a stop is
attributed to its container, children are reaped, the shutdown ends. Monitor:
one entry per PID, a scan skips nothing, only a process over its limit is
killed and it is warned of first. Both together: whoever outgrows its limit is
killed and its record ended, the supervisor's own kills are not taken for a
container's death, and no entry outlives its process for good. Socket and
client: a restart works, no signal is lost, clients return and report what
happened.

## 2. Modules

### LogPipeline

One action is one section of code under `buf->mutex`, or one system call.
`pthread_cond_wait` parks a thread in the state `wait`; a signal wakes one
waiting producer (any), a broadcast all, and a spurious wakeup is always
possible. A chunk, the result of one `read`, is known by its container and its
number; its bytes are not modelled. `holders[c]` is the set of container
processes that hold the write end of c's pipe: `CloneChild` copies every write
end the supervisor has open, because `pipe` is called without `O_CLOEXEC`.
`lost` is a history variable: what was discarded on the two paths that discard
(a push refused after the shutdown, a log file that cannot be opened).

`LogQueue` is the abstract specification: a bounded FIFO queue that accepts
entries until it is closed and is drained before its reader finishes. The
mapping reads the queue off the ring (`count` cells from `head` on); blocking,
wakeups, pipes and files are stuttering steps of it (`RingIsQueue`).

| Action | Code |
|---|---|
| `OpenPipe`, `CloneChild`, `CloneFails`, `CloseWriteEnd`, `StartProducer`, `NoProducer` | `start_container_internal` 481-560 |
| `ProducerRead`, `ProducerEof` | `log_producer_main` |
| `PushBlocks`, `Push`, `PushRefused`, `PushSpurious` | `log_buffer_push` |
| `PopBlocks`, `Pop`, `PopEnds`, `PopSpurious` | `log_buffer_pop` |
| `WriteLog`, `OpenLogFails` | `log_consumer_main` |
| `LogBufferShutdown` | `log_buffer_shutdown` |
| `Emit`, `ContainerExit` | the container (environment) |

### Supervisor

One action is one section under `containers_mutex`, or one system call outside
it. A handler thread has a program counter `pc` and its locals `req`, `idx`,
`pid`, `resp`. `ReserveSlot` is the first locked section of a start,
`SpawnFails`/`Spawn` the pipe, malloc and clone, `PublishPid` the second locked
section, `CreateProducer` and `RegisterWithKernel` the rest. `StopMarks` is the
locked section of a stop and `StopKills` the `kill` after it. `Reap` is
`waitpid`, `RecordExit`/`RecordNothing` the locked section and the unregister
that follow. The main thread goes through `Boot`, `Accept`, `LeaveLoop`,
`StopAllLive`, `ShutdownLogging`, `JoinReaper`. Nobody looks at the results of the
two `pthread_create` calls of `run_supervisor`: the supervisor may run without its
reaper (`BootsWithoutReaper`), and the join of a thread that was never created is
undefined (`JoinUndefined`: it returns, or the process dies). A missing consumer
shows here only in its join.

Processes are modelled from how Linux treats them: a container is the init of its
own PID namespace, so a SIGTERM from outside has an effect only if the program
installed a handler, and before `execl` the handler in force is the
supervisor's own, which in the child only clears a flag. `kill(-1, s)` reaches
every process. A client is seen as its connection shows it: waiting, answered,
gone, dropped. `Disturbances` selects what may go wrong in an instance, so that
each run can spend its states on one kind of trouble: failing calls, clients that
go away, the shutdown, hard-limit kills, SIGKILL from anybody else on the host (the
OOM killer, `kill -9`: `HostKill`), rmmod, PIDs that wrap around.

### Monitor

`monitor_list` is a sequence. The scan thread takes one step per entry and
question (`CheckExists`, `ReadRss`, `Judge`, `SendSigkill`), holding the lock
from `ScanBegins` to `ScanEnds`; processes change meanwhile, ioctls wait. Limits
arrive as C `int` and become `unsigned long`: `ULong` converts modulo
`2^ULONG_BITS`, so that a negative limit is a huge one. RSS is measured in
fractions of a MiB (`UnitsPerMib`) and rounded down as the code does. Loading is
two steps, as the device works before `kthread_run` is called. `warnings`,
`visited`, `victims` and `peak` are history variables.

### Runtime

`Supervisor` and `Monitor` are instantiated over shared processes and composed.
They meet in `Register` (the ioctl of a start, or the failed `open` of a device
that is not there), `RecordExit` (the reaper's unregister) and `Kill` (the
scan's SIGKILL, which reaches the supervisor as a wait status); everything else
is a step of one of them alone. SIGKILL has three senders here: the monitor, whose
victims `Monitor` remembers; the host (`HostKill`, remembered in the history
variable `host_victims`); and the supervisor, when a start fails after its clone
(541). `Monitor` sees a process as unborn, alive, zombie
or gone (`processes`), `Supervisor` sees the list as a set of PIDs (`monitored`).
PIDs are not given out again here.

Each module makes assumptions about the other: `Supervisor` has the actions
`HardLimitKill`, `StaleEntryRemoved` and `ListFreed` for the monitor, `Monitor`
has `Birth`, `Exits`, `Reaped` and arbitrary ioctls for the engine. (A kill by the
host is a step of `Supervisor` and nothing `Monitor` sees before the process is dead.) That these
are all that happens is checked as two refinements: the composition implements
`Supervisor` (`SupervisorImplemented`), with every disturbance it brings switched
on, and every step of it is a step of `Monitor` (`MonitorImplemented`). Both are
also proved, for any number of containers.

### CommandLine and ControlSocket

`CommandLine` translates `main` and `parse_optional_flags`: words to a request
with its defaults, or to the usage text; `ParseFlag` is one pass of the loop over
the flags. `Typed` is the reference, which says by position and last use what a
line means. `atoi` is a constant function.

`ControlSocket` has supervisor processes, started one after the other (or, with
`"overlap"`, at the same time), and client processes. `path` says whose socket
the file names; `Bind` creates it, `Unlink`, `SetupFails` and `Finish` remove
whatever is there. The signal handler may run at any point and closes the
descriptor under the main thread (`ShutdownSignal`). A handler thread is reduced
to its answer and the container it leaves; `box[c]` records which descriptors
that container inherited, so that a connection is at its end of file only when
nobody holds it any more (`PeerOpen`), and a dead supervisor's socket may still
take connections (`SocketOpen`). A start may fail after its clone and leave the
child it killed (`Clone`). When the container of a `run` is dead, its handler answers
(`RunEnds`) or, if the child was reaped before its PID was in the table, waits for
ever (`RunLost`): which of the two, the finer model `Supervisor` decides, here both
are possible. Exit codes are told apart only where a `run` asks for them
(`CodesAsked`). A client that is interrupted before its request
leaves an end of file, one that is interrupted while it waits makes `send`
raise SIGPIPE, which ends the supervisor: the crash of this model.

### Proof modules

A module named `...Proofs` extends the module it is about and holds its inductive
invariant, lemmas and theorems (section 5). `Supervisor` has two, one for the
table alone (`SupervisorProofs`) and one for the table and the processes together
(`SupervisorProcessProofs`, on top of it); so has `LogPipeline`
(`LogPipelineProofs`, and `LogQueueProofs` for wakeups and the refinement).

### Variants

Next to some definitions stand variants with a bug (`AdvanceNoWrap`,
`KnownZombie`, `RemoveCurrentAndSkip`...). No specification uses them;
`PROJECT.json` pairs each property with a variant that violates it, which shows
that the property can fail.

## 3. Runs

| Run | Instance | What it shows |
|---|---|---|
| `log_pipeline` | 2 containers, ring of 2, 2 chunks each, calls may fail | the ring is a FIFO queue; order, accounting, flush before exit; one `pthread_cond_signal` per freed slot is enough; output reaches its log file, shutdown ends the consumer, end of file ends a producer |
| `sup_races` | 3 handlers, 2 slots, 2 PIDs, clashing names and paths, nothing fails | rootfs paths exclusive, `run` returns its container's status, the table tells the truth, ended records are final |
| `sup_failures` | 2 handlers, 2 PIDs, calls fail, clients leave, kills by the monitor and the host, rmmod, PIDs wrap; ps, logs and unknown requests; not continued past the SIGPIPE that kills the supervisor | unique IDs, stops attributed, slots with a producer pinned, PIDs that come back included |
| `sup_liveness` | 2 handlers, 1 PID, calls fail, shutdown | children are reaped and `run` is woken if there is a reaper, shutdown completes once containers are dead |
| `mon_limits` | 1 PID, odd limits, wrap, failing calls | one warning per registration and before any kill, over-limit processes killed, unload returns |
| `mon_list` | 2 PIDs | one entry per PID, no entry skipped, kills justified |
| `runtime` | 1 handler, 1 PID, calls fail; a shutdown, rmmod or a kill by the host at any point | both refinements; "killed, 137" is said of nobody the supervisor itself killed; a victim's record is ended; a limit is enforced and an entry forgotten, however registration, scan and reaping interleave |
| `socket` | 2 supervisors in turn, 2 clients, backlog of 1, signals, interrupts, failing calls | lines are parsed as typed, exit statuses are truthful, a restart succeeds after a crash, an orderly end leaves no file, no signal is lost, clients return unless their `run` was lost |

Bounds. The two containers write twice as many chunks as the ring has slots, so
that indices wrap and the ring fills with producers asleep; with two producers both can sleep, and one that is
awake can take the slot the other was woken for. Two
table slots and three requests let the table fill, clash and refuse; two PIDs
suffice for two containers at a time, and with `"wrap"` for reuse. A PID that has
been reaped is not born again unless `"wrap"` is given. `ULONG_BITS` is 3: the
limits used are at most 1, and -1 becomes 7, above every RSS level; RSS levels
lie just below and at the boundary `(1 + 1)` MiB. Each handler serves one
request, as in the code. In `runtime` one container is enough: registration,
reaping and the scan concern one PID, and what two PIDs do to the list is
`mon_list`'s matter. Its sizes are 0 and 2 MiB against a limit of 1. A
behaviour of this instance has at most one of a shutdown, rmmod and a kill by the
host, and no shutdown of a supervisor without its reaper (`OneTrouble`: all of them
together have eighteen times the states); the theorems about `Runtime` combine them.
In the same way `sup_failures` does not combine a client that goes away with a
SIGKILL (`NoKillAndQuit`). What `OneTrouble` cuts are steps of the environment, of
which no fairness is assumed, and the death of the main thread in an undefined join,
beside which its join may also return; so no liveness property holds because of the
cut. `RootfsExclusive` meets failing starts in its theorem
only. In `socket`
the second supervisor meets whatever the first one left, and the second client
the full backlog, the inherited connection or the closed socket; the four command
lines are a start, a run with a repeated flag, one with a flag without its value,
and a ps, whose path logs and stop take too,
and all lines of up to four words as flags are tried once for whether they are
accepted (`FlagsParsed`). Symmetry, over handlers and PIDs, is used in the two
supervisor runs without liveness.

Deadlock. It is checked for the pipeline and the monitor, whose environment can
always act. For the supervisor it is off: with every client served and every
container dead or waiting for input, nothing need ever happen again. The same
holds of `runtime` and `socket`.

Fairness. Weak fairness of each thread of the supervisor, of the kernel thread, of
`insmod` and `rmmod`, and of the delivery of SIGKILL: the scheduler and the kernel
guarantee these, and no lock is held across a call that may block for ever. In
`runtime` the two ioctls have strong fairness: `monitor_lock` is free once a
scan sleeps, again and again, and the kernel's mutex hands it to a waiter. Nothing
is assumed of containers or clients: a container may run for ever and a client may
never come. In `socket` containers end and a client that was invoked is
scheduled, since `SignalEnds` and `ClientReturns` speak of what happens then. Only `sup_hang` assumes more, that a container
gets through its setup and exits if a SIGTERM reaches its handler; the property
fails even so.

## 4. Disagreements between documents and code

Each of these runs checks what a document says and ends in a counterexample.

| Run | What the code does |
|---|---|
| `sup_run_returns` | a child reaped before its PID is in the table leaves the slot RUNNING; `run` never returns |
| `sup_foreign` | a stop of a STARTING container calls `kill(-1, SIGTERM)` |
| `sup_hang` | a container that does not handle SIGTERM keeps the supervisor from ending |
| `socket_takeover` | a second supervisor removes the socket file of the first, which no client reaches any more |

`PROJECT.json` quotes the lines. The positive properties say what remains true
beside these: `RunWakes` is `RunReturns` for a container that dies while `run`
already waits, `ShutdownCompletes` is `ShutdownTerminates` for containers that
end.

Other limits of the properties that hold, which reading the code explains and no
run here demonstrates: `Accounted` admits that a producer drops the chunk in its
hands when the shutdown comes (`engine.c` 248); `RootfsExclusive` is about path
strings, and `./rootfs` and `./rootfs/` are two (307); KILLED covers every
signal, not only SIGKILL (711), and with exit code 137 it covers SIGKILL from anybody:
the reaper has nothing but the wait status, so that a reader of `ps` cannot tell a
kill for the hard limit from one by the host (`project-guide.md` 240-241 wants `ps` to
distinguish a hard-limit kill, and its own rule, SIGKILL without a stop, cannot do
it either; `KilledFromOutside` says only that the supervisor itself was not
the sender); without a reaper no child is reaped and no `run` answered
(`NoZombies` and `RunWakes` ask for one, 848); an interrupted `run` client forwards no stop (956); a producer
ends at the end of file, which comes only when every container that inherited
the pipe is dead too (`ProducerEndsAtEof`, 481); the supervisor dies of SIGPIPE when
it answers a client that is gone (144), and the properties of `socket` say what
remains true after that; `ClientReturns` needs containers that end, as they
hold connections of clients whose supervisor has died (519), and it leaves out the
`run` of `sup_run_returns`, whose client waits for as long as its supervisor is
there; a container that the kernel had no memory to register (`ENOMEM`) is under
no limit (`LimitEnforced`); a failing
`kthread_run` frees no entries registered before it (`monitor.c` 344);
`KillJustified` speaks of whoever has the PID at the time.
`RootfsExclusive` leaves out processes to which SIGKILL has been sent: a start
that fails after its clone gives the slot back before the child is dead.

PIDs that are given out again. `StatusAccurate`, `TerminalFinal`,
`RunReturnsExit` and `RootfsExclusive` are checked and proved without reuse, and
with `"wrap"` in `Disturbances` they are false of the code, for two reasons. The
reaper takes the first slot with the PID it reaped, ended ones included (696). And
it looks the slot up after `waitpid` has released the PID: a start that fails after
its clone leaves a child that no slot knows; once that child is reaped, and before
the reaper has the lock, its PID can go to a new container and be published, and
the reaper then marks that running container EXITED, so that its rootfs path is
given out a second time. TLC finds this with three handlers; it needs the whole
range of PIDs to wrap between two steps of the reaper, and no document speaks of
it. `StopAttributed`, `ProducerSlotPinned` and `UniqueIds` hold with reuse too.

## 5. Proofs

Every invariant, action property and refinement that a passing run checks is also
proved, for every value of the constants that satisfies the named assumptions:
any number of containers, handlers, slots, PIDs, supervisors and clients, any ring
and pipe capacity, any width of `unsigned long`, any command line.

| Module | Theorem | Statement | Hypothesis |
|---|---|---|---|
| `LogPipelineProofs` | `TypeCorrect` | `Spec => []TypeOK` | |
| | `LogsInOrder` | `Spec => []LogInOrder` | |
| | `AllAccounted` | `Spec => []Accounted` | |
| | `ConsumerFlushes` | `Spec => []FlushedBeforeExit` | |
| `LogQueueProofs` | `WakeupsSuffice` | `Spec => []NoLostWakeup` | |
| | `RingImplementsQueue` | `Spec => RingIsQueue` | |
| `SupervisorProofs` | `TypeCorrect` | `Spec => []TypeOK` | |
| | `IdsUnique` | `Spec => []UniqueIds` | |
| | `StopsAttributed` | `Spec => []StopAttributed` | |
| | `ProducerSlotsPinned` | `Spec => ProducerSlotPinned` | |
| `SupervisorProcessProofs` | `StatusesAccurate` | `Spec => []StatusAccurate` | `NoReuse` |
| | `RootfsesExclusive` | `Spec => []RootfsExclusive` | `NoReuse` |
| | `TerminalsFinal` | `Spec => TerminalFinal` | `NoReuse` |
| | `RunsReturnExit` | `Spec => []RunReturnsExit` | `NoReuse` |
| `MonitorProofs` | `TypeCorrect` | `Spec => []TypeOK` | |
| | `EntriesUnique` | `Spec => []OneEntryPerPid` | |
| | `WarnsOnce` | `Spec => []WarnedOnce` | |
| | `WarnsBeforeKill` | `Spec => []TwoTiers` | |
| | `PassesVisitAll` | `Spec => []PassVisitsAll` | |
| | `OnlyOverLimitKilled` | `Spec => []KillJustified` | `~ Wrap` |
| `RuntimeProofs` | `ImplementsSupervisor` | `Spec => SupervisorImplemented` | |
| | `ImplementsMonitor` | `Spec => MonitorImplemented` | |
| | `OnlyKilledFromOutside` | `Spec => []KilledFromOutside` | |
| | `OnlyOverLimitKilled` | `Spec => []Mon!KillJustified` | |
| `ControlSocketProofs` | `StatusesTruthful` | `Spec => []StatusTruthful` | |
| | `RestartsSucceed` | `Spec => []RestartSucceeds` | `OneAtATime` |
| | `NoSocketLeft` | `Spec => []NoStaleSocket` | `OneAtATime` |
| `CommandLineProofs` | `LinesParsedAsTyped` | `Spec => []ParsedAsTyped` | |

Hypotheses. `NoReuse` and `~ Wrap` say that PIDs are not given out again; section 4
says what happens otherwise. In `mon_list` TLC checks `KillJustified` with the same
restriction. `OneAtATime` says that no supervisor is started beside a running one,
which `socket_takeover` shows to be needed. The assumptions on constants say what
they are (sets, positive numbers, types of requests). Two deserve a word:
`WidthAssumption` of `Monitor` is arithmetic of `2 ^ n`, which the provers do not
know, and `UsageAssumption` of `CommandLine` that a refusal is not a request. `Runtime` assumes of its constants what the two modules it composes
assume.

### The logging pipeline

`TypeOK` is not inductive: a pop may read a cell that was never written, unless the
ring is known to be a queue. `IndInv` adds that: `tail` is `count` places behind
`head` modulo the capacity and the cells between them hold entries (`RingInv`); a
producer that is pushing has read something and exists only after its start
(`HandsInv`); the consumer has an entry exactly while it writes, and is done only
with an empty ring after shutdown (`ConsumerInv`). `PushCells` and `PopCells` state
what push and pop do to this queue; indices are computed with `Pos`, which is `%`
on the sums that occur (`ModIsPos`).

Order (`OrderInv`): along the way a chunk takes, log file, consumer, ring,
producer, the numbers of one container strictly grow. Accounting
(`AccountInv`): each chunk up to `fetched` is at one of the places of that way or
in `lost`. The flush theorem follows, as a consumer that is done faces an empty
ring and holds nothing.

`NoLostWakeup` says that beside free slots as many producers are awake and about to
push as there are free slots, or nobody sleeps; it is inductive on top of `IndInv`,
and its steps count: a pop frees one slot and wakes one sleeper, a push takes both
away (cardinalities of `Pushing` and of the sleepers). `RingIsQueue` is a step
simulation: `ContentsInv` reads the sequence off the ring, a push appends to it and
a pop takes its head, and the chunk appended is one the queue's specification
allows (`FetchInv`).

### The supervisor's table

`IndInv` of `SupervisorProofs` describes where each handler is. `HandlerInv`: what
its position in `client_handler_main` says of its request and locals, so that an
index is used only while it is one. `SlotInv`: between the two locked sections of a
start a handler owns its STARTING slot alone; a slot has no PID exactly while it is
STARTING; a slot with a producer has been published. `StopInv`: the slot a stop
marked keeps its PID and its flag and ends STOPPED. `RootfsInv`: no two live slots
have one path. None of the properties is inductive without these: a start that
fails gives back the slot in its local `idx`, and only `SlotInv` says that this slot
is still its own. The two action properties follow from `SlotSteps`, the list of
all that can happen to a slot.

### The table and the processes

`ProcInv` relates the two. `PidInv`: a PID belongs to one slot or to one handler
that has not published it yet or has given it up, and the reaper holds the status of
a process whose slot, if any, is RUNNING. `HomeInv`: a live process without SIGKILL is on the
rootfs of its RUNNING slot, or of the start about to publish it. The third part is
`StatusAccurate` itself. Most steps satisfy `Frame` (no slot gains or loses a
container, processes get signals and no more), which keeps `ProcInv`
(`FrameKeepsProcs`); five steps are proved one by one. `RootfsExclusive` follows
from `HomeInv` and the table's `RootfsInv`. `RunReturnsExit` needs `RunInv` and that
a reaped process stays as it is (`ReapedStays`).

### The monitor

`IndInv` has the position of the scan (`ScanInv`: it is in the list while an entry is
in its hands, and no thread runs while the module is not loaded), what `soft_warned`
means (`WarnInv`), why an entry is about to be killed for (`KillInv`), and which
entries the pass has seen (`VisitInv`). `RemoveAtIs` and `Removed` state what a
removal does to the positions of the others, which is where a pass could skip one.
`PeakInv` adds that the size the scan has read was a real one.

### The composition

`RuntimeProofs` instantiates the proofs of both components. The composition keeps
their inductive invariants because each of its steps is a step of both or leaves one
of them alone (`SupervisorSteps`, `MonitorSteps`), and that in turn uses these
invariants: a removal by the scan is `StaleEntryRemoved` only because a PID has one
entry and a listed process was born, a clone is a `Birth` only because its PID has
no size, peak or kill yet. So the two refinements and the invariant `Inv` are proved
together. `Link`, the part that neither component knows of: a process has a size only
while it lives and a peak only once it was born, and SIGKILL is on its way only to
one of the monitor's or the host's victims or to the child of a failed start, which
no slot has and none will have (`Aborted`). `KilledFromOutside` follows from
`StatusAccurate`: exit code 137 comes from SIGKILL, and a container in the table was
not aborted. Nothing is assumed of who sends signals on the host. That the
instances `Sup`, `View` and `SP` of one action agree is proved by expanding all
definitions (`SameHandler` and its neighbours).

### The socket and the command line

`StatusTruthful` rests on connections: one waits in one backlog once and has no
handler until it is accepted (`ConnInv`), and what was answered stays answered
(`AnswerInv`). The two theorems about the socket file rest on `PathInv`: between a
supervisor's unlink and its bind nobody else can create the file.

`ParsedAsTyped` is about a recursive function over lines of any length, and
induction is out of the provers' reach. The proof uses a least counterexample
instead: the least iteration of the loop at which a claim about it fails would
contradict the iteration before it (`LeastExists`, `UpTo`).

Only model-checked: liveness, which the proof system does not reach (all properties
of the runs with `~>`, `<>` or fairness), and the counterexamples of section 4.

## 6. Not modelled

The bytes of chunks, and partial reads and writes of one chunk; the text of `ps`
and `logs`; namespaces, `chroot`, `mount` and `nice`, which change no state the
properties speak of beyond success or failure; the strings of names, paths and
commands, and their truncation to the buffers of `request_t`, which the supervisor
cannot tell from shorter names; a pipeline without its consumer thread and, in
`ControlSocket`, the undefined joins of threads that were never created (`Supervisor`
has them); the `task_struct` references of the kernel,
which `monitor.c` uses without `rcu_read_lock`. A supervisor's death is modelled
where the code brings it about (SIGPIPE); a SIGKILL from outside leaves the same
state. The workload programs share no state with the runtime and are instances
of the containers' arbitrary programs; `boilerplate/` is the unfinished skeleton
and is not built.

## 7. Plan

Modelled: every component that changes state, the composition of supervisor and
monitor, and the buffer's abstract specification. Proved: every safety property the
passing runs check. What is left:

1. `StatusAccurate` and its neighbours with PID reuse, for what remains true: a
   record is wrong only if a PID came back between two steps of the reaper.
2. The safety halves of the liveness arguments as invariants, such as that a `run`
   that sleeps has a slot the reaper will still broadcast on.
