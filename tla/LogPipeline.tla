---------------------------- MODULE LogPipeline ----------------------------
(***************************************************************************)
(* The logging pipeline of the supervisor (engine.c): one pipe and one     *)
(* producer thread per container, the bounded ring buffer log_buffer_t     *)
(* they share, the single consumer thread that appends chunks to the log   *)
(* files, and log_buffer_shutdown.                                         *)
(*                                                                         *)
(* A section of code under buf->mutex is one action; pthread_cond_wait     *)
(* parks the thread in a wait state that pthread_cond_signal, a broadcast  *)
(* or a spurious wakeup leaves.  What one read() returns is a chunk, known *)
(* by its container and its position in that container's output.  The      *)
(* write end of a pipe is inherited by every process cloned while the      *)
(* supervisor holds it, as pipe() is called without O_CLOEXEC.             *)
(***************************************************************************)
EXTENDS Integers, Sequences, FiniteSets

CONSTANTS
  Containers,           \* container indices (slots of the container table)
  LOG_BUFFER_CAPACITY,  \* slots of the ring buffer
  PipeCapacity,         \* chunks a pipe holds before write() blocks
  MaxChunks,            \* bound: chunks one container writes
  CallsMayFail,         \* whether malloc, clone, pthread_create, open may fail
  NoEntry               \* content of a ring slot never written (memset 0)

ASSUME CapacityAssumption == LOG_BUFFER_CAPACITY \in Nat \ {0}
ASSUME PipeAssumption     == PipeCapacity \in Nat \ {0} /\ MaxChunks \in Nat
ASSUME FailureAssumption  == CallsMayFail \in BOOLEAN
ASSUME ContainersFinite   == IsFiniteSet(Containers)

Entry == [container_index : Containers, chunk : Nat \ {0}]

ASSUME NoEntryAssumption  == NoEntry \notin Entry

VARIABLES
  entries, head, tail, count,  \* the ring: log_buffer_t
  shutdown,                    \* buf->shutdown
  start,        \* progress of start_container_internal for a container
  holders,      \* container processes holding the write end of a pipe
  emitted,      \* chunks a container has written to its pipe
  fetched,      \* chunks its producer has read from the pipe
  producer,     \* state of a producer thread
  consumer,     \* state of the consumer thread
  popped,       \* the consumer's local entry
  log,          \* chunks in a container's log file, in file order
  lost          \* history: entries read from a pipe and then discarded

ring  == <<entries, head, tail, count>>
pipes == <<start, holders, emitted>>
vars  == <<ring, shutdown, pipes, fetched, producer, consumer, popped, log, lost>>

Slots == 0 .. LOG_BUFFER_CAPACITY - 1

\* Variants of Advance with a bug: the modulo forgotten, the index not moved.
AdvanceNoWrap(i) == i + 1
AdvanceStuck(i) == i

Advance(i) == (i + 1) % LOG_BUFFER_CAPACITY

Init ==
  /\ entries = [i \in Slots |-> NoEntry]
  /\ head = 0 /\ tail = 0 /\ count = 0
  /\ shutdown = FALSE
  /\ start = [c \in Containers |-> "idle"]
  /\ holders = [c \in Containers |-> {}]
  /\ emitted = [c \in Containers |-> 0]
  /\ fetched = [c \in Containers |-> 0]
  /\ producer = [c \in Containers |-> "none"]
  /\ consumer = "pop"
  /\ popped = NoEntry
  /\ log = [c \in Containers |-> <<>>]
  /\ lost = {}

-----------------------------------------------------------------------------
(* The pipe of a container: start_container_internal and the container.    *)

EngineHolds(c) == start[c] \in {"piped", "cloned"}

\* Some process can still write to the pipe, so read() does not return 0.
WriteEndOpen(c) == EngineHolds(c) \/ holders[c] # {}

Alive(c) == c \in holders[c]

\* A step of the start that changes nothing else.
StartGoes(c, from, to) ==
  /\ start[c] = from
  /\ start' = [start EXCEPT ![c] = to]
  /\ UNCHANGED <<ring, shutdown, holders, emitted, fetched, producer, consumer,
                 popped, log, lost>>

OpenPipe(c) == StartGoes(c, "idle", "piped")

\* clone() copies the descriptor table: the child inherits its own write end
\* and those of every container whose start is between pipe() and close().
CloneChild(c) ==
  /\ start[c] = "piped"
  /\ start' = [start EXCEPT ![c] = "cloned"]
  /\ holders' = [d \in Containers |->
                   IF EngineHolds(d) THEN holders[d] \cup {c} ELSE holders[d]]
  /\ UNCHANGED <<ring, shutdown, emitted, fetched, producer, consumer, popped,
                 log, lost>>

\* malloc or clone failed: both ends are closed and the start is abandoned.
CloneFails(c) == CallsMayFail /\ StartGoes(c, "piped", "failed")

CloseWriteEnd(c) == StartGoes(c, "cloned", "closed")

StartProducer(c) ==
  /\ start[c] = "closed"
  /\ start' = [start EXCEPT ![c] = "started"]
  /\ producer' = [producer EXCEPT ![c] = "read"]
  /\ UNCHANGED <<ring, shutdown, holders, emitted, fetched, consumer, popped,
                 log, lost>>

\* No memory for producer_arg_t, or pthread_create failed (its result is not
\* looked at): nothing will ever read this pipe.
NoProducer(c) == CallsMayFail /\ StartGoes(c, "closed", "failed")

\* The container prints a chunk; write() blocks while the pipe is full.  It
\* never fails: the container inherits the read end of its own pipe too.
Emit(c) ==
  /\ Alive(c)
  /\ emitted[c] < MaxChunks
  /\ emitted[c] - fetched[c] < PipeCapacity
  /\ emitted' = [emitted EXCEPT ![c] = @ + 1]
  /\ UNCHANGED <<ring, shutdown, start, holders, fetched, producer, consumer,
                 popped, log, lost>>

\* The container dies, at any point, and the kernel closes its descriptors.
ContainerExit(c) ==
  /\ Alive(c)
  /\ holders' = [d \in Containers |-> holders[d] \ {c}]
  /\ UNCHANGED <<ring, shutdown, start, emitted, fetched, producer, consumer,
                 popped, log, lost>>

-----------------------------------------------------------------------------
(* log_producer_main and log_buffer_push.                                  *)

ProducerRead(c) ==
  /\ producer[c] = "read"
  /\ fetched[c] < emitted[c]
  /\ fetched' = [fetched EXCEPT ![c] = @ + 1]
  /\ producer' = [producer EXCEPT ![c] = "push"]
  /\ UNCHANGED <<ring, shutdown, pipes, consumer, popped, log, lost>>

\* A step of the producer that changes nothing else.
ProducerGoes(c, from, to) ==
  /\ producer[c] = from
  /\ producer' = [producer EXCEPT ![c] = to]
  /\ UNCHANGED <<ring, shutdown, pipes, fetched, consumer, popped, log, lost>>

ProducerEof(c) ==
  /\ fetched[c] = emitted[c] /\ ~ WriteEndOpen(c)
  /\ ProducerGoes(c, "read", "done")

\* Variant of PushBlocks with a bug: a full buffer drops the chunk.
PushDropsWhenFull(c) ==
  count = LOG_BUFFER_CAPACITY /\ ~ shutdown /\ ProducerGoes(c, "push", "read")

PushBlocks(c) ==
  count = LOG_BUFFER_CAPACITY /\ ~ shutdown /\ ProducerGoes(c, "push", "wait")

\* Variant of WakeConsumer with a bug: the consumer sleeps on.
WakeForgotten == consumer' = consumer

\* A signal or broadcast on not_empty, where only the consumer waits.
WakeConsumer == consumer' = IF consumer = "wait" THEN "pop" ELSE consumer

\* The chunk in the producer's hands is the last one it read.
Push(c) ==
  /\ producer[c] = "push"
  /\ count # LOG_BUFFER_CAPACITY /\ ~ shutdown
  /\ entries' = [entries EXCEPT ![tail] =
                   [container_index |-> c, chunk |-> fetched[c]]]
  /\ tail' = Advance(tail)
  /\ count' = count + 1
  /\ producer' = [producer EXCEPT ![c] = "read"]
  /\ WakeConsumer
  /\ UNCHANGED <<head, shutdown, pipes, fetched, popped, log, lost>>

\* After shutdown log_buffer_push returns -1: the chunk is dropped and the
\* producer closes the read end and ends.
PushRefused(c) ==
  /\ producer[c] = "push"
  /\ shutdown
  /\ producer' = [producer EXCEPT ![c] = "done"]
  /\ lost' = lost \cup {[container_index |-> c, chunk |-> fetched[c]]}
  /\ UNCHANGED <<ring, shutdown, pipes, fetched, consumer, popped, log>>

PushSpurious(c) == ProducerGoes(c, "wait", "push")

-----------------------------------------------------------------------------
(* log_consumer_main, log_buffer_pop and log_buffer_shutdown.              *)

Waiting == {c \in Containers : producer[c] = "wait"}

\* Variant of SignalNotFull with a bug: nobody is woken.
SignalForgotten == producer' = producer

\* pthread_cond_signal(&buf->not_full) wakes one waiting producer, if any.
SignalNotFull ==
  \/ Waiting = {} /\ producer' = producer
  \/ \E c \in Waiting : producer' = [producer EXCEPT ![c] = "push"]

\* A step of the consumer that changes nothing else.
ConsumerGoes(from, to) ==
  /\ consumer = from /\ consumer' = to
  /\ UNCHANGED <<ring, shutdown, pipes, fetched, producer, popped, log, lost>>

PopBlocks == count = 0 /\ ~ shutdown /\ ConsumerGoes("pop", "wait")

Pop ==
  /\ consumer = "pop"
  /\ count # 0
  /\ popped' = entries[head]
  /\ head' = Advance(head)
  /\ count' = count - 1
  /\ consumer' = "write"
  /\ SignalNotFull
  /\ UNCHANGED <<entries, tail, shutdown, pipes, fetched, log, lost>>

\* Variant of PopEnds with a bug: shutdown ends the consumer at once.
PopEndsEarly == shutdown /\ ConsumerGoes("pop", "done")

PopEnds == count = 0 /\ shutdown /\ ConsumerGoes("pop", "done")

PopSpurious == ConsumerGoes("wait", "pop")

WriteLog ==
  /\ consumer = "write"
  /\ log' = [log EXCEPT ![popped.container_index] = Append(@, popped.chunk)]
  /\ consumer' = "pop"
  /\ popped' = NoEntry
  /\ UNCHANGED <<ring, shutdown, pipes, fetched, producer, lost>>

\* open() of the log file failed, or write(), whose result is not looked at:
\* the loop goes on with the next entry.
OpenLogFails ==
  /\ CallsMayFail
  /\ consumer = "write"
  /\ lost' = lost \cup {popped}
  /\ consumer' = "pop"
  /\ popped' = NoEntry
  /\ UNCHANGED <<ring, shutdown, pipes, fetched, producer, log>>

LogBufferShutdown ==
  /\ ~ shutdown
  /\ shutdown' = TRUE
  /\ producer' = [c \in Containers |->
                    IF producer[c] = "wait" THEN "push" ELSE producer[c]]
  /\ WakeConsumer
  /\ UNCHANGED <<ring, pipes, fetched, popped, log, lost>>

-----------------------------------------------------------------------------

StartStep(c) ==
  \/ CloneChild(c) \/ CloneFails(c) \/ CloseWriteEnd(c)
  \/ StartProducer(c) \/ NoProducer(c)

ProducerStep(c) ==
  \/ ProducerRead(c) \/ ProducerEof(c)
  \/ PushBlocks(c) \/ Push(c) \/ PushRefused(c)

ConsumerStep == PopBlocks \/ Pop \/ PopEnds \/ WriteLog \/ OpenLogFails

\* Everything has ended: the only state in which the pipeline may stop.
Terminated ==
  /\ consumer = "done"
  /\ \A c \in Containers : start[c] \in {"started", "failed"} /\ ~ Alive(c)
  /\ \A c \in Containers : producer[c] \in {"none", "done"}
  /\ UNCHANGED vars

Next ==
  \/ \E c \in Containers :
       \/ OpenPipe(c) \/ StartStep(c) \/ Emit(c) \/ ContainerExit(c)
       \/ ProducerStep(c) \/ PushSpurious(c)
  \/ ConsumerStep \/ PopSpurious \/ LogBufferShutdown
  \/ Terminated

Spec == Init /\ [][Next]_vars

\* The threads of the supervisor are scheduled; containers, spurious wakeups
\* and the shutdown are not obliged to happen.
Fairness ==
  /\ \A c \in Containers : WF_vars(StartStep(c)) /\ WF_vars(ProducerStep(c))
  /\ WF_vars(ConsumerStep)

FairSpec == Spec /\ Fairness

-----------------------------------------------------------------------------
(* Properties.                                                             *)

\* The entry j places behind the head of the ring.
At(j) == entries[(head + j) % LOG_BUFFER_CAPACITY]

InRing(e) == \E j \in 0 .. count - 1 : At(j) = e

InLog(c, n) == \E i \in 1 .. Len(log[c]) : log[c][i] = n

InHand(c, n) == producer[c] \in {"push", "wait"} /\ n = fetched[c]

EntryOf(c, n) == [container_index |-> c, chunk |-> n]

\* Type invariant of the pipeline.
TypeOK ==
  /\ entries \in [Slots -> Entry \cup {NoEntry}]
  /\ head \in Slots /\ tail \in Slots /\ count \in 0 .. LOG_BUFFER_CAPACITY
  /\ shutdown \in BOOLEAN
  /\ start \in [Containers -> {"idle", "piped", "cloned", "closed",
                               "started", "failed"}]
  /\ holders \in [Containers -> SUBSET Containers]
  /\ emitted \in [Containers -> Nat] /\ fetched \in [Containers -> Nat]
  /\ producer \in [Containers -> {"none", "read", "push", "wait", "done"}]
  /\ consumer \in {"pop", "wait", "write", "done"}
  /\ popped \in Entry \cup {NoEntry}
  /\ log \in [Containers -> Seq(Nat)]
  /\ lost \subseteq Entry

\* A log file holds its container's chunks in the order the container wrote
\* them and none twice, whatever the interleaving of producers, consumer,
\* wakeups and shutdown (log_buffer_push, log_buffer_pop, log_consumer_main).
LogInOrder ==
  \A c \in Containers : \A i, j \in 1 .. Len(log[c]) :
    i < j => log[c][i] < log[c][j]

\* No chunk vanishes or is overwritten in the ring: each one a producer has
\* read is in its hands, in the ring, in the consumer's hands, in the right
\* log file, or was discarded on one of the two paths that discard.
Accounted ==
  \A c \in Containers : \A n \in 1 .. fetched[c] :
    \/ InHand(c, n)
    \/ InRing(EntryOf(c, n))
    \/ popped = EntryOf(c, n)
    \/ InLog(c, n)
    \/ EntryOf(c, n) \in lost

\* The consumer ends only after shutdown and with every entry that
\* log_buffer_push accepted flushed (project-guide.md: "flush all remaining
\* entries before exiting"), and no push is accepted behind its back.
FlushedBeforeExit ==
  consumer = "done" =>
    \A c \in Containers : \A n \in 1 .. fetched[c] :
      InHand(c, n) \/ InLog(c, n) \/ EntryOf(c, n) \in lost

\* One pthread_cond_signal per freed slot is enough: while a producer sleeps
\* on not_full every free slot has an awake producer about to take it, and
\* the consumer never sleeps on not_empty over a non-empty buffer or after
\* shutdown.
NoLostWakeup ==
  /\ Waiting # {} =>
       /\ ~ shutdown
       /\ LOG_BUFFER_CAPACITY - count
            <= Cardinality({c \in Containers : producer[c] = "push"})
  /\ consumer = "wait" => count = 0 /\ ~ shutdown

\* Output is not lost when a container dies abruptly: whatever it wrote
\* reaches its log file unless the file cannot be written or the supervisor
\* shuts down first.
OutputReachesLog ==
  \A c \in Containers : \A n \in 1 .. MaxChunks :
    (producer[c] # "none" /\ emitted[c] >= n)
      ~> (InLog(c, n) \/ EntryOf(c, n) \in lost \/ shutdown)

\* log_buffer_shutdown ends the consumer, asleep or not, so that the
\* pthread_join of run_supervisor returns.
ShutdownEndsConsumer == shutdown ~> (consumer = "done")

\* A producer ends once nobody can write to its pipe any more.
ProducerEndsAtEof ==
  \A c \in Containers :
    (producer[c] # "none" /\ ~ WriteEndOpen(c)) ~> (producer[c] = "done")

Queue == INSTANCE LogQueue WITH
  Entries  <- [container_index : Containers, chunk : 1 .. MaxChunks],
  Capacity <- LOG_BUFFER_CAPACITY,
  queue    <- [j \in 1 .. count |-> At(j - 1)],
  closed   <- shutdown,
  taken    <- popped,
  finished <- (consumer = "done")

\* The ring with its two indices, three threads' worth of wakeups and the
\* shutdown is a bounded FIFO queue that closes and drains (log_buffer_t).
RingIsQueue == Queue!Spec

=============================================================================
