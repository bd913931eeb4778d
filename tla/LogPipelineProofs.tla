------------------------- MODULE LogPipelineProofs -------------------------
(***************************************************************************)
(* Proofs about LogPipeline, for any set of containers and any capacities. *)
(*                                                                         *)
(* The properties rest on one inductive invariant.  Its core is that the   *)
(* ring is a queue: tail is count places behind head, and the cells in     *)
(* between hold entries.  On it rests the order: along the way a chunk     *)
(* takes (log file, consumer, ring, producer) chunk numbers only grow.     *)
(***************************************************************************)
EXTENDS LogPipeline, TLAPS

\* x modulo the capacity, for the sums of two indices that the ring computes.
Pos(x) == IF x < LOG_BUFFER_CAPACITY THEN x ELSE x - LOG_BUFFER_CAPACITY

\* The cell j places behind head.
Cell(j) == entries[Pos(head + j)]

Indices == 0 .. count - 1

Busy(c) == producer[c] \in {"push", "wait"}

\* The number of chunks of a container that have left its producer's hands.
Settled(c) == IF Busy(c) THEN fetched[c] - 1 ELSE fetched[c]

\* On the sums the ring forms, the remainder is one subtraction at most.
LEMMA ModIsPos ==
  ASSUME NEW x \in 0 .. 2 * LOG_BUFFER_CAPACITY - 1
  PROVE  x % LOG_BUFFER_CAPACITY = Pos(x)
  BY CapacityAssumption DEF Pos

-----------------------------------------------------------------------------
(* The inductive invariant: types and the shape of the ring.               *)

RingInv ==
  /\ tail = Pos(head + count)
  /\ \A j \in Indices : Cell(j) \in Entry

HandsInv ==
  \A c \in Containers :
    /\ Busy(c) => fetched[c] # 0
    /\ start[c] # "started" => producer[c] = "none"

ConsumerInv ==
  /\ consumer = "write" => popped \in Entry
  /\ consumer # "write" => popped = NoEntry
  /\ consumer = "done" => count = 0 /\ shutdown

IndInv == TypeOK /\ RingInv /\ HandsInv /\ ConsumerInv

\* The indices the ring computes stay within the ring.
LEMMA PosInSlots ==
  ASSUME NEW x \in 0 .. 2 * LOG_BUFFER_CAPACITY - 1
  PROVE  Pos(x) \in Slots
  BY CapacityAssumption DEF Pos, Slots

\* Moving head or tail on is a step to the next position.
LEMMA AdvanceIsPos ==
  ASSUME NEW i \in Slots
  PROVE  Advance(i) = Pos(i + 1)
  BY CapacityAssumption, ModIsPos DEF Advance, Slots

\* The cells behind head are the ones At speaks of.
LEMMA AtIsCell ==
  ASSUME TypeOK, NEW j \in Indices
  PROVE  At(j) = Cell(j)
<1>1. head + j \in 0 .. 2 * LOG_BUFFER_CAPACITY - 1
  BY CapacityAssumption DEF TypeOK, Slots, Indices
<1> QED
  BY <1>1, ModIsPos DEF At, Cell

\* log_buffer_push appends at the end of the queue and touches no other entry.
LEMMA PushCells ==
  ASSUME TypeOK, RingInv, NEW c \in Containers, Push(c)
  PROVE  /\ Indices' = 0 .. count
         /\ tail' = Pos(head' + count')
         /\ \A j \in Indices' :
              Cell(j)' = IF j = count THEN EntryOf(c, fetched[c]) ELSE Cell(j)
<1>1. count \in 0 .. LOG_BUFFER_CAPACITY - 1 /\ head \in Slots /\ tail \in Slots
  BY CapacityAssumption DEF TypeOK, Push
<1>2. Indices' = 0 .. count
  BY <1>1, CapacityAssumption DEF Push, Indices
<1>3. tail' = Pos(head' + count')
  BY <1>1, AdvanceIsPos, CapacityAssumption DEF Push, RingInv, Pos, Slots
<1>4. ASSUME NEW j \in Indices'
      PROVE  Cell(j)' = IF j = count THEN EntryOf(c, fetched[c]) ELSE Cell(j)
  <2>1. j \in 0 .. count
    BY <1>2
  <2>2. Cell(j)' = entries'[Pos(head + j)]
    BY DEF Push, Cell, Pos
  <2>3. Pos(head + j) \in Slots
    BY <1>1, <2>1, PosInSlots, CapacityAssumption DEF Slots
  <2>4. j # count => Pos(head + j) # tail
    BY <1>1, <2>1, CapacityAssumption DEF RingInv, Pos, Slots
  <2>5. j = count => Pos(head + j) = tail
    BY DEF RingInv
  <2>6. entries \in [Slots -> Entry \cup {NoEntry}]
    BY DEF TypeOK
  <2>7. entries' = [entries EXCEPT ![tail] = EntryOf(c, fetched[c])]
    BY DEF Push, EntryOf
  <2> QED
    BY <2>2, <2>3, <2>4, <2>5, <2>6, <2>7 DEF Cell
<1> QED
  BY <1>2, <1>3, <1>4

\* log_buffer_pop takes the entry at the head and the others move up.
LEMMA PopCells ==
  ASSUME TypeOK, RingInv, Pop
  PROVE  /\ Indices' = 0 .. count - 2
         /\ 0 \in Indices
         /\ popped' = Cell(0)
         /\ tail' = Pos(head' + count')
         /\ \A j \in Indices' : j + 1 \in Indices /\ Cell(j)' = Cell(j + 1)
<1>1. count \in 1 .. LOG_BUFFER_CAPACITY /\ head \in Slots /\ tail \in Slots
  BY CapacityAssumption DEF TypeOK, Pop
<1>2. head' = Pos(head + 1) /\ count' = count - 1 /\ tail' = tail /\ entries' = entries
  BY <1>1, AdvanceIsPos DEF Pop
<1>3. Indices' = 0 .. count - 2 /\ 0 \in Indices
  BY <1>1, <1>2 DEF Indices
<1>4. popped' = Cell(0)
  BY <1>1, CapacityAssumption DEF Pop, Cell, Pos, Slots
<1>5. tail' = Pos(head' + count')
  BY <1>1, <1>2, CapacityAssumption DEF RingInv, Pos, Slots
<1>6. ASSUME NEW j \in Indices'
      PROVE  j + 1 \in Indices /\ Cell(j)' = Cell(j + 1)
  <2>1. j \in 0 .. count - 2
    BY <1>3
  <2>2. Pos(head' + j) = Pos(head + (j + 1))
    BY <1>1, <1>2, <2>1, CapacityAssumption DEF Pos, Slots
  <2> QED
    BY <1>1, <1>2, <2>1, <2>2 DEF Cell, Indices, Pos
<1> QED
  BY <1>3, <1>4, <1>5, <1>6

\* A step that leaves the ring alone leaves its cells alone.
LEMMA RingUnchanged ==
  ASSUME UNCHANGED ring
  PROVE  Indices' = Indices /\ \A j : Cell(j)' = Cell(j)
  BY DEF ring, Indices, Cell, Pos

-----------------------------------------------------------------------------
(* The invariant is inductive.                                             *)

\* The invariant holds at first.
LEMMA InitInd == Init => IndInv
<1> SUFFICES ASSUME Init PROVE IndInv
  OBVIOUS
<1>1. TypeOK
  <2>1. head \in Slots /\ tail \in Slots /\ count \in 0 .. LOG_BUFFER_CAPACITY
    BY CapacityAssumption DEF Init, Slots
  <2>2. log \in [Containers -> Seq(Nat)]
    BY DEF Init
  <2>3. emitted \in [Containers -> Nat] /\ fetched \in [Containers -> Nat]
    BY DEF Init
  <2> QED
    BY <2>1, <2>2, <2>3 DEF Init, TypeOK
<1>2. RingInv
  BY CapacityAssumption DEF Init, RingInv, Indices, Pos
<1>3. HandsInv /\ ConsumerInv
  BY DEF Init, HandsInv, ConsumerInv, Busy
<1> QED
  BY <1>1, <1>2, <1>3 DEF IndInv

\* A step that leaves the ring alone keeps its invariant.
LEMMA RingInvKept ==
  ASSUME RingInv, UNCHANGED ring
  PROVE  RingInv'
<1>1. tail' = Pos(head' + count')
  BY DEF RingInv, ring, Pos
<1> QED
  BY <1>1, RingUnchanged DEF RingInv

\* Starting a container, its output and its end keep the invariant.
LEMMA StartKeepsInd ==
  ASSUME IndInv, NEW c \in Containers,
         \/ OpenPipe(c) \/ StartStep(c) \/ Emit(c) \/ ContainerExit(c)
  PROVE  IndInv'
<1> USE DEF IndInv
<1>1. CASE OpenPipe(c)
  BY <1>1, RingInvKept DEF OpenPipe, StartGoes, TypeOK, HandsInv, ConsumerInv, Busy, ring
<1>2. CASE CloneChild(c)
  BY <1>2, RingInvKept DEF CloneChild, TypeOK, HandsInv, ConsumerInv, Busy, ring
<1>3. CASE CloneFails(c)
  BY <1>3, RingInvKept DEF CloneFails, StartGoes, TypeOK, HandsInv, ConsumerInv, Busy, ring
<1>4. CASE CloseWriteEnd(c)
  BY <1>4, RingInvKept DEF CloseWriteEnd, StartGoes, TypeOK, HandsInv, ConsumerInv, Busy, ring
<1>5. CASE StartProducer(c)
  BY <1>5, RingInvKept DEF StartProducer, TypeOK, HandsInv, ConsumerInv, Busy, ring
<1>6. CASE NoProducer(c)
  BY <1>6, RingInvKept DEF NoProducer, StartGoes, TypeOK, HandsInv, ConsumerInv, Busy, ring
<1>7. CASE Emit(c)
  BY <1>7, RingInvKept DEF Emit, TypeOK, HandsInv, ConsumerInv, Busy, ring
<1>8. CASE ContainerExit(c)
  BY <1>8, RingInvKept DEF ContainerExit, TypeOK, HandsInv, ConsumerInv, Busy, ring
<1> QED
  BY <1>1, <1>2, <1>3, <1>4, <1>5, <1>6, <1>7, <1>8 DEF StartStep

\* The producers keep the invariant.
LEMMA ProducerKeepsInd ==
  ASSUME IndInv, NEW c \in Containers, ProducerStep(c) \/ PushSpurious(c)
  PROVE  IndInv'
<1> USE DEF IndInv
<1>1. CASE ProducerRead(c)
  BY <1>1, RingInvKept
     DEF ProducerRead, TypeOK, HandsInv, ConsumerInv, Busy, ring, pipes
<1>2. CASE ProducerEof(c)
  BY <1>2, RingInvKept
     DEF ProducerEof, ProducerGoes, TypeOK, HandsInv, ConsumerInv, Busy, ring, pipes
<1>3. CASE PushBlocks(c)
  BY <1>3, RingInvKept
     DEF PushBlocks, ProducerGoes, TypeOK, HandsInv, ConsumerInv, Busy, ring, pipes
<1>4. CASE PushRefused(c)
  <2>1. [container_index |-> c, chunk |-> fetched[c]] \in Entry
    BY <1>4 DEF PushRefused, TypeOK, HandsInv, Busy, Entry
  <2> QED
    BY <1>4, <2>1, RingInvKept
       DEF PushRefused, TypeOK, HandsInv, ConsumerInv, Busy, ring, pipes
<1>5. CASE PushSpurious(c)
  BY <1>5, RingInvKept
     DEF PushSpurious, ProducerGoes, TypeOK, HandsInv, ConsumerInv, Busy, ring, pipes
<1>6. CASE Push(c)
  <2>1. EntryOf(c, fetched[c]) \in Entry
    BY <1>6 DEF Push, TypeOK, HandsInv, Busy, Entry, EntryOf
  <2>2. RingInv'
    <3>1. ASSUME NEW j \in Indices' PROVE Cell(j)' \in Entry
      <4>1. j \in 0 .. count /\ count \in Nat
        BY <1>6, PushCells, CapacityAssumption DEF TypeOK
      <4>2. j # count => j \in Indices
        BY <4>1 DEF Indices
      <4> QED
        BY <1>6, <2>1, <4>2, PushCells DEF RingInv
    <3> QED
      BY <1>6, <3>1, PushCells DEF RingInv
  <2>3. tail' \in Slots
    BY <1>6, AdvanceIsPos, PosInSlots, CapacityAssumption DEF Push, TypeOK, Slots
  <2>4. entries' \in [Slots -> Entry \cup {NoEntry}]
    BY <1>6, <2>1 DEF Push, TypeOK, EntryOf
  <2>5. count' \in 0 .. LOG_BUFFER_CAPACITY
    BY <1>6, CapacityAssumption DEF Push, TypeOK
  <2>6. TypeOK'
    BY <1>6, <2>3, <2>4, <2>5 DEF Push, WakeConsumer, TypeOK, pipes
  <2>7. HandsInv' /\ ConsumerInv'
    BY <1>6 DEF Push, WakeConsumer, TypeOK, HandsInv, ConsumerInv, Busy, pipes
  <2> QED
    BY <2>2, <2>6, <2>7
<1> QED
  BY <1>1, <1>2, <1>3, <1>4, <1>5, <1>6 DEF ProducerStep

\* A signalled producer still holds its chunk.
LEMMA SignalKeepsBusy ==
  ASSUME producer \in [Containers -> {"none", "read", "push", "wait", "done"}],
         SignalNotFull
  PROVE  /\ producer' \in [Containers -> {"none", "read", "push", "wait", "done"}]
         /\ \A c \in Containers : Busy(c)' <=> Busy(c)
         /\ \A c \in Containers : producer[c] = "none" => producer'[c] = "none"
<1>1. CASE producer' = producer
  BY <1>1 DEF Busy
<1>2. ASSUME NEW d \in Waiting, producer' = [producer EXCEPT ![d] = "push"]
      PROVE  /\ producer' \in [Containers -> {"none", "read", "push", "wait", "done"}]
             /\ \A c \in Containers : Busy(c)' <=> Busy(c)
             /\ \A c \in Containers : producer[c] = "none" => producer'[c] = "none"
  BY <1>2 DEF Busy, Waiting
<1> QED
  BY <1>1, <1>2 DEF SignalNotFull

\* The consumer and the shutdown keep the invariant.
LEMMA ConsumerKeepsInd ==
  ASSUME IndInv, ConsumerStep \/ PopSpurious \/ LogBufferShutdown
  PROVE  IndInv'
<1> USE DEF IndInv
<1>1. CASE PopBlocks
  BY <1>1, RingInvKept DEF PopBlocks, ConsumerGoes, TypeOK, HandsInv, ConsumerInv, Busy, ring, pipes
<1>2. CASE PopEnds
  BY <1>2, RingInvKept DEF PopEnds, ConsumerGoes, TypeOK, HandsInv, ConsumerInv, Busy, ring, pipes
<1>3. CASE PopSpurious
  BY <1>3, RingInvKept
     DEF PopSpurious, ConsumerGoes, TypeOK, HandsInv, ConsumerInv, Busy, ring, pipes
<1>4. CASE WriteLog
  <2>1. popped.container_index \in Containers /\ popped.chunk \in Nat
    BY <1>4 DEF WriteLog, ConsumerInv, Entry
  <2>2. log' \in [Containers -> Seq(Nat)]
    BY <1>4, <2>1 DEF WriteLog, TypeOK
  <2> QED
    BY <1>4, <2>2, RingInvKept
       DEF WriteLog, TypeOK, HandsInv, ConsumerInv, Busy, ring, pipes
<1>5. CASE OpenLogFails
  BY <1>5, RingInvKept
     DEF OpenLogFails, TypeOK, HandsInv, ConsumerInv, Busy, ring, pipes
<1>6. CASE LogBufferShutdown
  BY <1>6, RingInvKept
     DEF LogBufferShutdown, WakeConsumer, TypeOK, HandsInv, ConsumerInv, Busy, ring, pipes
<1>7. CASE Pop
  <2>1. /\ producer' \in [Containers -> {"none", "read", "push", "wait", "done"}]
        /\ \A c \in Containers : Busy(c)' <=> Busy(c)
        /\ \A c \in Containers : producer[c] = "none" => producer'[c] = "none"
    BY <1>7, SignalKeepsBusy DEF Pop, TypeOK
  <2>2. RingInv' /\ popped' \in Entry
    BY <1>7, PopCells DEF RingInv
  <2>3. head' \in Slots /\ count' \in 0 .. LOG_BUFFER_CAPACITY
    BY <1>7, AdvanceIsPos, PosInSlots, CapacityAssumption DEF Pop, TypeOK, Slots
  <2>4. TypeOK'
    BY <1>7, <2>1, <2>2, <2>3 DEF Pop, TypeOK, pipes
  <2>5. HandsInv' /\ ConsumerInv'
    <3>1. consumer' = "write" /\ UNCHANGED <<start, fetched>>
      BY <1>7 DEF Pop, pipes
    <3>2. HandsInv'
      BY <2>1, <3>1 DEF HandsInv, Busy
    <3> QED
      BY <2>2, <3>1, <3>2 DEF ConsumerInv
  <2> QED
    BY <2>2, <2>4, <2>5
<1> QED
  BY <1>1, <1>2, <1>3, <1>4, <1>5, <1>6, <1>7 DEF ConsumerStep

\* So does a step that changes nothing.
LEMMA StutterKeepsInd ==
  ASSUME IndInv, UNCHANGED vars
  PROVE  IndInv'
  BY RingInvKept
     DEF IndInv, vars, TypeOK, HandsInv, ConsumerInv, Busy, ring, pipes

\* Every step keeps the invariant.
LEMMA NextKeepsInd == IndInv /\ [Next]_vars => IndInv'
<1> SUFFICES ASSUME IndInv, [Next]_vars PROVE IndInv'
  OBVIOUS
<1> QED
  BY StartKeepsInd, ProducerKeepsInd, ConsumerKeepsInd, StutterKeepsInd
     DEF Next, Terminated

\* Type correctness of the pipeline, for any number of containers, any ring
\* capacity and any failures: no index leaves the ring and the consumer never
\* takes a cell that no producer filled.
THEOREM TypeCorrect == Spec => []TypeOK
<1>1. Spec => []IndInv
  BY InitInd, NextKeepsInd, PTL DEF Spec
<1> QED
  BY <1>1, PTL DEF IndInv

-----------------------------------------------------------------------------
(* Order: log file, consumer, ring and producer hold ever later chunks.    *)

Holds(e, c) == e \in Entry /\ e.container_index = c

\* What is in a log file is older than what is still on the way there.
LogBehind ==
  \A c \in Containers : \A i \in 1 .. Len(log[c]) :
    /\ log[c][i] <= Settled(c)
    /\ Holds(popped, c) => log[c][i] < popped.chunk
    /\ \A j \in Indices : Holds(Cell(j), c) => log[c][i] < Cell(j).chunk

\* What the consumer holds is older than what is in the ring.
PoppedBehind ==
  \A c \in Containers : Holds(popped, c) =>
    /\ popped.chunk <= Settled(c)
    /\ \A j \in Indices : Holds(Cell(j), c) => popped.chunk < Cell(j).chunk

\* The ring is in order, and older than what a producer holds.
RingOrdered ==
  \A c \in Containers : \A j \in Indices : Holds(Cell(j), c) =>
    /\ Cell(j).chunk <= Settled(c)
    /\ \A i \in Indices : i < j /\ Holds(Cell(i), c) => Cell(i).chunk < Cell(j).chunk

OrderInv == LogInOrder /\ LogBehind /\ PoppedBehind /\ RingOrdered

\* At first nothing is out of order.
LEMMA InitOrder == Init => OrderInv
<1> SUFFICES ASSUME Init PROVE OrderInv
  OBVIOUS
<1>1. \A c \in Containers : Len(log[c]) = 0
  BY DEF Init
<1>2. Indices = {} /\ popped \notin Entry
  BY NoEntryAssumption DEF Init, Indices
<1> QED
  BY <1>1, <1>2
     DEF OrderInv, LogInOrder, LogBehind, PoppedBehind, RingOrdered, Holds

\* Settled is a number.
LEMMA SettledIsInt ==
  ASSUME TypeOK
  PROVE  \A c \in Containers : Settled(c) \in Int
  BY DEF TypeOK, Settled

\* Log files hold numbers of chunks.
LEMMA LogsAreNat ==
  ASSUME TypeOK
  PROVE  \A c \in Containers : \A i \in 1 .. Len(log[c]) : log[c][i] \in Nat
  BY DEF TypeOK

\* A step that moves no entry and takes no chunk back from the ring.
LEMMA OrderKept ==
  ASSUME IndInv, IndInv', OrderInv, UNCHANGED <<ring, log, popped>>,
         \A c \in Containers : Settled(c) <= Settled(c)'
  PROVE  OrderInv'
<1>1. Indices' = Indices /\ \A j : Cell(j)' = Cell(j)
  BY RingUnchanged DEF ring
<1>2. \A c \in Containers : Settled(c) \in Int /\ Settled(c)' \in Int
  BY SettledIsInt DEF IndInv, TypeOK, Settled
<1>3. LogInOrder'
  BY DEF OrderInv, LogInOrder
<1>4. \A c \in Containers : \A i \in 1 .. Len(log[c]) : log[c][i] \in Nat
  BY LogsAreNat DEF IndInv
<1>5. LogBehind'
  BY <1>1, <1>2, <1>4 DEF OrderInv, LogBehind, Holds
<1>6. PoppedBehind'
  BY <1>1, <1>2 DEF OrderInv, PoppedBehind, Holds, Entry
<1>7. RingOrdered'
  BY <1>1, <1>2 DEF OrderInv, RingOrdered, Holds, Entry
<1> QED
  BY <1>3, <1>5, <1>6, <1>7 DEF OrderInv

\* Starting a container, its output and its end move no chunk.
LEMMA StartKeepsOrder ==
  ASSUME IndInv, IndInv', OrderInv, NEW c \in Containers,
         \/ OpenPipe(c) \/ StartStep(c) \/ Emit(c) \/ ContainerExit(c)
  PROVE  OrderInv'
<1>1. UNCHANGED <<ring, log, popped, fetched>>
  BY DEF OpenPipe, StartStep, Emit, ContainerExit, CloneChild, CloneFails,
         CloseWriteEnd, StartProducer, NoProducer, StartGoes
<1>2. \A d \in Containers : Busy(d)' => Busy(d)
  BY DEF OpenPipe, StartStep, Emit, ContainerExit, CloneChild, CloneFails,
         CloseWriteEnd, StartProducer, NoProducer, StartGoes, Busy, IndInv, TypeOK
<1>3. \A d \in Containers : Settled(d) <= Settled(d)'
  BY <1>1, <1>2 DEF Settled, IndInv, TypeOK
<1> QED
  BY <1>1, <1>3, OrderKept

\* The producers keep the order: a chunk enters the ring behind its container's others.
LEMMA ProducerKeepsOrder ==
  ASSUME IndInv, IndInv', OrderInv, NEW c \in Containers,
         ProducerStep(c) \/ PushSpurious(c)
  PROVE  OrderInv'
<1> USE DEF IndInv
<1>1. CASE ProducerRead(c)
  <2>1. \A d \in Containers : Settled(d) <= Settled(d)'
    BY <1>1 DEF ProducerRead, Settled, Busy, TypeOK
  <2> QED
    BY <1>1, <2>1, OrderKept DEF ProducerRead
<1>2. CASE ProducerEof(c) \/ PushBlocks(c) \/ PushRefused(c) \/ PushSpurious(c)
  <2>1. \A d \in Containers : Settled(d) <= Settled(d)'
    BY <1>2 DEF ProducerEof, PushBlocks, PushRefused, PushSpurious, ProducerGoes, Settled, Busy, TypeOK
  <2>2. UNCHANGED <<ring, log, popped>>
    BY <1>2 DEF ProducerEof, PushBlocks, PushRefused, PushSpurious, ProducerGoes
  <2> QED
    BY <2>1, <2>2, OrderKept
<1>3. CASE Push(c)
  <2> DEFINE e == EntryOf(c, fetched[c])
  <2>1. /\ Indices' = 0 .. count /\ count \in Nat
        /\ \A j \in Indices : j \in Indices' /\ j < count /\ Cell(j)' = Cell(j)
        /\ \A j \in Indices' : j = count \/ j \in Indices
        /\ count \in Indices' /\ \A j \in Indices' : j = count => Cell(j)' = e
    <3>1. count \in Nat
      BY CapacityAssumption DEF TypeOK
    <3>2. Indices' = 0 .. count /\ Indices = 0 .. count - 1
      BY <1>3, PushCells DEF Indices
    <3>3. /\ \A j \in Indices : j \in Indices' /\ j < count /\ j # count
          /\ \A j \in Indices' : j = count \/ j \in Indices
          /\ count \in Indices'
      BY <3>1, <3>2
    <3>4. \A j \in Indices' : Cell(j)' = IF j = count THEN e ELSE Cell(j)
      BY <1>3, PushCells
    <3>5. \A j \in Indices : Cell(j)' = Cell(j)
      BY <3>1, <3>3, <3>4
    <3> QED
      BY <3>1, <3>2, <3>3, <3>4, <3>5
  <2>2. e \in Entry /\ e.container_index = c /\ e.chunk = fetched[c]
    BY <1>3 DEF Push, Entry, EntryOf, TypeOK, HandsInv, Busy
  <2>3. /\ \A d \in Containers : Settled(d) \in Int /\ Settled(d)' \in Int
        /\ \A d \in Containers : Settled(d) <= Settled(d)'
        /\ Settled(c) < fetched[c] /\ Settled(c)' = fetched[c]
        /\ UNCHANGED <<log, popped>>
    <3>1. /\ producer[c] = "push" /\ producer' = [producer EXCEPT ![c] = "read"]
          /\ UNCHANGED <<fetched, log, popped>>
      BY <1>3 DEF Push
    <3>2. Busy(c) /\ ~ Busy(c)' /\ \A d \in Containers \ {c} : Busy(d)' <=> Busy(d)
      BY <3>1 DEF Busy, TypeOK
    <3>3. fetched \in [Containers -> Nat]
      BY DEF TypeOK
    <3> QED
      BY <3>1, <3>2, <3>3 DEF Settled
  <2>4. \A d \in Containers : \A i \in 1 .. Len(log[d]) : log[d][i] \in Nat
    BY LogsAreNat
  <2> HIDE DEF e
  <2>5. LogInOrder'
    BY <2>3 DEF OrderInv, LogInOrder
  <2>6. LogBehind'
    <3> SUFFICES ASSUME NEW d \in Containers, NEW i \in 1 .. Len(log[d])
                 PROVE  /\ log[d][i] <= Settled(d)'
                        /\ Holds(popped, d) => log[d][i] < popped.chunk
                        /\ \A j \in Indices' :
                             Holds(Cell(j)', d) => log[d][i] < Cell(j)'.chunk
      BY <2>3 DEF LogBehind, Holds
    <3>1. log[d][i] <= Settled(d) /\ log[d][i] \in Nat
      BY <2>4 DEF OrderInv, LogBehind
    <3>2. ASSUME NEW j \in Indices', Holds(Cell(j)', d)
          PROVE  log[d][i] < Cell(j)'.chunk
      <4>1. CASE j = count
        BY <3>1, <3>2, <4>1, <2>1, <2>2, <2>3 DEF Holds
      <4>2. CASE j \in Indices
        BY <3>2, <4>2, <2>1 DEF OrderInv, LogBehind
      <4> QED
        BY <4>1, <4>2, <2>1
    <3> QED
      BY <3>1, <3>2, <2>3 DEF OrderInv, LogBehind
  <2>7. PoppedBehind'
    <3> SUFFICES ASSUME NEW d \in Containers, Holds(popped, d)
                 PROVE  /\ popped.chunk <= Settled(d)'
                        /\ \A j \in Indices' :
                             Holds(Cell(j)', d) => popped.chunk < Cell(j)'.chunk
      BY <2>3 DEF PoppedBehind, Holds
    <3>1. popped.chunk <= Settled(d) /\ popped.chunk \in Nat
      BY DEF OrderInv, PoppedBehind, Holds, Entry
    <3>2. ASSUME NEW j \in Indices', Holds(Cell(j)', d)
          PROVE  popped.chunk < Cell(j)'.chunk
      <4>1. CASE j = count
        BY <3>1, <3>2, <4>1, <2>1, <2>2, <2>3 DEF Holds
      <4>2. CASE j \in Indices
        BY <3>2, <4>2, <2>1 DEF OrderInv, PoppedBehind
      <4> QED
        BY <4>1, <4>2, <2>1
    <3> QED
      BY <3>1, <3>2, <2>3
  <2>8. RingOrdered'
    <3> SUFFICES ASSUME NEW d \in Containers, NEW j \in Indices', Holds(Cell(j)', d)
                 PROVE  /\ Cell(j)'.chunk <= Settled(d)'
                        /\ \A i \in Indices' : i < j /\ Holds(Cell(i)', d)
                             => Cell(i)'.chunk < Cell(j)'.chunk
      BY DEF RingOrdered, Holds
    <3>1. CASE j = count
      <4>1. d = c /\ Cell(j)'.chunk = fetched[c] /\ fetched[c] \in Nat
        BY <3>1, <2>1, <2>2 DEF Holds, TypeOK
      <4>2. ASSUME NEW i \in Indices', i < j, Holds(Cell(i)', d)
            PROVE  Cell(i)'.chunk < Cell(j)'.chunk
        <5>1. i \in Indices /\ Cell(i)' = Cell(i)
          BY <3>1, <4>2, <2>1
        <5>2. Cell(i).chunk <= Settled(c) /\ Cell(i).chunk \in Nat
          BY <4>1, <4>2, <5>1 DEF OrderInv, RingOrdered, Holds, Entry
        <5> QED
          BY <4>1, <5>1, <5>2, <2>3
      <4> QED
        BY <4>1, <4>2, <2>3
    <3>2. CASE j \in Indices
      <4>1. Cell(j).chunk <= Settled(d) /\ Cell(j).chunk \in Nat /\ Cell(j)' = Cell(j)
        BY <3>2, <2>1 DEF OrderInv, RingOrdered, Holds, Entry
      <4>2. ASSUME NEW i \in Indices', i < j, Holds(Cell(i)', d)
            PROVE  Cell(i)'.chunk < Cell(j)'.chunk
        <5>1. i \in Indices /\ Cell(i)' = Cell(i)
          BY <3>2, <4>2, <2>1 DEF Indices
        <5> QED
          BY <3>2, <4>1, <4>2, <5>1 DEF OrderInv, RingOrdered
      <4> QED
        BY <4>1, <4>2, <2>3
    <3> QED
      BY <3>1, <3>2, <2>1
  <2> QED
    BY <2>5, <2>6, <2>7, <2>8 DEF OrderInv
<1> QED
  BY <1>1, <1>2, <1>3 DEF ProducerStep

\* The consumer keeps the order: it takes and writes a container's oldest chunk.
LEMMA ConsumerKeepsOrder ==
  ASSUME IndInv, IndInv', OrderInv, ConsumerStep \/ PopSpurious \/ LogBufferShutdown
  PROVE  OrderInv'
<1> USE DEF IndInv
<1>1. CASE PopBlocks \/ PopEnds \/ PopSpurious
  <2>1. \A d \in Containers : Settled(d) <= Settled(d)'
    BY <1>1 DEF PopBlocks, PopEnds, PopSpurious, ConsumerGoes, Settled, Busy, TypeOK
  <2> QED
    BY <1>1, <2>1, OrderKept DEF PopBlocks, PopEnds, PopSpurious, ConsumerGoes
<1>2. CASE LogBufferShutdown
  <2>1. \A d \in Containers : Settled(d) <= Settled(d)'
    BY <1>2 DEF LogBufferShutdown, Settled, Busy, TypeOK
  <2> QED
    BY <1>2, <2>1, OrderKept DEF LogBufferShutdown
<1>3. CASE OpenLogFails
  <2>1. /\ UNCHANGED <<log, fetched, producer>> /\ popped' \notin Entry
        /\ Indices' = Indices /\ \A j : Cell(j)' = Cell(j)
    BY <1>3, NoEntryAssumption, RingUnchanged DEF OpenLogFails
  <2>2. \A d \in Containers : Settled(d)' = Settled(d)
    BY <2>1 DEF Settled, Busy
  <2> QED
    BY <2>1, <2>2
       DEF OrderInv, LogInOrder, LogBehind, PoppedBehind, RingOrdered, Holds
<1>4. CASE WriteLog
  <2>1. /\ popped \in Entry /\ popped.container_index \in Containers
        /\ popped.chunk \in Nat /\ popped' \notin Entry
        /\ log' = [log EXCEPT ![popped.container_index] = Append(@, popped.chunk)]
        /\ Indices' = Indices /\ \A j : Cell(j)' = Cell(j)
    BY <1>4, NoEntryAssumption, RingUnchanged DEF WriteLog, ConsumerInv, Entry
  <2>2. \A d \in Containers : Settled(d)' = Settled(d)
    BY <1>4 DEF WriteLog, Settled, Busy
  <2> DEFINE c == popped.container_index
  <2>3. c \in Containers /\ Holds(popped, c)
    BY <2>1 DEF Holds
  <2>4. \A d \in Containers \ {c} : log'[d] = log[d]
    BY <2>1 DEF TypeOK
  <2>5. /\ Len(log[c]) \in Nat /\ Len(log'[c]) = Len(log[c]) + 1
        /\ \A i \in 1 .. Len(log[c]) : log'[c][i] = log[c][i] /\ log[c][i] \in Nat
        /\ \A i \in 1 .. Len(log'[c]) :
             i \in 1 .. Len(log[c]) \/ (i = Len(log[c]) + 1 /\ log'[c][i] = popped.chunk)
    <3>1. log[c] \in Seq(Nat) /\ log'[c] = Append(log[c], popped.chunk)
      BY <2>1 DEF TypeOK
    <3> QED
      BY <3>1, <2>1
  <2>6. \A i \in 1 .. Len(log[c]) : log[c][i] < popped.chunk
    BY <2>3 DEF OrderInv, LogBehind
  <2> HIDE DEF c
  <2>7. LogInOrder'
    <3> SUFFICES ASSUME NEW d \in Containers, NEW i \in 1 .. Len(log'[d]),
                        NEW j \in 1 .. Len(log'[d]), i < j
                 PROVE  log'[d][i] < log'[d][j]
      BY DEF LogInOrder
    <3>1. CASE d # c
      BY <3>1, <2>4 DEF OrderInv, LogInOrder
    <3>2. CASE d = c
      <4>1. i \in 1 .. Len(log[c]) /\ log'[c][i] = log[c][i]
        BY <3>2, <2>5
      <4>2. CASE j \in 1 .. Len(log[c])
        BY <2>3, <2>5, <3>2, <4>1, <4>2 DEF OrderInv, LogInOrder
      <4>3. CASE log'[c][j] = popped.chunk
        BY <2>6, <3>2, <4>1, <4>3
      <4> QED
        BY <3>2, <4>2, <4>3, <2>5
    <3> QED
      BY <3>1, <3>2
  <2>8. LogBehind'
    <3> SUFFICES ASSUME NEW d \in Containers, NEW i \in 1 .. Len(log'[d])
                 PROVE  /\ log'[d][i] <= Settled(d)
                        /\ \A j \in Indices :
                             Holds(Cell(j), d) => log'[d][i] < Cell(j).chunk
      BY <2>1, <2>2 DEF LogBehind, Holds
    <3>1. CASE d # c
      BY <3>1, <2>4 DEF OrderInv, LogBehind
    <3>2. CASE d = c /\ i \in 1 .. Len(log[c])
      BY <3>2, <2>5 DEF OrderInv, LogBehind
    <3>3. CASE d = c /\ log'[d][i] = popped.chunk
      BY <3>3, <2>3 DEF OrderInv, PoppedBehind
    <3> QED
      BY <3>1, <3>2, <3>3, <2>5
  <2>9. PoppedBehind' /\ RingOrdered'
    BY <2>1, <2>2 DEF OrderInv, PoppedBehind, RingOrdered, Holds
  <2> QED
    BY <2>7, <2>8, <2>9 DEF OrderInv
<1>5. CASE Pop
  <2>1. UNCHANGED <<log, fetched>> /\ popped = NoEntry /\ popped' = Cell(0)
        /\ 0 \in Indices /\ Cell(0) \in Entry
    BY <1>5, PopCells DEF Pop, ConsumerInv, RingInv
  <2>2. \A d \in Containers : Settled(d)' = Settled(d)
    BY <1>5, <2>1, SignalKeepsBusy DEF Pop, TypeOK, Settled
  <2>3. \A j \in Indices' :
          j + 1 \in Indices /\ 0 < j + 1 /\ Cell(j)' = Cell(j + 1)
    BY <1>5, PopCells
  <2>4. \A i, j \in Indices' : i < j => i + 1 < j + 1
    BY <1>5, PopCells
  <2>5. LogInOrder' /\ LogBehind'
    BY <2>1, <2>2, <2>3 DEF OrderInv, LogInOrder, LogBehind, Holds
  <2>6. PoppedBehind'
    BY <2>1, <2>2, <2>3 DEF OrderInv, PoppedBehind, RingOrdered, Holds
  <2>7. RingOrdered'
    BY <2>2, <2>3, <2>4 DEF OrderInv, RingOrdered, Holds
  <2> QED
    BY <2>5, <2>6, <2>7 DEF OrderInv
<1> QED
  BY <1>1, <1>2, <1>3, <1>4, <1>5 DEF ConsumerStep

\* Every step keeps the order.
LEMMA NextKeepsOrder == IndInv /\ IndInv' /\ OrderInv /\ [Next]_vars => OrderInv'
<1> SUFFICES ASSUME IndInv, IndInv', OrderInv, [Next]_vars PROVE OrderInv'
  OBVIOUS
<1>1. CASE UNCHANGED vars
  <2>1. \A d \in Containers : Settled(d) <= Settled(d)'
    BY <1>1 DEF vars, Settled, Busy, IndInv, TypeOK
  <2> QED
    BY <1>1, <2>1, OrderKept DEF vars
<1> QED
  BY <1>1, StartKeepsOrder, ProducerKeepsOrder, ConsumerKeepsOrder
     DEF Next, Terminated

\* Every log file is a strictly increasing sequence of chunks: no reordering
\* and no duplication between a container's pipe and its log file.
THEOREM LogsInOrder == Spec => []LogInOrder
<1>1. Spec => [](IndInv /\ OrderInv)
  BY InitInd, NextKeepsInd, InitOrder, NextKeepsOrder, PTL DEF Spec
<1> QED
  BY <1>1, PTL DEF OrderInv

-----------------------------------------------------------------------------
(* Accounting: where each chunk that was read is.                          *)

Queued(e) == \E j \in Indices : Cell(j) = e

Located(c, n) ==
  \/ InHand(c, n)
  \/ Queued(EntryOf(c, n))
  \/ popped = EntryOf(c, n)
  \/ InLog(c, n)
  \/ EntryOf(c, n) \in lost

AccountInv == \A c \in Containers : \A n \in 1 .. fetched[c] : Located(c, n)

\* The two ways to say that an entry is in the ring agree.
LEMMA QueuedIsInRing ==
  ASSUME TypeOK
  PROVE  \A e : Queued(e) <=> InRing(e)
  BY AtIsCell DEF Queued, InRing, Indices

\* The name of a chunk is an entry.
LEMMA EntryOfIsEntry ==
  ASSUME NEW c \in Containers, NEW n \in Nat \ {0}
  PROVE  EntryOf(c, n) \in Entry /\ EntryOf(c, n) # NoEntry
  BY NoEntryAssumption DEF EntryOf, Entry

\* A step that moves no entry leaves every chunk where it is.
LEMMA LocatedKept ==
  ASSUME NEW c \in Containers, NEW n, Located(c, n),
         UNCHANGED <<ring, popped, log, fetched>>, lost \subseteq lost',
         Busy(c) => Busy(c)'
  PROVE  Located(c, n)'
<1>1. Queued(EntryOf(c, n)) => Queued(EntryOf(c, n))'
  BY RingUnchanged DEF Queued, EntryOf
<1>2. InHand(c, n) => InHand(c, n)'
  BY DEF InHand, Busy
<1>3. InLog(c, n) => InLog(c, n)'
  BY DEF InLog
<1> QED
  BY <1>1, <1>2, <1>3 DEF Located, EntryOf

\* Starting a container, its output and its end lose no chunk.
LEMMA StartKeepsAccount ==
  ASSUME IndInv, AccountInv, NEW c \in Containers,
         \/ OpenPipe(c) \/ StartStep(c) \/ Emit(c) \/ ContainerExit(c)
  PROVE  AccountInv'
<1>1. UNCHANGED <<ring, popped, log, fetched, lost>>
  BY DEF OpenPipe, StartStep, Emit, ContainerExit, CloneChild, CloneFails,
         CloseWriteEnd, StartProducer, NoProducer, StartGoes
<1>2. CASE UNCHANGED producer
  BY <1>1, <1>2, LocatedKept DEF AccountInv, Busy
<1>3. CASE StartProducer(c)
  <2> SUFFICES ASSUME NEW d \in Containers, NEW n \in 1 .. fetched[d]
               PROVE  Located(d, n)'
    BY <1>1 DEF AccountInv
  <2> QED
    BY <1>1, <1>3, LocatedKept
       DEF AccountInv, StartProducer, Busy, IndInv, TypeOK, HandsInv
<1> QED
  BY <1>2, <1>3 DEF OpenPipe, StartStep, Emit, ContainerExit, CloneChild, CloneFails,
                    CloseWriteEnd, NoProducer, StartGoes

\* The producers lose no chunk unaccounted.
LEMMA ProducerKeepsAccount ==
  ASSUME IndInv, AccountInv, NEW c \in Containers, ProducerStep(c) \/ PushSpurious(c)
  PROVE  AccountInv'
<1> USE DEF IndInv
<1>1. CASE PushBlocks(c) \/ PushSpurious(c) \/ ProducerEof(c)
  <2>1. UNCHANGED <<ring, popped, log, fetched, lost>>
    BY <1>1 DEF PushBlocks, PushSpurious, ProducerEof, ProducerGoes
  <2>2. \A d \in Containers : Busy(d) => Busy(d)'
    BY <1>1 DEF PushBlocks, PushSpurious, ProducerEof, ProducerGoes, Busy, TypeOK
  <2> QED
    BY <2>1, <2>2, LocatedKept DEF AccountInv
<1>2. CASE ProducerRead(c)
  <2>1. UNCHANGED <<ring, popped, log, lost>>
    BY <1>2 DEF ProducerRead
  <2>2. /\ fetched' = [fetched EXCEPT ![c] = @ + 1] /\ fetched \in [Containers -> Nat]
        /\ producer'[c] = "push" /\ producer[c] = "read"
        /\ \A d \in Containers \ {c} : producer'[d] = producer[d] /\ fetched'[d] = fetched[d]
    BY <1>2 DEF ProducerRead, TypeOK
  <2> SUFFICES ASSUME NEW d \in Containers, NEW n \in 1 .. fetched'[d]
               PROVE  Located(d, n)'
    BY DEF AccountInv
  <2>3. CASE d = c /\ n = fetched'[c]
    BY <2>2, <2>3 DEF Located, InHand
  <2>4. CASE ~ (d = c /\ n = fetched'[c])
    <3>1. Located(d, n)
      BY <2>2, <2>4 DEF AccountInv
    <3>2. Queued(EntryOf(d, n)) => Queued(EntryOf(d, n))'
      BY <2>1, RingUnchanged DEF Queued, EntryOf
    <3>3. InLog(d, n) => InLog(d, n)'
      BY <2>1 DEF InLog
    <3>4. InHand(d, n) => InHand(d, n)'
      BY <2>2 DEF InHand
    <3> QED
      BY <2>1, <3>1, <3>2, <3>3, <3>4 DEF Located, EntryOf
  <2> QED
    BY <2>3, <2>4
<1>3. CASE PushRefused(c)
  <2>1. /\ UNCHANGED <<ring, popped, log, fetched>>
        /\ lost' = lost \cup {EntryOf(c, fetched[c])}
        /\ \A d \in Containers \ {c} : producer'[d] = producer[d]
    BY <1>3 DEF PushRefused, EntryOf, TypeOK
  <2> SUFFICES ASSUME NEW d \in Containers, NEW n \in 1 .. fetched[d]
               PROVE  Located(d, n)'
    BY <2>1 DEF AccountInv
  <2>2. CASE d = c /\ n = fetched[c]
    BY <2>1, <2>2 DEF Located, EntryOf
  <2>3. CASE d # c
    BY <2>1, <2>3, LocatedKept DEF AccountInv, Busy
  <2>4. CASE d = c /\ n # fetched[c]
    <3>1. Located(d, n) /\ ~ InHand(d, n)
      BY <2>4 DEF AccountInv, InHand
    <3>2. Queued(EntryOf(d, n)) => Queued(EntryOf(d, n))'
      BY <2>1, RingUnchanged DEF Queued, EntryOf
    <3>3. InLog(d, n) => InLog(d, n)'
      BY <2>1 DEF InLog
    <3> QED
      BY <2>1, <3>1, <3>2, <3>3 DEF Located, EntryOf
  <2> QED
    BY <2>2, <2>3, <2>4
<1>4. CASE Push(c)
  <2>1. /\ UNCHANGED <<popped, log, fetched, lost>>
        /\ \A d \in Containers \ {c} : producer'[d] = producer[d]
    BY <1>4 DEF Push, TypeOK
  <2>2. /\ count \in Indices'
        /\ \A j \in Indices' : j = count => Cell(j)' = EntryOf(c, fetched[c])
        /\ \A j \in Indices : j \in Indices' /\ Cell(j)' = Cell(j)
    <3>1. count \in Nat
      BY CapacityAssumption DEF TypeOK
    <3>2. Indices' = 0 .. count /\ Indices = 0 .. count - 1
      BY <1>4, PushCells DEF Indices
    <3>3. count \in Indices' /\ \A j \in Indices : j \in Indices' /\ j # count
      BY <3>1, <3>2
    <3>4. \A j \in Indices' :
            Cell(j)' = IF j = count THEN EntryOf(c, fetched[c]) ELSE Cell(j)
      BY <1>4, PushCells
    <3>5. \A j \in Indices' : j = count => Cell(j)' = EntryOf(c, fetched[c])
      BY <3>4
    <3>6. \A j \in Indices : Cell(j)' = Cell(j)
      BY <3>3, <3>4
    <3> QED
      BY <3>3, <3>5, <3>6
  <2> SUFFICES ASSUME NEW d \in Containers, NEW n \in 1 .. fetched[d]
               PROVE  Located(d, n)'
    BY <2>1 DEF AccountInv
  <2>3. Located(d, n) /\ EntryOf(d, n)' = EntryOf(d, n)
    BY DEF AccountInv, EntryOf
  <2>4. CASE d = c /\ n = fetched[c]
    <3>1. \E j \in Indices' : Cell(j)' = EntryOf(d, n)
      BY <2>2, <2>4
    <3> QED
      BY <2>3, <3>1 DEF Located, Queued
  <2>5. CASE d # c /\ InHand(d, n)
    BY <2>1, <2>5 DEF Located, InHand
  <2>6. CASE Queued(EntryOf(d, n))
    <3>1. \E j \in Indices' : Cell(j)' = EntryOf(d, n)
      BY <2>2, <2>6 DEF Queued
    <3> QED
      BY <2>3, <3>1 DEF Located, Queued
  <2>7. CASE popped = EntryOf(d, n) \/ InLog(d, n) \/ EntryOf(d, n) \in lost
    BY <2>1, <2>3, <2>7 DEF Located, InLog
  <2> QED
    BY <2>3, <2>4, <2>5, <2>6, <2>7 DEF Located, InHand
<1> QED
  BY <1>1, <1>2, <1>3, <1>4 DEF ProducerStep

\* The consumer loses no chunk unaccounted.
LEMMA ConsumerKeepsAccount ==
  ASSUME IndInv, AccountInv, ConsumerStep \/ PopSpurious \/ LogBufferShutdown
  PROVE  AccountInv'
<1> USE DEF IndInv
<1>1. CASE PopBlocks \/ PopEnds \/ PopSpurious \/ LogBufferShutdown
  <2>1. UNCHANGED <<ring, popped, log, fetched, lost>>
    BY <1>1 DEF PopBlocks, PopEnds, PopSpurious, ConsumerGoes, LogBufferShutdown
  <2>2. \A d \in Containers : Busy(d) => Busy(d)'
    BY <1>1 DEF PopBlocks, PopEnds, PopSpurious, ConsumerGoes, LogBufferShutdown, Busy, TypeOK
  <2> QED
    BY <2>1, <2>2, LocatedKept DEF AccountInv
<1>2. CASE OpenLogFails \/ WriteLog
  <2>1. UNCHANGED <<ring, fetched, producer>> /\ popped \in Entry
    BY <1>2 DEF OpenLogFails, WriteLog, ConsumerInv
  <2> SUFFICES ASSUME NEW d \in Containers, NEW n \in 1 .. fetched[d]
               PROVE  Located(d, n)'
    BY <2>1 DEF AccountInv
  <2>2. Located(d, n) /\ EntryOf(d, n)' = EntryOf(d, n)
    BY DEF AccountInv, EntryOf
  <2>3. CASE InHand(d, n) \/ Queued(EntryOf(d, n))
    BY <2>1, <2>2, <2>3, RingUnchanged DEF Located, InHand, Queued
  <2>4. CASE popped = EntryOf(d, n) /\ OpenLogFails
    BY <2>2, <2>4 DEF OpenLogFails, Located
  <2>5. CASE popped = EntryOf(d, n) /\ WriteLog
    <3>1. popped.container_index = d /\ popped.chunk = n /\ n \in Nat
      BY <2>5 DEF EntryOf, TypeOK
    <3>2. log[d] \in Seq(Nat) /\ log'[d] = Append(log[d], n)
      BY <2>5, <3>1 DEF WriteLog, TypeOK
    <3>3. Len(log[d]) + 1 \in 1 .. Len(log'[d]) /\ log'[d][Len(log[d]) + 1] = n
      BY <3>1, <3>2
    <3> QED
      BY <3>3 DEF Located, InLog
  <2>6. CASE InLog(d, n)
    <3>1. log[d] \in Seq(Nat) /\ popped.chunk \in Nat
      BY <2>1 DEF TypeOK, Entry
    <3>2. log'[d] = log[d] \/ log'[d] = Append(log[d], popped.chunk)
      BY <1>2, <2>1 DEF OpenLogFails, WriteLog, TypeOK, Entry
    <3>3. \A i \in 1 .. Len(log[d]) : i \in 1 .. Len(log'[d]) /\ log'[d][i] = log[d][i]
      BY <3>1, <3>2
    <3> QED
      BY <2>6, <3>3 DEF Located, InLog
  <2>7. CASE EntryOf(d, n) \in lost
    BY <1>2, <2>2, <2>7 DEF OpenLogFails, WriteLog, Located
  <2> QED
    BY <1>2, <2>2, <2>3, <2>4, <2>5, <2>6, <2>7 DEF Located
<1>3. CASE Pop
  <2>1. UNCHANGED <<log, fetched, lost>> /\ popped = NoEntry
    BY <1>3 DEF Pop, ConsumerInv
  <2> SUFFICES ASSUME NEW d \in Containers, NEW n \in 1 .. fetched[d]
               PROVE  Located(d, n)'
    BY <2>1 DEF AccountInv
  <2>2. Located(d, n) /\ EntryOf(d, n)' = EntryOf(d, n)
    BY DEF AccountInv, EntryOf
  <2>3. popped # EntryOf(d, n)
    BY <2>1, EntryOfIsEntry DEF TypeOK
  <2>4. CASE InHand(d, n)
    BY <1>3, <2>1, <2>4, SignalKeepsBusy DEF Pop, TypeOK, Busy, InHand, Located
  <2>5. CASE Queued(EntryOf(d, n))
    <3>1. PICK j \in Indices : Cell(j) = EntryOf(d, n)
      BY <2>5 DEF Queued
    <3>2. CASE j = 0
      BY <1>3, <2>2, <3>1, <3>2, PopCells DEF Located
    <3>3. CASE j # 0
      <4>1. count \in Nat /\ j \in 1 .. count - 1
        BY <3>3, CapacityAssumption DEF TypeOK, Indices
      <4>2. j - 1 \in Indices' /\ (j - 1) + 1 = j
        BY <1>3, <4>1, PopCells
      <4>3. Cell(j - 1)' = Cell(j)
        BY <1>3, <4>2, PopCells
      <4> QED
        BY <2>2, <3>1, <4>2, <4>3 DEF Located, Queued
    <3> QED
      BY <3>2, <3>3
  <2>6. CASE InLog(d, n) \/ EntryOf(d, n) \in lost
    BY <2>1, <2>2, <2>6 DEF Located, InLog
  <2> QED
    BY <2>2, <2>3, <2>4, <2>5, <2>6 DEF Located
<1> QED
  BY <1>1, <1>2, <1>3 DEF ConsumerStep

\* Every step keeps the account.
LEMMA NextKeepsAccount == IndInv /\ AccountInv /\ [Next]_vars => AccountInv'
<1> SUFFICES ASSUME IndInv, AccountInv, [Next]_vars PROVE AccountInv'
  OBVIOUS
<1>1. CASE UNCHANGED vars
  BY <1>1, LocatedKept DEF vars, AccountInv, Busy
<1> QED
  BY <1>1, StartKeepsAccount, ProducerKeepsAccount, ConsumerKeepsAccount
     DEF Next, Terminated

\* At first there is nothing to account for.
LEMMA InitAccount == Init => AccountInv
  BY DEF Init, AccountInv

\* The account is what Accounted says.
LEMMA AccountedFollows == IndInv /\ AccountInv => Accounted
  BY QueuedIsInRing DEF IndInv, AccountInv, Located, Accounted

\* No chunk a producer has read vanishes: nothing in the ring is overwritten
\* or skipped, and the only losses are the two the code commits knowingly.
THEOREM AllAccounted == Spec => []Accounted
<1>1. Spec => [](IndInv /\ AccountInv)
  BY InitInd, NextKeepsInd, InitAccount, NextKeepsAccount, PTL DEF Spec
<1> QED
  BY <1>1, AccountedFollows, PTL

\* A consumer that is done has nothing left to write.
LEMMA FlushedFollows == IndInv /\ AccountInv => FlushedBeforeExit
<1> SUFFICES ASSUME IndInv, AccountInv, consumer = "done",
                    NEW c \in Containers, NEW n \in 1 .. fetched[c]
             PROVE  InHand(c, n) \/ InLog(c, n) \/ EntryOf(c, n) \in lost
  BY DEF FlushedBeforeExit
<1>1. Indices = {} /\ popped = NoEntry
  BY DEF IndInv, ConsumerInv, Indices
<1>2. popped # EntryOf(c, n)
  BY <1>1, EntryOfIsEntry DEF IndInv, TypeOK
<1> QED
  BY <1>1, <1>2 DEF AccountInv, Located, Queued

\* The consumer has flushed every accepted entry when it ends, and nothing is
\* accepted after it has ended.
THEOREM ConsumerFlushes == Spec => []FlushedBeforeExit
<1>1. Spec => [](IndInv /\ AccountInv)
  BY InitInd, NextKeepsInd, InitAccount, NextKeepsAccount, PTL DEF Spec
<1> QED
  BY <1>1, FlushedFollows, PTL

=============================================================================
