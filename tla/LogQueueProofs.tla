--------------------------- MODULE LogQueueProofs ---------------------------
(***************************************************************************)
(* What the threads around log_buffer_t get from it, for any set of        *)
(* containers and any capacities: no wakeup is lost although each pop      *)
(* signals one producer only, and the ring implements the bounded FIFO     *)
(* queue of LogQueue.                                                      *)
(***************************************************************************)
EXTENDS LogPipelineProofs, FiniteSetTheorems

-----------------------------------------------------------------------------
(* No lost wakeup.                                                         *)

\* The producers that are awake with a chunk in their hands.
Pushing == {c \in Containers : producer[c] = "push"}

\* The producers about to push can be counted.
LEMMA PushingFinite == IsFiniteSet(Pushing) /\ Cardinality(Pushing) \in Nat
<1>1. Pushing \subseteq Containers
  BY DEF Pushing
<1>2. IsFiniteSet(Pushing)
  BY <1>1, ContainersFinite, FS_Subset
<1> QED
  BY <1>2, FS_CardinalityType

\* Awake producers that stay awake, the ring as it was and nobody new asleep.
LEMMA WakeupsKept ==
  ASSUME NoLostWakeup, IndInv, UNCHANGED <<count, shutdown>>,
         IsFiniteSet(Pushing'), Pushing \subseteq Pushing', Waiting' \subseteq Waiting,
         consumer' = "wait" => consumer = "wait" \/ (count = 0 /\ ~ shutdown)
  PROVE  NoLostWakeup'
<1>1. PICK m \in Nat : m = Cardinality(Pushing)
  BY PushingFinite
<1>2. PICK n \in Nat : n = Cardinality(Pushing') /\ m <= n
  BY <1>1, FS_CardinalityType, FS_Subset
<1>3. count \in Nat /\ LOG_BUFFER_CAPACITY \in Nat
  BY CapacityAssumption DEF IndInv, TypeOK
<1>4. Waiting' # {} => ~ shutdown' /\ LOG_BUFFER_CAPACITY - count' <= n
  BY <1>1, <1>2, <1>3 DEF NoLostWakeup, Pushing
<1> QED
  BY <1>2, <1>4 DEF NoLostWakeup, Pushing

\* Every step keeps as many producers awake as there are slots to fill.
LEMMA NextKeepsWakeups == NoLostWakeup /\ IndInv /\ [Next]_vars => NoLostWakeup'
<1> SUFFICES ASSUME NoLostWakeup, IndInv, [Next]_vars PROVE NoLostWakeup'
  OBVIOUS
<1> USE DEF IndInv
<1>1. IsFiniteSet(Pushing')
  <2>1. Pushing' \subseteq Containers
    BY DEF Pushing
  <2> QED
    BY <2>1, ContainersFinite, FS_Subset
<1>2. PICK m \in Nat, n \in Nat : m = Cardinality(Pushing) /\ n = Cardinality(Pushing')
  BY <1>1, PushingFinite, FS_CardinalityType
<1>3. count \in Nat /\ LOG_BUFFER_CAPACITY \in Nat \ {0}
  BY CapacityAssumption DEF TypeOK
<1>4. producer \in [Containers -> {"none", "read", "push", "wait", "done"}]
  BY DEF TypeOK
<1>5. CASE UNCHANGED <<count, shutdown, producer, consumer>>
  BY <1>1, <1>5, WakeupsKept DEF Pushing, Waiting
<1>6. ASSUME NEW c \in Containers, StartProducer(c) PROVE NoLostWakeup'
  <2>1. producer[c] = "none"
    BY <1>6 DEF StartProducer, HandsInv
  <2> QED
    BY <1>1, <1>4, <1>6, <2>1, WakeupsKept DEF StartProducer, ring, Pushing, Waiting
<1>7. ASSUME NEW c \in Containers, ProducerRead(c) \/ PushSpurious(c) \/ ProducerEof(c)
      PROVE  NoLostWakeup'
  <2>1. Pushing \subseteq Pushing' /\ Waiting' \subseteq Waiting
    BY <1>4, <1>7 DEF ProducerRead, PushSpurious, ProducerEof, ProducerGoes, Pushing, Waiting
  <2> QED
    BY <1>1, <1>7, <2>1, WakeupsKept
       DEF ProducerRead, PushSpurious, ProducerEof, ProducerGoes, ring
<1>8. ASSUME NEW c \in Containers, PushBlocks(c) PROVE NoLostWakeup'
  <2>1. count' = LOG_BUFFER_CAPACITY /\ ~ shutdown' /\ consumer' = consumer
    BY <1>8 DEF PushBlocks, ProducerGoes, ring
  <2>2. LOG_BUFFER_CAPACITY - count' <= n
    BY <1>2, <1>3, <2>1
  <2>3. consumer' # "wait"
    BY <1>3, <1>8, <2>1 DEF PushBlocks, NoLostWakeup
  <2> QED
    BY <1>2, <2>1, <2>2, <2>3 DEF NoLostWakeup, Pushing
<1>9. ASSUME NEW c \in Containers, Push(c) PROVE NoLostWakeup'
  <2>1. c \in Pushing /\ Pushing' = Pushing \ {c} /\ Waiting' = Waiting
    BY <1>4, <1>9 DEF Push, Pushing, Waiting
  <2>2. n = m - 1
    BY <1>2, <2>1, PushingFinite, FS_RemoveElement
  <2>3. count' = count + 1 /\ ~ shutdown' /\ consumer' # "wait"
    BY <1>9 DEF Push, WakeConsumer
  <2>4. Waiting' # {} => LOG_BUFFER_CAPACITY - count' <= n
    BY <1>2, <1>3, <2>1, <2>2, <2>3 DEF NoLostWakeup, Pushing
  <2> QED
    BY <1>2, <2>3, <2>4 DEF NoLostWakeup, Pushing
<1>10. ASSUME NEW c \in Containers, PushRefused(c) PROVE NoLostWakeup'
  <2>1. Waiting = {} /\ consumer # "wait"
    BY <1>10 DEF PushRefused, NoLostWakeup
  <2>2. Waiting' = {} /\ consumer' = consumer
    BY <1>4, <1>10, <2>1 DEF PushRefused, Waiting
  <2> QED
    BY <2>1, <2>2 DEF NoLostWakeup
<1>11. CASE Pop
  <2>1. consumer' # "wait" /\ count' = count - 1 /\ shutdown' = shutdown
    BY <1>11 DEF Pop
  <2>2. CASE Waiting = {} /\ producer' = producer
    BY <2>1, <2>2 DEF NoLostWakeup, Waiting
  <2>3. ASSUME NEW c \in Waiting, producer' = [producer EXCEPT ![c] = "push"]
        PROVE  NoLostWakeup'
    <3>1. c \notin Pushing /\ Pushing' = Pushing \cup {c}
      BY <1>4, <2>3 DEF Pushing, Waiting
    <3>2. n = m + 1
      BY <1>2, <3>1, PushingFinite, FS_AddElement
    <3>3. ~ shutdown /\ LOG_BUFFER_CAPACITY - count <= m
      BY <1>2, <2>3 DEF NoLostWakeup, Pushing
    <3>4. LOG_BUFFER_CAPACITY - count' <= n
      BY <1>3, <2>1, <3>2, <3>3
    <3> QED
      BY <1>2, <2>1, <3>3, <3>4 DEF NoLostWakeup, Pushing
  <2> QED
    BY <1>11, <2>2, <2>3 DEF Pop, SignalNotFull
<1>12. CASE LogBufferShutdown
  <2>1. Waiting' = {}
    BY <1>4, <1>12 DEF LogBufferShutdown, Waiting
  <2> QED
    BY <1>12, <2>1 DEF LogBufferShutdown, WakeConsumer, NoLostWakeup
<1>13. CASE PopBlocks \/ PopEnds \/ PopSpurious \/ WriteLog \/ OpenLogFails
  <2>1. UNCHANGED <<count, shutdown, producer>>
    BY <1>13 DEF PopBlocks, PopEnds, PopSpurious, WriteLog, OpenLogFails, ConsumerGoes, ring
  <2>2. consumer' = "wait" => count = 0 /\ ~ shutdown
    BY <1>13 DEF PopBlocks, PopEnds, PopSpurious, WriteLog, OpenLogFails, ConsumerGoes
  <2> QED
    BY <1>1, <2>1, <2>2, WakeupsKept DEF Pushing, Waiting
<1>14. ASSUME NEW c \in Containers,
              \/ OpenPipe(c) \/ CloneChild(c) \/ CloneFails(c) \/ CloseWriteEnd(c)
              \/ NoProducer(c) \/ Emit(c) \/ ContainerExit(c)
       PROVE  UNCHANGED <<count, shutdown, producer, consumer>>
  BY <1>14 DEF OpenPipe, CloneChild, CloneFails, CloseWriteEnd, NoProducer, Emit,
               ContainerExit, StartGoes, ring
<1> QED
  BY <1>5, <1>6, <1>7, <1>8, <1>9, <1>10, <1>11, <1>12, <1>13, <1>14
     DEF Next, StartStep, ProducerStep, ConsumerStep, Terminated, vars, ring

\* At first nobody sleeps.
LEMMA InitWakeups == Init => NoLostWakeup
  BY DEF Init, NoLostWakeup, Waiting

\* One pthread_cond_signal per pop suffices, for any number of producers: none
\* sleeps on not_full beside a free slot that no awake producer is about to
\* take, and the consumer never sleeps over a non-empty or closed buffer.
THEOREM WakeupsSuffice == Spec => []NoLostWakeup
<1>1. Spec => [](IndInv /\ NoLostWakeup)
  BY InitInd, NextKeepsInd, InitWakeups, NextKeepsWakeups, PTL DEF Spec
<1> QED
  BY <1>1, PTL

-----------------------------------------------------------------------------
(* The ring is a bounded FIFO queue.                                       *)

\* What the queue of LogQueue holds, seen from the ring.
Contents == [j \in 1 .. count |-> At(j - 1)]

\* No producer reads more than was written, nor a container writes too much.
FetchInv ==
  \A c \in Containers : fetched[c] <= emitted[c] /\ emitted[c] <= MaxChunks

\* Every step keeps the bounds on chunks read and written.
LEMMA NextKeepsFetch == FetchInv /\ IndInv /\ [Next]_vars => FetchInv'
<1> SUFFICES ASSUME FetchInv, IndInv, [Next]_vars PROVE FetchInv'
  OBVIOUS
<1>1. /\ emitted \in [Containers -> Nat] /\ fetched \in [Containers -> Nat]
      /\ MaxChunks \in Nat
  BY PipeAssumption DEF IndInv, TypeOK
<1>2. CASE UNCHANGED <<emitted, fetched>>
  BY <1>2 DEF FetchInv
<1>3. ASSUME NEW c \in Containers, Emit(c) PROVE FetchInv'
  BY <1>1, <1>3 DEF Emit, FetchInv
<1>4. ASSUME NEW c \in Containers, ProducerRead(c) PROVE FetchInv'
  BY <1>1, <1>4 DEF ProducerRead, pipes, FetchInv
<1>5. \/ UNCHANGED <<emitted, fetched>>
      \/ \E c \in Containers : Emit(c) \/ ProducerRead(c)
  BY Zenon
     DEF Next, OpenPipe, StartStep, CloneChild, CloneFails, CloseWriteEnd, StartProducer,
         NoProducer, StartGoes, ContainerExit, ProducerStep, ProducerEof, ProducerGoes,
         PushBlocks, Push, PushRefused, PushSpurious, ConsumerStep, PopBlocks, Pop, PopEnds,
         PopSpurious, ConsumerGoes, WriteLog, OpenLogFails, LogBufferShutdown, Terminated,
         vars, pipes
<1> QED
  BY <1>2, <1>3, <1>4, <1>5

\* At first no chunk was written.
LEMMA InitFetch == Init => FetchInv
  BY PipeAssumption DEF Init, FetchInv

\* The contents are a sequence of count entries, the cells in ring order.
ContentsInv ==
  /\ count \in Nat /\ Contents \in Seq(Entry) /\ Len(Contents) = count
  /\ \A j \in 1 .. count : j - 1 \in Indices /\ Contents[j] = Cell(j - 1)

\* The ring as a sequence.
LEMMA ContentsAre == IndInv => ContentsInv
<1> SUFFICES ASSUME IndInv PROVE ContentsInv
  OBVIOUS
<1>1. count \in Nat
  BY CapacityAssumption DEF IndInv, TypeOK
<1>2. ASSUME NEW j \in 1 .. count
      PROVE  j - 1 \in Indices /\ At(j - 1) = Cell(j - 1) /\ Cell(j - 1) \in Entry
  <2>1. j - 1 \in Indices
    BY <1>1 DEF Indices
  <2> QED
    BY <2>1, AtIsCell DEF IndInv, RingInv
<1>3. Contents \in [1 .. count -> Entry]
  BY <1>2 DEF Contents
<1>4. Contents \in Seq(Entry) /\ Len(Contents) = count
  BY <1>1, <1>3
<1> QED
  BY <1>1, <1>2, <1>4 DEF Contents, ContentsInv

\* The same after a step.
LEMMA ContentsAreNext == IndInv' => ContentsInv'
  BY ContentsAre, PTL

\* log_buffer_push appends to the contents.
LEMMA PushAppends ==
  ASSUME IndInv, IndInv', NEW c \in Containers, Push(c)
  PROVE  Contents' = Append(Contents, EntryOf(c, fetched[c]))
<1> DEFINE e == EntryOf(c, fetched[c])
           s == Contents
           t == Contents'
<1>1. /\ count \in Nat /\ s \in Seq(Entry) /\ Len(s) = count
      /\ \A j \in 1 .. count : j - 1 \in Indices /\ s[j] = Cell(j - 1)
  BY ContentsAre DEF ContentsInv
<1>2. /\ t \in Seq(Entry) /\ Len(t) = count + 1
      /\ \A j \in 1 .. count + 1 : j - 1 \in Indices' /\ t[j] = Cell(j - 1)'
  BY ContentsAreNext DEF ContentsInv, Push
<1>3. \A j \in Indices' : Cell(j)' = IF j = count THEN e ELSE Cell(j)
  BY PushCells DEF IndInv
<1>4. t[count + 1] = e
  <2>1. count + 1 \in 1 .. count + 1 /\ (count + 1) - 1 = count
    BY <1>1
  <2> QED
    BY <1>2, <1>3, <2>1
<1>5. ASSUME NEW j \in 1 .. count PROVE t[j] = s[j]
  <2>1. j \in 1 .. count + 1 /\ j - 1 # count
    BY <1>1
  <2> QED
    BY <1>1, <1>2, <1>3, <2>1
<1> HIDE DEF e, s, t
<1>6. e \in Entry
  BY <1>1, <1>2, <1>4
<1>7. t = Append(s, e)
  BY <1>1, <1>2, <1>4, <1>5, <1>6
<1> QED
  BY <1>7 DEF s, t, e

\* log_buffer_pop takes the first entry off the contents.
LEMMA PopTakes ==
  ASSUME IndInv, IndInv', Pop
  PROVE  /\ Contents # <<>>
         /\ popped' = Head(Contents)
         /\ Contents' = Tail(Contents)
<1> DEFINE s == Contents
           t == Contents'
<1>1. /\ count \in Nat /\ s \in Seq(Entry) /\ Len(s) = count
      /\ \A j \in 1 .. count : j - 1 \in Indices /\ s[j] = Cell(j - 1)
  BY ContentsAre DEF ContentsInv
<1>2. /\ t \in Seq(Entry) /\ Len(t) = count - 1
      /\ \A j \in 1 .. count - 1 : j - 1 \in Indices' /\ t[j] = Cell(j - 1)'
  BY ContentsAreNext DEF ContentsInv, Pop
<1>3. count # 0
  BY DEF Pop
<1>4. popped' = s[1]
  <2>1. 1 \in 1 .. count /\ 1 - 1 = 0
    BY <1>1, <1>3
  <2> QED
    BY <1>1, <2>1, PopCells DEF IndInv
<1>5. ASSUME NEW j \in 1 .. count - 1 PROVE t[j] = s[j + 1]
  <2>1. j + 1 \in 1 .. count /\ (j - 1) + 1 = (j + 1) - 1
    BY <1>1
  <2>2. t[j] = Cell((j - 1) + 1)
    BY <1>2, PopCells DEF IndInv
  <2> QED
    BY <1>1, <2>1, <2>2
<1> HIDE DEF s, t
<1>6. s # <<>> /\ Head(s) = s[1] /\ t = Tail(s)
  BY <1>1, <1>2, <1>3, <1>5
<1> QED
  BY <1>4, <1>6 DEF s, t

\* A step that leaves the ring alone leaves the contents alone.
LEMMA ContentsKept ==
  ASSUME UNCHANGED ring
  PROVE  Contents' = Contents
  BY DEF ring, Contents, At

\* Every step of the pipeline is a step of the queue, or none of its business.
LEMMA StepRefines ==
  ASSUME IndInv, IndInv', FetchInv, [Next]_vars
  PROVE  [Queue!Next]_(Queue!vars)
<1> USE DEF IndInv
<1>1. CASE UNCHANGED <<ring, shutdown, popped, consumer>>
  BY <1>1, ContentsKept DEF Contents, Queue!vars
<1>2. ASSUME NEW c \in Containers, Push(c) PROVE Queue!Next
  <2> DEFINE e == EntryOf(c, fetched[c])
  <2>1. e \in [container_index : Containers, chunk : 1 .. MaxChunks]
    <3>1. fetched[c] \in 1 .. MaxChunks
      BY <1>2, PipeAssumption DEF Push, TypeOK, HandsInv, Busy, FetchInv
    <3> QED
      BY <3>1 DEF EntryOf
  <2>2. Contents' = Append(Contents, e)
    BY <1>2, PushAppends
  <2>3. Len(Contents) < LOG_BUFFER_CAPACITY
    BY <1>2, ContentsAre, CapacityAssumption DEF ContentsInv, Push, TypeOK
  <2>4. consumer # "done"
    BY <1>2 DEF Push, ConsumerInv
  <2>5. (consumer = "done")' = (consumer = "done") /\ ~ shutdown /\ UNCHANGED <<shutdown, popped>>
    BY <1>2, <2>4 DEF Push, WakeConsumer
  <2>6. Queue!Put(e)
    BY <2>2, <2>3, <2>5 DEF Queue!Put, Contents
  <2> QED
    BY <2>1, <2>6 DEF Queue!Next
<1>3. CASE Pop
  <2>1. Contents # <<>> /\ popped' = Head(Contents) /\ Contents' = Tail(Contents)
    BY <1>3, PopTakes
  <2>2. popped = NoEntry /\ shutdown' = shutdown /\ (consumer = "done")' = (consumer = "done")
    BY <1>3 DEF Pop, ConsumerInv
  <2> QED
    BY <2>1, <2>2 DEF Queue!Next, Queue!Take, Contents
<1>4. CASE WriteLog \/ OpenLogFails
  <2>1. /\ popped # NoEntry /\ popped' = NoEntry /\ UNCHANGED <<ring, shutdown>>
        /\ (consumer = "done")' = (consumer = "done")
    BY <1>4, NoEntryAssumption DEF WriteLog, OpenLogFails, ConsumerInv
  <2> QED
    BY <2>1, ContentsKept DEF Queue!Next, Queue!Done, Contents
<1>5. CASE LogBufferShutdown
  <2>1. /\ ~ shutdown /\ shutdown' = TRUE /\ UNCHANGED <<ring, popped>>
        /\ (consumer = "done")' = (consumer = "done")
    BY <1>5 DEF LogBufferShutdown, WakeConsumer
  <2> QED
    BY <2>1, ContentsKept DEF Queue!Next, Queue!Close, Contents
<1>6. CASE PopEnds
  <2>1. /\ shutdown /\ count = 0 /\ popped = NoEntry /\ UNCHANGED <<ring, shutdown, popped>>
        /\ (consumer = "done")' = TRUE
    BY <1>6 DEF PopEnds, ConsumerGoes, ConsumerInv
  <2>2. Contents = <<>>
    BY <2>1, ContentsAre DEF ContentsInv
  <2> QED
    BY <2>1, <2>2, ContentsKept DEF Queue!Next, Queue!Finish, Contents
<1>7. CASE PopBlocks \/ PopSpurious
  <2>1. UNCHANGED <<ring, shutdown, popped>> /\ (consumer = "done")' = (consumer = "done")
    BY <1>7 DEF PopBlocks, PopSpurious, ConsumerGoes
  <2> QED
    BY <2>1, ContentsKept DEF Contents, Queue!vars
<1>8. ASSUME NEW c \in Containers,
             \/ OpenPipe(c) \/ StartStep(c) \/ Emit(c) \/ ContainerExit(c) \/ PushSpurious(c)
             \/ ProducerRead(c) \/ ProducerEof(c) \/ PushBlocks(c) \/ PushRefused(c)
      PROVE  UNCHANGED <<ring, shutdown, popped, consumer>>
  BY <1>8 DEF OpenPipe, StartStep, CloneChild, CloneFails, CloseWriteEnd, StartProducer,
              NoProducer, StartGoes, Emit, ContainerExit, PushSpurious, ProducerRead,
              ProducerEof, PushBlocks, PushRefused, ProducerGoes
<1> QED
  BY <1>1, <1>2, <1>3, <1>4, <1>5, <1>6, <1>7, <1>8
     DEF Next, ProducerStep, ConsumerStep, Terminated, vars

\* At first the queue is empty and open.
LEMMA InitRefines == Init => Queue!Init
<1> SUFFICES ASSUME Init PROVE Queue!Init
  OBVIOUS
<1>1. Contents = <<>>
  BY InitInd, ContentsAre DEF ContentsInv, Init
<1> QED
  BY <1>1 DEF Init, Queue!Init, Contents

\* log_buffer_t implements the bounded FIFO queue of LogQueue, for any number
\* of producers and any capacity: indices, wakeups and failures do not show.
THEOREM RingImplementsQueue == Spec => RingIsQueue
<1>1. Spec => [](IndInv /\ FetchInv)
  BY InitInd, NextKeepsInd, InitFetch, NextKeepsFetch, PTL DEF Spec
<1>2. IndInv /\ IndInv' /\ FetchInv /\ [Next]_vars => [Queue!Next]_(Queue!vars)
  BY StepRefines
<1> QED
  BY <1>1, <1>2, InitRefines, PTL DEF Spec, RingIsQueue, Queue!Spec

=============================================================================
