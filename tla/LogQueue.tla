------------------------------ MODULE LogQueue ------------------------------
(***************************************************************************)
(* What log_buffer_t promises to the threads that share it, without ring,  *)
(* indices, locks or condition variables: a bounded FIFO queue that accepts *)
(* entries until it is closed and is drained before its reader finishes.   *)
(***************************************************************************)
EXTENDS Naturals, Sequences

CONSTANTS Entries, Capacity, NoEntry

VARIABLES queue, closed, taken, finished

vars == <<queue, closed, taken, finished>>

Init == queue = <<>> /\ closed = FALSE /\ taken = NoEntry /\ finished = FALSE

\* log_buffer_push that returns 0.
Put(e) ==
  /\ ~ closed
  /\ Len(queue) < Capacity
  /\ queue' = Append(queue, e)
  /\ UNCHANGED <<closed, taken, finished>>

\* log_buffer_pop that returns 0: the reader has done with the entry before.
Take ==
  /\ queue # <<>>
  /\ taken = NoEntry
  /\ taken' = Head(queue)
  /\ queue' = Tail(queue)
  /\ UNCHANGED <<closed, finished>>

\* The reader is through with the entry it took.
Done ==
  /\ taken # NoEntry
  /\ taken' = NoEntry
  /\ UNCHANGED <<queue, closed, finished>>

\* log_buffer_shutdown.
Close == ~ closed /\ closed' = TRUE /\ UNCHANGED <<queue, taken, finished>>

\* log_buffer_pop that returns -1.
Finish ==
  /\ closed /\ queue = <<>> /\ taken = NoEntry
  /\ finished' = TRUE
  /\ UNCHANGED <<queue, closed, taken>>

Next == (\E e \in Entries : Put(e)) \/ Take \/ Done \/ Close \/ Finish

Spec == Init /\ [][Next]_vars

=============================================================================
