----------------------------- MODULE BoundedFifo -----------------------------
(***************************************************************************)
(* What a stream queue promises its two users: a first-in first-out queue  *)
(* of at most Capacity elements.  An enqueue is refused only when the      *)
(* queue is full, a dequeue finds nothing only when it is empty, and what  *)
(* a dequeue returns is the oldest element not yet returned.               *)
(***************************************************************************)
EXTENDS Integers, Sequences

CONSTANTS Capacity, \* elements the queue holds
          Elements, \* what is queued
          NULL      \* the answer of a dequeue that finds nothing

VARIABLES queue,  \* the elements in the queue, oldest first
          put,    \* the answer of the last enqueue: 0, or -1 when refused
          got     \* the answer of the last dequeue

fifoVars == <<queue, put, got>>

Init == queue = <<>> /\ put = 0 /\ got = NULL

Enqueue(e) ==
  /\ Len(queue) < Capacity
  /\ queue' = Append(queue, e)
  /\ put' = 0
  /\ UNCHANGED got

Refuse ==
  /\ Len(queue) = Capacity
  /\ put' = -1
  /\ UNCHANGED <<queue, got>>

Dequeue ==
  /\ queue # <<>>
  /\ got' = Head(queue)
  /\ queue' = Tail(queue)
  /\ UNCHANGED put

FindNothing ==
  /\ queue = <<>>
  /\ got' = NULL
  /\ UNCHANGED <<queue, put>>

Next == (\E e \in Elements : Enqueue(e)) \/ Refuse \/ Dequeue \/ FindNothing

Spec == Init /\ [][Next]_fifoVars
==============================================================================
