----------------------------- MODULE StreamQueue -----------------------------
(***************************************************************************)
(* The lock-free ring of tcp_stream_queue.c (the same code, over another   *)
(* element type, is tcp_sb_queue.c and tcp_rb_frag_queue.c).  Nothing but  *)
(* the order of the accesses protects it: LOCK_STREAM_QUEUE is FALSE, so   *)
(* the SQ_LOCK around its callers is empty.  One thread enqueues; the      *)
(* threads of Consumers dequeue.  Every access to a word the other side    *)
(* also accesses is a step of its own.                                     *)
(***************************************************************************)
EXTENDS Integers, Sequences

CONSTANTS Capacity,  \* the argument of CreateStreamQueue
          Streams,   \* the tcp_streams that are enqueued
          Consumers, \* the threads that call StreamDequeue
          NULL       \* the null stream pointer

ASSUME CapacityAssumption == Capacity \in Nat \ {0}

ASSUME NullAssumption == NULL \notin Streams

VARIABLES _head, _tail, \* the indices of struct stream_queue
          _q,           \* its Capacity + 1 slots
          producer,     \* where the enqueuing thread is in StreamEnqueue
          consumer,     \* where each dequeuing thread is in StreamDequeue
          put, got      \* the answers of the last calls that returned

vars == <<_head, _tail, _q, producer, consumer, put, got>>

Index == 0 .. Capacity

\* The producer is outside StreamEnqueue, about to store its stream, or
\* about to publish the new tail; the consumer is outside StreamDequeue, about
\* to load the slot, or about to publish the new head.
Producers == [pc : {"idle", "store", "publish"}, stream : Streams \cup {NULL}, t : Index]
ConsumerStates == [pc : {"idle", "load", "advance"}, stream : Streams \cup {NULL}, h : Index]

TypeOK ==
  /\ _head \in Index
  /\ _tail \in Index
  /\ _q \in [Index -> Streams \cup {NULL}]
  /\ producer \in Producers
  /\ consumer \in [Consumers -> ConsumerStates]
  /\ put \in {0, -1}
  /\ got \in Streams \cup {NULL}

NextIndexWrapsLate(i) == IF i # Capacity + 1 THEN i + 1 ELSE 0
NextIndex(i) == IF i # Capacity THEN i + 1 ELSE 0

Init ==
  /\ _head = 0
  /\ _tail = 0
  /\ _q = [i \in Index |-> NULL]
  /\ producer = [pc |-> "idle", stream |-> NULL, t |-> 0]
  /\ consumer = [c \in Consumers |-> [pc |-> "idle", stream |-> NULL, h |-> 0]]
  /\ put = 0
  /\ got = NULL

------------------------------------------------------------------------------
(* StreamEnqueue: only this thread writes _tail, so reading it together    *)
(* with _head is one step; the store of the slot comes before that of the  *)
(* tail (StreamMemoryBarrier).                                             *)

EnqueueFull ==
  /\ producer.pc = "idle"
  /\ NextIndex(_tail) = _head
  /\ put' = -1
  /\ UNCHANGED <<_head, _tail, _q, producer, consumer, got>>

EnqueueRoomIgnoresHead(stream) ==
  /\ producer.pc = "idle"
  /\ producer' = [pc |-> "store", stream |-> stream, t |-> _tail]
  /\ UNCHANGED <<_head, _tail, _q, consumer, put, got>>

EnqueueRoomPublishesFirst(stream) ==
  /\ producer.pc = "idle"
  /\ NextIndex(_tail) # _head
  /\ producer' = [pc |-> "store", stream |-> stream, t |-> _tail]
  /\ _tail' = NextIndex(_tail)
  /\ UNCHANGED <<_head, _q, consumer, put, got>>

EnqueueRoom(stream) ==
  /\ producer.pc = "idle"
  /\ NextIndex(_tail) # _head
  /\ producer' = [pc |-> "store", stream |-> stream, t |-> _tail]
  /\ UNCHANGED <<_head, _tail, _q, consumer, put, got>>

EnqueueStore ==
  /\ producer.pc = "store"
  /\ _q' = [_q EXCEPT ![producer.t] = producer.stream]
  /\ producer' = [producer EXCEPT !.pc = "publish"]
  /\ UNCHANGED <<_head, _tail, consumer, put, got>>

EnqueuePublishAdvancesTwice ==
  /\ producer.pc = "publish"
  /\ _tail' = NextIndex(NextIndex(_tail))
  /\ producer' = [producer EXCEPT !.pc = "idle"]
  /\ put' = 0
  /\ UNCHANGED <<_head, _q, consumer, got>>

EnqueuePublish ==
  /\ producer.pc = "publish"
  /\ _tail' = NextIndex(producer.t)
  /\ producer' = [producer EXCEPT !.pc = "idle"]
  /\ put' = 0
  /\ UNCHANGED <<_head, _q, consumer, got>>

------------------------------------------------------------------------------
(* StreamDequeue.                                                          *)

DequeueEmpty(c) ==
  /\ consumer[c].pc = "idle"
  /\ _head = _tail
  /\ got' = NULL
  /\ UNCHANGED <<_head, _tail, _q, producer, consumer, put>>

DequeueFoundIgnoresTail(c) ==
  /\ consumer[c].pc = "idle"
  /\ consumer' = [consumer EXCEPT ![c].pc = "load", ![c].h = _head]
  /\ UNCHANGED <<_head, _tail, _q, producer, put, got>>

DequeueFound(c) ==
  /\ consumer[c].pc = "idle"
  /\ _head # _tail
  /\ consumer' = [consumer EXCEPT ![c].pc = "load", ![c].h = _head]
  /\ UNCHANGED <<_head, _tail, _q, producer, put, got>>

DequeueLoad(c) ==
  /\ consumer[c].pc = "load"
  /\ consumer' = [consumer EXCEPT ![c].pc = "advance", ![c].stream = _q[consumer[c].h]]
  /\ UNCHANGED <<_head, _tail, _q, producer, put, got>>

DequeueAdvanceForgetsHead(c) ==
  /\ consumer[c].pc = "advance"
  /\ got' = consumer[c].stream
  /\ consumer' = [consumer EXCEPT ![c].pc = "idle"]
  /\ UNCHANGED <<_head, _tail, _q, producer, put>>

DequeueAdvance(c) ==
  /\ consumer[c].pc = "advance"
  /\ _head' = NextIndex(consumer[c].h)
  /\ got' = consumer[c].stream
  /\ consumer' = [consumer EXCEPT ![c].pc = "idle"]
  /\ UNCHANGED <<_tail, _q, producer, put>>

Enqueuer == EnqueueFull \/ (\E s \in Streams : EnqueueRoom(s)) \/ EnqueueStore \/ EnqueuePublish

Dequeuer(c) == DequeueEmpty(c) \/ DequeueFound(c) \/ DequeueLoad(c) \/ DequeueAdvance(c)

Next == Enqueuer \/ \E c \in Consumers : Dequeuer(c)

Spec == Init /\ [][Next]_vars

\* A thread inside a call finishes it, and the mtcp thread polls the queue in
\* every round of RunMainLoop.
FairSpec ==
  /\ Spec
  /\ WF_vars(EnqueueStore \/ EnqueuePublish)
  /\ \A c \in Consumers : WF_vars(Dequeuer(c))

------------------------------------------------------------------------------
(* What the two indices and the slots stand for.                           *)

\* The number of streams between two indices, going round the ring.
Distance(h, t) == IF h <= t THEN t - h ELSE t + Capacity + 1 - h

\* The slot n places after index h.
Slot(h, n) == IF h + n <= Capacity THEN h + n ELSE h + n - Capacity - 1

Contents == [n \in 1 .. Distance(_head, _tail) |-> _q[Slot(_head, n - 1)]]

Fifo == INSTANCE BoundedFifo WITH
          Elements <- Streams, queue <- Contents, put <- put, got <- got

\* The ring is a bounded first-in first-out queue: with one consumer, whatever
\* the interleaving of StreamEnqueue and StreamDequeue, streams come out once,
\* in the order in which they went in, and a call fails only for a queue that
\* is full or empty at that moment (tcp_stream_queue.c:180-213).
RefinesFifo == Fifo!Spec

\* assert(stream) of StreamDequeue: a stream that is about to be handed out is
\* never the null pointer (tcp_stream_queue.c:208).
NoNullDequeued ==
  \A c \in Consumers : consumer[c].pc = "advance" => consumer[c].stream # NULL

\* The producer never writes the slot a consumer is about to read
\* (tcp_stream_queue.c:188 against :205).
NoOverwrite ==
  \A c \in Consumers :
    consumer[c].pc \in {"load", "advance"} =>
      /\ producer.pc \in {"store", "publish"} => producer.t # consumer[c].h
      /\ consumer[c].h # _tail

\* The producer inside StreamEnqueue still holds the current tail, the slot it
\* fills is not the last free one, and once stored it stays as it was stored.
ProducerInv ==
  /\ producer.pc # "idle" =>
       producer.stream \in Streams /\ producer.t = _tail /\ NextIndex(_tail) # _head
  /\ producer.pc = "publish" => _q[_tail] = producer.stream

\* A consumer inside StreamDequeue still holds the current head of a queue that
\* is not empty, and has loaded what is still there.
ConsumerInv ==
  \A c \in Consumers :
    /\ consumer[c].pc # "idle" => consumer[c].h = _head /\ _head # _tail
    /\ consumer[c].pc = "advance" => consumer[c].stream = _q[_head]

\* Every slot between the head and the tail holds a stream.
ContentsInv ==
  \A n \in Index : n < Distance(_head, _tail) => _q[Slot(_head, n)] \in Streams

\* The inductive invariant: what each side reads of the other's index may be
\* old, but it errs on the safe side (tcp_stream_queue.c:180-213).
RingInv == TypeOK /\ ProducerInv /\ ConsumerInv /\ ContentsInv

\* A published stream reaches a consumer: the queue does not stay non-empty
\* for ever with the head where it is.
Drains == \A i \in Index : (_head = i /\ _tail # i) ~> (_head # i)
==============================================================================
