-------------------------- MODULE StreamQueueProofs --------------------------
(***************************************************************************)
(* The lock-free ring is a bounded FIFO for every capacity and every set   *)
(* of streams, as long as one thread dequeues.                             *)
(***************************************************************************)
EXTENDS StreamQueue, SequenceTheorems, TLAPS

\* The queues of tcp_stream_queue.c are used by two threads: one enqueues, one
\* dequeues.
OneConsumer == \A c, d \in Consumers : c = d

------------------------------------------------------------------------------
(* The arithmetic of the ring.                                             *)

\* NextIndex of tcp_stream_queue.c stays inside the ring and moves on.
LEMMA NextIndexType ==
  \A i \in Index : NextIndex(i) \in Index /\ NextIndex(i) # i
BY CapacityAssumption DEF Index, NextIndex

\* The ring holds at most Capacity streams, none exactly when the indices meet,
\* and Capacity of them exactly when the next tail would meet the head.
LEMMA DistanceBounds ==
  \A h, t \in Index :
    /\ Distance(h, t) \in 0 .. Capacity
    /\ (Distance(h, t) = 0) <=> (h = t)
    /\ (Distance(h, t) = Capacity) <=> (NextIndex(t) = h)
BY CapacityAssumption DEF Index, NextIndex, Distance

\* Publishing the next tail makes the queue one longer.
LEMMA TailMoves ==
  \A h, t \in Index : NextIndex(t) # h =>
    /\ Distance(h, NextIndex(t)) = Distance(h, t) + 1
    /\ Slot(h, Distance(h, t)) = t
BY CapacityAssumption DEF Index, NextIndex, Distance, Slot

\* Publishing the next head makes it one shorter and shifts the slots.
LEMMA HeadMoves ==
  \A h, t \in Index : h # t =>
    /\ Distance(NextIndex(h), t) = Distance(h, t) - 1
    /\ \A n \in 0 .. Capacity - 1 : Slot(NextIndex(h), n) = Slot(h, n + 1)
BY CapacityAssumption DEF Index, NextIndex, Distance, Slot

\* A slot of the contents is in the ring, and is not the one at the tail.
LEMMA SlotInRing ==
  \A h, t, n \in Index :
    /\ Slot(h, n) \in Index
    /\ Slot(h, 0) = h
    /\ n < Distance(h, t) => Slot(h, n) # t
BY CapacityAssumption DEF Index, Distance, Slot

------------------------------------------------------------------------------
(* The inductive invariant.                                                *)

\* An empty ring satisfies the invariant (CreateStreamQueue).
LEMMA RingInvInit == Init => RingInv
<1> SUFFICES ASSUME Init PROVE RingInv
  OBVIOUS
<1>1. TypeOK
  BY CapacityAssumption DEF Init, TypeOK, Index, Producers, ConsumerStates
<1>2. ProducerInv /\ ConsumerInv /\ ContentsInv
  BY CapacityAssumption DEF Init, ProducerInv, ConsumerInv, ContentsInv, Distance, Index
<1> QED
  BY <1>1, <1>2 DEF RingInv

\* Every step of either thread keeps it.
LEMMA RingInvNext ==
  ASSUME OneConsumer
  PROVE  RingInv /\ [Next]_vars => RingInv'
<1> SUFFICES ASSUME RingInv, [Next]_vars
             PROVE  RingInv'
  OBVIOUS
<1> USE DEF RingInv
<1>1. CASE EnqueueFull
  BY <1>1 DEF EnqueueFull, TypeOK, ProducerInv, ConsumerInv, ContentsInv
<1>2. CASE \E s \in Streams : EnqueueRoom(s)
  <2>1. PICK s \in Streams : EnqueueRoom(s)
    BY <1>2
  <2>2. TypeOK'
    BY <2>1 DEF EnqueueRoom, TypeOK, Producers
  <2>3. ProducerInv'
    BY <2>1 DEF EnqueueRoom, ProducerInv
  <2>4. ConsumerInv' /\ ContentsInv'
    BY <2>1 DEF EnqueueRoom, ConsumerInv, ContentsInv
  <2> QED
    BY <2>2, <2>3, <2>4
<1>3. CASE EnqueueStore
  <2>1. TypeOK'
    BY <1>3 DEF EnqueueStore, TypeOK, Producers
  <2>2. ProducerInv'
    BY <1>3 DEF EnqueueStore, TypeOK, Producers, ProducerInv
  <2>3. \A n \in Index : n < Distance(_head, _tail) => _q'[Slot(_head, n)] = _q[Slot(_head, n)]
    BY <1>3, SlotInRing DEF EnqueueStore, TypeOK, ProducerInv
  <2>4. ContentsInv'
    BY <1>3, <2>3 DEF EnqueueStore, ContentsInv
  <2>5. ConsumerInv'
    BY <1>3 DEF EnqueueStore, TypeOK, ProducerInv, ConsumerInv
  <2> QED
    BY <2>1, <2>2, <2>4, <2>5
<1>4. CASE EnqueuePublish
  <2>1. TypeOK' /\ ProducerInv'
    BY <1>4, NextIndexType DEF EnqueuePublish, TypeOK, Producers, ProducerInv
  <2>2. _tail' = NextIndex(_tail) /\ _head \in Index /\ _tail \in Index /\ NextIndex(_tail) # _head
    BY <1>4 DEF EnqueuePublish, TypeOK, ProducerInv
  <2>3. ConsumerInv'
    BY <1>4, <2>2 DEF EnqueuePublish, ConsumerInv
  <2>4. ContentsInv'
    <3> SUFFICES ASSUME NEW n \in Index, n < Distance(_head, _tail) + 1
                 PROVE  _q[Slot(_head, n)] \in Streams
      BY <1>4, <2>2, TailMoves DEF EnqueuePublish, ContentsInv
    <3>1. CASE n < Distance(_head, _tail)
      BY <3>1 DEF ContentsInv
    <3>2. CASE n = Distance(_head, _tail)
      BY <1>4, <2>2, <3>2, TailMoves DEF EnqueuePublish, ProducerInv
    <3> QED
      BY <2>2, <3>1, <3>2, DistanceBounds DEF Index
  <2> QED
    BY <2>1, <2>3, <2>4
<1>5. CASE \E c \in Consumers : DequeueEmpty(c)
  BY <1>5 DEF DequeueEmpty, TypeOK, ProducerInv, ConsumerInv, ContentsInv
<1>6. CASE \E c \in Consumers : DequeueFound(c)
  <2>1. PICK c \in Consumers : DequeueFound(c)
    BY <1>6
  <2>2. TypeOK'
    BY <2>1 DEF DequeueFound, TypeOK, ConsumerStates
  <2>3. ConsumerInv'
    BY <2>1 DEF DequeueFound, TypeOK, ConsumerStates, ConsumerInv
  <2>4. ProducerInv' /\ ContentsInv'
    BY <2>1 DEF DequeueFound, ProducerInv, ContentsInv
  <2> QED
    BY <2>2, <2>3, <2>4
<1>7. CASE \E c \in Consumers : DequeueLoad(c)
  <2>1. PICK c \in Consumers : DequeueLoad(c)
    BY <1>7
  <2>2. TypeOK'
    BY <2>1 DEF DequeueLoad, TypeOK, ConsumerStates
  <2>3. ConsumerInv'
    BY <2>1 DEF DequeueLoad, TypeOK, ConsumerStates, ConsumerInv
  <2>4. ProducerInv' /\ ContentsInv'
    BY <2>1 DEF DequeueLoad, ProducerInv, ContentsInv
  <2> QED
    BY <2>2, <2>3, <2>4
<1>8. CASE \E c \in Consumers : DequeueAdvance(c)
  <2>1. PICK c \in Consumers : DequeueAdvance(c)
    BY <1>8
  <2>2. _head' = NextIndex(_head) /\ _head \in Index /\ _tail \in Index /\ _head # _tail
    BY <2>1 DEF DequeueAdvance, TypeOK, ConsumerInv
  <2>3. TypeOK'
    BY <2>1, <2>2, NextIndexType DEF DequeueAdvance, TypeOK, ConsumerStates
  <2>4. ConsumerInv'
    BY <2>1, OneConsumer DEF DequeueAdvance, TypeOK, ConsumerStates, ConsumerInv, OneConsumer
  <2>5. ProducerInv'
    BY <2>1, <2>2, CapacityAssumption DEF DequeueAdvance, ProducerInv, NextIndex, Index
  <2>6. ContentsInv'
    <3> SUFFICES ASSUME NEW n \in Index, n < Distance(_head', _tail)
                 PROVE  _q[Slot(_head', n)] \in Streams
      BY <2>1 DEF DequeueAdvance, ContentsInv
    <3>1. n + 1 < Distance(_head, _tail)
      BY <2>2, HeadMoves, DistanceBounds, CapacityAssumption DEF Index
    <3>2. n + 1 \in Index /\ n \in 0 .. Capacity - 1
      BY <2>2, <3>1, DistanceBounds, CapacityAssumption DEF Index
    <3>3. Slot(_head', n) = Slot(_head, n + 1)
      BY <2>2, <3>2, HeadMoves
    <3> QED
      BY <3>1, <3>2, <3>3 DEF ContentsInv
  <2> QED
    BY <2>3, <2>4, <2>5, <2>6
<1>9. CASE UNCHANGED vars
  BY <1>9 DEF vars, TypeOK, ProducerInv, ConsumerInv, ContentsInv
<1> QED
  BY <1>1, <1>2, <1>3, <1>4, <1>5, <1>6, <1>7, <1>8, <1>9 DEF Next, Enqueuer, Dequeuer

\* The invariant holds in every execution with one consumer.
THEOREM RingInvariant ==
  ASSUME OneConsumer
  PROVE  Spec => []RingInv
<1>1. Init => RingInv
  BY RingInvInit
<1>2. RingInv /\ [Next]_vars => RingInv'
  BY RingInvNext
<1> QED
  BY <1>1, <1>2, PTL DEF Spec

\* StreamDequeue never hands out the null pointer, so its assert never fails,
\* whatever the capacity of the ring and the interleaving with StreamEnqueue.
THEOREM NeverNull ==
  ASSUME OneConsumer
  PROVE  Spec => []NoNullDequeued
<1>1. RingInv => NoNullDequeued
  <2> SUFFICES ASSUME RingInv, NEW c \in Consumers, consumer[c].pc = "advance"
               PROVE  consumer[c].stream # NULL
    BY DEF NoNullDequeued
  <2>1. consumer[c].stream = _q[_head] /\ _head # _tail /\ _head \in Index /\ _tail \in Index
    BY DEF RingInv, TypeOK, ConsumerInv
  <2>2. 0 \in Index /\ 0 < Distance(_head, _tail)
    BY <2>1, DistanceBounds, CapacityAssumption DEF Index
  <2>3. _q[_head] \in Streams
    BY <2>1, <2>2, SlotInRing DEF RingInv, ContentsInv
  <2> QED
    BY <2>1, <2>3, NullAssumption
<1> QED
  BY <1>1, RingInvariant, PTL

\* StreamEnqueue never writes the slot that StreamDequeue is reading.
THEOREM NeverOverwritten ==
  ASSUME OneConsumer
  PROVE  Spec => []NoOverwrite
<1>1. RingInv => NoOverwrite
  BY DEF RingInv, ProducerInv, ConsumerInv, NoOverwrite
<1> QED
  BY <1>1, RingInvariant, PTL

------------------------------------------------------------------------------
(* Refinement: the contents of the ring are the abstract queue.            *)

\* The contents are a sequence of streams as long as the indices are apart.
LEMMA ContentsSeq ==
  ASSUME RingInv
  PROVE  /\ Contents \in Seq(Streams)
         /\ Len(Contents) = Distance(_head, _tail)
<1>1. Distance(_head, _tail) \in 0 .. Capacity
  BY DistanceBounds DEF RingInv, TypeOK
<1>2. \A n \in 1 .. Distance(_head, _tail) : _q[Slot(_head, n - 1)] \in Streams
  BY <1>1, CapacityAssumption DEF RingInv, ContentsInv, Index
<1> QED
  BY <1>1, <1>2, CapacityAssumption DEF Contents

\* A step that leaves the head, the tail and the slots between them alone leaves
\* the contents alone.
LEMMA ContentsSame ==
  ASSUME RingInv, _head' = _head, _tail' = _tail,
         \A n \in Index : n < Distance(_head, _tail) => _q'[Slot(_head, n)] = _q[Slot(_head, n)]
  PROVE  Contents' = Contents
<1>1. Distance(_head, _tail) \in 0 .. Capacity
  BY DistanceBounds DEF RingInv, TypeOK
<1>2. \A n \in 1 .. Distance(_head, _tail) : _q'[Slot(_head, n - 1)] = _q[Slot(_head, n - 1)]
  BY <1>1, CapacityAssumption DEF Index
<1> QED
  BY <1>2 DEF Contents

\* The initial ring is the empty queue.
LEMMA FifoInit == Init => Fifo!Init
BY CapacityAssumption DEF Init, Fifo!Init, Contents, Distance

\* Publishing the tail is the abstract enqueue.
LEMMA PublishEnqueues ==
  ASSUME RingInv, EnqueuePublish
  PROVE  Fifo!Enqueue(producer.stream) /\ producer.stream \in Streams
<1>1. /\ _head' = _head /\ _q' = _q /\ _tail' = NextIndex(_tail)
      /\ _head \in Index /\ _tail \in Index /\ NextIndex(_tail) # _head
      /\ _q[_tail] = producer.stream /\ producer.stream \in Streams
  BY DEF EnqueuePublish, RingInv, TypeOK, ProducerInv
<1> DEFINE d == Distance(_head, _tail)
<1>2. d \in 0 .. Capacity /\ d < Capacity
  BY <1>1, DistanceBounds, CapacityAssumption
<1>3. Distance(_head', _tail') = d + 1 /\ Slot(_head, d) = _tail
  BY <1>1, TailMoves
<1>4. Contents \in Seq(Streams) /\ Len(Contents) = d
  BY ContentsSeq
<1>5. Contents' = [n \in 1 .. d + 1 |-> _q[Slot(_head, n - 1)]]
  BY <1>1, <1>3 DEF Contents
<1>6. Append(Contents, producer.stream) = [n \in 1 .. d + 1 |-> _q[Slot(_head, n - 1)]]
  <2>1. \A n \in 1 .. d : Contents[n] = _q[Slot(_head, n - 1)]
    BY DEF Contents
  <2>2. (d + 1) - 1 = d
    BY <1>2, CapacityAssumption
  <2> HIDE DEF d
  <2> QED
    BY <1>1, <1>2, <1>3, <1>4, <2>1, <2>2, CapacityAssumption
<1> QED
  BY <1>1, <1>2, <1>4, <1>5, <1>6 DEF EnqueuePublish, Fifo!Enqueue

\* Publishing the head is the abstract dequeue.
LEMMA AdvanceDequeues ==
  ASSUME RingInv, NEW c \in Consumers, DequeueAdvance(c)
  PROVE  Fifo!Dequeue
<1>1. /\ _tail' = _tail /\ _q' = _q /\ _head' = NextIndex(_head)
      /\ _head \in Index /\ _tail \in Index /\ _head # _tail
      /\ got' = _q[_head]
  BY DEF DequeueAdvance, RingInv, TypeOK, ConsumerInv
<1> DEFINE d == Distance(_head, _tail)
<1>2. d \in 1 .. Capacity
  BY <1>1, DistanceBounds, CapacityAssumption
<1>3. /\ Distance(_head', _tail') = d - 1
      /\ \A n \in 0 .. Capacity - 1 : Slot(_head', n) = Slot(_head, n + 1)
  BY <1>1, HeadMoves
<1>4. Contents \in Seq(Streams) /\ Len(Contents) = d
  BY ContentsSeq
<1>5. \A n \in 1 .. d : Contents[n] = _q[Slot(_head, n - 1)]
  BY DEF Contents
<1>6. 1 \in 1 .. d /\ Slot(_head, 1 - 1) = _head
  BY <1>1, <1>2, SlotInRing, CapacityAssumption DEF Index
<1>7. Contents # <<>> /\ Head(Contents) = _q[_head]
  <2>1. Contents[1] = _q[_head]
    BY <1>5, <1>6
  <2> HIDE DEF d
  <2> QED
    BY <1>2, <1>4, <2>1
<1>8. Contents' = [n \in 1 .. d - 1 |-> Contents[n + 1]]
  <2>1. \A n \in 1 .. d - 1 : _q[Slot(_head', n - 1)] = Contents[n + 1]
    <3> TAKE n \in 1 .. d - 1
    <3>1. n - 1 \in 0 .. Capacity - 1 /\ n + 1 \in 1 .. d /\ (n - 1) + 1 = (n + 1) - 1
      BY <1>2, CapacityAssumption
    <3> QED
      BY <1>3, <1>5, <3>1
  <2> QED
    BY <1>1, <1>3, <2>1 DEF Contents
<1>9. Contents' = Tail(Contents)
  <2> HIDE DEF d
  <2> DEFINE rest == Tail(Contents)
  <2>1. rest \in Seq(Streams) /\ Len(rest) = d - 1 /\ \A n \in 1 .. d - 1 : rest[n] = Contents[n + 1]
    BY <1>2, <1>4, <1>7, HeadTailProperties
  <2>2. rest = [n \in 1 .. d - 1 |-> rest[n]]
    <3> HIDE DEF rest
    <3> QED
      BY <1>2, <2>1
  <2> HIDE DEF rest
  <2>3. rest = [n \in 1 .. d - 1 |-> Contents[n + 1]]
    BY <2>1, <2>2, Zenon
  <2> QED
    BY <1>8, <2>3 DEF rest
<1> QED
  BY <1>1, <1>7, <1>9 DEF DequeueAdvance, Fifo!Dequeue

\* A refused StreamEnqueue saw a full queue.
LEMMA FullRefuses ==
  ASSUME RingInv, EnqueueFull
  PROVE  Fifo!Refuse
<1>1. Contents' = Contents
  BY DEF EnqueueFull, Contents
<1>2. Len(Contents) = Capacity
  BY ContentsSeq, DistanceBounds DEF EnqueueFull, RingInv, TypeOK
<1> QED
  BY <1>1, <1>2 DEF EnqueueFull, Fifo!Refuse

\* A StreamDequeue that returned NULL saw an empty queue.
LEMMA EmptyFindsNothing ==
  ASSUME RingInv, NEW c \in Consumers, DequeueEmpty(c)
  PROVE  Fifo!FindNothing
<1>1. Contents' = Contents
  BY DEF DequeueEmpty, Contents
<1>2. Contents \in Seq(Streams) /\ Len(Contents) = 0
  BY ContentsSeq, DistanceBounds DEF DequeueEmpty, RingInv, TypeOK
<1> QED
  BY <1>1, <1>2 DEF DequeueEmpty, Fifo!FindNothing

\* Every step of the ring is a step of the FIFO, or leaves it as it is.
LEMMA FifoStep == RingInv /\ [Next]_vars => [Fifo!Next]_(Fifo!fifoVars)
<1> SUFFICES ASSUME RingInv, [Next]_vars
             PROVE  Fifo!Next \/ UNCHANGED <<Contents, put, got>>
  BY DEF Fifo!fifoVars
<1>1. CASE EnqueueFull
  BY <1>1, FullRefuses DEF Fifo!Next
<1>2. CASE \E s \in Streams : EnqueueRoom(s)
  BY <1>2 DEF EnqueueRoom, Contents
<1>3. CASE EnqueueStore
  <2>1. \A n \in Index : n < Distance(_head, _tail) => _q'[Slot(_head, n)] = _q[Slot(_head, n)]
    BY <1>3, SlotInRing DEF EnqueueStore, RingInv, TypeOK, ProducerInv
  <2>2. Contents' = Contents
    BY <1>3, <2>1, ContentsSame DEF EnqueueStore
  <2> QED
    BY <1>3, <2>2 DEF EnqueueStore
<1>4. CASE EnqueuePublish
  BY <1>4, PublishEnqueues DEF Fifo!Next
<1>5. CASE \E c \in Consumers : DequeueEmpty(c)
  BY <1>5, EmptyFindsNothing DEF Fifo!Next
<1>6. CASE \E c \in Consumers : DequeueFound(c) \/ DequeueLoad(c)
  BY <1>6 DEF DequeueFound, DequeueLoad, Contents
<1>7. CASE \E c \in Consumers : DequeueAdvance(c)
  BY <1>7, AdvanceDequeues DEF Fifo!Next
<1>8. CASE UNCHANGED vars
  BY <1>8 DEF vars, Contents
<1> QED
  BY <1>1, <1>2, <1>3, <1>4, <1>5, <1>6, <1>7, <1>8 DEF Next, Enqueuer, Dequeuer

\* With one consumer the lock-free ring of tcp_stream_queue.c implements a
\* bounded first-in first-out queue, for every capacity and every interleaving
\* of StreamEnqueue and StreamDequeue.
THEOREM RingRefinesFifo ==
  ASSUME OneConsumer
  PROVE  Spec => RefinesFifo
<1>1. Init => Fifo!Init
  BY FifoInit
<1>2. RingInv /\ [Next]_vars => [Fifo!Next]_(Fifo!fifoVars)
  BY FifoStep
<1> QED
  BY <1>1, <1>2, RingInvariant, PTL DEF Spec, RefinesFifo, Fifo!Spec
==============================================================================
