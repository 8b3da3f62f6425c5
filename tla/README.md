# A TLA+ model of mTCP

mTCP is a TCP stack in user space. Each core runs two threads: the
**application thread**, which calls the functions of `api.c`, and the **mtcp
thread**, which runs `RunMainLoop` (`core.c`). They share the record of every
connection, `tcp_stream`, and meet in lock-free queues. This directory models the
connection and the structures the two threads share, checks them with TLC, and
proves the ring queue correct with TLAPS.

## The system

| part | source (under `mtcp/src`) | state and operations | module |
|---|---|---|---|
| connection, receive side | `tcp_in.c` | state, `snd_una`, `rcv_nxt`, windows, duplicate ACKs; one handler per TCP state, `ProcessACK`, `ProcessTCPPayload`, `ProcessRST`, `ValidateSequence` | `TcpStream` |
| connection, send side | `tcp_out.c` | control, ACK and data lists; `SendTCPPacket`, `FlushTCPSendingBuffer`, `WriteTCP*List` | `TcpStream`, `Mtcp` |
| timers | `timer.c` | RTO, TIME_WAIT and idle lists; `HandleRTO`, `Check*` | `TcpStream` |
| stream object | `tcp_stream.c` | `CreateTCPStream`, `DestroyTCPStream` | `TcpStream` |
| main loop | `core.c` | receive, timers, `HandleApplicationCalls`, `WritePacketsToChunks` | `Mtcp` |
| socket calls | `api.c` | connect, accept, write, read, close, abort | `Mtcp` |
| stream queues | `tcp_stream_queue.c` (and the same ring in `tcp_sb_queue.c`, `tcp_rb_frag_queue.c`) | `_head`, `_tail`, `_q`; `StreamEnqueue`, `StreamDequeue` | `StreamQueue`, `BoundedFifo` |
| receive buffer | `tcp_ring_buffer.c` | memory, head, fragments; `RBPut`, `RBRemove` | `RingBuffer`, `Reassembly` |
| send buffer | `tcp_send_buffer.c` | `head_seq`, `len` | inside `TcpStream` |
| event queues, sockets | `eventpoll.c`, `socket.c` | three event queues, blocking wait, socket table | planned |
| pipes | `pipe.c` | bounded buffer between two sockets | planned |
| address and memory pools | `addr_pool.c`, `memory_mgt.c` | free lists, port map | planned |
| flow and listener tables | `fhash.c` | hash chains | planned |
| ARP | `arp.c` | table, pending requests, timer | planned |
| libos queues | `libos_api.c` | framing of messages over the stream | planned |
| packet I/O, IP, Ethernet, ICMP, configuration, RSS, logging | `*_module.c`, `ip_*.c`, `eth_*.c`, `icmp.c`, `config.c`, `rss.c`, `cpu.c`, `logger.c`, `debug.c`, `tcp_util.c` | I/O or pure functions of bytes | not modelled |

What makes this code hard: the fields of a stream are read by one thread while
the other writes them, without a lock; a call such as `mtcp_close` looks at the
state first and enqueues later; an operation that cannot be done now is left to
flags (`control_list_waiting`, `on_closeq_int`, `on_resetq_int`) that other
paths must honour; and a stream can be destroyed by a segment, a timer, a queue or
the sender. `PROJECT.json` lists these hazards with the lines at which they bite.

## The modules

**`StreamQueue`** cuts `StreamEnqueue` and `StreamDequeue` at every access to a
word the other side also accesses: test of the indices, store or load of the
slot, publication of the index. `LOCK_STREAM_QUEUE` is FALSE in `mtcp.h`, so the
locks around the callers are empty. The order store-then-publish is the one the
`StreamMemoryBarrier` (and x86 store order) gives. `BoundedFifo` is the abstract
queue; `RefinesFifo` says that the ring implements it, with `Contents` as the
refinement mapping. `put` and `got` are the return values.

**`RingBuffer`** has the fields of `tcp_ring_buffer` and the memory, one cell per
byte, so that `memmove` and the offsets matter. The list of fragments is a
sequence; the loop of `RBPut` is a fold over it. `RBPut` and `RBRemove` both run
under `read_lock`, so each is one step. Sequence numbers wrap. `Reassembly` is
the abstract buffer, a set of positions, and `RefinesReassembly` says that the
fragments implement it. `AllocateFragmentContext` exits when memory is out, so
its NULL path does not occur; `cum_len` is only printed and is left out.

**`TcpStream`** is one stream as a record. A C function that changes the
stream is an operator from stream to stream with the same name; membership of
a list is the flag the code keeps (`on_control_list`, `on_send_list`, ...). A
false `assert` and the use of a freed stream set `fault`, and the model stops
there. The default build does not: `mtcp/src/Makefile.in:32` sets `-DNDEBUG`,
which compiles the asserts out, and the code goes on with what the assert was to
rule out (a log line and a `break` in `FlushTCPSendingBuffer`, memory given back
twice in `DestroyTCPStream`). `NoFault` says that it never comes to that.

A unit of sequence space is one byte, of which a write or a segment has one or
two; a SYN or a FIN takes one, as in the code. Both initial sequence numbers are 0.
`snd_wl1` starts as `0 - 1` whatever the peer's initial sequence number is, and a
passive open does not set it again, so `PassiveOpen` lets it lie anywhere among
the peer's numbers. Two history fields serve the properties: `sent` holds the
sequence numbers sent so far (the peer can only acknowledge those), and
`told_full` says that the last packet advertised a window of 0.

**`Mtcp`** composes the stream with the two threads and the peer. `app` and
`phase` are the program counters. A socket call is cut where it reads what the
mtcp thread writes (for `mtcp_write`: look at the state; copy under
`write_lock`; test `on_sendq` and `on_send_list`). A round of the main loop is
cut into: receive any number of segments, timers, connectq/sendq/ackq,
closeq/resetq/destroyq, control and ACK lists, data list, leaving the send list.
The peer is any TCP: it may send, at any time, any segment that acknowledges
something it can have received. It is external; the code is modelled from how
it treats what arrives.

Granularity that the model gives up: one received segment is handled in one step
(the application can come in between segments, not inside a handler);
`CloseStreamSocket` and `mtcp_abort` read the state once, where the C code reads
it up to five times; test, store and enqueue of `mtcp_abort` are steps of their own,
but the store cannot fall inside a handler (a handler of SYN_SENT that goes on
would store ESTABLISHED over it); a packet is built in one step, so a read
cannot fall between the window it takes and `need_wnd_adv`; there is one connection, and others are assumed to exist so that
`flow_cnt` is not 0 and every round checks timers and queues. Congestion
control appears as the freedom to stop sending at any point of the window.
Windows are not scaled. The peer may send past the receive window, as a probe
does.

The set `Env` says what happens in an instance (see the comment in `Mtcp`): which
side opens, which calls are made, what the peer does, what may fail. The two
interleavings that break properties by themselves are named as well:
`calls_race` (the application runs between the sendq and the closeq loops) and
`send_race` (between the flush and leaving the send list).

## The runs

| run | what it asks | states |
|---|---|---|
| `stream_queue` | is the ring a bounded FIFO, are its assert and slots safe, does it drain (weak fairness of both threads) | 7 thousand |
| `ring_buffer` | does the receive buffer implement reassembly, with sequence numbers that wrap | 1.4 thousand |
| `any` | what holds whatever happens: active open, all calls, loss, idleness, resets, simultaneous close, both races, no memory, a full connectq | 0.7 million |
| `receive` | does the application read the peer's bytes in order, and is the peer told of a window that opens: a buffer smaller than the data, overlapping segments, reads at any time | 0.8 million |
| `active` | no fault, sequence order, timers, no step back; the peer reorders, repeats, resets, closes | 0.6 million |
| `passive` | FIN after data, FIN and data scheduled, no stranded stream; close, abort, reset, full backlog | 0.7 million |
| `dup_acks` | fast retransmit against timeouts and zero windows, three units of data | 0.5 million |
| `lost_send`, `fin_first`, `close_syn`, `sim_close`, `old_acks` | each shows one disagreement between the code and what its documents, comments or asserts say | |

`any` includes everything that may go wrong, so its invariants are those that
hold up to a fault, where the model stops; deadlock is not checked there for the
same reason. The other passing runs check deadlock.

`receive` is about what the two threads do to the receive side together. `InOrder`
relates `rcv_nxt`, the window, the head of the buffer and what it holds: a byte that
is acknowledged was read or can be, and every byte the window lets in has its place
in memory. `WindowReopens` follows a window of 0 from the packet that tells it to
the read that has to take it back. The initial window is larger than the buffer
there, as it may be in the code (14600 against a default `rcvbuf` of 8192):
what exceeds the buffer is dropped by `RBPut` and sent again. `passive` runs
without the idle timer (`tcp_timeout` may be 0), which would otherwise stand in for
whatever forgets a stream.

Which part of the environment breaks what (the passing runs leave these out):
`send_race` with two writes breaks `Scheduled`; `calls_race` breaks
`FinAfterData` and, with a reset, `NoFault`; `closesyn` breaks `DestroyedOnce`;
`simclose` breaks `FinAfterData`, `Scheduled`, `Retransmittable` and
`NotStranded`; `dupacks` with `reorder` breaks `NoFault`, with `close` it breaks
`SeqOrder`, `Retransmittable` and `NotStranded`; `lost`, `idle` and `nomem` break `NoFault` (a
stream is freed while the application is inside a call); `qfull` breaks `NoFault`
and `DestroyedOnce` (the socket of a failed `mtcp_connect` keeps its pointer); `simopen` reaches the
missing listener. Five of these contradict a line of the repository and
are findings; the others are hazards with a note.

### Bounds

* `stream_queue`: capacity 3 (4 slots), two streams: the ring wraps several
  times, fills and empties.
* `ring_buffer`: 5 bytes of memory, a stream of 8 bytes in segments of up to 3,
  sequence numbers modulo 40 starting at 37: every segment position, overlap and
  move to the front occurs before and after the wrap. The assumption
  `2 * (StreamLen + MaxSeg + Size) < SeqSpace` keeps everything within half the
  sequence space, as PAWS and the windows do for the code.
* `Mtcp`: one unit written and one unit from the peer (three units in
  `dup_acks`, three from the peer in `receive`, two where a finding needs them), a
  window of 2 or 3 units and of 0, a receive buffer of two units (`receive` fills
  it, the other runs do not), segments of up to two units (`MaxSegment`), an `eff_mss`
  of 1, two retransmissions, one for the SYN (16 and 7 in the code), `ack_cnt` capped at
  1 because only its being zero matters. `snd_nxt` saturates at `MaxSndNxt`,
  past the ACK of the last FIN. `dup_acks` wraps after 4 instead of 255, so that it
  passes 3, the only value it is compared with, more than once. `tcp_timeout` is
  on, as by default, except in `passive` and `receive`.

### Fairness

Only `stream_queue` checks liveness. A thread inside a call finishes it, and
`RunMainLoop` polls every queue in every round, so weak fairness of the
consumer and of the steps inside `StreamEnqueue` is what the code gives. The
producer need not call again. The runs of `Mtcp` check safety; that something is
not forgotten is stated by what still holds it (`Scheduled`, `Retransmittable`,
`FinScheduled`, `NotStranded`).

## What is proved

`StreamQueueProofs` proves for every capacity and every set of streams, with one
producer and one consumer (`OneConsumer`):

* `RingInvariant`: `Spec => []RingInv`, type correctness included;
* `NeverNull`: the assert of `StreamDequeue` never fails;
* `NeverOverwritten`: the producer never writes the slot being read;
* `RingRefinesFifo`: `Spec => RefinesFifo`.

The safety properties are not inductive by themselves: a consumer that loaded
the head has to be known to still hold the current one, and the
producer's view of the head, which may be old, has to be on the safe side.
`RingInv` says this: inside its call each side holds the current value of its
own index; the ring was not full for the producer and not empty for the
consumer, which the other side's steps keep true; and each slot between head
and tail holds a stream. Publishing then appends to `Contents`, advancing takes
its first element, and every other step leaves it unchanged. The arithmetic of
indices that wrap is in four lemmas (`DistanceBounds`, `TailMoves`, `HeadMoves`,
`SlotInRing`). The assumptions are `Capacity > 0`, the null pointer is not a
stream, and one consumer. The last is needed: `mtcp_writev` drains the
queues on the application thread too, and with two consumers TLC finds
`RefinesFifo` violated.

Only model-checked: `Drains` (liveness is outside the prover), everything about
`Mtcp` and `TcpStream`, and `RingBuffer`, whose fold over the fragments would
need induction over data.

## Plan

1. `SendBuffer` (memory of `tcp_send_buffer.c`), `RtoStore` (the wheel of
   `timer.c`, with `RearrangeRTOStore`), congestion control variables.
2. `EventPoll` with the socket table: events raised by the mtcp thread, flushed
   to the user queue, lost, stale or repeated; sleeping and waking of both threads.
   Composition with `Mtcp`: data that is ready is announced.
3. `Pipe` (blocking ends, close while waiting), `AddrPool`, `MemPool`, flow and
   listener tables, `Arp`, `Libos` over an abstract stream.
4. `mtcp_writev` and the second consumer; the blocking `mtcp_connect`; liveness of
   `Mtcp` under fairness of the mtcp thread and of delivery.
5. Proofs: `OneTimerList` and the type invariant of `Mtcp` by one lemma per
   operator of `TcpStream`; `SeqOrder` and `InOrder`; the invariants of
   `EventPoll`, `Pipe` and `AddrPool`.

## Checking it

    tlc -workers 2 -config MCMtcpActive.cfg MCMtcp
    tlapm StreamQueueProofs.tla
