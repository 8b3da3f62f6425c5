------------------------------ MODULE RingBuffer ------------------------------
(***************************************************************************)
(* The receive buffer of tcp_ring_buffer.c: a chunk of memory whose head   *)
(* moves forward as the application reads, and a list of the fragments     *)
(* received past the head.  RBPut (mtcp thread) and RBRemove (application, *)
(* or the mtcp thread after mtcp_close) both run under read_lock, so each  *)
(* is one step.  Sequence numbers wrap at SeqSpace, 2^32 in the code.  The   *)
(* byte at position n of the stream is n itself.                           *)
(***************************************************************************)
EXTENDS Integers, Sequences, SequencesExt

CONSTANTS Size,      \* rbm->chunk_size
          SeqSpace,    \* 2^32
          InitSeq,   \* the sequence number of the first byte
          StreamLen, \* the number of bytes the peer sends
          MaxSeg     \* the largest payload of a segment

\* A segment and the buffer never lie more than half the sequence space apart.
ASSUME RingBufferAssumption ==
  /\ Size \in Nat \ {0} /\ MaxSeg \in Nat \ {0} /\ StreamLen \in Nat
  /\ SeqSpace \in Nat /\ 2 * (StreamLen + MaxSeg + Size) < SeqSpace
  /\ InitSeq \in 0 .. SeqSpace - 1

VARIABLES
  data,                     \* the memory
  head_offset, tail_offset, \* of the first and after the last byte kept
  merged_len, last_len,     \* bytes in order, and bytes up to the last one kept
  head_seq,                 \* sequence number at head_offset
  fctx,                     \* the list of fragments [seq, len]
  fault                     \* an assert that failed, or a write outside data

vars == <<data, head_offset, tail_offset, merged_len, last_len, head_seq, fctx, fault>>

SeqNo == 0 .. SeqSpace - 1
NoByte == -1

TypeOK ==
  /\ data \in [0 .. Size - 1 -> NoByte .. StreamLen - 1]
  /\ head_offset \in 0 .. Size
  /\ tail_offset \in 0 .. Size
  /\ merged_len \in 0 .. Size
  /\ last_len \in 0 .. Size
  /\ head_seq \in SeqNo
  /\ fctx \in Seq([seq : SeqNo, len : 1 .. Size])
  /\ fault \in {"none", "overrun", "order", "remove"}

\* RBInit
Init ==
  /\ data = [i \in 0 .. Size - 1 |-> NoByte]
  /\ head_offset = 0 /\ tail_offset = 0
  /\ merged_len = 0 /\ last_len = 0
  /\ head_seq = InitSeq
  /\ fctx = <<>>
  /\ fault = "none"

------------------------------------------------------------------------------
(* Sequence numbers that wrap, and fragments.                              *)

Plus(seq, n) == (seq + n) % SeqSpace
Minus(a, b) == (a - b) % SeqSpace
HalfSpace == (SeqSpace - 1) \div 2  \* MAXSEQ/2

GetMinSeqNoWrap(a, b) == IF a <= b THEN a ELSE b

GetMinSeq(a, b) ==
  IF a = b THEN a
  ELSE IF a < b THEN (IF b - a <= HalfSpace THEN a ELSE b)
  ELSE IF a - b <= HalfSpace THEN b ELSE a

GetMaxSeq(a, b) ==
  IF a = b THEN a
  ELSE IF a < b THEN (IF b - a <= HalfSpace THEN b ELSE a)
  ELSE IF a - b <= HalfSpace THEN a ELSE b

End(f) == Plus(f.seq, f.len)

CanMergeOverlapOnly(a, b) ==
  ~(GetMinSeq(End(a), b.seq) = End(a) \/ GetMinSeq(End(b), a.seq) = End(b))

\* Fragments that overlap or touch.
CanMerge(a, b) ==
  LET a_end == Plus(End(a), 1)
      b_end == Plus(End(b), 1)
  IN  ~(GetMinSeq(a_end, b.seq) = a_end \/ GetMinSeq(b_end, a.seq) = b_end)

MergeFragments(a, b) ==
  LET min_seq == GetMinSeq(a.seq, b.seq)
  IN  [seq |-> min_seq, len |-> Minus(GetMaxSeq(End(a), End(b)), min_seq)]

\* The loop of RBPut over the list: the fragments before the new one, the new
\* one with what it could be merged with, and the rest of the list.
MergeLoop(new) ==
  LET Step(loop, iter) ==
        IF loop.stop THEN [loop EXCEPT !.rest = Append(@, iter)]
        ELSE IF CanMerge(loop.ctx, iter)
          THEN [loop EXCEPT !.ctx = MergeFragments(@, iter), !.merged = TRUE]
        ELSE IF loop.merged \/ GetMaxSeq(End(new), iter.seq) = iter.seq
          THEN [loop EXCEPT !.stop = TRUE, !.rest = Append(@, iter)]
        ELSE [loop EXCEPT !.before = Append(@, iter)]
  IN  FoldLeft(Step, [before |-> <<>>, ctx |-> new, rest |-> <<>>,
                      merged |-> FALSE, stop |-> FALSE], fctx)

InFrontIfEmpty(new) == fctx = <<>>

\* The new fragment goes in front of the list, or after the last one before it.
InFront(new) == fctx = <<>> \/ GetMinSeq(new.seq, fctx[1].seq) = new.seq

InsertFragment(new) ==
  LET loop == MergeLoop(new)
  IN  IF ~loop.merged /\ InFront(new) THEN <<new>> \o fctx
      ELSE loop.before \o <<loop.ctx>> \o loop.rest

\* assert(GetMinSeq(cur_seq, prev->seq + prev->len) == prev->seq + prev->len)
InOrder(new) ==
  LET loop == MergeLoop(new)
  IN  loop.merged \/ InFront(new) \/
        /\ loop.before # <<>>
        /\ GetMinSeq(new.seq, End(Last(loop.before))) = End(Last(loop.before))

------------------------------------------------------------------------------
(* The operations.                                                         *)

MakeRoomNever(end_off) == [data |-> data, head |-> head_offset, tail |-> tail_offset]

MakeRoomMovesMerged(end_off) ==
  IF Size <= head_offset + end_off
    THEN [data |-> [i \in 0 .. Size - 1 |->
                      IF i < merged_len THEN data[head_offset + i] ELSE data[i]],
          head |-> 0, tail |-> tail_offset - head_offset]
    ELSE [data |-> data, head |-> head_offset, tail |-> tail_offset]

\* What is kept moves to the start of the memory when the segment would reach
\* its end.
MakeRoom(end_off) ==
  IF Size <= head_offset + end_off
    THEN [data |-> [i \in 0 .. Size - 1 |->
                      IF i < last_len THEN data[head_offset + i] ELSE data[i]],
          head |-> 0, tail |-> tail_offset - head_offset]
    ELSE [data |-> data, head |-> head_offset, tail |-> tail_offset]

\* The payload of len bytes from position pos of the stream.
RBPut(pos, len) ==
  LET cur_seq == Plus(InitSeq, pos)
      putx == Minus(cur_seq, head_seq)
      end_off == putx + len
      room == MakeRoom(end_off)
      at == room.head + putx
      new == [seq |-> cur_seq, len |-> len]
      list == InsertFragment(new)
      kept == GetMinSeq(head_seq, cur_seq) = head_seq /\ end_off <= Size
  IN  /\ fault = "none"
      /\ IF ~kept THEN UNCHANGED vars
         ELSE /\ head_offset' = room.head
              /\ data' = [i \in 0 .. Size - 1 |->
                            IF i \in at .. at + len - 1 THEN pos + i - at ELSE room.data[i]]
              /\ tail_offset' = IF room.tail < room.head + end_off
                                  THEN room.head + end_off ELSE room.tail
              /\ last_len' = tail_offset' - head_offset'
              /\ fctx' = list
              /\ merged_len' = IF list[1].seq = head_seq THEN list[1].len ELSE merged_len
              /\ fault' = IF at + len > Size THEN "overrun"
                          ELSE IF ~InOrder(new) THEN "order" ELSE "none"
              /\ UNCHANGED head_seq

\* The reader takes up to n bytes.
RBRemove(n) ==
  LET len == IF merged_len < n THEN merged_len ELSE n
  IN  /\ fault = "none" /\ len > 0
      /\ head_offset' = head_offset + len
      /\ head_seq' = Plus(head_seq, len)
      /\ merged_len' = merged_len - len
      /\ last_len' = last_len - len
      /\ fctx' = IF len = fctx[1].len THEN Tail(fctx)
                 ELSE IF len < fctx[1].len
                   THEN [fctx EXCEPT ![1] = [seq |-> Plus(@.seq, len), len |-> @.len - len]]
                 ELSE fctx
      /\ fault' = IF len > fctx[1].len THEN "remove" ELSE "none"
      /\ UNCHANGED <<data, tail_offset>>

Next ==
  \/ \E pos \in 0 .. StreamLen - 1, len \in 1 .. MaxSeg :
       pos + len <= StreamLen /\ RBPut(pos, len)
  \/ \E n \in 1 .. Size : RBRemove(n)

Spec == Init /\ [][Next]_vars

------------------------------------------------------------------------------
(* Properties.                                                             *)

\* The stream positions of the first unread byte and of a fragment.
Position(seq) == Minus(seq, InitSeq)
Covered(f) == Position(f.seq) .. Position(f.seq) + f.len - 1
Have == UNION {Covered(fctx[i]) : i \in DOMAIN fctx}

Abstract == INSTANCE Reassembly WITH read <- Position(head_seq), have <- Have

\* The list of fragments, merged and cut as segments come and the application
\* reads, is the set of bytes received and not read: none is lost, none is
\* counted that did not come, also where sequence numbers wrap
\* (tcp_ring_buffer.c:291-435).
RefinesReassembly == Abstract!Spec

\* merged_len, what the application may read and rcv_nxt promises the peer, ends
\* at the first byte that is missing (tcp_ring_buffer.c:345-392).
MergedIsPrefix ==
  LET first == Position(head_seq)
  IN  first .. first + merged_len - 1 \subseteq Have /\ first + merged_len \notin Have

\* Each byte that is kept is in its place in the memory, also after what is kept
\* moved to the front (tcp_ring_buffer.c:310-332).
BytesInPlace ==
  /\ last_len = tail_offset - head_offset
  /\ \A n \in Have : data[head_offset + n - Position(head_seq)] = n

\* The list stays sorted, with a hole between any two fragments, so that neither
\* assert fails; no byte is written outside the memory
\* (tcp_ring_buffer.c:312-328, 383, 431).
FragmentsInOrder ==
  /\ fault = "none"
  /\ \A i \in 1 .. Len(fctx) - 1 :
       Position(fctx[i].seq) + fctx[i].len < Position(fctx[i + 1].seq)
===============================================================================
