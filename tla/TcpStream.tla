------------------------------ MODULE TcpStream ------------------------------
(***************************************************************************)
(* One tcp_stream: the record of what the stack keeps about a connection,  *)
(* and what each of its lists, timers and segment handlers does to that    *)
(* record.  A C function that changes the stream is an operator from the   *)
(* stream before to the stream after.  Membership of a list is the flag    *)
(* the code keeps for it.  A unit of sequence space is one byte, of which  *)
(* a write or a segment has very few: a SYN or a FIN takes one, as a unit  *)
(* of data does.  Both initial sequence numbers are 0, so a SYN is 0 and   *)
(* data starts at 1; sequence numbers that wrap are the subject of         *)
(* RingBuffer.                                                             *)
(***************************************************************************)
EXTENDS Integers, Sequences, FiniteSets

CONSTANTS
  MaxWrite,     \* units the application writes; its FIN is at most MaxWrite + 1
  PeerData,     \* units the peer sends; its FIN is PeerData + 1
  SndBuf, RcvBuf, \* CONFIG.sndbuf_size, CONFIG.rcvbuf_size
  TCP_INITIAL_WINDOW, \* the receive window before there is a receive buffer
  MaxWnd,       \* the largest window the peer advertises
  TCP_MAX_RTX, TCP_MAX_SYN_RETRY, \* retransmissions before giving up
  MaxAckCnt,    \* cap on ack_cnt
  TcpTimeout    \* CONFIG.tcp_timeout > 0

ASSUME BoundsAssumption ==
  /\ MaxWrite \in Nat /\ PeerData \in Nat /\ SndBuf \in Nat \ {0} /\ MaxWnd \in Nat \ {0}
  /\ RcvBuf \in Nat \ {0} /\ TCP_INITIAL_WINDOW \in Nat \ {0}
  /\ TCP_MAX_SYN_RETRY \in Nat /\ TCP_MAX_RTX \in Nat /\ TCP_MAX_SYN_RETRY < TCP_MAX_RTX
  /\ MaxAckCnt \in Nat \ {0} /\ TcpTimeout \in BOOLEAN

iss == 0
irs == 0
eff_mss == 1
MaxDupAcks == 4            \* the largest dup_acks (255 in the code), after which it is 0
MaxSndNxt == MaxWrite + 3  \* past the ACK of the last FIN

TCP_ST == <<"CLOSED", "LISTEN", "SYN_SENT", "SYN_RCVD", "ESTABLISHED", "FIN_WAIT_1",
            "FIN_WAIT_2", "CLOSE_WAIT", "CLOSING", "LAST_ACK", "TIME_WAIT">>
States == {TCP_ST[i] : i \in DOMAIN TCP_ST}
CloseReasons == {"NOT_CLOSED", "ACTIVE_CLOSE", "PASSIVE_CLOSE", "CONN_FAIL", "CONN_LOST",
                 "RESET", "NO_MEM", "NOT_ACCEPTED", "TIMEDOUT"}

\* Where the model stops: an assert of the stack is false, or a stream that was
\* given back to its pool is used.  With -DNDEBUG the code goes on from there, with
\* what the assert was to rule out.
Faults == {"none", "destroyed_twice", "use_after_free", "no_sndbuf", "flush_order",
           "rto_state", "timewait_list", "timeout_list", "no_listener"}

Seqs == Int

Stream == [
  live : BOOLEAN, state : States, socket : BOOLEAN, closed : BOOLEAN,
  is_bound_addr : BOOLEAN, on_acceptq : BOOLEAN,
  have_reset : BOOLEAN, close_reason : CloseReasons, fault : Faults,
  control_list_waiting : BOOLEAN, on_control_list : BOOLEAN,
  on_send_list : BOOLEAN, on_ack_list : BOOLEAN, on_sendq : BOOLEAN, on_ackq : BOOLEAN,
  on_closeq : BOOLEAN, on_closeq_int : BOOLEAN,
  on_resetq : BOOLEAN, on_resetq_int : BOOLEAN,
  on_rto : BOOLEAN, on_timewait_list : BOOLEAN, on_timeout_list : BOOLEAN,
  nrtx : 0 .. TCP_MAX_RTX, ack_cnt : 0 .. MaxAckCnt, is_wack : BOOLEAN,
  snd_una : Seqs, snd_nxt : Seqs, fss : Seqs, is_fin_sent : BOOLEAN,
  sndbuf : BOOLEAN, head_seq : Seqs, len : 0 .. SndBuf,
  peer_wnd : 0 .. MaxWnd, snd_wl1 : Seqs, snd_wl2 : Seqs,
  last_ack_seq : Seqs, dup_acks : 0 .. MaxDupAcks,
  rcv_nxt : Seqs, rcvbuf : BOOLEAN, rb_head : Seqs, rcvd : SUBSET Seqs,
  rcv_wnd : 0 .. RcvBuf \cup {TCP_INITIAL_WINDOW}, need_wnd_adv : BOOLEAN,
  told_full : BOOLEAN,  \* history: the last window the peer was sent was 0
  sent : SUBSET Seqs ]  \* history: the sequence numbers sent at least once

\* CreateTCPStream: everything is zero but what is named here.  snd_wl1 is irs - 1
\* with an irs of 0, not the peer's; wl1 is where that lies among its numbers.
CreateTCPStream(state, socket, wl1) ==
  [live |-> TRUE, state |-> state, socket |-> socket, closed |-> FALSE,
   is_bound_addr |-> socket, on_acceptq |-> FALSE,
   have_reset |-> FALSE, close_reason |-> "NOT_CLOSED", fault |-> "none",
   control_list_waiting |-> FALSE, on_control_list |-> FALSE,
   on_send_list |-> FALSE, on_ack_list |-> FALSE, on_sendq |-> FALSE, on_ackq |-> FALSE,
   on_closeq |-> FALSE, on_closeq_int |-> FALSE,
   on_resetq |-> FALSE, on_resetq_int |-> FALSE,
   on_rto |-> FALSE, on_timewait_list |-> FALSE, on_timeout_list |-> FALSE,
   nrtx |-> 0, ack_cnt |-> 0, is_wack |-> FALSE,
   snd_una |-> iss, snd_nxt |-> iss, fss |-> 0, is_fin_sent |-> FALSE,
   sndbuf |-> FALSE, head_seq |-> iss + 1, len |-> 0,
   peer_wnd |-> 0, snd_wl1 |-> wl1, snd_wl2 |-> 0,
   last_ack_seq |-> 0, dup_acks |-> 0,
   rcv_nxt |-> 0, rcvbuf |-> FALSE, rb_head |-> irs + 1, rcvd |-> {},
   rcv_wnd |-> TCP_INITIAL_WINDOW, need_wnd_adv |-> FALSE, told_full |-> FALSE,
   sent |-> {}]

Fault(s, f) == IF s.fault = "none" THEN [s EXCEPT !.fault = f] ELSE s

\* C's assert, in a build that has them.
Asserts(s, condition, f) == IF condition THEN s ELSE Fault(s, f)

------------------------------------------------------------------------------
(* The sender's lists (tcp_out.c), the timer lists (timer.c), and giving   *)
(* the stream back.  Both timer lists thread through the one timer_link.   *)

AddtoControlList(s) == [s EXCEPT !.on_control_list = TRUE]

AddtoSendList(s) ==
  IF s.sndbuf THEN [s EXCEPT !.on_send_list = TRUE] ELSE Fault(s, "no_sndbuf")

\* ACK_OPT_NOW counts up, ACK_OPT_AGGREGATE makes it at least one.
EnqueueACK(s, opt) ==
  [s EXCEPT !.on_ack_list = TRUE,
            !.is_wack = @ \/ opt = "WACK",
            !.ack_cnt = IF \/ opt = "NOW" /\ @ < MaxAckCnt
                           \/ opt = "AGGREGATE" /\ @ = 0
                        THEN @ + 1 ELSE @]

AddtoRTOList(s) == IF s.on_timewait_list THEN s ELSE [s EXCEPT !.on_rto = TRUE]

RemoveFromRTOListForgets(s) == s

RemoveFromRTOList(s) == [s EXCEPT !.on_rto = FALSE]

AddtoTimewaitList(s) == [RemoveFromRTOList(s) EXCEPT !.on_timewait_list = TRUE]

RemoveFromTimewaitList(s) ==
  [Asserts(s, s.on_timewait_list, "timewait_list") EXCEPT !.on_timewait_list = FALSE]

AddtoTimeoutList(s) ==
  IF TcpTimeout
    THEN [Asserts(s, ~s.on_timeout_list, "timeout_list") EXCEPT !.on_timeout_list = TRUE]
    ELSE s

RemoveFromTimeoutList(s) == [s EXCEPT !.on_timeout_list = FALSE]

UpdateRetransmissionTimerStops(s) == RemoveFromRTOList([s EXCEPT !.nrtx = 0])

UpdateRetransmissionTimer(s) ==
  LET r == RemoveFromRTOList([s EXCEPT !.nrtx = 0])
  IN  IF s.snd_nxt > s.snd_una THEN AddtoRTOList(r) ELSE r

\* The memory goes back to the pool; the socket and the entries of the stream
\* queues keep their pointers to it.
DestroyTCPStream(s) ==
  [Asserts(s, s.live, "destroyed_twice") EXCEPT
     !.live = FALSE,
     !.on_control_list = FALSE, !.on_send_list = FALSE, !.on_ack_list = FALSE,
     !.on_rto = FALSE, !.on_timewait_list = FALSE, !.on_timeout_list = FALSE,
     !.sndbuf = FALSE, !.rcvbuf = FALSE]

Close(s, reason) == [s EXCEPT !.state = "CLOSED", !.close_reason = reason]

\* A stream that failed is left to its socket (which gets an error event), or
\* destroyed when it has none.
NotifyOrDestroy(s) == IF s.socket THEN s ELSE DestroyTCPStream(s)

------------------------------------------------------------------------------
(* Sending (tcp_out.c).  tx says whether the I/O module has a transmit     *)
(* buffer; without one SendTCPPacket returns -2 and changes nothing.       *)

\* Every packet carries the receive window; one of 0 has to be followed by another.
AdvertiseWindow(s) ==
  [s EXCEPT !.need_wnd_adv = @ \/ s.rcv_wnd = 0, !.told_full = s.rcv_wnd = 0]

\* A SYN goes out at snd_nxt, a FIN at fss; a bare ACK or a RST has no number of its
\* own.  (Data is sent by FlushTCPSendingBuffer.)  A FIN that is sent again moves
\* snd_nxt on; all values past MaxSndNxt behave alike.
SendTCPPacket(s, flag) ==
  IF flag \in {"SYN", "FIN"}
    THEN AddtoRTOList([AdvertiseWindow(s) EXCEPT
                         !.sent = @ \cup {IF flag = "FIN" THEN s.fss ELSE s.snd_nxt},
                         !.is_fin_sent = @ \/ flag = "FIN",
                         !.snd_nxt = IF @ < MaxSndNxt THEN @ + 1 ELSE @])
    ELSE AdvertiseWindow(s)

ControlWaitsForACKsOnly(s) ==
  s.state \in {"LAST_ACK", "FIN_WAIT_1", "CLOSED"} /\ s.on_ack_list

\* The states whose control packet waits for the data and the ACKs.
ControlWaits(s) ==
  s.state \in {"LAST_ACK", "FIN_WAIT_1", "CLOSED"} /\ (s.on_send_list \/ s.on_ack_list)

SendControlPacket(s) ==
  CASE s.state \in {"SYN_SENT", "SYN_RCVD"}       -> SendTCPPacket(s, "SYN")
    [] s.state \in {"LAST_ACK", "FIN_WAIT_1"}     -> SendTCPPacket(s, "FIN")
    [] s.state = "CLOSING"                        ->
         SendTCPPacket(s, IF s.is_fin_sent /\ s.snd_nxt # s.fss THEN "ACK" ELSE "FIN")
    [] s.state = "CLOSED"                         -> DestroyTCPStream(SendTCPPacket(s, "RST"))
    [] OTHER                                      -> SendTCPPacket(s, "ACK")

WriteTCPControlList(s, tx) ==
  LET c == IF s.state = "SYN_RCVD" THEN [s EXCEPT !.snd_nxt = iss] ELSE s
  IN  IF ~s.on_control_list THEN s
      ELSE IF ControlWaits(s) \/ ~tx THEN c
      ELSE SendControlPacket([c EXCEPT !.on_control_list = FALSE])

\* The first sequence number the receive buffer does not hold in order.
MergedEnd(s) ==
  CHOOSE n \in s.rb_head .. PeerData + 1 :
    n \notin s.rcvd /\ s.rb_head .. n - 1 \subseteq s.rcvd

ControlListNowForgets(s, otherList) ==
  IF s.control_list_waiting /\ ~otherList
    THEN [s EXCEPT !.control_list_waiting = FALSE] ELSE s

\* control_list_waiting: the control packet goes out once the other list is
\* behind it.
ControlListNow(s, otherList) ==
  IF s.control_list_waiting /\ ~otherList
    THEN AddtoControlList([s EXCEPT !.control_list_waiting = FALSE]) ELSE s

\* Whether the queued ACKs are sent at all.
ToAck(s) ==
  /\ s.state \in {"ESTABLISHED", "CLOSE_WAIT", "FIN_WAIT_1", "FIN_WAIT_2", "TIME_WAIT"}
  /\ s.rcvbuf
  /\ s.rcv_nxt <= MergedEnd(s)

WriteTCPACKList(s, tx) ==
  LET owed == ToAck(s) /\ (s.ack_cnt > 0 \/ s.is_wack)
      a == IF owed /\ ~tx THEN s
           ELSE [IF owed THEN SendTCPPacket(s, "ACK") ELSE s EXCEPT
                   !.on_ack_list = FALSE, !.ack_cnt = 0, !.is_wack = FALSE]
  IN  IF s.on_ack_list THEN ControlListNow(a, a.on_send_list) ELSE s

SendsData(s) ==
  \/ s.state = "ESTABLISHED" /\ ~s.on_control_list
  \/ s.state \in {"CLOSE_WAIT", "FIN_WAIT_1", "LAST_ACK"}

DataEnd(s) == s.head_seq + s.len
Window(s) == s.snd_una + s.peer_wnd

\* The sequence numbers at which FlushTCPSendingBuffer may stop: the
\* congestion window, the peer's window or a missing transmit buffer stops it
\* before the end of the data.
FlushStops(s) ==
  {s.snd_nxt} \cup {n \in s.snd_nxt .. DataEnd(s) : s.len > 0 /\ n <= Window(s)}

FlushTCPSendingBuffer(s, upto, wack) ==
  LET checked == Asserts(Asserts(s, s.sndbuf, "no_sndbuf"),
                         s.len = 0 \/ /\ s.snd_nxt >= s.head_seq
                                      /\ s.snd_nxt >= s.snd_una
                                      /\ s.snd_nxt <= DataEnd(s), "flush_order")
      out == [checked EXCEPT !.snd_nxt = upto, !.sent = @ \cup s.snd_nxt .. upto - 1]
      timed == IF upto > s.snd_nxt THEN AddtoRTOList(AdvertiseWindow(out)) ELSE out
  IN  IF s.len = 0 THEN checked
      ELSE IF wack /\ upto < DataEnd(s) /\ upto >= Window(s) THEN EnqueueACK(timed, "WACK")
      ELSE timed

\* FlushTCPSendingBuffer returned packets: the stream leaves the list.
LeaveSendList(s, packets) ==
  LET l == [s EXCEPT !.on_send_list = FALSE,
                     !.ack_cnt = IF @ > packets THEN @ - packets ELSE 0]
  IN  ControlListNow(l, l.on_ack_list)

------------------------------------------------------------------------------
(* The timers (timer.c).                                                   *)

GiveUp(s) ==
  IF s.state \in {"CLOSED", "LISTEN", "SYN_SENT", "SYN_RCVD"}
    THEN DestroyTCPStream(Close(s, "CONN_FAIL"))
    ELSE NotifyOrDestroy(Close(s, "CONN_LOST"))

\* Go back to the oldest unacknowledged unit, data or FIN.
Retransmit(s) ==
  LET r == [s EXCEPT !.snd_nxt = s.snd_una]
  IN  CASE s.state \in {"ESTABLISHED", "CLOSE_WAIT"} -> AddtoSendList(r)
        [] s.state \in {"FIN_WAIT_1", "CLOSING", "LAST_ACK"} /\ r.snd_nxt < r.fss ->
             AddtoSendList([r EXCEPT !.on_control_list = FALSE, !.control_list_waiting = TRUE])
        [] OTHER -> AddtoControlList(r)

HandleRTONeverGivesUp(s) ==
  IF s.close_reason # "NOT_CLOSED" THEN s ELSE Retransmit([s EXCEPT !.nrtx = @ + 1])

HandleRTO(s) ==
  LET n == [s EXCEPT !.nrtx = @ + 1]
  IN  IF s.close_reason # "NOT_CLOSED" THEN s
      ELSE IF s.nrtx >= TCP_MAX_RTX THEN GiveUp(s)
      ELSE IF s.state = "SYN_SENT" /\ n.nrtx > TCP_MAX_SYN_RETRY
        THEN NotifyOrDestroy(Close(n, "CONN_FAIL"))
      ELSE IF s.state \in {"CLOSED", "LISTEN", "FIN_WAIT_2", "TIME_WAIT"}
        THEN Fault(n, "rto_state")
      ELSE IF s.state = "SYN_RCVD" /\ s.have_reset THEN DestroyTCPStream(n)
      ELSE Retransmit(n)

CheckRtmTimeout(s) == IF s.on_rto THEN HandleRTO([s EXCEPT !.on_rto = FALSE]) ELSE s

CheckTimewaitExpire(s) ==
  IF s.on_timewait_list /\ ~s.on_control_list
    THEN DestroyTCPStream(Close([s EXCEPT !.on_timewait_list = FALSE], "ACTIVE_CLOSE"))
    ELSE s

CheckConnectionTimeout(s) ==
  IF s.on_timeout_list
    THEN NotifyOrDestroy(Close([s EXCEPT !.on_timeout_list = FALSE], "TIMEDOUT"))
    ELSE s

------------------------------------------------------------------------------
(* Receiving (tcp_in.c).  A segment p has its flags syn, ack, rst and fin, *)
(* seq, ack_seq, len, wnd, and old: its timestamp is before ts_recent.     *)

AckOfFinOffByOne(s, p) == s.is_fin_sent /\ p.ack_seq = s.fss

AckOfFin(s, p) == s.is_fin_sent /\ p.ack_seq = s.fss + 1

\* The ACK of the FIN counts for the send buffer as that of the last unit.
BufferAck(s, p) ==
  IF /\ AckOfFin(s, p)
     /\ s.state \in {"FIN_WAIT_1", "FIN_WAIT_2", "CLOSING", "CLOSE_WAIT", "LAST_ACK"}
    THEN p.ack_seq - 1 ELSE p.ack_seq

\* peer_wnd is already the window of this segment, so only snd_wl2 can move the
\* right edge of the window.
UpdateWindow(s, p, ack) ==
  IF s.snd_wl1 < p.seq \/ (s.snd_wl1 = p.seq /\ s.snd_wl2 < ack)
    THEN [s EXCEPT !.snd_wl1 = p.seq, !.snd_wl2 = ack] ELSE s

CountDupAck(s, w, p, ack) ==
  IF /\ ack < s.snd_nxt /\ ack = s.last_ack_seq /\ p.len = 0
     /\ w.snd_wl2 = s.snd_wl2
    THEN [w EXCEPT !.dup_acks = (@ + 1) % (MaxDupAcks + 1)]
    ELSE [w EXCEPT !.dup_acks = 0, !.last_ack_seq = ack]

FastRetransmitNotListed(s, ack) ==
  IF s.dup_acks = 3 /\ ack < s.snd_nxt
    THEN RemoveFromRTOList([s EXCEPT !.snd_nxt = ack]) ELSE s

FastRetransmit(s, ack) ==
  IF s.dup_acks = 3
    THEN AddtoSendList([s EXCEPT !.snd_nxt = IF ack < @ THEN ack ELSE @,
                                 !.nrtx = IF @ < TCP_MAX_RTX THEN @ + 1 ELSE @])
    ELSE s

RecoverSndNxtNever(s, ack) == s

RecoverSndNxt(s, ack) ==
  IF ack > s.snd_nxt
    THEN [s EXCEPT !.snd_nxt = ack, !.on_send_list = @ /\ s.len # 0] ELSE s

ProcessACKOldToo(s, p) ==
  LET ack == BufferAck(s, p)
  IN  IF ack > DataEnd(s) THEN s
      ELSE UpdateRetransmissionTimer(
             [s EXCEPT !.head_seq = ack, !.len = DataEnd(s) - ack, !.snd_una = ack])

ProcessACK(s, p) ==
  LET ack == BufferAck(s, p)
      r == RecoverSndNxt(FastRetransmit(CountDupAck(s, UpdateWindow(s, p, ack), p, ack), ack), ack)
  IN  IF ack > DataEnd(s) THEN s
      ELSE IF s.head_seq >= ack THEN r
      ELSE UpdateRetransmissionTimer(
             [r EXCEPT !.head_seq = ack, !.len = DataEnd(s) - ack, !.snd_una = ack])

\* The handlers call ProcessACK only once there is a send buffer.
ProcessACKIfAny(s, p) == IF s.sndbuf THEN ProcessACK(s, p) ELSE s

RBPut(s, p) ==
  IF p.seq < s.rb_head \/ p.seq + p.len > s.rb_head + RcvBuf THEN s
  ELSE [s EXCEPT !.rcvd = @ \cup p.seq .. p.seq + p.len - 1]

\* The receive window once there is a buffer: its size less what waits in order.
RcvWnd(s) == RcvBuf - (MergedEnd(s) - s.rb_head)

ProcessTCPPayloadSkipsHoles(s, p, mem) ==
  LET b == RBPut([s EXCEPT !.rcvbuf = TRUE], p)
  IN  IF p.seq + p.len \in s.rcv_nxt .. s.rcv_nxt + s.rcv_wnd
        THEN EnqueueACK([b EXCEPT !.rcv_nxt = p.seq + p.len, !.rcv_wnd = RcvWnd(b)], "AGGREGATE")
        ELSE EnqueueACK(s, "NOW")

\* mem: the memory pool has a receive buffer.  The callers answer what it
\* returns with an ACK: aggregated after TRUE or ERROR, at once after FALSE.
ProcessTCPPayload(s, p, mem) ==
  LET b == RBPut([s EXCEPT !.rcvbuf = TRUE], p)
      d == IF s.state \in {"FIN_WAIT_1", "FIN_WAIT_2"} THEN [b EXCEPT !.rb_head = MergedEnd(b)] ELSE b
      r == [d EXCEPT !.rcv_nxt = MergedEnd(d), !.rcv_wnd = RcvWnd(d)]
  IN  IF p.seq + p.len < s.rcv_nxt \/ p.seq + p.len > s.rcv_nxt + s.rcv_wnd
        THEN EnqueueACK(s, "NOW")
      ELSE IF ~s.rcvbuf /\ ~mem THEN EnqueueACK(Close(s, "NO_MEM"), "AGGREGATE")
      ELSE EnqueueACK(r, IF r.rcv_nxt <= s.rcv_nxt THEN "NOW" ELSE "AGGREGATE")

PayloadIfAny(s, p, mem) == IF p.len > 0 THEN ProcessTCPPayload(s, p, mem) ELSE s

FinInAnyOrder(s, p) == p.fin

\* The FIN is the next thing expected from the peer.
FinInOrder(s, p) == p.fin /\ p.seq + p.len = s.rcv_nxt

ValidSequence(s, p) == p.seq + p.len \in s.rcv_nxt .. s.rcv_nxt + s.rcv_wnd

\* What ValidateSequence does with a segment it refuses.
RefuseSequence(s, p) ==
  IF p.rst THEN s
  ELSE IF p.old THEN EnqueueACK(s, "NOW")
  ELSE IF s.state = "ESTABLISHED"
    THEN EnqueueACK(s, IF p.seq <= s.rcv_nxt THEN "AGGREGATE" ELSE "NOW")
  ELSE AddtoControlList(IF s.state = "TIME_WAIT" THEN AddtoTimewaitList(s) ELSE s)

ProcessRSTDestroys(s, p) == DestroyTCPStream(Close(s, "RESET"))

ProcessRST(s, p) ==
  CASE s.state = "SYN_RCVD" ->
         IF p.ack_seq = s.snd_nxt THEN DestroyTCPStream(Close(s, "RESET")) ELSE s
    [] s.state \in {"FIN_WAIT_1", "FIN_WAIT_2", "LAST_ACK", "CLOSING", "TIME_WAIT"} ->
         DestroyTCPStream(Close(s, "ACTIVE_CLOSE"))
    [] OTHER ->
         IF s.on_closeq \/ s.on_closeq_int \/ s.on_resetq \/ s.on_resetq_int THEN s
         ELSE [s EXCEPT !.state = "CLOSE_WAIT", !.close_reason = "RESET"]

Handle_TCP_ST_LISTEN(s, p) ==
  IF p.syn
    THEN AddtoControlList([s EXCEPT !.state = "SYN_RCVD",
                                    !.rcv_nxt = IF s.state = "LISTEN" THEN @ + 1 ELSE @])
    ELSE s

HandleActiveOpen(s, p) ==
  UpdateRetransmissionTimer(
    [s EXCEPT !.snd_nxt = p.ack_seq, !.peer_wnd = p.wnd, !.snd_wl1 = irs - 1,
              !.rcv_nxt = irs + 1, !.last_ack_seq = p.ack_seq])

Handle_TCP_ST_SYN_SENT(s, p) ==
  LET a == IF p.ack THEN [s EXCEPT !.snd_una = @ + 1] ELSE s
      e == [RemoveFromRTOList(HandleActiveOpen(a, p)) EXCEPT !.nrtx = 0, !.state = "ESTABLISHED"]
  IN  IF p.ack /\ (p.ack_seq <= iss \/ p.ack_seq > s.snd_nxt) THEN s
      ELSE IF p.rst
        THEN IF p.ack
               THEN NotifyOrDestroy([a EXCEPT !.state = "CLOSE_WAIT", !.close_reason = "RESET"])
               ELSE a
      ELSE IF p.syn /\ p.ack
        THEN IF s.socket THEN AddtoTimeoutList(AddtoControlList(e))
             ELSE DestroyTCPStream([e EXCEPT !.close_reason = "ACTIVE_CLOSE"])
      ELSE IF p.syn THEN AddtoControlList([a EXCEPT !.state = "SYN_RCVD", !.snd_nxt = iss])
      ELSE a

\* room: the acceptq of the listener is not full.  A stream that mtcp_connect
\* opened has no listener on its port.
Handle_TCP_ST_SYN_RCVD(s, p, room) ==
  LET e == [RemoveFromRTOList(s) EXCEPT !.snd_una = @ + 1, !.snd_nxt = p.ack_seq, !.nrtx = 0,
                                        !.rcv_nxt = irs + 1, !.state = "ESTABLISHED"]
      q == IF room THEN [e EXCEPT !.on_acceptq = TRUE]
           ELSE AddtoControlList(Close(e, "NOT_ACCEPTED"))
  IN  CASE ~p.ack -> AddtoControlList([s EXCEPT !.snd_nxt = iss])
        [] p.ack /\ p.ack_seq # iss + 1 -> s
        [] OTHER -> AddtoTimeoutList(Asserts(q, ~s.is_bound_addr, "no_listener"))

Handle_TCP_ST_ESTABLISHED(s, p, mem) ==
  LET r == PayloadIfAny(s, p, mem)
      a == IF p.ack THEN ProcessACKIfAny(r, p) ELSE r
  IN  CASE p.syn -> AddtoControlList([s EXCEPT !.snd_nxt = p.ack_seq])
        [] ~p.syn /\ ~p.fin -> a
        [] ~p.syn /\ FinInOrder(a, p) ->
             AddtoControlList([a EXCEPT !.state = "CLOSE_WAIT", !.rcv_nxt = @ + 1])
        [] OTHER -> EnqueueACK(a, "NOW")

Handle_TCP_ST_CLOSE_WAIT(s, p) ==
  IF p.seq < s.rcv_nxt THEN AddtoControlList(s) ELSE ProcessACKIfAny(s, p)

Handle_TCP_ST_LAST_ACK(s, p) ==
  LET a == ProcessACKIfAny(s, p)
  IN  CASE p.seq < s.rcv_nxt -> s
        [] p.seq >= s.rcv_nxt /\ ~p.ack -> AddtoControlList(s)
        [] p.seq >= s.rcv_nxt /\ p.ack /\ ~a.is_fin_sent -> a
        [] OTHER ->
             IF AckOfFin(a, p)
               THEN DestroyTCPStream(Close(UpdateRetransmissionTimer(
                      [a EXCEPT !.snd_una = @ + 1]), "PASSIVE_CLOSE"))
               ELSE AddtoControlList(a)

\* The peer's FIN, in the two states in which ours is out.
FinAfterOurs(s, p) ==
  IF ~FinInOrder(s, p) THEN s
  ELSE LET f == [s EXCEPT !.rcv_nxt = @ + 1]
       IN  AddtoControlList(
             CASE s.state = "FIN_WAIT_1" -> [f EXCEPT !.state = "CLOSING"]
               [] s.state = "FIN_WAIT_2" -> AddtoTimewaitList([f EXCEPT !.state = "TIME_WAIT"])
               [] OTHER -> f)

Handle_TCP_ST_FIN_WAIT_1(s, p, mem) ==
  LET a == ProcessACKIfAny(s, p)
      f == IF ~AckOfFin(a, p) THEN a
           ELSE [RemoveFromRTOList(a) EXCEPT
                   !.snd_una = p.ack_seq, !.nrtx = 0, !.state = "FIN_WAIT_2",
                   !.snd_nxt = IF p.ack_seq > @ THEN p.ack_seq ELSE @]
  IN  CASE p.seq < s.rcv_nxt -> AddtoControlList(s)
        [] p.seq >= s.rcv_nxt /\ ~p.ack -> s
        [] OTHER -> FinAfterOurs(PayloadIfAny(f, p, mem), p)

Handle_TCP_ST_FIN_WAIT_2(s, p, mem) ==
  LET d == PayloadIfAny(ProcessACKIfAny(s, p), p, mem)
  IN  CASE ~p.ack -> s
        [] p.ack /\ ~FinInOrder(d, p) -> d
        [] OTHER -> AddtoControlList(AddtoTimewaitList(
                      [d EXCEPT !.state = "TIME_WAIT", !.rcv_nxt = @ + 1]))

Handle_TCP_ST_CLOSING(s, p) ==
  LET a == ProcessACKIfAny(s, p)
  IN  CASE ~p.ack -> s
        [] p.ack /\ ~AckOfFin(a, p) -> a
        [] OTHER -> AddtoTimewaitList([UpdateRetransmissionTimer(
                      [a EXCEPT !.snd_una = p.ack_seq, !.snd_nxt = p.ack_seq])
                      EXCEPT !.state = "TIME_WAIT"])

Handle_TCP_ST_TIME_WAIT(s) ==
  AddtoControlList(
    IF s.on_timewait_list THEN AddtoTimewaitList(RemoveFromTimewaitList(s)) ELSE s)

\* The switch at the end of ProcessTCPPacket.
Dispatch(s, p, mem, room) ==
  CASE s.state = "LISTEN"      -> Handle_TCP_ST_LISTEN(s, p)
    [] s.state = "SYN_SENT"    -> Handle_TCP_ST_SYN_SENT(s, p)
    [] s.state = "SYN_RCVD"    ->
         IF p.syn /\ p.seq = irs THEN Handle_TCP_ST_LISTEN(s, p)
         ELSE LET r == Handle_TCP_ST_SYN_RCVD(s, p, room)
              IN  IF p.len > 0 /\ r.state = "ESTABLISHED"
                    THEN Handle_TCP_ST_ESTABLISHED(r, p, mem) ELSE r
    [] s.state = "ESTABLISHED" -> Handle_TCP_ST_ESTABLISHED(s, p, mem)
    [] s.state = "CLOSE_WAIT"  -> Handle_TCP_ST_CLOSE_WAIT(s, p)
    [] s.state = "LAST_ACK"    -> Handle_TCP_ST_LAST_ACK(s, p)
    [] s.state = "FIN_WAIT_1"  -> Handle_TCP_ST_FIN_WAIT_1(s, p, mem)
    [] s.state = "FIN_WAIT_2"  -> Handle_TCP_ST_FIN_WAIT_2(s, p, mem)
    [] s.state = "CLOSING"     -> Handle_TCP_ST_CLOSING(s, p)
    [] s.state = "TIME_WAIT"   -> Handle_TCP_ST_TIME_WAIT(s)
    [] s.state = "CLOSED"      -> s

ProcessTCPPacketResetsClosed(s, p, mem, room) ==
  IF p.rst THEN ProcessRST([s EXCEPT !.have_reset = TRUE], p) ELSE Dispatch(s, p, mem, room)

\* A segment of a flow that is in the flow table.
ProcessTCPPacket(s, p, mem, room) ==
  LET w == [s EXCEPT !.peer_wnd = p.wnd, !.have_reset = @ \/ p.rst]
  IN  IF /\ s.state \notin {"CLOSED", "LISTEN", "SYN_SENT", "SYN_RCVD"}
         /\ ~ValidSequence(s, p) \/ (~p.rst /\ p.old)
        THEN RefuseSequence(s, p)
      ELSE IF p.rst /\ s.state \notin {"CLOSED", "LISTEN", "SYN_SENT"} THEN ProcessRST(w, p)
      ELSE Dispatch(w, p, mem, room)
==============================================================================
