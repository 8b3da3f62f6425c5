--------------------------------- MODULE Mtcp ---------------------------------
(***************************************************************************)
(* A connection between the two threads that share it: the application     *)
(* thread in the calls of api.c, and the mtcp thread in RunMainLoop.  They *)
(* meet in the fields of the stream, which no lock protects, and in the    *)
(* stream queues.  A call of the application is cut where it reads what    *)
(* the mtcp thread writes; a round of the main loop is cut where the       *)
(* application can come in between.  The peer is a TCP that may send,      *)
(* resend and reorder any segment it could have sent so far.               *)
(***************************************************************************)
EXTENDS TcpStream

CONSTANTS
  Windows, \* the windows the peer advertises
  Env      \* what the application, the peer and the machine do in this instance

\* "connect", "listen": which side opens.  "write", "read", "close", "abort":
\* calls of the application; "closesyn": it closes or aborts before the
\* connection is open.  "fin", "rst": the peer closes or resets; "simopen",
\* "simclose": its SYN or FIN crosses ours; "dupacks": it repeats an ACK more than
\* twice; "reorder": its ACKs may overtake each other; "paws": a segment may carry
\* an old timestamp; "lost": it may vanish, so that retransmission gives up;
\* "idle": it may be silent for tcp_timeout.
\* "notx", "nomem", "nosocket", "backlog", "qfull": no transmit buffer, receive or
\* send buffer, socket, room in the acceptq, or room in the connectq.
\* "calls_race", "send_race": the application runs between the sendq and the closeq
\* loop, or between FlushTCPSendingBuffer and leaving the send list.
Environment == {"connect", "listen", "write", "read", "close", "abort", "closesyn",
                "fin", "rst", "simopen", "dupacks", "reorder", "paws", "lost", "idle",
                "simclose", "calls_race", "send_race", "notx", "nomem", "nosocket", "backlog",
                "qfull"}

ASSUME EnvAssumption == Env \subseteq Environment /\ Windows \subseteq 0 .. MaxWnd

VARIABLES
  s,       \* the stream
  queued,  \* the stream queues that hold a pointer to it
  app,     \* where the application thread is
  phase,   \* where the mtcp thread is in RunMainLoop
  packets, \* what FlushTCPSendingBuffer returned to WriteTCPDataList
  fresh,   \* the timers that restarted in this round: they cannot expire in it
  peer_ack \* the highest acknowledgement the peer has sent

vars == <<s, queued, app, phase, packets, fresh, peer_ack>>

\* "destroyq_again": a second entry of the destroyq.
Queues == {"connectq", "sendq", "ackq", "closeq", "resetq", "destroyq", "destroyq_again"}

AppStates == {"start", "listen", "open", "write", "written", "close", "close_enqueue",
              "abort", "abort_close", "abort_destroy", "abort_enqueue", "done"}

Phases == {"rx", "timers", "calls", "close_calls", "control", "data", "sent"}

TypeOK ==
  /\ s \in Stream
  /\ queued \subseteq Queues
  /\ app \in AppStates
  /\ phase \in Phases
  /\ packets \in Nat
  /\ fresh \subseteq {"rto", "timeout"}
  /\ peer_ack \in Nat

Init ==
  /\ s = [CreateTCPStream("CLOSED", FALSE, irs - 1) EXCEPT !.live = FALSE]
  /\ queued = {}
  /\ app = "start"
  /\ phase = "rx"
  /\ packets = 0
  /\ fresh = {}
  /\ peer_ack = 1

\* A thread follows a pointer to the stream.
Deref(t) == Asserts(t, t.live, "use_after_free")

\* Where the two threads are; nothing is said of what follows a fault.
AppAt(where) ==
  /\ app = where /\ s.fault = "none"
  /\ phase = "close_calls" => "calls_race" \in Env
  /\ phase = "sent" => "send_race" \in Env
ThreadAt(where) == phase = where /\ s.fault = "none"

\* Whether something happens, and whether something the stack needs is there.
MayHappen(e) == IF e \in Env THEN BOOLEAN ELSE {FALSE}
Unless(e) == IF e \in Env THEN BOOLEAN ELSE {TRUE}

------------------------------------------------------------------------------
(* The application thread (api.c).                                         *)

\* room: the connectq is not full.  If it is, the stream is to be destroyed while
\* the socket keeps its pointer to it.  HandleActiveOpen sets snd_wl1 again.
mtcp_connect(room) ==
  /\ AppAt("start") /\ "connect" \in Env
  /\ s' = CreateTCPStream("SYN_SENT", TRUE, irs - 1)
  /\ queued' = {IF room THEN "connectq" ELSE "destroyq"}
  /\ app' = "open"
  /\ UNCHANGED <<phase, packets, fresh, peer_ack>>

\* Without a socket the accepted stream is dropped.
mtcp_accept(socket) ==
  /\ AppAt("listen") /\ s.on_acceptq
  /\ s' = [Deref(s) EXCEPT !.on_acceptq = FALSE, !.socket = socket]
  /\ app' = IF socket THEN "open" ELSE "done"
  /\ UNCHANGED <<queued, phase, packets, fresh, peer_ack>>

\* mtcp_write: look at the state, copy under write_lock, then decide without
\* it whether the mtcp thread has to be told.
WriteBegin ==
  /\ AppAt("open") /\ "write" \in Env /\ DataEnd(s) <= MaxWrite
  /\ s' = Deref(s)
  /\ app' = IF s.state \in {"ESTABLISHED", "CLOSE_WAIT"} THEN "write" ELSE "open"
  /\ UNCHANGED <<queued, phase, packets, fresh, peer_ack>>

CopyFromUser(mem) ==
  /\ AppAt("write")
  /\ \/ /\ s.sndbuf \/ mem
        /\ s.len < SndBuf
        /\ s' = [Deref(s) EXCEPT !.sndbuf = TRUE, !.len = @ + 1]
        /\ app' = "written"
     \/ /\ s.sndbuf \/ mem
        /\ s.len = SndBuf
        /\ s' = Deref(s)
        /\ app' = "open"
     \/ /\ ~(s.sndbuf \/ mem)
        /\ s' = [Deref(s) EXCEPT !.close_reason = "NO_MEM"]
        /\ app' = "open"
  /\ UNCHANGED <<queued, phase, packets, fresh, peer_ack>>

WriteEnd ==
  /\ AppAt("written")
  /\ IF s.on_sendq \/ s.on_send_list
       THEN s' = Deref(s) /\ UNCHANGED queued
       ELSE s' = [Deref(s) EXCEPT !.on_sendq = TRUE] /\ queued' = queued \cup {"sendq"}
  /\ app' = "open"
  /\ UNCHANGED <<phase, packets, fresh, peer_ack>>

mtcp_readForgetsWindow(upto) ==
  /\ AppAt("open") /\ "read" \in Env
  /\ s.state \in {"ESTABLISHED", "FIN_WAIT_1", "FIN_WAIT_2", "CLOSE_WAIT"} /\ s.rcvbuf
  /\ upto \in s.rb_head + 1 .. MergedEnd(s)
  /\ LET r == [s EXCEPT !.rb_head = upto, !.rcv_wnd = RcvWnd([s EXCEPT !.rb_head = upto])]
         adv == s.need_wnd_adv /\ r.rcv_wnd > eff_mss /\ ~s.on_ackq
     IN  /\ s' = [r EXCEPT !.on_ackq = @ \/ adv, !.need_wnd_adv = FALSE]
         /\ queued' = IF adv THEN queued \cup {"ackq"} ELSE queued
  /\ UNCHANGED <<app, phase, packets, fresh, peer_ack>>

\* CopyToUser: adv, the read makes room for a window that was told to be 0.
mtcp_read(upto) ==
  /\ AppAt("open") /\ "read" \in Env
  /\ s.state \in {"ESTABLISHED", "FIN_WAIT_1", "FIN_WAIT_2", "CLOSE_WAIT"} /\ s.rcvbuf
  /\ upto \in s.rb_head + 1 .. MergedEnd(s)
  /\ LET c == [Deref(s) EXCEPT !.rb_head = upto]
         r == [c EXCEPT !.rcv_wnd = RcvWnd(c)]
         adv == s.need_wnd_adv /\ r.rcv_wnd > eff_mss /\ ~s.on_ackq
     IN  /\ s' = IF adv THEN [r EXCEPT !.on_ackq = TRUE, !.need_wnd_adv = FALSE] ELSE r
         /\ queued' = IF adv THEN queued \cup {"ackq"} ELSE queued
  /\ UNCHANGED <<app, phase, packets, fresh, peer_ack>>

\* StreamEnqueue on the destroyq, which may hold the stream already.
ToDestroyq == queued \cup {IF "destroyq" \in queued THEN "destroyq_again" ELSE "destroyq"}

MayEnd == s.state = "SYN_SENT" => "closesyn" \in Env

\* CloseStreamSocket: mark, look at the state, enqueue.
CloseBegin ==
  /\ AppAt("open") /\ "close" \in Env /\ MayEnd
  /\ s' = [Deref(s) EXCEPT !.closed = TRUE, !.socket = FALSE]
  /\ app' = "close"
  /\ UNCHANGED <<queued, phase, packets, fresh, peer_ack>>

CloseDecide ==
  /\ AppAt("close")
  /\ s' = Deref(s)
  /\ CASE s.state \in {"CLOSED", "SYN_SENT"} ->
            app' = "done" /\ queued' = ToDestroyq
       [] s.state \in {"ESTABLISHED", "CLOSE_WAIT"} ->
            app' = "close_enqueue" /\ UNCHANGED queued
       [] OTHER -> app' = "done" /\ UNCHANGED queued
  /\ UNCHANGED <<phase, packets, fresh, peer_ack>>

CloseEnqueue ==
  /\ AppAt("close_enqueue")
  /\ s' = [Deref(s) EXCEPT !.on_closeq = TRUE]
  /\ queued' = queued \cup {"closeq"}
  /\ app' = "done"
  /\ UNCHANGED <<phase, packets, fresh, peer_ack>>

AbortBegin ==
  /\ AppAt("open") /\ "abort" \in Env /\ MayEnd
  /\ s' = [Deref(s) EXCEPT !.socket = FALSE]
  /\ app' = "abort"
  /\ UNCHANGED <<queued, phase, packets, fresh, peer_ack>>

AbortDecide ==
  /\ AppAt("abort")
  /\ s' = Deref(s)
  /\ app' = CASE s.state = "CLOSED" -> "done"
              [] s.state \in {"SYN_SENT", "CLOSING", "LAST_ACK", "TIME_WAIT"} -> "abort_close"
              [] OTHER -> "abort_enqueue"
  /\ UNCHANGED <<queued, phase, packets, fresh, peer_ack>>

\* Whatever the mtcp thread has made of the state since.
AbortClose ==
  /\ AppAt("abort_close")
  /\ s' = Close(Deref(s), "ACTIVE_CLOSE")
  /\ app' = "abort_destroy"
  /\ UNCHANGED <<queued, phase, packets, fresh, peer_ack>>

AbortDestroy ==
  /\ AppAt("abort_destroy")
  /\ queued' = ToDestroyq
  /\ app' = "done"
  /\ UNCHANGED <<s, phase, packets, fresh, peer_ack>>

AbortEnqueue ==
  /\ AppAt("abort_enqueue")
  /\ s' = [Deref(s) EXCEPT !.on_resetq = TRUE]
  /\ queued' = queued \cup {"resetq"}
  /\ app' = "done"
  /\ UNCHANGED <<phase, packets, fresh, peer_ack>>

Application ==
  \/ (\E room \in Unless("qfull") : mtcp_connect(room)) \/ \E socket \in Unless("nosocket") : mtcp_accept(socket)
  \/ WriteBegin \/ (\E mem \in Unless("nomem") : CopyFromUser(mem)) \/ WriteEnd
  \/ \E upto \in 1 .. PeerData + 1 : mtcp_read(upto)
  \/ CloseBegin \/ CloseDecide \/ CloseEnqueue
  \/ AbortBegin \/ AbortDecide \/ AbortClose \/ AbortDestroy \/ AbortEnqueue

------------------------------------------------------------------------------
(* The peer.  It acknowledges only what it can have received in order.     *)

Received == CHOOSE n \in 0 .. MaxWrite + 2 : n \notin s.sent /\ 0 .. n - 1 \subseteq s.sent

Segment(seq, len, ack_seq, wnd) ==
  [syn |-> FALSE, ack |-> TRUE, rst |-> FALSE, fin |-> FALSE,
   seq |-> seq, len |-> len, ack_seq |-> ack_seq, wnd |-> wnd, old |-> FALSE]

SYN(wnd) == [Segment(irs, 0, 0, wnd) EXCEPT !.syn = TRUE, !.ack = FALSE]
SYNACK(wnd) == [Segment(irs, 0, iss + 1, wnd) EXCEPT !.syn = TRUE]

Acks == (IF "reorder" \in Env THEN iss + 1 ELSE peer_ack) .. Received

MaxSegment == 2 \* units of data in a segment

\* ACKs with or without data, the FIN (with the end of the data or alone), and
\* resets.  The peer may send past the receive window, as a probe does.  A FIN that
\* acknowledges ours does not cross it.
Segments(wnd) ==
  LET acks == {Segment(i, n, a, wnd) : i \in 1 .. PeerData + 2, n \in 0 .. MaxSegment, a \in Acks}
      opened == {p \in acks : p.seq + p.len <= PeerData + (IF "fin" \in Env THEN 2 ELSE 1)
                              /\ (p.len > 0 => p.seq + p.len <= PeerData + 1)}
      fins == {[p EXCEPT !.fin = TRUE] : p \in {q \in opened : q.seq + q.len = PeerData + 1}}
      rsts == {[p EXCEPT !.rst = TRUE] : p \in {q \in opened : q.len = 0}}
      crosses(p) == s.state = "FIN_WAIT_1" /\ ~AckOfFin(s, p)
      mayFin(p) == "fin" \in Env /\ (crosses(p) => "simclose" \in Env)
  IN  (IF s.is_bound_addr THEN {SYNACK(wnd)} ELSE {SYN(wnd)})
        \cup (IF "simopen" \in Env THEN {SYN(wnd)} ELSE {})
        \cup (IF s.state = "SYN_SENT" THEN {} ELSE opened \cup {p \in fins : mayFin(p)})
        \cup (IF "rst" \in Env THEN rsts ELSE {})

\* The third repetition of an ACK, which only a peer with "dupacks" sends.
ThirdDupAck(t) == t.dup_acks = 3

------------------------------------------------------------------------------
(* The mtcp thread (RunMainLoop).  Other connections keep flow_cnt above 0, *)
(* so every round checks the timers and the queues.                        *)

\* The SYN of a passive open: CreateNewFlowHTEntry, then the common path.
PassiveOpen(wnd, wl1) ==
  /\ ThreadAt("rx") /\ app = "start" /\ "listen" \in Env
  /\ s' = ProcessTCPPacket([CreateTCPStream("LISTEN", FALSE, wl1) EXCEPT !.rcv_nxt = irs],
                           SYN(wnd), TRUE, TRUE)
  /\ app' = "listen"
  /\ UNCHANGED <<queued, phase, packets, fresh, peer_ack>>

\* A segment of the flow; one of a flow that is not in the table is refused with
\* a RST and changes nothing.
Receive(p, mem, room) ==
  /\ ThreadAt("rx") /\ s.live /\ iss \in s.sent
  /\ s' = ProcessTCPPacket(s, p, mem, room)
  /\ ThirdDupAck(s') => "dupacks" \in Env
  /\ peer_ack' = IF p.ack_seq > peer_ack THEN p.ack_seq ELSE peer_ack
  /\ fresh' = {"timeout"} \cup fresh \cup (IF s'.snd_una # s.snd_una THEN {"rto"} ELSE {})
  /\ UNCHANGED <<queued, app, phase, packets>>

ReceiveEnd ==
  /\ ThreadAt("rx") /\ app # "start"
  /\ phase' = "timers"
  /\ UNCHANGED <<s, queued, app, packets, fresh, peer_ack>>

GivesUp(t) == t.nrtx = IF t.state = "SYN_SENT" THEN TCP_MAX_SYN_RETRY ELSE TCP_MAX_RTX

\* Any of the three timers may have expired.
CheckTimers(rto, timewait, timeout) ==
  /\ ThreadAt("timers")
  /\ rto => "rto" \notin fresh /\ (GivesUp(s) => "lost" \in Env)
  /\ timeout => "timeout" \notin fresh /\ "idle" \in Env
  /\ LET r == IF rto THEN CheckRtmTimeout(s) ELSE s
         w == IF timewait THEN CheckTimewaitExpire(r) ELSE r
     IN  s' = IF timeout THEN CheckConnectionTimeout(w) ELSE w
  /\ phase' = "calls"
  /\ fresh' = {}
  /\ UNCHANGED <<queued, app, packets, peer_ack>>

HandleConnectSendForgets ==
  /\ ThreadAt("calls")
  /\ s' = [IF "connectq" \in queued THEN AddtoControlList(Deref(s)) ELSE s EXCEPT !.on_sendq = FALSE]
  /\ queued' = queued \ {"connectq", "sendq"}
  /\ phase' = "close_calls"
  /\ UNCHANGED <<app, packets, fresh, peer_ack>>

\* HandleApplicationCalls, first half: connectq, sendq and ackq.
HandleConnectSend ==
  /\ ThreadAt("calls")
  /\ LET c == IF "connectq" \in queued THEN AddtoControlList(Deref(s)) ELSE s
         d == IF "sendq" \in queued THEN AddtoSendList([Deref(c) EXCEPT !.on_sendq = FALSE]) ELSE c
     IN  s' = IF "ackq" \in queued
                THEN EnqueueACK([Deref(d) EXCEPT !.on_ackq = FALSE], "AGGREGATE") ELSE d
  /\ queued' = queued \ {"connectq", "sendq", "ackq"}
  /\ phase' = "close_calls"
  /\ UNCHANGED <<app, packets, fresh, peer_ack>>

\* The application's FIN has been asked for.
StartClose(t) ==
  CASE t.state = "ESTABLISHED" -> [t EXCEPT !.state = "FIN_WAIT_1"]
    [] t.state = "CLOSE_WAIT"  -> [t EXCEPT !.state = "LAST_ACK"]
    [] OTHER                   -> t

\* A stream the peer has reset is destroyed by the close or reset that follows.
DestroyReset(t) == IF t.state # "CLOSED" THEN DestroyTCPStream(Close(t, "RESET")) ELSE t

HandleClose(t) ==
  LET c == RemoveFromTimeoutList(
             [Deref(t) EXCEPT !.on_closeq = FALSE,
                              !.fss = IF t.sndbuf THEN DataEnd(t) ELSE t.snd_nxt])
  IN  IF c.have_reset THEN DestroyReset(c)
      ELSE IF c.on_control_list THEN [c EXCEPT !.on_closeq_int = TRUE]
      ELSE IF c.on_send_list \/ c.on_ack_list
        THEN [StartClose(c) EXCEPT !.control_list_waiting = TRUE]
      ELSE IF c.state # "CLOSED" THEN AddtoControlList(StartClose(c))
      ELSE c

HandleCloseIntForgets(t) ==
  LET c == [Deref(t) EXCEPT !.on_closeq_int = FALSE]
  IN  IF t.on_control_list \/ c.state = "CLOSED" THEN c ELSE AddtoControlList(StartClose(c))

HandleCloseInt(t) ==
  LET c == [Deref(t) EXCEPT !.on_closeq_int = FALSE]
  IN  IF t.on_control_list THEN Deref(t)
      ELSE IF c.state # "CLOSED" THEN AddtoControlList(StartClose(c))
      ELSE c

StartReset(t) ==
  IF t.state # "CLOSED" THEN AddtoControlList(Close(t, "ACTIVE_CLOSE")) ELSE t

Flushed(t) == ~(t.on_control_list \/ t.on_send_list \/ t.on_ack_list)

HandleReset(t) ==
  LET c == RemoveFromTimeoutList([Deref(t) EXCEPT !.on_resetq = FALSE])
  IN  IF c.have_reset THEN DestroyReset(c)
      ELSE IF ~Flushed(c) THEN [c EXCEPT !.on_resetq_int = TRUE]
      ELSE StartReset(c)

HandleResetInt(t) ==
  IF ~Flushed(t) THEN Deref(t) ELSE StartReset([Deref(t) EXCEPT !.on_resetq_int = FALSE])

\* HandleApplicationCalls, second half: closeq, closeq_int, resetq, resetq_int
\* and destroyq, in this order.
HandleCloseResetDestroy ==
  /\ ThreadAt("close_calls")
  /\ LET c == IF "closeq" \in queued THEN HandleClose(s) ELSE s
         d == IF c.on_closeq_int THEN HandleCloseInt(c) ELSE c
         r == IF "resetq" \in queued THEN HandleReset(d) ELSE d
         t == IF r.on_resetq_int THEN HandleResetInt(r) ELSE r
         u == IF "destroyq" \in queued THEN DestroyTCPStream(t) ELSE t
     IN  s' = IF "destroyq_again" \in queued THEN DestroyTCPStream(u) ELSE u
  /\ queued' = queued \ {"closeq", "resetq", "destroyq", "destroyq_again"}
  /\ phase' = "control"
  /\ UNCHANGED <<app, packets, fresh, peer_ack>>

\* WritePacketsToChunks: the control list, the ACK list, the data list.
WriteControlAndACK(tx) ==
  /\ ThreadAt("control")
  /\ s' = WriteTCPACKList(WriteTCPControlList(s, tx), tx)
  /\ phase' = "data"
  /\ UNCHANGED <<queued, app, packets, fresh, peer_ack>>

\* The stream stays on the list while data or the control packet before it
\* cannot go.
WriteTCPDataList(upto, wack) ==
  /\ ThreadAt("data")
  /\ LET sends == s.on_send_list /\ SendsData(s)
         stays == s.state = "ESTABLISHED" /\ s.on_control_list
         blocked == sends /\ s.len > 0 /\ upto < DataEnd(s)
     IN  /\ s' = IF sends THEN FlushTCPSendingBuffer(s, upto, wack) ELSE s
         /\ packets' = IF sends THEN upto - s.snd_nxt ELSE 0
         /\ phase' = IF ~s.on_send_list \/ stays \/ blocked THEN "rx" ELSE "sent"
  /\ UNCHANGED <<queued, app, fresh, peer_ack>>

WriteTCPDataListEnd ==
  /\ ThreadAt("sent")
  /\ s' = LeaveSendList(s, packets)
  /\ packets' = 0
  /\ phase' = "rx"
  /\ UNCHANGED <<queued, app, fresh, peer_ack>>

MtcpThread ==
  \/ \E wnd \in Windows :
       \/ \E wl1 \in irs - 1 .. PeerData + 3 : PassiveOpen(wnd, wl1)
       \/ \E p \in Segments(wnd), mem \in Unless("nomem"), room \in Unless("backlog"),
             old \in MayHappen("paws") : Receive([p EXCEPT !.old = old], mem, room)
  \/ ReceiveEnd
  \/ \E rto, timewait, timeout \in BOOLEAN : CheckTimers(rto, timewait, timeout)
  \/ HandleConnectSend \/ HandleCloseResetDestroy
  \/ \E tx \in Unless("notx") : WriteControlAndACK(tx)
  \/ \E upto \in FlushStops(s), wack \in BOOLEAN : WriteTCPDataList(upto, wack)
  \/ WriteTCPDataListEnd

Next == Application \/ MtcpThread

Spec == Init /\ [][Next]_vars

------------------------------------------------------------------------------
(* Properties that hold whatever the environment does.                    *)

\* The RTO list and the TIME_WAIT list thread through the one timer_link of a
\* stream, so a stream is in one of them at most (timer.c:29-114).
OneTimerList == ~(s.on_rto /\ s.on_timewait_list)

\* Each state after a FIN is reached only with that FIN: FIN_WAIT_2 and TIME_WAIT
\* when the peer has acknowledged ours, CLOSE_WAIT, CLOSING, LAST_ACK and TIME_WAIT
\* when the peer's is in, after all its data (tcp_in.c:878-1196).
FinsAgree ==
  /\ s.state \in {"FIN_WAIT_2", "TIME_WAIT"} =>
       s.is_fin_sent /\ s.snd_una = s.fss + 1 /\ peer_ack = s.fss + 1
  /\ s.state \in {"CLOSE_WAIT", "CLOSING", "LAST_ACK", "TIME_WAIT"} /\ ~s.have_reset =>
       s.rcv_nxt = PeerData + 2

\* A connection that ends by the exchange of FINs has delivered everything the
\* application wrote: nothing is left in the send buffer and every unit up to
\* the FIN was sent (tcp_in.c:964-1196, core.c:515-605).
Delivered ==
  s.state \in {"FIN_WAIT_2", "TIME_WAIT"} \/ s.close_reason = "PASSIVE_CLOSE" =>
    iss .. s.fss \subseteq s.sent /\ s.len = 0 /\ DataEnd(s) = s.fss

\* The application reads the peer's bytes in order and without a hole, whatever the
\* order, overlap and size of the segments and whatever it reads in between: what is
\* acknowledged has been read or is in the buffer, the FIN comes after the last byte,
\* nothing is read that is not acknowledged, what waits for a hole to be filled is in
\* the memory of the buffer, and so is all that the window lets in
\* (tcp_in.c:561-648, api.c:1139-1178, tcp_ring_buffer.c:291-398).
InOrder ==
  s.live =>
    /\ irs + 1 .. s.rcv_nxt - 1 \subseteq s.rcvd \cup {PeerData + 1}
    /\ s.rcvbuf => /\ s.rb_head <= s.rcv_nxt
                   /\ \A n \in s.rcvd : n < s.rb_head + RcvBuf
                   /\ s.state = "ESTABLISHED" => s.rcv_nxt + s.rcv_wnd <= s.rb_head + RcvBuf

\* A window the application has opened is told: while the peer's last word is a
\* window of 0 and there is room for more than a segment, an ACK is queued or on its
\* list (api.c:1139-1178, tcp_out.c:310-315, 798-908).
WindowReopens ==
  s.live /\ s.state = "ESTABLISHED" /\ s.told_full /\ s.rcv_wnd > eff_mss =>
    s.on_ackq \/ (s.on_ack_list /\ s.ack_cnt > 0)

\* A stream that is CLOSED stays CLOSED: no late segment, timer or call of the
\* application brings it back (tcp_in.c:1198-1364, core.c:515-665).
ClosedIsFinal == [][s.live /\ s.state = "CLOSED" => s'.state = "CLOSED"]_vars

\* Neither edge of the connection moves back: an old ACK does not reopen what is
\* acknowledged, an old segment does not lower what is received (tcp_in.c:326-648).
NeverBack ==
  [][s.live /\ s'.live =>
       s'.snd_una >= s.snd_una /\ s'.head_seq >= s.head_seq /\ s'.rcv_nxt >= s.rcv_nxt]_vars

------------------------------------------------------------------------------
(* Properties of a connection that some part of the environment can break. *)

\* No assert of the stack fails, and neither thread uses a stream that went back
\* to its pool (tcp_stream.c:476, tcp_out.c:497-518, timer.c:305).
NoFault == s.fault = "none"

\* A stream is given back once: the first thing that destroys it takes it out of
\* the flow table, where the next one asserts it is (tcp_stream.c:476).
DestroyedOnce == s.fault # "destroyed_twice"

\* What is acknowledged was sent: the sender never stands before the oldest
\* unacknowledged unit (tcp_out.c:505, "snd_una" against "snd_nxt").
SeqOrder == s.live => s.snd_una <= s.snd_nxt

Open == s.live /\ s.state \in {"ESTABLISHED", "CLOSE_WAIT", "FIN_WAIT_1", "CLOSING", "LAST_ACK"}

\* The control list has the stream, or gets it when the other lists are done.
ControlPending ==
  s.on_control_list \/ (s.control_list_waiting /\ (s.on_send_list \/ s.on_ack_list))

\* Data that was never sent is on its way to the sender: the stream is on the
\* send list or in sendq, or the application is about to put it there, or the
\* retransmission timer will (api.c:1581-1600, tcp_out.c:708-796).
Scheduled ==
  Open /\ s.close_reason = "NOT_CLOSED" /\ s.len > 0 /\ s.snd_nxt < DataEnd(s) =>
    s.on_send_list \/ s.on_sendq \/ app = "written" \/ s.on_rto

\* What is sent and not acknowledged, data or FIN, has a timer or is about to be
\* sent again (timer.c:148-173, 308-345).
Retransmittable ==
  Open /\ s.close_reason = "NOT_CLOSED" /\ (s.snd_una < s.snd_nxt \/ s.is_fin_sent) =>
    s.on_rto \/ s.on_send_list \/ ControlPending

\* The FIN goes out after every unit the application wrote before it closed
\* (tcp_out.c:587-634).
FinAfterData == s.is_fin_sent => iss + 1 .. s.fss - 1 \subseteq s.sent

\* A FIN that is owed is on the control list, or waits for a list that will put
\* it there (core.c:515-605, tcp_out.c:652-908).
FinScheduled ==
  s.live /\ s.state \in {"FIN_WAIT_1", "LAST_ACK"} /\ ~s.is_fin_sent => ControlPending

\* A stream the application is done with, or cannot get because it is not in the
\* acceptq, is still in a queue, a list or a timer that ends it, or waits for the
\* peer's FIN: none is forgotten with its memory (core.c:486-673, api.c:871-1119,
\* tcp_in.c:846-861).
NotStranded ==
  s.live /\ (app = "done" \/ (app = "listen" /\ ~s.on_acceptq)) =>
    \/ queued # {} \/ s.on_closeq_int \/ s.on_resetq_int
    \/ ControlPending \/ s.on_send_list
    \/ s.on_rto \/ s.on_timewait_list \/ s.on_timeout_list
    \/ s.state = "FIN_WAIT_2"
===============================================================================
