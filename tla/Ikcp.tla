-------------------------------- MODULE Ikcp --------------------------------
(***************************************************************************)
(* The KCP ARQ engine of kcp/ikcp.c as operators on a control block.  There *)
(* is no state here: a module that owns control blocks keeps them in its    *)
(* own variables and applies these operators, as the code applies the C     *)
(* functions to an ikcpcb.                                                  *)
(*                                                                          *)
(* Abstractions.                                                            *)
(*  - Payload.  The bytes an application writes are numbered 0, 1, 2 ... and *)
(*    the data of a segment is the interval off .. off+len-1 of numbers.    *)
(*  - Clock.  Whether a retransmission (timeout or fast) or a window probe  *)
(*    is due, and what the congestion window is (always at least 1 once the *)
(*    first ikcp_update of Kcp::initialize has run), are arguments of       *)
(*    ikcp_flush that its caller chooses freely.                            *)
(*  - Datagrams.  A datagram is handled segment by segment by the loop of   *)
(*    ikcp_input, so the wire carries single segments.                      *)
(*  - Sequence numbers are natural numbers.                                 *)
(***************************************************************************)
EXTENDS Naturals, Integers, Sequences, FiniteSetsExt, Functions

CONSTANTS
    Stream,    \* kcp->stream: segments may be filled up by later writes
    Mss,       \* kcp->mss: bytes per segment
    SndWnd,    \* kcp->snd_wnd
    RcvWnd,    \* kcp->rcv_wnd
    WndRcv,    \* IKCP_WND_RCV: initial rmt_wnd and strict bound on fragments
    DeadLink   \* kcp->dead_link: transmissions after which a link is dead

\* ikcp_wndsize keeps rcv_wnd >= IKCP_WND_RCV.
ASSUME IkcpAssumption ==
    /\ Stream \in BOOLEAN
    /\ Mss \in Nat \ {0}
    /\ SndWnd \in Nat \ {0}
    /\ DeadLink \in Nat \ {0}
    /\ WndRcv \in Nat /\ WndRcv >= 2
    /\ RcvWnd \in Nat /\ RcvWnd >= WndRcv

-----------------------------------------------------------------------------
(***************************************************************************)
(* Segments: the payload part (IKCPSEG data, len, frg) and what is on the   *)
(* wire (the 24 byte header with it).                                       *)
(***************************************************************************)
Seg == [off : Nat, len : Nat, frg : Nat]

NoSeg == [off |-> 0, len |-> 0, frg |-> 0]

Cmd == {"PUSH", "ACK", "WASK", "WINS"}

WireSeg == [conv : Nat, cmd : Cmd, wnd : 0 .. RcvWnd, sn : Nat, una : Nat, seg : Seg]

(***************************************************************************)
(* struct IKCPCB.  snd_buf and rcv_buf are the lists sorted by sn, here     *)
(* functions from sn; probe holds only the ASK_TELL bit, since ASK_SEND is  *)
(* set and cleared within one ikcp_flush; probe_wait is whether the probe   *)
(* timer is armed (probe_wait # 0); dead is state = -1.  The counters       *)
(* nsnd_que, nsnd_buf, nrcv_que and nrcv_buf are the sizes of the queues.   *)
(***************************************************************************)
SentSeg == [seg : Seg, xmit : 1 .. DeadLink]

IsKcpCB(k) ==
    /\ k \in [conv : Nat, snd_una : Nat, snd_nxt : Nat, rcv_nxt : Nat,
              rmt_wnd : 0 .. RcvWnd, ask_tell : BOOLEAN, probe_wait : BOOLEAN,
              snd_queue : Seq(Seg), snd_buf : [DOMAIN k.snd_buf -> SentSeg],
              rcv_queue : Seq(Seg), rcv_buf : [DOMAIN k.rcv_buf -> Seg],
              acklist : SUBSET Nat, dead : BOOLEAN]
    /\ DOMAIN k.snd_buf \subseteq Nat
    /\ DOMAIN k.rcv_buf \subseteq Nat

EmptyBuf == [sn \in {} |-> NoSeg]

ikcp_create(conv) ==
    [conv |-> conv, snd_una |-> 0, snd_nxt |-> 0, rcv_nxt |-> 0,
     rmt_wnd |-> WndRcv, ask_tell |-> FALSE, probe_wait |-> FALSE,
     snd_queue |-> <<>>, snd_buf |-> EmptyBuf,
     rcv_queue |-> <<>>, rcv_buf |-> EmptyBuf,
     acklist |-> {}, dead |-> FALSE]

imin(a, b) == IF a <= b THEN a ELSE b

ikcp_waitsnd(k) == Cardinality(DOMAIN k.snd_buf) + Len(k.snd_queue)

is_send_queue_full(k) == Len(k.snd_queue) >= SndWnd

ikcp_wnd_unused(k) == IF Len(k.rcv_queue) < RcvWnd THEN RcvWnd - Len(k.rcv_queue) ELSE 0

-----------------------------------------------------------------------------
(***************************************************************************)
(* ikcp_send: the bytes off .. off+len-1, as ret (0, or -2 when refused)    *)
(* and the control block after the call.  In stream mode the last queued    *)
(* segment is filled up first, and that is not undone when the rest of the  *)
(* bytes is then refused.                                                   *)
(***************************************************************************)
FragCount(len) == IF len <= Mss THEN 1 ELSE (len + Mss - 1) \div Mss

\* Mutant: the data pointer is advanced before the copy.
FragmentsShifted(off, len) ==
    [i \in 1 .. FragCount(len) |->
        [off |-> off + i * Mss,
         len |-> imin(Mss, len - (i - 1) * Mss),
         frg |-> IF Stream THEN 0 ELSE FragCount(len) - i]]

\* Mutant: the fragments of a frame are counted up instead of down.
FragmentsCountedUp(off, len) ==
    [i \in 1 .. FragCount(len) |->
        [off |-> off + (i - 1) * Mss,
         len |-> imin(Mss, len - (i - 1) * Mss),
         frg |-> IF Stream THEN 0 ELSE i - 1]]

Fragments(off, len) ==
    [i \in 1 .. FragCount(len) |->
        [off |-> off + (i - 1) * Mss,
         len |-> imin(Mss, len - (i - 1) * Mss),
         frg |-> IF Stream THEN 0 ELSE FragCount(len) - i]]

\* What the last queued segment can still take in stream mode (0 otherwise).
Extend(k, len) ==
    LET n == Len(k.snd_queue)
    IN  IF Stream /\ n > 0 /\ k.snd_queue[n].len < Mss
        THEN imin(len, Mss - k.snd_queue[n].len) ELSE 0

FillUp(k, len) ==
    LET n == Len(k.snd_queue)
        old == k.snd_queue[n]
        seg == [off |-> old.off, len |-> old.len + Extend(k, len), frg |-> 0]
    IN  IF Extend(k, len) = 0 THEN k
        ELSE [k EXCEPT !.snd_queue = [@ EXCEPT ![n] = seg]]

\* Mutant: a frame of any number of fragments is accepted.
SendAnySize(k, off, len) ==
    LET ext  == Extend(k, len)
        k1   == FillUp(k, len)
        rest == len - ext
    IN  IF Stream /\ rest = 0 THEN [ret |-> 0, kcp |-> k1]
        ELSE [ret |-> 0,
              kcp |-> [k1 EXCEPT !.snd_queue = @ \o Fragments(off + ext, rest)]]

\* Mutant: the bytes that filled up the last segment are queued once more.
SendTwice(k, off, len) ==
    LET ext == Extend(k, len)
        k1  == FillUp(k, len)
    IN  IF Stream /\ len = ext THEN [ret |-> 0, kcp |-> k1]
        ELSE IF FragCount(len) >= WndRcv THEN [ret |-> -2, kcp |-> k1]
        ELSE [ret |-> 0,
              kcp |-> [k1 EXCEPT !.snd_queue = @ \o Fragments(off, len)]]

ikcp_send(k, off, len) ==
    LET ext  == Extend(k, len)
        k1   == FillUp(k, len)
        rest == len - ext
    IN  IF Stream /\ rest = 0 THEN [ret |-> 0, kcp |-> k1]
        ELSE IF FragCount(rest) >= WndRcv THEN [ret |-> -2, kcp |-> k1]
        ELSE [ret |-> 0,
              kcp |-> [k1 EXCEPT !.snd_queue = @ \o Fragments(off + ext, rest)]]

-----------------------------------------------------------------------------
(***************************************************************************)
(* Receiving side.  MoveAvailable is the loop at the end of ikcp_parse_data *)
(* and of ikcp_recv: consecutive segments from rcv_nxt on, as many as the   *)
(* receive queue has room for.                                              *)
(***************************************************************************)
MoveCount(k) ==
    Max({n \in 0 .. ikcp_wnd_unused(k) :
            \A i \in 0 .. n - 1 : k.rcv_nxt + i \in DOMAIN k.rcv_buf})

MoveAvailable(k) ==
    LET n == MoveCount(k)
    IN  [k EXCEPT
            !.rcv_queue = @ \o [i \in 1 .. n |-> k.rcv_buf[k.rcv_nxt + i - 1]],
            !.rcv_buf = Restrict(@, {sn \in DOMAIN @ : sn >= k.rcv_nxt + n}),
            !.rcv_nxt = @ + n]

\* A repeated segment leaves the one already buffered in place.
ikcp_parse_data(k, sn, seg) ==
    IF sn \in k.rcv_nxt .. k.rcv_nxt + RcvWnd - 1
    THEN MoveAvailable(IF sn \in DOMAIN k.rcv_buf THEN k
                       ELSE [k EXCEPT !.rcv_buf =
                               [s \in DOMAIN @ \cup {sn} |-> IF s = sn THEN seg ELSE @[s]]])
    ELSE k

\* Fragments in the first frame of the receive queue: up to the first frg = 0.
FrameFragments(q) == Min({i \in 1 .. Len(q) : q[i].frg = 0} \cup {Len(q)})

FrameLen(q) ==
    FoldFunction(LAMBDA a, b : a + b, 0, [i \in 1 .. FrameFragments(q) |-> q[i].len])

ikcp_peeksize(k) ==
    LET q == k.rcv_queue
    IN  IF q = <<>> THEN -1
        ELSE IF Len(q) < q[1].frg + 1 THEN -1
        ELSE FrameLen(q)

\* The caller has checked ikcp_peeksize(k) >= 0 and passes a buffer that is
\* large enough.  Leaving the full state asks for a WINS.
ikcp_recv(k) ==
    LET n == FrameFragments(k.rcv_queue)
        recover == Len(k.rcv_queue) >= RcvWnd
        k1 == MoveAvailable([k EXCEPT !.rcv_queue = SubSeq(@, n + 1, Len(@))])
    IN  [frame |-> SubSeq(k.rcv_queue, 1, n),
         kcp |-> IF recover /\ Len(k1.rcv_queue) < RcvWnd
                 THEN [k1 EXCEPT !.ask_tell = TRUE] ELSE k1]

-----------------------------------------------------------------------------
(***************************************************************************)
(* Sending side: what acknowledgements do to snd_buf.                       *)
(***************************************************************************)
\* Mutant: snd_una is the last acknowledged number.
ShrinkBelow(k) ==
    [k EXCEPT !.snd_una = IF DOMAIN k.snd_buf = {} THEN k.snd_nxt ELSE Min(DOMAIN k.snd_buf) - 1]

ikcp_shrink_buf(k) ==
    [k EXCEPT !.snd_una = IF DOMAIN k.snd_buf = {} THEN k.snd_nxt ELSE Min(DOMAIN k.snd_buf)]

\* Mutant: una itself is taken as acknowledged.
ParseUnaInclusive(k, una) ==
    [k EXCEPT !.snd_buf = Restrict(@, {sn \in DOMAIN @ : sn > una})]

ikcp_parse_una(k, una) ==
    [k EXCEPT !.snd_buf = Restrict(@, {sn \in DOMAIN @ : sn >= una})]

ikcp_parse_ack(k, sn) ==
    IF sn < k.snd_una \/ sn >= k.snd_nxt THEN k
    ELSE [k EXCEPT !.snd_buf = Restrict(@, DOMAIN @ \ {sn})]

(***************************************************************************)
(* ikcp_input on one segment: the header's wnd and una first, then the      *)
(* command.  A PUSH below the window is acknowledged again and dropped, one  *)
(* beyond it is dropped silently.                                           *)
(***************************************************************************)
\* Mutant: snd_una is what the header says, however old it is.
InputHeaderStale(k, m) ==
    [ikcp_parse_una([k EXCEPT !.rmt_wnd = m.wnd], m.una) EXCEPT !.snd_una = m.una]

InputHeader(k, m) == ikcp_shrink_buf(ikcp_parse_una([k EXCEPT !.rmt_wnd = m.wnd], m.una))

InputAck(k, m) == ikcp_shrink_buf(ikcp_parse_ack(k, m.sn))

\* Mutant: a PUSH that was received before is not acknowledged again.
InputPushNoReack(k, m) ==
    IF m.sn >= k.rcv_nxt + RcvWnd \/ m.sn < k.rcv_nxt THEN k
    ELSE ikcp_parse_data([k EXCEPT !.acklist = @ \cup {m.sn}], m.sn, m.seg)

InputPush(k, m) ==
    IF m.sn >= k.rcv_nxt + RcvWnd THEN k
    ELSE LET k1 == [k EXCEPT !.acklist = @ \cup {m.sn}]
         IN  IF m.sn >= k.rcv_nxt THEN ikcp_parse_data(k1, m.sn, m.seg) ELSE k1

ikcp_input(k, m) ==
    LET k1 == InputHeader(k, m)
    IN  IF m.conv # k.conv THEN [ret |-> -1, kcp |-> k]
        ELSE [ret |-> 0,
              kcp |-> CASE m.cmd = "ACK"  -> InputAck(k1, m)
                        [] m.cmd = "PUSH" -> InputPush(k1, m)
                        [] m.cmd = "WASK" -> [k1 EXCEPT !.ask_tell = TRUE]
                        [] m.cmd = "WINS" -> k1]

-----------------------------------------------------------------------------
(***************************************************************************)
(* ikcp_flush(k, cwnd, due, probe): cwnd is the congestion window, due the  *)
(* set of segments of snd_buf whose timeout or fast resend has come, probe  *)
(* whether the armed probe timer has expired.  Result: the control block    *)
(* and the set of segments handed to the output callback.                   *)
(***************************************************************************)
\* The values of an IUINT16, as which ikcp_encode_seg writes the window.
U16 == 65536

\* Mutant: una acknowledges the number that is still expected.
HeaderUnaNext(k, cmd, sn, seg) ==
    [conv |-> k.conv, cmd |-> cmd, wnd |-> ikcp_wnd_unused(k) % U16, sn |-> sn,
     una |-> k.rcv_nxt + 1, seg |-> seg]

Header(k, cmd, sn, seg) ==
    [conv |-> k.conv, cmd |-> cmd, wnd |-> ikcp_wnd_unused(k) % U16, sn |-> sn,
     una |-> k.rcv_nxt, seg |-> seg]

\* Mutant: what is in flight already is not counted against the window.
MovedIgnoresInFlight(k, cwnd) ==
    imin(imin(cwnd, imin(SndWnd, k.rmt_wnd)), Len(k.snd_queue))

\* Segments moved from snd_queue to snd_buf.
Moved(k, cwnd) ==
    LET room == k.snd_una + imin(cwnd, imin(SndWnd, k.rmt_wnd)) - k.snd_nxt
    IN  IF room <= 0 THEN 0 ELSE imin(room, Len(k.snd_queue))

\* snd_buf after the move and the transmissions of this flush.
FlushedBuf(k, n, due) ==
    [sn \in DOMAIN k.snd_buf \cup k.snd_nxt .. k.snd_nxt + n - 1 |->
        IF sn \in DOMAIN k.snd_buf
        THEN [k.snd_buf[sn] EXCEPT !.xmit = IF sn \in due THEN imin(@ + 1, DeadLink) ELSE @]
        ELSE [seg |-> k.snd_queue[sn - k.snd_nxt + 1], xmit |-> 1]]

\* Mutant: the closed window of the peer is never probed.
NeverAsks(k, probe) == FALSE

\* A window probe is sent when the probe timer was armed and has expired.
Asks(k, probe) == k.rmt_wnd = 0 /\ k.probe_wait /\ probe

ikcp_flush(k, cwnd, due, probe) ==
    LET n == Moved(k, cwnd)
        buf == FlushedBuf(k, n, due)
        sending == (due \cap DOMAIN k.snd_buf) \cup k.snd_nxt .. k.snd_nxt + n - 1
    IN  [kcp |-> [k EXCEPT
                    !.acklist = {},
                    !.ask_tell = FALSE,
                    !.probe_wait = (k.rmt_wnd = 0),
                    !.snd_queue = SubSeq(@, n + 1, Len(@)),
                    !.snd_buf = buf,
                    !.snd_nxt = @ + n,
                    !.dead = @ \/ \E sn \in sending : buf[sn].xmit >= DeadLink],
         out |-> {Header(k, "ACK", sn, NoSeg) : sn \in k.acklist}
                 \cup (IF Asks(k, probe) THEN {Header(k, "WASK", 0, NoSeg)} ELSE {})
                 \cup (IF k.ask_tell THEN {Header(k, "WINS", 0, NoSeg)} ELSE {})
                 \cup {Header(k, "PUSH", sn, buf[sn].seg) : sn \in sending}]
=============================================================================
