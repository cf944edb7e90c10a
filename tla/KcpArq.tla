------------------------------- MODULE KcpArq -------------------------------
(***************************************************************************)
(* Two control blocks of one conversation over a datagram network that      *)
(* loses, duplicates and reorders: what kcp/ikcp.c and the Kcp wrapper of   *)
(* src/protocol.rs do between the calls that the owner of each end makes.    *)
(***************************************************************************)
EXTENDS Ikcp

CONSTANTS
    Writers,    \* the ends whose application writes
    FrameLens,  \* the frame lengths offered to Kcp::send
    MaxBytes,   \* bound: bytes accepted from one application
    MaxNet      \* bound: segments in flight towards each end

End == {"a", "b"}

ASSUME ArqAssumption ==
    /\ Writers \subseteq End
    /\ FrameLens \subseteq Nat \ {0}
    /\ MaxBytes \in Nat
    /\ MaxNet \in [End -> Nat]

Peer(e) == IF e = "a" THEN "b" ELSE "a"

Conv == 1

VARIABLES
    kcp,    \* the control block of each end
    net,    \* [End -> SUBSET WireSeg]: segments in flight towards the end
    \* History variables, read by no action's guard but the bounds:
    sent,   \* per writer, the end offset of every frame Kcp::send accepted
    log,    \* per writer, the payload given to each sequence number
    dlv,    \* per reader, the segments handed to the application, in order
    reads   \* per reader, the end offset of every frame Kcp::recv_bytes returned

vars == <<kcp, net, sent, log, dlv, reads>>

LastOr0(s) == IF s = <<>> THEN 0 ELSE s[Len(s)]

TypeOK ==
    /\ DOMAIN kcp = End /\ \A e \in End : IsKcpCB(kcp[e])
    /\ net \in [End -> SUBSET WireSeg]
    /\ sent \in [End -> Seq(Nat)]
    /\ log \in [End -> Seq(Seg)]
    /\ dlv \in [End -> Seq(Seg)]
    /\ reads \in [End -> Seq(Nat)]

Init ==
    /\ kcp = [e \in End |-> ikcp_create(Conv)]
    /\ net = [e \in End |-> {}]
    /\ sent = [e \in End |-> <<>>]
    /\ log = [e \in End |-> <<>>]
    /\ dlv = [e \in End |-> <<>>]
    /\ reads = [e \in End |-> <<>>]

(***************************************************************************)
(* Kcp::send.  The owner offers a frame only while the send queue is not    *)
(* full; a refused frame leaves what ikcp_send did before refusing it.      *)
(***************************************************************************)
Send(e, len) ==
    LET r == ikcp_send(kcp[e], LastOr0(sent[e]), len)
    IN  /\ ~is_send_queue_full(kcp[e])
        /\ LastOr0(sent[e]) + len <= MaxBytes
        /\ kcp' = [kcp EXCEPT ![e] = r.kcp]
        /\ sent' = IF r.ret = 0
                   THEN [sent EXCEPT ![e] = Append(@, LastOr0(@) + len)] ELSE sent
        /\ UNCHANGED <<net, log, dlv, reads>>

(***************************************************************************)
(* Kcp::flush, and Kcp::update when its flush time has come.  The output     *)
(* callback hands the segments to the network, which loses all but kept.    *)
(***************************************************************************)
Flush(e, cwnd, due, probe, kept) ==
    LET k == kcp[e]
        r == ikcp_flush(k, cwnd, due, probe)
    IN  /\ kept \subseteq r.out
        /\ Cardinality(net[Peer(e)] \cup kept) <= MaxNet[Peer(e)]
        /\ kcp' = [kcp EXCEPT ![e] = r.kcp]
        /\ net' = [net EXCEPT ![Peer(e)] = @ \cup kept]
        /\ log' = [log EXCEPT ![e] = @ \o SubSeq(k.snd_queue, 1, Moved(k, cwnd))]
        /\ UNCHANGED <<sent, dlv, reads>>

(***************************************************************************)
(* Kcp::input of one segment that arrives; it may arrive again later.       *)
(***************************************************************************)
Input(e, m, again) ==
    /\ kcp' = [kcp EXCEPT ![e] = ikcp_input(@, m).kcp]
    /\ net' = IF again THEN net ELSE [net EXCEPT ![e] = @ \ {m}]
    /\ UNCHANGED <<sent, log, dlv, reads>>

\* Kcp::recv_bytes when a whole frame is there.
Recv(e) ==
    LET r == ikcp_recv(kcp[e])
        last == r.frame[Len(r.frame)]
    IN  /\ ikcp_peeksize(kcp[e]) > 0
        /\ kcp' = [kcp EXCEPT ![e] = r.kcp]
        /\ dlv' = [dlv EXCEPT ![e] = @ \o r.frame]
        /\ reads' = [reads EXCEPT ![e] = Append(@, last.off + last.len)]
        /\ UNCHANGED <<net, sent, log>>

Next ==
    \/ \E e \in Writers, len \in FrameLens : Send(e, len)
    \* The probe timer runs only while the window of the peer is closed.
    \/ \E e \in End, cwnd \in 1 .. SndWnd : \E probe \in {FALSE, kcp[e].rmt_wnd = 0} :
          \E due \in SUBSET DOMAIN kcp[e].snd_buf :
             \E kept \in SUBSET ikcp_flush(kcp[e], cwnd, due, probe).out :
                Flush(e, cwnd, due, probe, kept)
    \/ \E e \in End, again \in BOOLEAN : \E m \in net[e] : Input(e, m, again)
    \/ \E e \in End : Recv(e)

Spec == Init /\ [][Next]_vars

(***************************************************************************)
(* Fairness.  The task that owns an end keeps calling Kcp::update, so its   *)
(* timers expire again and again; it reads what has arrived; a segment in   *)
(* flight arrives; and the network does not for ever lose every copy of     *)
(* what an end keeps sending: segment sn, a probe, an acknowledgement.      *)
(***************************************************************************)
TimersDue(e, kept) ==
    \E cwnd \in 1 .. SndWnd : Flush(e, cwnd, DOMAIN kcp[e].snd_buf, TRUE, kept)

Outgoing(e) ==
    UNION {ikcp_flush(kcp[e], cwnd, DOMAIN kcp[e].snd_buf, TRUE).out : cwnd \in 1 .. SndWnd}

FlushDue(e) == \E kept \in SUBSET Outgoing(e) : TimersDue(e, kept)

GetsThrough(e, cmd, sn) ==
    \E kept \in SUBSET Outgoing(e) :
        /\ \E m \in kept : m.cmd = cmd /\ (cmd = "PUSH" => m.sn = sn)
        /\ TimersDue(e, kept)

Arrives(e) == \E m \in net[e] : Input(e, m, FALSE)

Fairness ==
    /\ \A e \in End : /\ WF_vars(FlushDue(e))
                      /\ WF_vars(Arrives(e))
                      /\ WF_vars(Recv(e))
    /\ \A e \in Writers :
         /\ SF_vars(GetsThrough(e, "WASK", 0))
         /\ \A sn \in 0 .. MaxBytes - 1 : SF_vars(GetsThrough(e, "PUSH", sn))
    /\ \A e \in {Peer(w) : w \in Writers} :
         /\ SF_vars(GetsThrough(e, "ACK", 0))
         /\ SF_vars(GetsThrough(e, "WINS", 0))

FairSpec == Spec /\ Fairness

-----------------------------------------------------------------------------
\* The receiver r holds the segment sn: in order already, or buffered.
Holds(r, sn) == sn < r.rcv_nxt \/ sn \in DOMAIN r.rcv_buf

\* What has left the buffer of the sender s is held by the receiver r.
Stored(s, r) == \A sn \in 0 .. s.snd_nxt - 1 : sn \in DOMAIN s.snd_buf \/ Holds(r, sn)

(***************************************************************************)
(* A sequence number that was used and has left the sender's snd_buf is     *)
(* held by the receiver, although acknowledgements are duplicated, late and *)
(* given for segments that rcv_nxt has not passed (ikcp_parse_una,          *)
(* ikcp_parse_ack, the window test before ikcp_ack_push).                   *)
(***************************************************************************)
AckedIsStored == \A e \in End : Stored(kcp[e], kcp[Peer(e)])

\* The segments of a sequence are consecutive intervals of bytes from byte 0.
Contiguous(s) ==
    \A i \in 1 .. Len(s) :
        /\ s[i].len > 0
        /\ s[i].off = IF i = 1 THEN 0 ELSE s[i - 1].off + s[i - 1].len

EndOffset(s) == IF s = <<>> THEN 0 ELSE s[Len(s)].off + s[Len(s)].len

(***************************************************************************)
(* What an application reads is a prefix of the bytes of the frames that    *)
(* Kcp::send accepted from its peer: nothing lost, repeated or reordered,   *)
(* and nothing of a refused frame.                                          *)
(***************************************************************************)
InOrderDelivery ==
    \A e \in End : /\ Contiguous(dlv[e])
                   /\ EndOffset(dlv[e]) <= LastOr0(sent[Peer(e)])

(***************************************************************************)
(* In message mode the n-th frame read is the n-th frame written, so the    *)
(* fragments that ikcp_recv merges are those of one ikcp_send.              *)
(***************************************************************************)
FramesPreserved ==
    ~Stream => \A e \in End :
        /\ Len(reads[e]) <= Len(sent[Peer(e)])
        /\ \A i \in 1 .. Len(reads[e]) : reads[e][i] = sent[Peer(e)][i]

(***************************************************************************)
(* A full receive queue holds a whole frame: otherwise the reader would     *)
(* wait for fragments that the advertised window of 0 keeps out.            *)
(***************************************************************************)
FullQueueReadable ==
    \A e \in End : ikcp_wnd_unused(kcp[e]) = 0 => ikcp_peeksize(kcp[e]) > 0

\* The buffers of one control block against its windows.
WithinWindows(k) ==
    /\ Len(k.rcv_queue) <= RcvWnd
    /\ DOMAIN k.rcv_buf \subseteq k.rcv_nxt .. k.rcv_nxt + RcvWnd - 1
    /\ DOMAIN k.snd_buf \subseteq k.snd_una .. k.snd_nxt - 1
    /\ k.snd_una <= k.snd_nxt /\ k.snd_nxt - k.snd_una <= SndWnd

(***************************************************************************)
(* The receiver's buffers stay within the window, and together with the     *)
(* in-flight segments the sender's stays within what the windows allow.     *)
(***************************************************************************)
BuffersBounded == \A e \in End : WithinWindows(kcp[e])

-----------------------------------------------------------------------------
(***************************************************************************)
(* The inductive invariant behind AckedIsStored and InOrderDelivery, part   *)
(* by part, for a sender s with log lg and a receiver r that delivered d.   *)
(***************************************************************************)
\* The log has one entry for each used number, and snd_buf agrees with it.
SenderInv(s, lg) ==
    /\ Len(lg) = s.snd_nxt
    /\ \A sn \in DOMAIN s.snd_buf : sn < s.snd_nxt /\ s.snd_buf[sn].seg = lg[sn + 1]

\* So does what is in flight.
PushInv(lg, toR) ==
    \A m \in toR : m.cmd = "PUSH" => m.sn < Len(lg) /\ m.seg = lg[m.sn + 1]

\* What is acknowledged, in flight or about to be, is held by the receiver.
AckInv(r, toS) ==
    /\ \A sn \in r.acklist : Holds(r, sn)
    /\ \A m \in toS : m.una <= r.rcv_nxt /\ (m.cmd = "ACK" => Holds(r, m.sn))

\* The out-of-order buffer agrees with the log and starts at rcv_nxt.
ReceiverInv(r, lg) ==
    /\ r.rcv_nxt <= Len(lg)
    /\ \A sn \in DOMAIN r.rcv_buf :
         r.rcv_nxt <= sn /\ sn < Len(lg) /\ r.rcv_buf[sn] = lg[sn + 1]

\* What was read, then what is queued, is the log up to rcv_nxt.
DeliveredInv(r, lg, d) ==
    /\ Len(d) + Len(r.rcv_queue) = r.rcv_nxt
    /\ \A i \in 1 .. Len(d) : d[i] = lg[i]
    /\ \A i \in 1 .. Len(r.rcv_queue) : r.rcv_queue[i] = lg[Len(d) + i]

\* One direction, with what is in flight towards the receiver and the sender.
DirInv(s, r, lg, d, toR, toS) ==
    /\ SenderInv(s, lg)
    /\ PushInv(lg, toR)
    /\ AckInv(r, toS)
    /\ ReceiverInv(r, lg)
    /\ Stored(s, r)
    /\ DeliveredInv(r, lg, d)

(***************************************************************************)
(* Both directions of the conversation at once: every copy of a segment,    *)
(* buffered, in flight, queued or read, is the one that its number was      *)
(* given to, and nothing is acknowledged that is not held.                  *)
(***************************************************************************)
ArqInv ==
    \A e \in End : DirInv(kcp[e], kcp[Peer(e)], log[e], dlv[Peer(e)], net[Peer(e)], net[e])

(***************************************************************************)
(* The bytes of the numbered segments, followed by those of snd_queue, are  *)
(* exactly the bytes of the accepted frames.                                *)
(***************************************************************************)
WriterInv ==
    \A e \in End : /\ Contiguous(log[e] \o kcp[e].snd_queue)
                   /\ EndOffset(log[e] \o kcp[e].snd_queue) = LastOr0(sent[e])

\* Frames that ikcp_send never refuses after it has filled up a segment: what
\* poll_write of src/stream.rs makes sure of, and start_send does not.
FramesFit == Stream => \A len \in FrameLens : len <= (WndRcv - 1) * Mss

-----------------------------------------------------------------------------
(***************************************************************************)
(* Each direction seen as a pipe.  The receiver holds what is in order and  *)
(* the run of rcv_buf that continues it.                                    *)
(***************************************************************************)
StoredBelow(r) ==
    Max({n \in r.rcv_nxt .. r.rcv_nxt + RcvWnd : \A sn \in r.rcv_nxt .. n - 1 : Holds(r, sn)})

AToB == INSTANCE KcpPipe WITH
    wr <- kcp["a"].snd_nxt + Len(kcp["a"].snd_queue),
    nxt <- kcp["a"].snd_nxt,
    una <- kcp["a"].snd_una,
    got <- StoredBelow(kcp["b"]),
    taken <- Len(dlv["b"])

BToA == INSTANCE KcpPipe WITH
    wr <- kcp["b"].snd_nxt + Len(kcp["b"].snd_queue),
    nxt <- kcp["b"].snd_nxt,
    una <- kcp["b"].snd_una,
    got <- StoredBelow(kcp["a"]),
    taken <- Len(dlv["a"])

(***************************************************************************)
(* Each direction is a pipe: nothing is read before it is stored, stored    *)
(* before it is numbered or acknowledged before it is stored, whatever the  *)
(* network does to the segments.                                            *)
(***************************************************************************)
ImplementsPipe == AToB!Spec /\ BToA!Spec

-----------------------------------------------------------------------------
(***************************************************************************)
(* A stale or repeated segment takes nothing back: what the sender has seen *)
(* acknowledged and what the receiver has in order only grow, and a used    *)
(* sequence number never returns to snd_buf.                                *)
(***************************************************************************)
ProgressKept ==
    [][\A e \in End :
          /\ kcp'[e].snd_una >= kcp[e].snd_una
          /\ kcp'[e].rcv_nxt >= kcp[e].rcv_nxt
          /\ \A sn \in 0 .. kcp[e].snd_nxt - 1 :
                sn \in DOMAIN kcp'[e].snd_buf => sn \in DOMAIN kcp[e].snd_buf]_vars

(***************************************************************************)
(* Once writing stops the peer has read every accepted byte, also after the *)
(* window was closed and the WINS that reopens it was lost (probing by      *)
(* WASK).                                                                   *)
(***************************************************************************)
EventuallyRead ==
    <>[](\A e \in Writers : EndOffset(dlv[Peer(e)]) = LastOr0(sent[e]))

(***************************************************************************)
(* The sender learns of it: its queues drain for good once writing stops,   *)
(* which is what the FIN handshake of src/stream.rs waits for.              *)
(***************************************************************************)
EventuallyAcked == <>[](\A e \in Writers : ikcp_waitsnd(kcp[e]) = 0)
=============================================================================
