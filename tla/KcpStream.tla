----------------------------- MODULE KcpStream -----------------------------
(***************************************************************************)
(* The two ends of a connection of src/stream.rs: the Task that owns a Kcp, *)
(* the KcpStream handle in the hands of the application, the two channels   *)
(* between them, and the SYN and FIN handshakes between the tasks.          *)
(*                                                                          *)
(* Each direction of the conversation is a pipe (module KcpPipe, which      *)
(* KcpArq implements): frames are numbered from 1 (the SYN frame), and an   *)
(* end knows how many it wrote, numbered, knows acknowledged, holds and     *)
(* has taken.  The network loses, repeats and reorders: anything that was   *)
(* ever sent may arrive, at any time, any number of times.  A frame is one  *)
(* segment, or none if the Kcp refuses it.                                  *)
(***************************************************************************)
EXTENDS Naturals, Sequences

CONSTANTS
    MaxFrames,  \* bound: frames that the application of each end writes
    SndWnd,     \* config.snd_wnd: bound of the send queue
    RcvWnd,     \* config.rcv_wnd: the receive window
    InCap,      \* capacity of the input channel
    OutCap,     \* capacity of the output channel
    NoDelay,    \* config.nodelay.nodelay
    Abrupt,     \* what may end a task without a FIN handshake in this instance
    MaxAcks,    \* bound: acknowledgements in a packet
    MaxPushes,  \* bound: data segments in a packet
    Lens        \* payload lengths

End == {"client", "server"}

\* Another session key at the peer, the end of hs_end_time, a dead link or a
\* transport that ends, and a stream that its application drops or closes.
AbruptEvents == {"key", "timeout", "deadlink", "drop"}

ASSUME StreamAssumption ==
    /\ MaxFrames \in [End -> Nat]
    /\ SndWnd \in Nat \ {0} /\ InCap \in Nat \ {0} /\ OutCap \in Nat \ {0}
    /\ RcvWnd \in Nat /\ RcvWnd >= 2
    /\ NoDelay \in BOOLEAN
    /\ Abrupt \subseteq AbruptEvents
    /\ MaxAcks \in Nat /\ MaxPushes \in Nat /\ Lens \subseteq Nat \ {0}

Peer(e) == IF e = "client" THEN "server" ELSE "client"

VARIABLE st   \* [End -> EndState]

None == 0

Handshake == {"Syn", "Connected", "FinPending", "FinSent", "FinWaitPeer", "Disconnected"}

EndState ==
    [ \* struct Task
      pc : {"select", "batch", "done"},   \* in select!, in the receive loop, ended
      hs : Handshake,
      flush : BOOLEAN, fin_recved : BOOLEAN, input_closed : BOOLEAN,   \* flags
      tx_frame : Nat,
      \* its Kcp, as the sender of one pipe and the receiver of the other
      wr : Nat, nxt : Nat, una : Nat, got : Nat, taken : Nat,
      \* the channels and the token
      inq : 0 .. InCap, tx_open : BOOLEAN, rx_closed : BOOLEAN,
      out : 0 .. OutCap, out_open : BOOLEAN, cancelled : BOOLEAN,
      \* the application: in wait_connection, with a stream, without
      app : {"wait", "open", "closed"},
      \* what this end has put on the wire: una, a FIN packet, a RESET
      told : Nat, fin_out : BOOLEAN, reset_out : BOOLEAN,
      \* history: the number of the FIN frame, the frames that the application
      \* wrote, those of them that the Kcp has not refused, the frames handed to
      \* it, and what ended the task
      fin_sn : Nat, tries : Nat, sent : Nat, seen : Seq(Nat),
      why : {"none", "syn", "fin", "reset"} \cup AbruptEvents ]

TypeOK == st \in [End -> EndState]

imin(a, b) == IF a <= b THEN a ELSE b

imax(a, b) == IF a >= b THEN a ELSE b

-----------------------------------------------------------------------------
(***************************************************************************)
(* The Kcp of an end.  room is how far the windows let ikcp_flush go.       *)
(***************************************************************************)
get_waitsnd(t) == t.wr - t.una

nsnd_que(t) == t.wr - t.nxt

is_send_queue_full(t) == nsnd_que(t) >= SndWnd

\* nrcv_que + nrcv_buf
nrcv(t) == t.got - t.taken

\* The first number beyond the receive window.
WindowEnd(t) == t.taken + imin(nrcv(t), RcvWnd) + RcvWnd + 1

\* Mutant: as much as the windows allow is numbered, queued or not.
FlushBeyondQueue(t, room) ==
    [t EXCEPT !.nxt = imax(@, t.una + room), !.told = t.got]

ikcp_flush(t, room) ==
    [t EXCEPT !.nxt = imax(@, imin(t.wr, t.una + room)), !.told = t.got]

kcp_flush(t, room) ==
    IF t.flush THEN ikcp_flush([t EXCEPT !.flush = FALSE], room) ELSE t

handshake_send(t, room) == kcp_flush([t EXCEPT !.flush = TRUE, !.wr = @ + 1], room)

\* Mutant: the last frame of the queue is taken for the FIN frame too late.
RecvFinAsData(t) ==
    IF nrcv(t) = 0 THEN [t |-> t, frame |-> None]
    ELSE [t |-> [t EXCEPT !.taken = @ + 1], frame |-> t.taken + 1]

\* After a FIN packet, the only frame left is taken for the FIN frame.
kcp_recv(t) ==
    IF nrcv(t) = 0 THEN [t |-> t, frame |-> None]
    ELSE [t |-> [t EXCEPT !.taken = @ + 1],
          frame |-> IF t.fin_recved /\ nrcv(t) = 1 THEN None ELSE t.taken + 1]

Disconnect(t, why) == [t EXCEPT !.hs = "Disconnected", !.why = why]

-----------------------------------------------------------------------------
(***************************************************************************)
(* fin_transit_state: the loop runs until a state has to wait.  The FIN     *)
(* frame, once sent, is not acknowledged, so FinSent always waits after     *)
(* FinPending.                                                              *)
(***************************************************************************)
\* Mutant: the FIN frame is sent while data is not acknowledged yet.
FinNotWaiting(t) == t.input_closed

ReadyForFin(t) == t.input_closed /\ get_waitsnd(t) = 0

\* A peer whose FIN packet came, and no frame left in the Kcp.
AllReceived(t) == t.fin_recved /\ nrcv(t) = 0

fin_transit_state(t, room) ==
    CASE t.hs = "Syn" -> Disconnect(t, "syn")
      [] t.hs \in {"Connected", "FinPending"} /\ ~ReadyForFin(t) -> [t EXCEPT !.hs = "FinPending"]
      [] t.hs \in {"Connected", "FinPending"} /\ ReadyForFin(t) ->
            handshake_send([t EXCEPT !.hs = "FinSent", !.fin_sn = t.wr + 1], room)
      [] t.hs = "FinSent" /\ get_waitsnd(t) > 0 -> t
      [] (t.hs = "FinSent" /\ get_waitsnd(t) = 0) \/ t.hs = "FinWaitPeer" ->
            IF AllReceived(t) THEN Disconnect(t, "fin") ELSE [t EXCEPT !.hs = "FinWaitPeer"]
      [] t.hs = "Disconnected" -> t

\* The range FinPending..FinWaitPeer, which excludes its end.
is_fin_handshake(t) == t.hs \in {"FinPending", "FinSent"}

(***************************************************************************)
(* syn_handshake_recv: the first frame is the peer's SYN; valid says whether *)
(* it holds the session key, and for a client its own session id.           *)
(***************************************************************************)
syn_handshake_recv(e, t, valid, room) ==
    LET r == kcp_recv(t)
        t1 == IF e = "client" THEN r.t ELSE handshake_send(r.t, room)
    IN  IF r.frame = None THEN r.t
        ELSE IF ~valid THEN Disconnect(r.t, "syn")
        ELSE IF t.out_open THEN [t1 EXCEPT !.hs = "Connected", !.out = @ + 1]
        ELSE Disconnect(t1, "syn")

-----------------------------------------------------------------------------
\* The client has written and sent its SYN frame; the server is waiting for it.
Init ==
    st = [e \in End |->
            LET n == IF e = "client" THEN 1 ELSE 0
            IN  [pc |-> "select", hs |-> "Syn", flush |-> FALSE, fin_recved |-> FALSE,
                 input_closed |-> FALSE, tx_frame |-> None,
                 wr |-> n, nxt |-> n, una |-> 0, got |-> 0, taken |-> 0,
                 inq |-> 0, tx_open |-> TRUE, rx_closed |-> FALSE,
                 out |-> 0, out_open |-> TRUE, cancelled |-> FALSE, app |-> "wait",
                 told |-> 0, fin_out |-> FALSE, reset_out |-> FALSE,
                 fin_sn |-> 0, tries |-> 0, sent |-> 0, seen |-> <<>>, why |-> "none"]]

(***************************************************************************)
(* The end e goes from a step of its loop to the next: what it sent goes    *)
(* out first, a numbered FIN frame with the FIN flag while hs is FinSent.   *)
(***************************************************************************)
kcp_output(e, t) ==
    st' = [st EXCEPT ![e] =
            [t EXCEPT !.fin_out = @ \/ (t.hs = "FinSent" /\ t.nxt = t.wr)]]

Running(e) == st[e].pc = "select" /\ st[e].hs # "Disconnected"

\* A client without a conv drops every packet that does not acknowledge its SYN.
HasConv(e) == e = "server" \/ st[e].una > 0

-----------------------------------------------------------------------------
(***************************************************************************)
(* The branch of input_rx: frames until the send queue is full or the       *)
(* channel is empty; an empty closed channel starts the FIN handshake.      *)
(***************************************************************************)
\* Mutant: another sender keeps the channel open when that of the stream is gone.
ClosedByReceiver(t) == t.inq = 0 /\ t.rx_closed

ChannelClosed(t) == t.inq = 0 /\ (~t.tx_open \/ t.rx_closed)

\* drop of the frames are too big, or empty: those the Kcp does not refuse, but
\* there is nothing to send.
process_input(t, drop, empty) ==
    LET n == imin(t.inq - drop, SndWnd - nsnd_que(t))
    IN  [t EXCEPT !.inq = @ - n - drop, !.wr = @ + n, !.sent = @ - drop,
                  !.flush = @ \/ ((n > 0 \/ empty) /\ (NoDelay \/ nsnd_que(t) + n > 1))]

InputBranch(e, drop, empty, room) ==
    LET t1 == process_input(st[e], drop, empty)
        closed == ChannelClosed(t1) /\ ~is_send_queue_full(t1)
        t2 == IF closed THEN fin_transit_state([t1 EXCEPT !.input_closed = TRUE], room) ELSE t1
    IN  /\ Running(e)
        /\ ~st[e].input_closed /\ ~is_send_queue_full(st[e])
        /\ st[e].inq > 0 \/ ChannelClosed(st[e])
        /\ kcp_output(e, kcp_flush(t2, room))

(***************************************************************************)
(* The end of run: what is not in the output channel yet is dropped, the    *)
(* input is drained, and the half-close pool sends RESET packets.           *)
(***************************************************************************)
EndTask(e, t) ==
    [t EXCEPT !.pc = "done", !.tx_frame = None, !.inq = 0, !.rx_closed = TRUE,
              !.reset_out = HasConv(e)]

\* try_reserve: how many of the frames that follow the channel takes.
TakenNow(t, avail) == imin(avail, OutCap - t.out - 1)

\* Mutant: the frame that the channel does not take is not fetched.
RestUnfetched(t, n, avail) == [t EXCEPT !.tx_frame = None, !.taken = @ + n]

\* The first frame that the channel does not take waits; kcp_recv after the
\* last one takes the FIN frame.
Rest(t, n, avail) ==
    IF avail > n THEN [t EXCEPT !.tx_frame = t.taken + n + 1, !.taken = @ + n + 1]
    ELSE [t EXCEPT !.tx_frame = None, !.taken = t.got]

(***************************************************************************)
(* The branch of output_tx: the frame that waits, then as many as the       *)
(* output channel takes.                                                    *)
(***************************************************************************)
OutputBranch(e) ==
    LET t == st[e]
        avail == IF t.fin_recved /\ nrcv(t) > 0 THEN nrcv(t) - 1 ELSE nrcv(t)
        n == TakenNow(t, avail)
        frames == <<t.tx_frame>> \o [i \in 1 .. n |-> t.taken + i]
    IN  /\ Running(e) /\ t.tx_frame # None
        /\ \/ ~t.out_open /\ st' = [st EXCEPT ![e] = EndTask(e, t)]
           \/ /\ t.out_open /\ t.out < OutCap
              /\ kcp_output(e, [Rest(t, n, avail) EXCEPT !.out = @ + n + 1, !.seen = @ \o frames])

(***************************************************************************)
(* kcp_input of one packet of the peer, alone or one of many in a row.      *)
(***************************************************************************)
Receiving(e) == Running(e) \/ st[e].pc = "batch"

\* The peer's frames below the FIN frame that are on the wire.
OnWire(p) == IF p.fin_sn = 0 THEN p.nxt ELSE imin(p.nxt, p.fin_sn - 1)

\* Acknowledgements up to u and data up to g, also without the FIN frame of the
\* same flush, which comes in the packet of a later one.  The SYN of a client does not
\* have the conv of the server, and what gives a client its conv does not match
\* either: both are accepted without asking for a flush.
DataPacket(e, u, g) ==
    LET t == st[e]
    IN  /\ Receiving(e)
        /\ u > t.una \/ g > t.got
        /\ u <= st[Peer(e)].told
        /\ g <= OnWire(st[Peer(e)]) /\ g < WindowEnd(t)
        /\ HasConv(e) \/ u > 0
        /\ st' = [st EXCEPT ![e] =
                    [t EXCEPT !.pc = "batch", !.una = u, !.got = g,
                              !.flush = @ \/ (HasConv(e) /\ ~(e = "server" /\ t.hs = "Syn"))]]

\* A FIN packet, with acknowledgements up to u.  The state moves before the
\* segments of the packet are looked at, and no flush is asked for.  One that
\* changes nothing is left out.
FinPacket(e, u, room) ==
    LET t1 == [st[e] EXCEPT !.fin_recved = TRUE, !.rx_closed = TRUE]
        t2 == fin_transit_state(t1, room)
        fin == st[Peer(e)].fin_sn
        t3 == [t2 EXCEPT !.una = u,
                         !.got = IF @ = fin - 1 /\ fin < WindowEnd(t2) THEN fin ELSE @]
    IN  /\ Receiving(e) /\ HasConv(e)
        /\ st[Peer(e)].fin_out
        /\ u <= st[Peer(e)].told
        /\ t3 # st[e]
        /\ st' = [st EXCEPT ![e] = [t3 EXCEPT !.pc = "batch"]]

ResetPacket(e) ==
    /\ Receiving(e) /\ HasConv(e)
    /\ st[Peer(e)].reset_out
    /\ st[e].hs # "Disconnected"
    /\ st' = [st EXCEPT ![e] = Disconnect([@ EXCEPT !.pc = "batch"], "reset")]

\* Mutant: nothing is fetched any more after a FIN packet.
FetchesUntilFin(t) == t.tx_frame = None /\ ~t.fin_recved

Fetches(t) == t.tx_frame = None

(***************************************************************************)
(* The rest of the transport branch, after the last packet.                 *)
(***************************************************************************)
AfterPackets(e, valid, room) ==
    LET t == st[e]
        t1 == IF t.hs = "Syn" THEN syn_handshake_recv(e, t, valid, room)
              ELSE IF is_fin_handshake(t) THEN fin_transit_state(t, room) ELSE t
        r == IF Fetches(t1) THEN kcp_recv(t1) ELSE [t |-> t1, frame |-> t1.tx_frame]
    IN  /\ t.pc = "batch"
        /\ kcp_output(e, kcp_flush([r.t EXCEPT !.pc = "select", !.tx_frame = r.frame], room))

\* Kcp::update at its interval.
Update(e, room) ==
    /\ Running(e)
    /\ ikcp_flush(st[e], room) # st[e]
    /\ kcp_output(e, ikcp_flush(st[e], room))

\* hs_end_time has passed.
HandshakeTimeout(e) ==
    /\ "timeout" \in Abrupt
    /\ Running(e) /\ st[e].hs # "Connected"
    /\ st' = [st EXCEPT ![e] = Disconnect(@, "timeout")]

\* is_dead_link, nothing sent for session_expire, or the transport ended or failed.
DeadLink(e) ==
    /\ "deadlink" \in Abrupt
    /\ Running(e)
    /\ st' = [st EXCEPT ![e] = EndTask(e, [@ EXCEPT !.why = "deadlink"])]

Cancelled(e) ==
    /\ Running(e) /\ st[e].cancelled
    /\ st' = [st EXCEPT ![e] = EndTask(e, [@ EXCEPT !.why = "drop"])]

Finish(e) ==
    /\ st[e].pc = "select" /\ st[e].hs = "Disconnected"
    /\ st' = [st EXCEPT ![e] = EndTask(e, @)]

-----------------------------------------------------------------------------
(***************************************************************************)
(* The application's side of KcpStream.                                     *)
(***************************************************************************)
\* wait_connection
WaitConnection(e) ==
    LET t == st[e]
    IN  /\ t.app = "wait"
        /\ \/ t.out > 0 /\ st' = [st EXCEPT ![e].app = "open", ![e].out = @ - 1]
           \/ /\ t.out = 0 /\ t.pc = "done"
              /\ st' = [st EXCEPT ![e] = [@ EXCEPT !.app = "closed", !.tx_open = FALSE,
                                                  !.cancelled = TRUE, !.out_open = FALSE]]

\* poll_ready and start_send
Write(e) ==
    LET t == st[e]
    IN  /\ t.app = "open" /\ t.tx_open /\ ~t.rx_closed
        /\ t.inq < InCap /\ t.tries < MaxFrames[e]
        /\ st' = [st EXCEPT ![e].inq = @ + 1, ![e].tries = @ + 1, ![e].sent = @ + 1]

\* poll_next
Read(e) ==
    /\ st[e].app = "open" /\ st[e].out > 0
    /\ st' = [st EXCEPT ![e].out = @ - 1]

shutdown_immediately(e) ==
    /\ st[e].app = "open" /\ st[e].tx_open
    /\ st' = [st EXCEPT ![e].tx_open = FALSE]

\* poll_close and drop, of the stream or of the future that waits for it
try_close(e) ==
    /\ "drop" \in Abrupt
    /\ st[e].app # "closed"
    /\ st' = [st EXCEPT ![e] = [@ EXCEPT !.app = "closed", !.tx_open = FALSE,
                                        !.cancelled = TRUE, !.out_open = FALSE]]

-----------------------------------------------------------------------------
DataPackets(e) ==
    \E u \in st[e].una .. st[Peer(e)].told, g \in st[e].got .. st[Peer(e)].nxt :
        DataPacket(e, u, g)

FinPackets(e) ==
    \E u \in st[e].una .. st[Peer(e)].told, room \in 0 .. SndWnd : FinPacket(e, u, room)

TaskStep(e) ==
    \/ \E drop \in 0 .. st[e].inq : \E empty \in {FALSE, drop # 0}, room \in 0 .. SndWnd :
          InputBranch(e, drop, empty, room)
    \/ OutputBranch(e)
    \/ DataPackets(e)
    \/ FinPackets(e)
    \/ ResetPacket(e)
    \/ \E valid \in {TRUE} \cup {"key" \notin Abrupt}, room \in 0 .. SndWnd :
          AfterPackets(e, valid, room)
    \/ \E room \in 0 .. SndWnd : Update(e, room)
    \/ HandshakeTimeout(e)
    \/ DeadLink(e)
    \/ Cancelled(e)
    \/ Finish(e)

AppStep(e) ==
    \/ WaitConnection(e)
    \/ Write(e)
    \/ Read(e)
    \/ shutdown_immediately(e)
    \/ try_close(e)

Next == \E e \in End : TaskStep(e) \/ AppStep(e)

Spec == Init /\ [][Next]_st

(***************************************************************************)
(* Fairness: tokio polls a task whose branch is ready; the interval of      *)
(* Kcp::update comes round with room in the windows (KcpArq shows that they *)
(* open); hs_end_time passes; what a task sends over and over arrives, the  *)
(* FIN frame until it is acknowledged, but no RESET need arrive; a link     *)
(* whose other end is gone is found dead, or expires; and the application   *)
(* reads its stream.  Nothing but stuttering can go on for ever here, so    *)
(* one weak fairness for all of these steps says as much as one for each.   *)
(***************************************************************************)
DueStep(e) ==
    \/ \E room \in 1 .. SndWnd : InputBranch(e, 0, FALSE, room) \/ AfterPackets(e, TRUE, room)
    \/ OutputBranch(e)
    \/ st[Peer(e)].pc # "done" /\ DataPackets(e)
    \/ st[Peer(e)].pc # "done" /\ get_waitsnd(st[Peer(e)]) > 0 /\ FinPackets(e)
    \/ Update(e, SndWnd)
    \/ HandshakeTimeout(e)
    \/ st[Peer(e)].pc = "done" /\ DeadLink(e)
    \/ Finish(e)
    \/ WaitConnection(e)
    \/ Read(e)

Fairness == \A e \in End : WF_st(DueStep(e))

FairSpec == Spec /\ Fairness

-----------------------------------------------------------------------------
Upstream == INSTANCE KcpPipe WITH
    wr <- st["client"].wr, nxt <- st["client"].nxt, una <- st["client"].una,
    got <- st["server"].got, taken <- st["server"].taken

Downstream == INSTANCE KcpPipe WITH
    wr <- st["server"].wr, nxt <- st["server"].nxt, una <- st["server"].una,
    got <- st["client"].got, taken <- st["client"].taken

(***************************************************************************)
(* The tasks use the two directions of the conversation only as KcpArq      *)
(* implements them: no frame is read before it is stored, stored before it  *)
(* is numbered, or counted as acknowledged before it is stored.             *)
(***************************************************************************)
UsesPipes == Upstream!Spec /\ Downstream!Spec

(***************************************************************************)
(* The channel of output_tx carries exactly the frames that the peer's      *)
(* application wrote, each once and in order: neither the SYN nor the FIN   *)
(* frame is ever handed over as data, whatever order poll, FIN packets and  *)
(* a full channel come in (kcp_recv, stream.rs).                            *)
(***************************************************************************)
OnlyDataDelivered ==
    \A e \in End :
        /\ Len(st[e].seen) <= st[Peer(e)].sent
        /\ \A i \in DOMAIN st[e].seen : st[e].seen[i] = i + 1

(***************************************************************************)
(* The inductive invariant behind this and the next two: what one end says  *)
(* of itself, and what it says of the other.                                *)
(***************************************************************************)
\* Until the handshake is over the application has no stream.
SynFirst(e, t) ==
    /\ t.hs = "Syn" => /\ t.wr = (IF e = "client" THEN 1 ELSE 0)
                       /\ t.out = 0 /\ t.app # "open" /\ t.taken = 0
                       /\ t.sent = 0 /\ t.seen = << >>
                       /\ t.tx_frame = None /\ t.fin_sn = 0 /\ ~t.fin_recved
    /\ t.wr = 0 => /\ t.hs \in {"Syn", "Disconnected"}
                   /\ t.sent = 0 /\ t.inq = 0 /\ t.out = 0 /\ t.app # "open"

\* What the application wrote, and the Kcp does not refuse, is in the channel or
\* has a place in the pipe, behind the SYN frame; a task that ends may drop the
\* first.  What was handed over was taken, after the SYN frame.
Accounted(t) ==
    /\ t.fin_sn = 0 => t.wr <= t.sent + 1
    /\ t.fin_sn = 0 /\ t.wr > 0 /\ t.pc # "done" => t.wr + t.inq = t.sent + 1
    /\ t.pc = "done" => t.rx_closed
    /\ Len(t.seen) > 0 => Len(t.seen) < t.taken

\* The FIN frame is the last one, and is written when all before it are acknowledged.
FinLast(t) ==
    /\ t.input_closed => t.inq = 0 /\ (~t.tx_open \/ t.rx_closed)
    /\ t.hs \in {"FinSent", "FinWaitPeer"} => t.fin_sn > 0
    /\ t.fin_sn > 0 => /\ t.hs \in {"FinSent", "FinWaitPeer", "Disconnected"}
                       /\ t.input_closed
                       /\ t.wr = t.fin_sn /\ t.fin_sn = t.sent + 2 /\ t.una + 1 >= t.fin_sn
    /\ t.fin_out => t.fin_sn > 0 /\ t.nxt = t.wr

\* t is the receiving and p the sending end of a pipe.
PipeOrdered(t, p) ==
    /\ p.una <= t.told /\ t.told <= t.got
    /\ t.taken <= t.got /\ t.got <= p.nxt
    /\ p.nxt <= p.wr

FinKnown(t, p) ==
    /\ t.fin_recved => p.fin_out
    /\ ~t.fin_recved /\ p.fin_sn > 0 => t.got < p.fin_sn

\* The frame that is handed over next follows the last one; none does when only
\* the FIN frame, or the frame that was taken for it, is left.
NextFrame(t, p) ==
    t.hs \notin {"Syn", "Disconnected"} /\ t.pc # "done" =>
        /\ t.tx_frame # None => /\ t.tx_frame = Len(t.seen) + 2 /\ t.taken = t.tx_frame
                                /\ t.tx_frame <= p.sent + 1
        /\ t.tx_frame = None => \/ t.taken = Len(t.seen) + 1
                                \/ t.fin_recved /\ t.taken + 1 >= p.fin_sn

EndInv(e, t) == SynFirst(e, t) /\ Accounted(t) /\ FinLast(t)

LinkInv(t, p) == PipeOrdered(t, p) /\ FinKnown(t, p) /\ NextFrame(t, p)

(***************************************************************************)
(* The types, OnlyDataDelivered, and the numbering of SYN, data and FIN     *)
(* frames that it rests on (fin_transit_state and kcp_recv, stream.rs).     *)
(***************************************************************************)
StreamInv ==
    /\ TypeOK
    /\ OnlyDataDelivered
    /\ \A e \in End : EndInv(e, st[e]) /\ LinkInv(st[e], st[Peer(e)])

(***************************************************************************)
(* kcp_recv takes the only frame left after a FIN packet for the FIN frame: *)
(* right only because, by then, every frame that the peer's Kcp took is     *)
(* stored here (FinPending of fin_transit_state waits for get_waitsnd).     *)
(***************************************************************************)
FinAfterAllStored ==
    \A e \in End : st[e].fin_recved => st[e].got >= 1 + st[Peer(e)].sent

(***************************************************************************)
(* Nothing wakes a task up for a frame in the Kcp when the branch of        *)
(* output_tx is off: a task in select! with no tx_frame has no frame to     *)
(* hand over.                                                               *)
(***************************************************************************)
NoStrandedFrame ==
    \A e \in End : Running(e) /\ st[e].tx_frame = None => nrcv(st[e]) = 0

(***************************************************************************)
(* Every frame that the peer's application wrote, but those that its Kcp    *)
(* refuses, is handed to the reader in the end, or one of the tasks ends.   *)
(***************************************************************************)
EventuallyDelivered ==
    \A e \in End :
        <>[](\/ Len(st[e].seen) = st[Peer(e)].sent
             \/ "done" \in {st["client"].pc, st["server"].pc})

(***************************************************************************)
(* An end whose application has shut down its input, or whose peer sent a   *)
(* FIN, does not stay for ever (shutdown_timeout of fin_transit_state).     *)
(***************************************************************************)
ClosingEnds ==
    \A e \in End : <>[](~st[e].tx_open \/ st[e].fin_recved => st[e].pc = "done")

(***************************************************************************)
(* An end that finishes its FIN handshake has handed everything that the    *)
(* peer wrote to its reader: what the comment of FinWaitPeer promises,      *)
(* "ensure all frames have been received" (stream.rs).                      *)
(***************************************************************************)
GracefulNoLoss ==
    \A e \in End :
        st[e].pc = "done" /\ st[e].why = "fin" => Len(st[e].seen) = st[Peer(e)].sent

\* The frames that kcp_recv took and kept from the reader, after the SYN frame.
Dropped(t) == t.taken - 1 - Len(t.seen) - (IF t.tx_frame = None THEN 0 ELSE 1)

(***************************************************************************)
(* The frame that kcp_recv keeps from the reader is the FIN frame of the    *)
(* peer, "FIN frame is the last one in the stream" (stream.rs): it may not  *)
(* be stored yet when the FIN flag of its packet is seen.                   *)
(***************************************************************************)
OnlyFinDropped ==
    \A e \in End :
        LET t == st[e]
            fin == st[Peer(e)].fin_sn
        IN  t.pc # "done" /\ t.taken > 0 =>
                Dropped(t) = IF fin # 0 /\ t.taken >= fin THEN 1 ELSE 0
-----------------------------------------------------------------------------
Packets == INSTANCE KcpPacket

(***************************************************************************)
(* Every packet that an end can send in the state that its handshake is in  *)
(* is understood by the peer: its segments are processed once, though a FIN *)
(* packet is input twice, and FIN and RESET are found in exactly those that *)
(* were sent with them (kcp_output and kcp_input, stream.rs).               *)
(***************************************************************************)
PacketsUnderstood == \A e \in End : st[e].hs \in Packets!AppliedOnce \cap Packets!FlagsExact
=============================================================================
