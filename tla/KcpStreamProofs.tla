-------------------------- MODULE KcpStreamProofs --------------------------
(***************************************************************************)
(* Proofs about KcpStream for any number of frames and any windows and      *)
(* capacities.  A step of an end is a chain of changes to its record, each  *)
(* of which keeps the invariant while the record of the peer stays as it    *)
(* is; so the lemmas are about two records, t of the end and p of the peer. *)
(***************************************************************************)
EXTENDS KcpStream, TLAPS

InOrder(t, p) ==
    /\ Len(t.seen) <= p.sent
    /\ \A i \in DOMAIN t.seen : t.seen[i] = i + 1

\* No frame is left behind when the branch of output_tx is off.
NotStranded(t) ==
    t.pc = "select" /\ t.hs # "Disconnected" /\ t.tx_frame = None => t.taken = t.got

Good(e, t, p) ==
    /\ t \in EndState /\ p \in EndState
    /\ EndInv(e, t) /\ EndInv(Peer(e), p)
    /\ LinkInv(t, p) /\ LinkInv(p, t)
    /\ InOrder(t, p) /\ InOrder(p, t)
    /\ NotStranded(t) /\ NotStranded(p)

\* Neither end of a pipe ever goes back.
Forward(t, r) ==
    /\ r.wr >= t.wr /\ r.nxt >= t.nxt /\ r.una >= t.una
    /\ r.got >= t.got /\ r.taken >= t.taken

\* t becomes r.
Moves(e, t, r, p) == Good(e, r, p) /\ Forward(t, r)

\* What a change leaves alone.
SameFlags(t, r) ==
    /\ r.hs = t.hs /\ r.fin_recved = t.fin_recved /\ r.input_closed = t.input_closed
    /\ r.fin_out = t.fin_out /\ r.fin_sn = t.fin_sn

SameLoop(t, r) == r.pc = t.pc /\ r.tx_frame = t.tx_frame

SameSent(t, r) == r.wr = t.wr /\ r.nxt = t.nxt

SameRead(t, r) == r.una = t.una /\ r.got = t.got /\ r.taken = t.taken

SameInput(t, r) == r.inq = t.inq /\ r.tx_open = t.tx_open /\ r.rx_closed = t.rx_closed /\ r.sent = t.sent

SameOutput(t, r) == r.out = t.out /\ r.app = t.app /\ r.seen = t.seen

USE DEF None

-----------------------------------------------------------------------------
(***************************************************************************)
(* The invariant as one about pairs of records.                             *)
(***************************************************************************)
IInv == StreamInv /\ NoStrandedFrame

LEMMA Peers == \A e \in End : Peer(e) \in End /\ Peer(e) # e /\ Peer(Peer(e)) = e
  BY DEF End, Peer

LEMMA Fields ==
    ASSUME NEW t \in EndState
    PROVE  /\ t.pc \in {"select", "batch", "done"} /\ t.hs \in Handshake
           /\ t.tx_frame \in Nat /\ t.wr \in Nat /\ t.nxt \in Nat /\ t.una \in Nat
           /\ t.got \in Nat /\ t.taken \in Nat /\ t.inq \in Nat /\ t.inq <= InCap
           /\ t.out \in Nat /\ t.out <= OutCap /\ t.app \in {"wait", "open", "closed"}
           /\ t.told \in Nat /\ t.fin_sn \in Nat /\ t.sent \in Nat /\ t.seen \in Seq(Nat)
           /\ Len(t.seen) \in Nat
<1>1. t.inq \in 0 .. InCap /\ t.out \in 0 .. OutCap /\ t.seen \in Seq(Nat)
  BY DEF EndState
<1>2. t.inq \in Nat /\ t.inq <= InCap /\ t.out \in Nat /\ t.out <= OutCap
  BY <1>1, StreamAssumption
<1>3. /\ t.pc \in {"select", "batch", "done"} /\ t.hs \in Handshake
      /\ t.tx_frame \in Nat /\ t.wr \in Nat /\ t.nxt \in Nat /\ t.una \in Nat
      /\ t.got \in Nat /\ t.taken \in Nat /\ t.app \in {"wait", "open", "closed"}
      /\ t.told \in Nat /\ t.fin_sn \in Nat /\ t.sent \in Nat
  BY DEF EndState
<1>4. Len(t.seen) \in Nat
  BY <1>1
<1>5. QED
  BY <1>1, <1>2, <1>3, <1>4

LEMMA PairOf ==
    ASSUME IInv, NEW e \in End
    PROVE  Good(e, st[e], st[Peer(e)])
<1>1. /\ st[e] \in EndState /\ st[Peer(e)] \in EndState
      /\ EndInv(e, st[e]) /\ EndInv(Peer(e), st[Peer(e)])
      /\ LinkInv(st[e], st[Peer(e)]) /\ LinkInv(st[Peer(e)], st[e])
  BY Peers DEF IInv, StreamInv, TypeOK
<1>2. InOrder(st[e], st[Peer(e)]) /\ InOrder(st[Peer(e)], st[e])
  BY Peers DEF IInv, StreamInv, OnlyDataDelivered, InOrder
<1>3. ASSUME NEW d \in End PROVE NotStranded(st[d])
  <2>1. st[d].got \in Nat /\ st[d].taken \in Nat
    BY Fields DEF IInv, StreamInv, TypeOK
  <2>2. QED
    BY <2>1 DEF IInv, NoStrandedFrame, NotStranded, Running, nrcv
<1>4. QED
  BY <1>1, <1>2, <1>3, Peers DEF Good

LEMMA PairTo ==
    ASSUME IInv, NEW e \in End, NEW r, st' = [st EXCEPT ![e] = r], Good(e, r, st[Peer(e)])
    PROVE  IInv'
<1>0. /\ st \in [End -> EndState] /\ Peer(e) \in End /\ Peer(e) # e /\ Peer(Peer(e)) = e
      /\ \A d \in End : d = e \/ d = Peer(e)
  BY Peers DEF IInv, StreamInv, TypeOK, End, Peer
<1>1. st' \in [End -> EndState] /\ st'[e] = r /\ st'[Peer(e)] = st[Peer(e)]
  BY <1>0 DEF Good
<1>2. TypeOK'
  BY <1>1 DEF TypeOK
<1>3. OnlyDataDelivered'
  BY <1>0, <1>1 DEF OnlyDataDelivered, Good, InOrder
<1>4. \A d \in End : (EndInv(d, st[d]) /\ LinkInv(st[d], st[Peer(d)]))'
  <2>1. EndInv(e, r) /\ LinkInv(r, st[Peer(e)]) /\ EndInv(Peer(e), st[Peer(e)]) /\ LinkInv(st[Peer(e)], r)
    BY DEF Good
  <2>2. EndInv(e, st'[e]) /\ LinkInv(st'[e], st'[Peer(e)])
    BY <1>1, <2>1
  <2>3. EndInv(Peer(e), st'[Peer(e)]) /\ LinkInv(st'[Peer(e)], st'[e])
    BY <1>1, <2>1
  <2>4. QED
    BY <1>0, <2>2, <2>3
<1>5. NoStrandedFrame'
  <2>1. ASSUME NEW d \in End PROVE Running(d)' /\ st'[d].tx_frame = None => nrcv(st'[d]) = 0
    <3>1. NotStranded(st'[d]) /\ st'[d] \in EndState
      BY <1>0, <1>1 DEF Good
    <3>2. st'[d].got \in Nat /\ st'[d].taken \in Nat
      BY <3>1, Fields
    <3>3. QED
      BY <3>1, <3>2 DEF Running, NotStranded, nrcv
  <2>2. QED
    BY <2>1 DEF NoStrandedFrame
<1>6. QED
  BY <1>2, <1>3, <1>4, <1>5 DEF IInv, StreamInv

LEMMA MovesOn ==
    ASSUME NEW e \in End, NEW t, NEW r, NEW q, NEW p,
           Good(e, t, p), Moves(e, t, r, p), Moves(e, r, q, p)
    PROVE  Moves(e, t, q, p)
<1>1. t \in EndState /\ r \in EndState /\ q \in EndState
  BY DEF Moves, Good
<1>2. /\ t.wr \in Nat /\ t.nxt \in Nat /\ t.una \in Nat /\ t.got \in Nat /\ t.taken \in Nat
      /\ r.wr \in Nat /\ r.nxt \in Nat /\ r.una \in Nat /\ r.got \in Nat /\ r.taken \in Nat
      /\ q.wr \in Nat /\ q.nxt \in Nat /\ q.una \in Nat /\ q.got \in Nat /\ q.taken \in Nat
  BY <1>1, Fields
<1>3. Forward(t, r) /\ Forward(r, q)
  BY DEF Moves
<1>4. Forward(t, q)
  BY <1>2, <1>3 DEF Forward
<1>5. QED
  BY <1>4 DEF Moves

LEMMA MovesNot ==
    ASSUME NEW e \in End, NEW t, NEW p, Good(e, t, p)
    PROVE  Moves(e, t, t, p)
<1>1. t.wr \in Nat /\ t.nxt \in Nat /\ t.una \in Nat /\ t.got \in Nat /\ t.taken \in Nat
  BY Fields DEF Good
<1>2. QED
  BY <1>1 DEF Moves, Forward

-----------------------------------------------------------------------------
(***************************************************************************)
(* Changes of a record.                                                     *)
(***************************************************************************)
\* More is numbered, or what is stored is told.
LEMMA FlushKeeps ==
    ASSUME NEW e \in End, NEW t, NEW r \in EndState, NEW p, Good(e, t, p),
           SameFlags(t, r), SameLoop(t, r), SameRead(t, r), SameInput(t, r), SameOutput(t, r),
           r.wr = t.wr, r.nxt >= t.nxt, r.nxt <= t.wr, r.told = t.told \/ r.told = t.got
    PROVE  Moves(e, t, r, p)
<1> USE DEF SameFlags, SameLoop, SameRead, SameInput, SameOutput
<1>0. t \in EndState /\ p \in EndState
  BY DEF Good
<1>1. /\ r.wr \in Nat /\ r.nxt \in Nat /\ r.una \in Nat /\ r.got \in Nat /\ r.taken \in Nat /\ r.told \in Nat
      /\ t.wr \in Nat /\ t.nxt \in Nat /\ t.told \in Nat
      /\ p.wr \in Nat /\ p.nxt \in Nat /\ p.una \in Nat /\ p.got \in Nat /\ p.taken \in Nat /\ p.told \in Nat
  BY <1>0, Fields
<1>2. SynFirst(e, r) /\ Accounted(r)
  BY DEF Good, EndInv, SynFirst, Accounted
<1>3. FinLast(r)
  BY <1>1 DEF Good, EndInv, FinLast
<1>4. PipeOrdered(r, p) /\ PipeOrdered(p, r)
  BY <1>1 DEF Good, LinkInv, PipeOrdered
<1>5. FinKnown(r, p) /\ FinKnown(p, r) /\ NextFrame(r, p) /\ NextFrame(p, r)
  BY DEF Good, LinkInv, FinKnown, NextFrame
<1>6. InOrder(r, p) /\ InOrder(p, r) /\ NotStranded(r)
  BY DEF Good, InOrder, NotStranded
<1>7. Forward(t, r)
  BY <1>1 DEF Forward
<1>8. QED
  BY <1>0, <1>2, <1>3, <1>4, <1>5, <1>6, <1>7 DEF Moves, Good, EndInv, LinkInv

\* ikcp_flush numbers what is queued and tells what is stored.
FlushOf(t, r) ==
    /\ r \in EndState
    /\ SameFlags(t, r) /\ SameLoop(t, r) /\ SameRead(t, r) /\ SameInput(t, r) /\ SameOutput(t, r)
    /\ r.wr = t.wr /\ r.nxt >= t.nxt /\ r.nxt <= t.wr /\ (r.told = t.told \/ r.told = t.got)

LEMMA FlushShape ==
    ASSUME NEW t \in EndState, NEW room \in 0 .. SndWnd, t.nxt <= t.wr
    PROVE  FlushOf(t, ikcp_flush(t, room))
<1> DEFINE n == imax(t.nxt, imin(t.wr, t.una + room))
<1> DEFINE r == [t EXCEPT !.nxt = n, !.told = t.got]
<1>1. room \in Nat /\ t.wr \in Nat /\ t.nxt \in Nat /\ t.una \in Nat /\ t.got \in Nat
  BY Fields, StreamAssumption
<1>2. n \in Nat /\ n >= t.nxt /\ n <= t.wr
  BY <1>1 DEF imin, imax
<1> HIDE DEF n
<1>3. /\ r \in EndState
      /\ r.nxt = n /\ r.told = t.got /\ r.wr = t.wr
      /\ SameFlags(t, r) /\ SameLoop(t, r) /\ SameRead(t, r)
      /\ SameInput(t, r) /\ SameOutput(t, r)
  BY <1>1, <1>2 DEF EndState, SameFlags, SameLoop, SameRead, SameInput, SameOutput
<1>4. ikcp_flush(t, room) = r
  BY DEF ikcp_flush, n
<1> HIDE DEF r
<1>5. QED
  BY <1>2, <1>3, <1>4 DEF FlushOf

LEMMA TaskFlushShape ==
    ASSUME NEW t \in EndState, NEW room \in 0 .. SndWnd, t.nxt <= t.wr
    PROVE  FlushOf(t, kcp_flush(t, room))
<1>0. t.nxt \in Nat
  BY Fields
<1>1. CASE t.flush
  <2> DEFINE s == [t EXCEPT !.flush = FALSE]
  <2> DEFINE r == ikcp_flush(s, room)
  <2>1. /\ s \in EndState /\ s.told = t.told /\ SameSent(t, s)
        /\ SameFlags(t, s) /\ SameLoop(t, s) /\ SameRead(t, s)
        /\ SameInput(t, s) /\ SameOutput(t, s)
    BY DEF EndState, SameFlags, SameLoop, SameRead, SameInput, SameOutput, SameSent
  <2>2. kcp_flush(t, room) = r
    BY <1>1 DEF kcp_flush
  <2> HIDE DEF s
  <2>3. FlushOf(s, r)
    BY <2>1, FlushShape DEF SameSent
  <2> HIDE DEF r
  <2>4. FlushOf(t, r)
    BY <2>1, <2>3 DEF FlushOf, SameFlags, SameLoop, SameRead, SameInput, SameOutput, SameSent
  <2>5. QED
    BY <2>2, <2>4
<1>2. CASE ~t.flush
  <2>1. kcp_flush(t, room) = t
    BY <1>2 DEF kcp_flush
  <2>2. QED
    BY <1>0, <2>1 DEF FlushOf, SameFlags, SameLoop, SameRead, SameInput, SameOutput
<1>3. QED
  BY <1>1, <1>2

LEMMA Flush ==
    ASSUME NEW e \in End, NEW t, NEW p, NEW room \in 0 .. SndWnd, Good(e, t, p)
    PROVE  Moves(e, t, ikcp_flush(t, room), p)
<1> DEFINE r == ikcp_flush(t, room)
<1>1. FlushOf(t, r)
  BY FlushShape DEF Good, LinkInv, PipeOrdered
<1> HIDE DEF r
<1>2. Moves(e, t, r, p)
  BY <1>1, FlushKeeps DEF FlushOf
<1>3. QED
  BY <1>2 DEF r

LEMMA TaskFlush ==
    ASSUME NEW e \in End, NEW t, NEW p, NEW room \in 0 .. SndWnd, Good(e, t, p)
    PROVE  LET r == kcp_flush(t, room)
           IN  /\ Moves(e, t, r, p)
               /\ SameFlags(t, r) /\ SameLoop(t, r) /\ SameRead(t, r)
<1> DEFINE r == kcp_flush(t, room)
<1>1. FlushOf(t, r)
  BY TaskFlushShape DEF Good, LinkInv, PipeOrdered
<1> HIDE DEF r
<1>2. Moves(e, t, r, p)
  BY <1>1, FlushKeeps DEF FlushOf
<1>3. QED
  BY <1>1, <1>2 DEF r, FlushOf

\* kcp_output sends the FIN packet when the FIN frame has a number.
LEMMA Output ==
    ASSUME NEW e \in End, NEW t, NEW p, NEW b \in BOOLEAN, Good(e, t, p),
           b <=> (t.fin_out \/ (t.hs = "FinSent" /\ t.nxt = t.wr))
    PROVE  Moves(e, t, [t EXCEPT !.fin_out = b], p)
<1> DEFINE r == [t EXCEPT !.fin_out = b]
<1>0. t \in EndState /\ p \in EndState
  BY DEF Good
<1>1. /\ r \in EndState /\ r.fin_out = b
      /\ r.hs = t.hs /\ r.fin_recved = t.fin_recved /\ r.input_closed = t.input_closed /\ r.fin_sn = t.fin_sn
      /\ SameLoop(t, r) /\ SameRead(t, r) /\ SameSent(t, r)
      /\ SameInput(t, r) /\ SameOutput(t, r) /\ r.told = t.told
  BY <1>0 DEF EndState, SameLoop, SameRead, SameInput, SameOutput, SameSent
<1> HIDE DEF r
<1> USE DEF SameLoop, SameRead, SameInput, SameOutput, SameSent
<1>2. SynFirst(e, r) /\ Accounted(r)
  BY <1>1 DEF Good, EndInv, SynFirst, Accounted
<1>3. FinLast(r)
  BY <1>1 DEF Good, EndInv, FinLast
<1>4. PipeOrdered(r, p) /\ PipeOrdered(p, r)
  BY <1>1 DEF Good, LinkInv, PipeOrdered
<1>5. FinKnown(r, p) /\ FinKnown(p, r) /\ NextFrame(r, p) /\ NextFrame(p, r)
  BY <1>1 DEF Good, LinkInv, FinKnown, NextFrame
<1>6. InOrder(r, p) /\ InOrder(p, r) /\ NotStranded(r)
  BY <1>1 DEF Good, InOrder, NotStranded
<1>7. Forward(t, r)
  BY <1>0, <1>1, Fields DEF Forward
<1>8. Moves(e, t, r, p)
  BY <1>0, <1>1, <1>2, <1>3, <1>4, <1>5, <1>6, <1>7 DEF Moves, Good, EndInv, LinkInv
<1>9. QED
  BY <1>8 DEF r

Reasons == {"none", "syn", "fin", "reset"} \cup AbruptEvents

\* set_handshake(Disconnected)
LEMMA Disconnects ==
    ASSUME NEW e \in End, NEW t, NEW p, NEW w \in Reasons, Good(e, t, p)
    PROVE  LET r == Disconnect(t, w)
           IN  /\ Moves(e, t, r, p)
               /\ r.hs = "Disconnected" /\ r.fin_recved = t.fin_recved
               /\ SameLoop(t, r) /\ SameRead(t, r)
<1> DEFINE r == Disconnect(t, w)
<1>0. t \in EndState /\ p \in EndState
  BY DEF Good
<1>1. /\ r \in EndState /\ r.fin_out = t.fin_out
      /\ r.hs = "Disconnected" /\ r.fin_recved = t.fin_recved /\ r.input_closed = t.input_closed /\ r.fin_sn = t.fin_sn
      /\ SameLoop(t, r) /\ SameRead(t, r) /\ SameSent(t, r)
      /\ SameInput(t, r) /\ SameOutput(t, r) /\ r.told = t.told
  BY <1>0 DEF EndState, Disconnect, Handshake, Reasons, SameLoop, SameRead, SameInput, SameOutput, SameSent
<1> HIDE DEF r
<1> USE DEF SameLoop, SameRead, SameInput, SameOutput, SameSent
<1>2. SynFirst(e, r) /\ Accounted(r)
  BY <1>1 DEF Good, EndInv, SynFirst, Accounted
<1>3. FinLast(r)
  BY <1>1 DEF Good, EndInv, FinLast
<1>4. PipeOrdered(r, p) /\ PipeOrdered(p, r)
  BY <1>1 DEF Good, LinkInv, PipeOrdered
<1>5. FinKnown(r, p) /\ FinKnown(p, r) /\ NextFrame(r, p) /\ NextFrame(p, r)
  BY <1>1 DEF Good, LinkInv, FinKnown, NextFrame
<1>6. InOrder(r, p) /\ InOrder(p, r) /\ NotStranded(r)
  BY <1>1 DEF Good, InOrder, NotStranded
<1>7. Forward(t, r)
  BY <1>0, <1>1, Fields DEF Forward
<1>8. Moves(e, t, r, p)
  BY <1>0, <1>1, <1>2, <1>3, <1>4, <1>5, <1>6, <1>7 DEF Moves, Good, EndInv, LinkInv
<1>9. QED
  BY <1>1, <1>8 DEF r

-----------------------------------------------------------------------------
(***************************************************************************)
(* fin_transit_state.                                                       *)
(***************************************************************************)
\* A state of the FIN handshake that sends nothing.
LEMMA Waits ==
    ASSUME NEW e \in End, NEW t, NEW p, NEW h, Good(e, t, p),
           \/ t.hs \in {"Connected", "FinPending"} /\ h = "FinPending"
           \/ t.hs \in {"FinSent", "FinWaitPeer"} /\ h = "FinWaitPeer"
    PROVE  LET r == [t EXCEPT !.hs = h]
           IN  /\ Moves(e, t, r, p) /\ r.fin_recved = t.fin_recved
               /\ SameLoop(t, r) /\ SameRead(t, r)
<1> DEFINE r == [t EXCEPT !.hs = h]
<1>0. t \in EndState /\ p \in EndState /\ h \in Handshake
  BY DEF Good, Handshake
<1>1. /\ r \in EndState /\ r.fin_out = t.fin_out
      /\ r.hs = h /\ r.fin_recved = t.fin_recved /\ r.input_closed = t.input_closed /\ r.fin_sn = t.fin_sn
      /\ SameLoop(t, r) /\ SameRead(t, r) /\ SameSent(t, r)
      /\ SameInput(t, r) /\ SameOutput(t, r) /\ r.told = t.told
  BY <1>0 DEF EndState, SameLoop, SameRead, SameInput, SameOutput, SameSent
<1> HIDE DEF r
<1> USE DEF SameLoop, SameRead, SameInput, SameOutput, SameSent
<1>2. SynFirst(e, r) /\ Accounted(r)
  BY <1>1 DEF Good, EndInv, SynFirst, Accounted
<1>3. FinLast(r)
  BY <1>1 DEF Good, EndInv, FinLast
<1>4. PipeOrdered(r, p) /\ PipeOrdered(p, r)
  BY <1>1 DEF Good, LinkInv, PipeOrdered
<1>5. FinKnown(r, p) /\ FinKnown(p, r) /\ NextFrame(r, p) /\ NextFrame(p, r)
  BY <1>1 DEF Good, LinkInv, FinKnown, NextFrame
<1>6. InOrder(r, p) /\ InOrder(p, r) /\ NotStranded(r)
  BY <1>1 DEF Good, InOrder, NotStranded
<1>7. Forward(t, r)
  BY <1>0, <1>1, Fields DEF Forward
<1>8. Moves(e, t, r, p)
  BY <1>0, <1>1, <1>2, <1>3, <1>4, <1>5, <1>6, <1>7 DEF Moves, Good, EndInv, LinkInv
<1>9. QED
  BY <1>1, <1>8 DEF r

\* The FIN frame is written when all that was written before is acknowledged.
LEMMA WritesFin ==
    ASSUME NEW e \in End, NEW t, NEW p, NEW room \in 0 .. SndWnd, Good(e, t, p),
           t.hs \in {"Connected", "FinPending"}, t.pc # "done", ReadyForFin(t)
    PROVE  LET r == handshake_send([t EXCEPT !.hs = "FinSent", !.fin_sn = t.wr + 1], room)
           IN  /\ Moves(e, t, r, p) /\ r.fin_recved = t.fin_recved
               /\ SameLoop(t, r) /\ SameRead(t, r)
<1> DEFINE f == [t EXCEPT !.hs = "FinSent", !.fin_sn = t.wr + 1]
<1> DEFINE r == [f EXCEPT !.flush = TRUE, !.wr = @ + 1]
<1>0. t \in EndState /\ p \in EndState /\ "FinSent" \in Handshake
  BY DEF Good, Handshake
<1>1. /\ t.wr \in Nat /\ t.wr + 1 \in Nat /\ t.una \in Nat /\ t.nxt \in Nat /\ t.got \in Nat
      /\ t.taken \in Nat /\ t.inq \in Nat /\ t.sent \in Nat
      /\ p.got \in Nat /\ p.taken \in Nat /\ p.told \in Nat /\ t.fin_sn \in Nat
  BY <1>0, Fields
<1>2. f \in EndState /\ f.wr = t.wr
  BY <1>0, <1>1 DEF EndState
<1>3. /\ f.hs = "FinSent" /\ f.fin_sn = t.wr + 1 /\ f.fin_out = t.fin_out
      /\ f.fin_recved = t.fin_recved /\ f.input_closed = t.input_closed
      /\ SameLoop(t, f) /\ SameRead(t, f) /\ SameSent(t, f)
      /\ SameInput(t, f) /\ SameOutput(t, f) /\ f.told = t.told
  BY <1>0, <1>1 DEF EndState, SameLoop, SameRead, SameInput, SameOutput, SameSent
<1> HIDE DEF f
<1>4. r \in EndState
  BY <1>1, <1>2 DEF EndState
<1>5. /\ r.hs = f.hs /\ r.fin_sn = f.fin_sn /\ r.fin_out = f.fin_out
      /\ r.fin_recved = f.fin_recved /\ r.input_closed = f.input_closed
      /\ SameLoop(f, r) /\ SameRead(f, r) /\ r.wr = f.wr + 1 /\ r.nxt = f.nxt
      /\ SameInput(f, r) /\ SameOutput(f, r) /\ r.told = f.told
  BY <1>2 DEF EndState, SameLoop, SameRead, SameInput, SameOutput
<1>6. handshake_send(f, room) = kcp_flush(r, room)
  BY DEF handshake_send
<1> HIDE DEF r
<1> USE DEF SameLoop, SameRead, SameInput, SameOutput, SameSent
<1>7. /\ t.fin_sn = 0 /\ ~t.fin_out /\ ~p.fin_recved /\ t.wr > 0
      /\ t.inq = 0 /\ t.una = t.wr /\ t.wr = t.sent + 1
  <2>1. t.fin_sn = 0 /\ t.wr > 0
    <3>1. EndInv(e, t)
      BY DEF Good
    <3>2. ~(t.fin_sn > 0)
      BY <3>1 DEF EndInv, FinLast
    <3>3. t.wr # 0
      BY <3>1 DEF EndInv, SynFirst
    <3>4. t.fin_sn \in Nat /\ t.wr \in Nat
      BY <1>1
    <3>5. QED
      BY <3>2, <3>3, <3>4
  <2>2. ~t.fin_out
    BY <2>1 DEF Good, EndInv, FinLast
  <2>3. ~p.fin_recved
    BY <2>2 DEF Good, LinkInv, FinKnown
  <2>4. t.inq = 0
    BY DEF Good, EndInv, FinLast, ReadyForFin
  <2>5. t.una = t.wr
    BY <1>1 DEF ReadyForFin, get_waitsnd
  <2>6. t.wr = t.sent + 1
    BY <1>1, <2>1, <2>4 DEF Good, EndInv, Accounted
  <2>7. QED
    BY <2>1, <2>2, <2>3, <2>4, <2>5, <2>6
<1>8. SynFirst(e, r) /\ Accounted(r)
  <2>1. SynFirst(e, r)
    BY <1>1, <1>3, <1>5, <1>7 DEF SynFirst
  <2>2. Accounted(r)
    BY <1>1, <1>3, <1>5, <1>7 DEF Good, EndInv, Accounted
  <2>3. QED
    BY <2>1, <2>2
<1>9. FinLast(r)
  <2>1. r.wr = t.wr + 1 /\ r.fin_sn = t.wr + 1 /\ r.sent = t.sent /\ r.una = t.una /\ r.hs = "FinSent"
    BY <1>2, <1>3, <1>5
  <2>2. r.input_closed
    BY <1>3, <1>5 DEF ReadyForFin
  <2>3. r.input_closed => r.inq = 0 /\ (~r.tx_open \/ r.rx_closed)
    BY <1>3, <1>5 DEF Good, EndInv, FinLast
  <2>4. ~r.fin_out
    BY <1>3, <1>5, <1>7
  <2>5. r.wr = r.fin_sn /\ r.fin_sn = r.sent + 2 /\ r.una + 1 >= r.fin_sn /\ r.fin_sn > 0
    BY <1>1, <1>7, <2>1
  <2>6. QED
    BY <2>1, <2>2, <2>3, <2>4, <2>5 DEF FinLast
<1>10. PipeOrdered(r, p) /\ PipeOrdered(p, r)
  BY <1>1, <1>2, <1>3, <1>5 DEF Good, LinkInv, PipeOrdered
<1>11. FinKnown(r, p) /\ NextFrame(r, p)
  BY <1>3, <1>5 DEF Good, LinkInv, FinKnown, NextFrame
<1>12. FinKnown(p, r) /\ NextFrame(p, r)
  <2>1. p.got < r.fin_sn
    BY <1>1, <1>3, <1>5 DEF Good, LinkInv, PipeOrdered
  <2>2. FinKnown(p, r)
    BY <1>7, <2>1 DEF FinKnown
  <2>3. NextFrame(p, r)
    BY <1>3, <1>5, <1>7 DEF Good, LinkInv, NextFrame
  <2>4. QED
    BY <2>2, <2>3
<1>13. InOrder(r, p) /\ InOrder(p, r) /\ NotStranded(r)
  BY <1>3, <1>5 DEF Good, InOrder, NotStranded
<1>14. Forward(t, r)
  BY <1>1, <1>2, <1>3, <1>5 DEF Forward
<1>15. Moves(e, t, r, p)
  BY <1>0, <1>4, <1>8, <1>9, <1>10, <1>11, <1>12, <1>13, <1>14 DEF Moves, Good, EndInv, LinkInv
<1> DEFINE q == kcp_flush(r, room)
<1>16. Moves(e, r, q, p) /\ SameFlags(r, q) /\ SameLoop(r, q) /\ SameRead(r, q)
  BY <1>15, TaskFlush DEF Moves
<1> HIDE DEF q
<1>17. Moves(e, t, q, p)
  BY <1>15, <1>16, MovesOn
<1>18. q.fin_recved = t.fin_recved /\ SameLoop(t, q) /\ SameRead(t, q)
  BY <1>3, <1>5, <1>16 DEF SameFlags
<1>19. QED
  BY <1>6, <1>17, <1>18 DEF q, f

LEMMA FinTransit ==
    ASSUME NEW e \in End, NEW t, NEW p, NEW room \in 0 .. SndWnd, Good(e, t, p), t.pc # "done"
    PROVE  LET r == fin_transit_state(t, room)
           IN  /\ Moves(e, t, r, p) /\ r.fin_recved = t.fin_recved
               /\ SameLoop(t, r) /\ SameRead(t, r)
<1>0. t.hs \in Handshake /\ {"syn", "fin"} \subseteq Reasons /\ t.wr \in Nat /\ t.una \in Nat
  BY Fields DEF Good, Reasons
<1>1. CASE t.hs = "Syn"
  <2>1. fin_transit_state(t, room) = Disconnect(t, "syn")
    BY <1>1 DEF fin_transit_state
  <2>2. QED
    BY <1>0, <2>1, Disconnects
<1>2. CASE t.hs \in {"Connected", "FinPending"} /\ ~ReadyForFin(t)
  <2>1. fin_transit_state(t, room) = [t EXCEPT !.hs = "FinPending"]
    BY <1>2 DEF fin_transit_state
  <2>2. QED
    BY <1>2, <2>1, Waits
<1>3. CASE t.hs \in {"Connected", "FinPending"} /\ ReadyForFin(t)
  <2> DEFINE r == handshake_send([t EXCEPT !.hs = "FinSent", !.fin_sn = t.wr + 1], room)
  <2>1. fin_transit_state(t, room) = r
    BY <1>3 DEF fin_transit_state
  <2>2. Moves(e, t, r, p) /\ r.fin_recved = t.fin_recved /\ SameLoop(t, r) /\ SameRead(t, r)
    BY <1>3, WritesFin
  <2> HIDE DEF r
  <2>3. QED
    BY <2>1, <2>2
<1>4. CASE (t.hs = "FinSent" /\ get_waitsnd(t) > 0) \/ t.hs = "Disconnected"
  <2>1. fin_transit_state(t, room) = t
    BY <1>0, <1>4 DEF fin_transit_state, get_waitsnd
  <2>2. QED
    BY <2>1, MovesNot DEF SameLoop, SameRead
<1>5. CASE (t.hs = "FinSent" /\ get_waitsnd(t) = 0) \/ t.hs = "FinWaitPeer"
  <2>1. fin_transit_state(t, room) =
          IF AllReceived(t) THEN Disconnect(t, "fin") ELSE [t EXCEPT !.hs = "FinWaitPeer"]
    BY <1>0, <1>5 DEF fin_transit_state, get_waitsnd
  <2>2. CASE AllReceived(t)
    BY <1>0, <2>1, <2>2, Disconnects
  <2>3. CASE ~AllReceived(t)
    BY <1>5, <2>1, <2>3, Waits
  <2>4. QED
    BY <2>2, <2>3
<1>6. get_waitsnd(t) > 0 \/ get_waitsnd(t) = 0
  <2>1. t.una <= t.wr
    <3>1. p.told \in Nat /\ p.got \in Nat /\ t.nxt \in Nat
      BY Fields DEF Good
    <3>2. QED
      BY <1>0, <3>1 DEF Good, LinkInv, PipeOrdered
  <2>2. QED
    BY <1>0, <2>1 DEF get_waitsnd
<1>7. QED
  BY <1>0, <1>1, <1>2, <1>3, <1>4, <1>5, <1>6 DEF Handshake

-----------------------------------------------------------------------------
(***************************************************************************)
(* The branch of input_rx.                                                  *)
(***************************************************************************)
LEMMA TakesInput ==
    ASSUME NEW e \in End, NEW t, NEW p, Good(e, t, p),
           t.pc = "select", ~t.input_closed, ~is_send_queue_full(t),
           NEW drop \in 0 .. t.inq, NEW empty \in BOOLEAN
    PROVE  LET r == process_input(t, drop, empty)
           IN  Moves(e, t, r, p) /\ r.pc = "select"
<1> DEFINE n == imin(t.inq - drop, SndWnd - nsnd_que(t))
<1> DEFINE b == t.flush \/ ((n > 0 \/ empty) /\ (NoDelay \/ nsnd_que(t) + n > 1))
<1> DEFINE r == [t EXCEPT !.inq = @ - n - drop, !.wr = @ + n, !.sent = @ - drop, !.flush = b]
<1>0. t \in EndState /\ p \in EndState
  BY DEF Good
<1>1. /\ t.wr \in Nat /\ t.nxt \in Nat /\ t.inq \in Nat /\ t.inq <= InCap /\ t.una \in Nat
      /\ t.got \in Nat /\ t.taken \in Nat /\ t.sent \in Nat /\ t.fin_sn \in Nat /\ p.got \in Nat
      /\ InCap \in Nat /\ SndWnd \in Nat /\ drop \in Nat /\ drop <= t.inq
  BY <1>0, Fields, StreamAssumption
<1>2. t.nxt <= t.wr /\ SndWnd - nsnd_que(t) \in Nat
  BY <1>1 DEF Good, LinkInv, PipeOrdered, is_send_queue_full, nsnd_que
<1>3. n \in Nat /\ n + drop <= t.inq
  BY <1>1, <1>2 DEF imin
<1>4. b \in BOOLEAN
  OBVIOUS
<1>5. process_input(t, drop, empty) = r
  BY DEF process_input
<1> HIDE DEF n, b
<1>5a. t.fin_sn = 0
  BY <1>1 DEF Good, EndInv, FinLast
<1>5b. drop <= t.sent
  <2>1. CASE t.wr = 0
    BY <1>1, <2>1 DEF Good, EndInv, SynFirst
  <2>2. CASE t.wr > 0
    <3>1. t.wr + t.inq = t.sent + 1
      BY <1>5a, <2>2 DEF Good, EndInv, Accounted
    <3>2. QED
      BY <1>1, <2>2, <3>1
  <2>3. QED
    BY <1>1, <2>1, <2>2
<1>6. t.inq - n - drop \in 0 .. InCap /\ t.wr + n \in Nat /\ t.sent - drop \in Nat
  BY <1>1, <1>3, <1>5b
<1>7. /\ r \in EndState /\ SameFlags(t, r) /\ SameLoop(t, r) /\ SameRead(t, r) /\ SameOutput(t, r)
      /\ r.inq = t.inq - n - drop /\ r.wr = t.wr + n /\ r.nxt = t.nxt /\ r.told = t.told
      /\ r.sent = t.sent - drop /\ r.tx_open = t.tx_open /\ r.rx_closed = t.rx_closed
  BY <1>0, <1>4, <1>6 DEF EndState, SameFlags, SameLoop, SameRead, SameOutput
<1> HIDE DEF r
<1> USE DEF SameFlags, SameLoop, SameRead, SameOutput
<1>8. t.fin_sn = 0
  BY <1>5a
<1>9. SynFirst(e, r)
  <2>1. CASE t.wr = 0
    <3>1. t.inq = 0
      BY <2>1 DEF Good, EndInv, SynFirst
    <3>2. n = 0 /\ r.inq = t.inq /\ r.wr = t.wr /\ r.sent = t.sent
      BY <1>1, <1>3, <1>7, <3>1
    <3>3. QED
      BY <1>7, <3>2 DEF Good, EndInv, SynFirst
  <2>2. CASE t.wr # 0 /\ t.hs = "Syn"
    <3>1. t.inq = 0
      BY <1>1, <1>8, <2>2 DEF Good, EndInv, SynFirst, Accounted
    <3>2. n = 0 /\ r.inq = t.inq /\ r.wr = t.wr /\ r.sent = t.sent
      BY <1>1, <1>3, <1>7, <3>1
    <3>3. QED
      BY <1>7, <3>2 DEF Good, EndInv, SynFirst
  <2>3. CASE t.wr # 0 /\ t.hs # "Syn"
    BY <1>1, <1>3, <1>7, <2>3 DEF SynFirst
  <2>4. QED
    BY <2>1, <2>2, <2>3
<1>10. Accounted(r)
  <2>1. t.wr = 0 => n = 0 /\ drop = 0
    <3>1. t.wr = 0 => t.inq = 0
      BY DEF Good, EndInv, SynFirst
    <3>2. QED
      BY <1>1, <1>3, <3>1
  <2>2. t.wr > 0 => t.wr + t.inq = t.sent + 1
    BY <1>8 DEF Good, EndInv, Accounted
  <2>3. r.wr <= r.sent + 1 /\ (r.wr > 0 => r.wr + r.inq = r.sent + 1)
    <3>1. CASE t.wr = 0
      BY <1>1, <1>6, <1>7, <2>1, <3>1
    <3>2. CASE t.wr > 0
      BY <1>1, <1>3, <1>7, <2>2, <3>2
    <3>3. QED
      BY <1>1, <3>1, <3>2
  <2>4. Len(r.seen) > 0 => Len(r.seen) < r.taken
    BY <1>7 DEF Good, EndInv, Accounted
  <2>5. QED
    BY <1>7, <2>3, <2>4 DEF Accounted
<1>11. FinLast(r)
  BY <1>7, <1>8 DEF Good, EndInv, FinLast
<1>12. PipeOrdered(r, p) /\ PipeOrdered(p, r)
  BY <1>1, <1>3, <1>7 DEF Good, LinkInv, PipeOrdered
<1>12a. p.taken <= r.sent + 1 /\ p.taken \in Nat /\ Len(p.seen) \in Nat /\ r.sent \in Nat
  <2>1. /\ p.taken \in Nat /\ p.got \in Nat /\ r.nxt \in Nat /\ r.wr \in Nat /\ r.sent \in Nat
        /\ Len(p.seen) \in Nat
    BY <1>0, <1>7, Fields
  <2>2. p.taken <= p.got /\ p.got <= r.nxt /\ r.nxt <= r.wr
    BY <1>12 DEF PipeOrdered
  <2>3. r.wr <= r.sent + 1
    BY <1>7, <1>8, <1>10 DEF Accounted
  <2>4. QED
    BY <2>1, <2>2, <2>3
<1>13. FinKnown(r, p) /\ FinKnown(p, r) /\ NextFrame(r, p) /\ NextFrame(p, r)
  <2>1. p.taken <= r.sent + 1
    BY <1>12a
  <2>2. p.tx_frame # 0 /\ p.taken = p.tx_frame => p.tx_frame <= r.sent + 1
    BY <2>1
  <2>3. QED
    BY <1>7, <2>2 DEF Good, LinkInv, FinKnown, NextFrame
<1>14. InOrder(r, p) /\ InOrder(p, r) /\ NotStranded(r)
  <2>1. Len(p.seen) > 0 => Len(p.seen) < p.taken
    BY DEF Good, EndInv, Accounted
  <2>2. p.taken <= r.sent + 1 /\ p.taken \in Nat /\ Len(p.seen) \in Nat /\ r.sent \in Nat
    BY <1>12a
  <2>3. Len(p.seen) <= r.sent
    BY <2>1, <2>2
  <2>4. QED
    BY <1>7, <2>3 DEF Good, InOrder, NotStranded
<1>15. Forward(t, r)
  BY <1>1, <1>3, <1>7 DEF Forward
<1>16. Moves(e, t, r, p)
  BY <1>0, <1>7, <1>9, <1>10, <1>11, <1>12, <1>13, <1>14, <1>15 DEF Moves, Good, EndInv, LinkInv
<1>17. QED
  BY <1>5, <1>7, <1>16

\* The channel is empty and closed.
LEMMA ClosesInput ==
    ASSUME NEW e \in End, NEW t, NEW p, Good(e, t, p), ChannelClosed(t)
    PROVE  LET r == [t EXCEPT !.input_closed = TRUE]
           IN  Moves(e, t, r, p) /\ r.pc = t.pc
<1> DEFINE r == [t EXCEPT !.input_closed = TRUE]
<1>0. t \in EndState /\ p \in EndState
  BY DEF Good
<1>1. /\ r \in EndState /\ r.fin_out = t.fin_out
      /\ r.hs = t.hs /\ r.fin_recved = t.fin_recved /\ r.input_closed = TRUE /\ r.fin_sn = t.fin_sn
      /\ SameLoop(t, r) /\ SameRead(t, r) /\ SameSent(t, r)
      /\ SameInput(t, r) /\ SameOutput(t, r) /\ r.told = t.told
  BY <1>0 DEF EndState, SameLoop, SameRead, SameInput, SameOutput, SameSent
<1> HIDE DEF r
<1> USE DEF SameLoop, SameRead, SameInput, SameOutput, SameSent
<1>2. SynFirst(e, r) /\ Accounted(r)
  BY <1>1 DEF Good, EndInv, SynFirst, Accounted
<1>3. FinLast(r)
  BY <1>1 DEF Good, EndInv, FinLast, ChannelClosed
<1>4. PipeOrdered(r, p) /\ PipeOrdered(p, r)
  BY <1>1 DEF Good, LinkInv, PipeOrdered
<1>5. FinKnown(r, p) /\ FinKnown(p, r) /\ NextFrame(r, p) /\ NextFrame(p, r)
  BY <1>1 DEF Good, LinkInv, FinKnown, NextFrame
<1>6. InOrder(r, p) /\ InOrder(p, r) /\ NotStranded(r)
  BY <1>1 DEF Good, InOrder, NotStranded
<1>7. Forward(t, r)
  BY <1>0, <1>1, Fields DEF Forward
<1>8. Moves(e, t, r, p)
  BY <1>0, <1>1, <1>2, <1>3, <1>4, <1>5, <1>6, <1>7 DEF Moves, Good, EndInv, LinkInv
<1>9. QED
  BY <1>1, <1>8 DEF r

(***************************************************************************)
(* Steps of the end e as changes of its record.                             *)
(***************************************************************************)
StepOf(e) ==
    \E r : st' = [st EXCEPT ![e] = r] /\ Moves(e, st[e], r, st[Peer(e)])

\* What goes out at the end of a step.
LEMMA Outputs ==
    ASSUME NEW e \in End, NEW r, Good(e, st[e], st[Peer(e)]),
           Moves(e, st[e], r, st[Peer(e)]), kcp_output(e, r)
    PROVE  StepOf(e)
<1> DEFINE b == r.fin_out \/ (r.hs = "FinSent" /\ r.nxt = r.wr)
<1> DEFINE q == [r EXCEPT !.fin_out = b]
<1>1. b \in BOOLEAN
  OBVIOUS
<1>2. st' = [st EXCEPT ![e] = q]
  BY DEF kcp_output
<1>3. Moves(e, r, q, st[Peer(e)])
  <2>1. b <=> (r.fin_out \/ (r.hs = "FinSent" /\ r.nxt = r.wr))
    OBVIOUS
  <2> HIDE DEF b
  <2>2. QED
    BY <1>1, <2>1, Output DEF Moves
<1> HIDE DEF q
<1>4. Moves(e, st[e], q, st[Peer(e)])
  BY <1>3, MovesOn
<1>5. QED
  BY <1>2, <1>4 DEF StepOf

LEMMA InputStep ==
    ASSUME NEW e \in End, NEW drop \in 0 .. st[e].inq, NEW empty \in BOOLEAN,
           NEW room \in 0 .. SndWnd, Good(e, st[e], st[Peer(e)]), InputBranch(e, drop, empty, room)
    PROVE  StepOf(e)
<1> DEFINE p == st[Peer(e)]
<1> DEFINE t1 == process_input(st[e], drop, empty)
<1> DEFINE closed == ChannelClosed(t1) /\ ~is_send_queue_full(t1)
<1> DEFINE t2 == IF closed THEN fin_transit_state([t1 EXCEPT !.input_closed = TRUE], room) ELSE t1
<1>1. /\ st[e].pc = "select" /\ ~st[e].input_closed /\ ~is_send_queue_full(st[e])
      /\ kcp_output(e, kcp_flush(t2, room))
  BY DEF InputBranch, Running
<1>2. Moves(e, st[e], t1, p) /\ t1.pc = "select"
  BY <1>1, TakesInput
<1> HIDE DEF t1
<1>3. Moves(e, t1, t2, p)
  <2>1. CASE closed
    <3> DEFINE c == [t1 EXCEPT !.input_closed = TRUE]
    <3>1. Moves(e, t1, c, p) /\ c.pc = "select"
      BY <1>2, <2>1, ClosesInput DEF Moves
    <3> HIDE DEF c
    <3>2. Moves(e, c, fin_transit_state(c, room), p)
      BY <3>1, FinTransit DEF Moves
    <3>3. t2 = fin_transit_state(c, room)
      BY <2>1 DEF c
    <3>4. QED
      BY <1>2, <3>1, <3>2, <3>3, MovesOn DEF Moves
  <2>2. CASE ~closed
    BY <1>2, <2>2, MovesNot DEF Moves
  <2>3. QED
    BY <2>1, <2>2
<1> HIDE DEF t2
<1>4. Moves(e, t2, kcp_flush(t2, room), p)
  BY <1>3, TaskFlush DEF Moves
<1>5. Moves(e, st[e], t2, p)
  BY <1>2, <1>3, MovesOn
<1>6. Moves(e, st[e], kcp_flush(t2, room), p)
  BY <1>4, <1>5, MovesOn
<1>7. QED
  BY <1>1, <1>6, Outputs

-----------------------------------------------------------------------------
(***************************************************************************)
(* Packets.                                                                 *)
(***************************************************************************)
\* Acknowledgements and data of a packet are stored.
LEMMA Receives ==
    ASSUME NEW e \in End, NEW t, NEW r \in EndState, NEW p, Good(e, t, p), t.pc # "done",
           SameFlags(t, r), SameSent(t, r), SameInput(t, r), SameOutput(t, r),
           r.pc = "batch", r.tx_frame = t.tx_frame, r.told = t.told, r.taken = t.taken,
           r.una >= t.una, r.una <= p.told,
           r.got >= t.got, r.got <= p.nxt,
           ~t.fin_recved /\ p.fin_sn > 0 => r.got < p.fin_sn
    PROVE  Moves(e, t, r, p)
<1> USE DEF SameFlags, SameSent, SameInput, SameOutput
<1>0. t \in EndState /\ p \in EndState
  BY DEF Good
<1>1. /\ r.una \in Nat /\ r.got \in Nat /\ r.taken \in Nat /\ r.told \in Nat /\ r.fin_sn \in Nat
      /\ t.wr \in Nat /\ t.nxt \in Nat /\ t.told \in Nat /\ t.una \in Nat /\ t.got \in Nat /\ t.taken \in Nat
      /\ p.wr \in Nat /\ p.nxt \in Nat /\ p.una \in Nat /\ p.got \in Nat /\ p.told \in Nat
  BY <1>0, Fields
<1>2. SynFirst(e, r) /\ Accounted(r)
  BY DEF Good, EndInv, SynFirst, Accounted
<1>3. FinLast(r)
  BY <1>1 DEF Good, EndInv, FinLast
<1>4. PipeOrdered(r, p) /\ PipeOrdered(p, r)
  BY <1>1 DEF Good, LinkInv, PipeOrdered
<1>5. FinKnown(r, p) /\ FinKnown(p, r) /\ NextFrame(r, p) /\ NextFrame(p, r)
  BY DEF Good, LinkInv, FinKnown, NextFrame
<1>6. InOrder(r, p) /\ InOrder(p, r) /\ NotStranded(r)
  BY DEF Good, InOrder, NotStranded
<1>7. Forward(t, r)
  BY <1>1 DEF Forward
<1>8. QED
  BY <1>0, <1>2, <1>3, <1>4, <1>5, <1>6, <1>7 DEF Moves, Good, EndInv, LinkInv

LEMMA DataStep ==
    ASSUME NEW e \in End, Good(e, st[e], st[Peer(e)]), DataPackets(e)
    PROVE  StepOf(e)
<1> DEFINE t == st[e]
<1> DEFINE p == st[Peer(e)]
<1>0. t \in EndState /\ p \in EndState
  BY DEF Good
<1>1. PICK u \in t.una .. p.told, g \in t.got .. p.nxt : DataPacket(e, u, g)
  BY DEF DataPackets
<1> DEFINE b == t.flush \/ (HasConv(e) /\ ~(e = "server" /\ t.hs = "Syn"))
<1> DEFINE r == [t EXCEPT !.pc = "batch", !.una = u, !.got = g, !.flush = b]
<1>2. st' = [st EXCEPT ![e] = r] /\ t.pc # "done" /\ g <= OnWire(p)
  BY <1>1 DEF DataPacket, Receiving, Running
<1>3. /\ t.una \in Nat /\ p.told \in Nat /\ t.got \in Nat /\ p.nxt \in Nat /\ p.fin_sn \in Nat
      /\ u \in Nat /\ g \in Nat /\ u >= t.una /\ u <= p.told /\ g >= t.got /\ g <= p.nxt
  BY <1>0, Fields
<1>4. b \in BOOLEAN
  OBVIOUS
<1>5. p.fin_sn > 0 => g < p.fin_sn
  BY <1>2, <1>3 DEF OnWire, imin
<1> HIDE DEF b
<1>6. /\ r \in EndState /\ r.pc = "batch" /\ r.una = u /\ r.got = g
      /\ SameFlags(t, r) /\ SameSent(t, r) /\ SameInput(t, r) /\ SameOutput(t, r)
      /\ r.tx_frame = t.tx_frame /\ r.told = t.told /\ r.taken = t.taken
  BY <1>0, <1>3, <1>4 DEF EndState, SameFlags, SameSent, SameInput, SameOutput
<1> HIDE DEF r
<1>7. Moves(e, t, r, p)
  BY <1>2, <1>3, <1>5, <1>6, Receives
<1>8. QED
  BY <1>2, <1>7 DEF StepOf

\* FIN_RECVED is set; the SYN handshake ends with it.
LEMMA MarksFin ==
    ASSUME NEW e \in End, NEW t, NEW r \in EndState, NEW p, Good(e, t, p), p.fin_out,
           r.hs = (IF t.hs = "Syn" THEN "Disconnected" ELSE t.hs),
           r.fin_recved = TRUE, r.rx_closed = TRUE,
           r.input_closed = t.input_closed, r.fin_out = t.fin_out, r.fin_sn = t.fin_sn,
           SameLoop(t, r), SameSent(t, r), SameRead(t, r), SameOutput(t, r), r.told = t.told,
           r.inq = t.inq, r.tx_open = t.tx_open, r.sent = t.sent
    PROVE  Moves(e, t, r, p)
<1> USE DEF SameLoop, SameSent, SameRead, SameOutput
<1>0. t \in EndState /\ p \in EndState
  BY DEF Good
<1>2. SynFirst(e, r) /\ Accounted(r)
  BY DEF Good, EndInv, SynFirst, Accounted
<1>3. FinLast(r)
  BY DEF Good, EndInv, FinLast
<1>4. PipeOrdered(r, p) /\ PipeOrdered(p, r)
  BY DEF Good, LinkInv, PipeOrdered
<1>5. FinKnown(r, p) /\ FinKnown(p, r) /\ NextFrame(r, p) /\ NextFrame(p, r)
  BY DEF Good, LinkInv, FinKnown, NextFrame
<1>6. InOrder(r, p) /\ InOrder(p, r) /\ NotStranded(r)
  BY DEF Good, InOrder, NotStranded
<1>7. Forward(t, r)
  BY <1>0, Fields DEF Forward
<1>8. QED
  BY <1>0, <1>2, <1>3, <1>4, <1>5, <1>6, <1>7 DEF Moves, Good, EndInv, LinkInv

LEMMA FinStep ==
    ASSUME NEW e \in End, Good(e, st[e], st[Peer(e)]), FinPackets(e)
    PROVE  StepOf(e)
<1> DEFINE t == st[e]
<1> DEFINE p == st[Peer(e)]
<1>0. t \in EndState /\ p \in EndState
  BY DEF Good
<1>1. PICK u \in t.una .. p.told, room \in 0 .. SndWnd : FinPacket(e, u, room)
  BY DEF FinPackets
<1> DEFINE t1 == [t EXCEPT !.fin_recved = TRUE, !.rx_closed = TRUE]
<1> DEFINE t2 == fin_transit_state(t1, room)
<1> DEFINE fin == p.fin_sn
<1> DEFINE g == IF t2.got = fin - 1 /\ fin < WindowEnd(t2) THEN fin ELSE t2.got
<1> DEFINE t3 == [t2 EXCEPT !.una = u, !.got = g]
<1> DEFINE r == [t3 EXCEPT !.pc = "batch"]
<1>2. st' = [st EXCEPT ![e] = r] /\ t.pc # "done" /\ p.fin_out
  BY <1>1 DEF FinPacket, Receiving, Running
<1>3. /\ t.una \in Nat /\ p.told \in Nat /\ t.got \in Nat /\ p.nxt \in Nat /\ p.fin_sn \in Nat /\ p.wr \in Nat
      /\ u \in Nat /\ u >= t.una /\ u <= p.told
  BY <1>0, Fields
<1>4. Moves(e, t, t2, p) /\ t2.fin_recved = TRUE /\ SameLoop(t, t2) /\ SameRead(t, t2)
  <2>1. /\ t1 \in EndState /\ t1.fin_recved = TRUE /\ t1.rx_closed = TRUE /\ t1.hs = t.hs
        /\ t1.input_closed = t.input_closed /\ t1.fin_out = t.fin_out /\ t1.fin_sn = t.fin_sn
        /\ SameLoop(t, t1) /\ SameSent(t, t1) /\ SameRead(t, t1) /\ SameOutput(t, t1) /\ t1.told = t.told
        /\ t1.inq = t.inq /\ t1.tx_open = t.tx_open /\ t1.sent = t.sent
    BY <1>0 DEF EndState, SameLoop, SameSent, SameRead, SameOutput
  <2> HIDE DEF t1
  <2>2. CASE t.hs = "Syn"
    <3> DEFINE d == Disconnect(t1, "syn")
    <3>1. t2 = d
      BY <2>1, <2>2 DEF fin_transit_state
    <3>2. /\ d \in EndState /\ d.fin_recved = t1.fin_recved /\ d.rx_closed = t1.rx_closed /\ d.hs = "Disconnected"
          /\ d.input_closed = t1.input_closed /\ d.fin_out = t1.fin_out /\ d.fin_sn = t1.fin_sn
          /\ SameLoop(t1, d) /\ SameSent(t1, d) /\ SameRead(t1, d) /\ SameOutput(t1, d) /\ d.told = t1.told
          /\ d.inq = t1.inq /\ d.tx_open = t1.tx_open /\ d.sent = t1.sent
      BY <2>1 DEF Disconnect, EndState, Handshake, SameLoop, SameSent, SameRead, SameOutput
    <3> HIDE DEF d
    <3>3. /\ SameLoop(t, d) /\ SameSent(t, d) /\ SameRead(t, d) /\ SameOutput(t, d) /\ d.told = t.told
          /\ d.inq = t.inq /\ d.tx_open = t.tx_open /\ d.sent = t.sent
          /\ d.fin_recved = TRUE /\ d.rx_closed = TRUE
          /\ d.input_closed = t.input_closed /\ d.fin_out = t.fin_out /\ d.fin_sn = t.fin_sn
      BY <2>1, <3>2 DEF SameLoop, SameSent, SameRead, SameOutput
    <3>4. d.hs = (IF t.hs = "Syn" THEN "Disconnected" ELSE t.hs)
      BY <2>2, <3>2
    <3>5. Moves(e, t, d, p)
      BY <1>2, <3>2, <3>3, <3>4, MarksFin
    <3>6. QED
      BY <3>1, <3>3, <3>5
  <2>3. CASE t.hs # "Syn"
    <3>1. t1.hs = (IF t.hs = "Syn" THEN "Disconnected" ELSE t.hs)
      BY <2>1, <2>3
    <3>2. Moves(e, t, t1, p)
      BY <1>2, <2>1, <3>1, MarksFin
    <3>3. Moves(e, t1, t2, p) /\ t2.fin_recved = t1.fin_recved /\ SameLoop(t1, t2) /\ SameRead(t1, t2)
      BY <1>2, <2>1, <3>2, FinTransit DEF Moves, SameLoop
    <3> HIDE DEF t2
    <3>4. Moves(e, t, t2, p)
      BY <3>2, <3>3, MovesOn
    <3>5. QED
      BY <2>1, <3>3, <3>4 DEF SameLoop, SameRead
  <2>4. QED
    BY <2>2, <2>3
<1> HIDE DEF t2
<1>5. p.fin_sn > 0 /\ p.nxt = p.wr /\ p.wr = p.fin_sn
  BY <1>2 DEF Good, EndInv, FinLast
<1>6. /\ t2 \in EndState /\ t2.got = t.got /\ t2.una = t.una /\ t2.pc # "done" /\ t.got <= p.nxt
  BY <1>2, <1>4 DEF Moves, Good, LinkInv, PipeOrdered, SameLoop, SameRead
<1>7. g \in Nat /\ g >= t2.got /\ g <= p.nxt
  BY <1>3, <1>5, <1>6
<1> HIDE DEF g
<1>8. /\ t3 \in EndState /\ t3.una = u /\ t3.got = g
      /\ SameFlags(t2, t3) /\ SameSent(t2, t3) /\ SameInput(t2, t3) /\ SameOutput(t2, t3)
      /\ t3.tx_frame = t2.tx_frame /\ t3.told = t2.told /\ t3.taken = t2.taken
  BY <1>3, <1>6, <1>7 DEF EndState, SameFlags, SameSent, SameInput, SameOutput
<1> HIDE DEF t3
<1>9. /\ r \in EndState /\ r.pc = "batch" /\ r.una = t3.una /\ r.got = t3.got
      /\ SameFlags(t3, r) /\ SameSent(t3, r) /\ SameInput(t3, r) /\ SameOutput(t3, r)
      /\ r.tx_frame = t3.tx_frame /\ r.told = t3.told /\ r.taken = t3.taken
  BY <1>8 DEF EndState, SameFlags, SameSent, SameInput, SameOutput
<1> HIDE DEF r
<1>10. /\ SameFlags(t2, r) /\ SameSent(t2, r) /\ SameInput(t2, r) /\ SameOutput(t2, r)
       /\ r.tx_frame = t2.tx_frame /\ r.told = t2.told /\ r.taken = t2.taken /\ r.una = u /\ r.got = g
  BY <1>8, <1>9 DEF SameFlags, SameSent, SameInput, SameOutput
<1>11. Moves(e, t2, r, p)
  BY <1>3, <1>4, <1>6, <1>7, <1>9, <1>10, Receives DEF Moves
<1>12. Moves(e, t, r, p)
  BY <1>4, <1>11, MovesOn
<1>13. QED
  BY <1>2, <1>12 DEF StepOf

LEMMA ResetStep ==
    ASSUME NEW e \in End, Good(e, st[e], st[Peer(e)]), ResetPacket(e)
    PROVE  StepOf(e)
<1> DEFINE t == st[e]
<1> DEFINE p == st[Peer(e)]
<1> DEFINE b == [t EXCEPT !.pc = "batch"]
<1>0. t \in EndState /\ p \in EndState
  BY DEF Good
<1>1. st' = [st EXCEPT ![e] = Disconnect(b, "reset")] /\ t.pc # "done"
  BY DEF ResetPacket, Receiving, Running
<1>2. /\ b \in EndState /\ b.pc = "batch" /\ SameRead(t, b)
      /\ SameFlags(t, b) /\ SameSent(t, b) /\ SameInput(t, b) /\ SameOutput(t, b)
      /\ b.tx_frame = t.tx_frame /\ b.told = t.told
  BY <1>0 DEF EndState, SameFlags, SameSent, SameInput, SameOutput, SameRead
<1> HIDE DEF b
<1>3. /\ t.una \in Nat /\ t.got \in Nat /\ t.una <= p.told /\ t.got <= p.nxt
      /\ ~t.fin_recved /\ p.fin_sn > 0 => t.got < p.fin_sn
  BY <1>0, Fields DEF Good, LinkInv, PipeOrdered, FinKnown
<1>4. Moves(e, t, b, p)
  BY <1>1, <1>2, <1>3, Receives DEF SameRead
<1>5. Moves(e, b, Disconnect(b, "reset"), p)
  BY <1>4, Disconnects DEF Moves, Reasons
<1>6. Moves(e, t, Disconnect(b, "reset"), p)
  BY <1>4, <1>5, MovesOn
<1>7. QED
  BY <1>1, <1>6 DEF StepOf

-----------------------------------------------------------------------------
(***************************************************************************)
(* After the packets.                                                       *)
(***************************************************************************)
\* What kcp_recv does when the peer has not sent its FIN, or more is left.
LEMMA NotTheFin ==
    ASSUME NEW e \in End, NEW t, NEW p, Good(e, t, p),
           NEW n \in Nat, n > t.taken, n <= t.got, t.fin_recved => n < t.got
    PROVE  n <= p.sent + 1
<1>0. /\ p.wr \in Nat /\ p.nxt \in Nat /\ p.fin_sn \in Nat /\ p.sent \in Nat
      /\ t.got \in Nat /\ t.taken \in Nat
  BY Fields DEF Good
<1>1. t.got <= p.nxt /\ p.nxt <= p.wr
  BY DEF Good, LinkInv, PipeOrdered
<1>2. CASE p.fin_sn = 0
  <2>1. p.wr <= p.sent + 1
    BY <1>2 DEF Good, EndInv, Accounted
  <2>2. QED
    BY <1>0, <1>1, <2>1
<1>3. CASE p.fin_sn > 0
  <2>1. p.wr = p.fin_sn /\ p.fin_sn = p.sent + 2
    BY <1>3 DEF Good, EndInv, FinLast
  <2>2. ~t.fin_recved => t.got < p.fin_sn
    BY <1>3 DEF Good, LinkInv, FinKnown
  <2>3. n < p.fin_sn
    BY <1>0, <1>1, <2>1, <2>2
  <2>4. QED
    BY <1>0, <2>1, <2>3
<1>4. QED
  BY <1>0, <1>2, <1>3

\* A frame, or none, is read and waits for the output channel.
LEMMA Reads ==
    ASSUME NEW e \in End, NEW t, NEW r \in EndState, NEW p, Good(e, t, p), t.pc = "batch",
           SameFlags(t, r), SameSent(t, r), SameInput(t, r), SameOutput(t, r),
           r.pc = "select", r.told = t.told, r.una = t.una, r.got = t.got,
           \/ /\ t.tx_frame # 0 /\ r.tx_frame = t.tx_frame /\ r.taken = t.taken
           \/ /\ t.tx_frame = 0 /\ t.taken = t.got /\ r.tx_frame = 0 /\ r.taken = t.taken
           \/ /\ t.tx_frame = 0 /\ t.hs # "Syn" /\ t.taken < t.got
              /\ r.taken = t.taken + 1
              /\ r.tx_frame = IF t.fin_recved /\ t.got = t.taken + 1 THEN 0 ELSE t.taken + 1
    PROVE  Moves(e, t, r, p)
<1> USE DEF SameFlags, SameSent, SameInput, SameOutput
<1>0. t \in EndState /\ p \in EndState
  BY DEF Good
<1>1. /\ t.una \in Nat /\ t.got \in Nat /\ t.taken \in Nat /\ t.told \in Nat /\ t.tx_frame \in Nat
      /\ t.wr \in Nat /\ t.nxt \in Nat /\ Len(t.seen) \in Nat /\ r.taken \in Nat
      /\ p.wr \in Nat /\ p.nxt \in Nat /\ p.una \in Nat /\ p.got \in Nat /\ p.told \in Nat
      /\ p.fin_sn \in Nat /\ p.sent \in Nat
  BY <1>0, Fields
<1>2. SynFirst(e, r)
  BY DEF Good, EndInv, SynFirst
<1>3. Accounted(r) /\ FinLast(r)
  BY <1>1 DEF Good, EndInv, Accounted, FinLast
<1>4. PipeOrdered(r, p) /\ PipeOrdered(p, r)
  BY <1>1 DEF Good, LinkInv, PipeOrdered
<1>5. FinKnown(r, p) /\ FinKnown(p, r) /\ NextFrame(p, r)
  BY DEF Good, LinkInv, FinKnown, NextFrame
<1>6. NextFrame(r, p)
  <2>1. CASE r.tx_frame = t.tx_frame /\ r.taken = t.taken
    BY <2>1 DEF Good, LinkInv, NextFrame
  <2>2. CASE t.hs # "Syn" /\ t.tx_frame = 0 /\ t.taken < t.got /\ t.fin_recved /\ t.got = t.taken + 1
              /\ r.tx_frame = 0 /\ r.taken = t.taken + 1
    <3>1. t.got + 1 >= p.fin_sn
      <4>1. p.fin_out
        BY <2>2 DEF Good, LinkInv, FinKnown
      <4>2. p.una + 1 >= p.fin_sn
        BY <4>1 DEF Good, EndInv, FinLast
      <4>3. p.una <= t.got
        BY <1>1 DEF Good, LinkInv, PipeOrdered
      <4>4. QED
        BY <1>1, <4>2, <4>3
    <3>2. r.fin_recved /\ r.taken + 1 >= p.fin_sn
      BY <2>2, <3>1
    <3>3. QED
      BY <2>2, <3>2 DEF NextFrame
  <2>3. CASE t.hs # "Syn" /\ t.tx_frame = 0 /\ t.taken < t.got /\ ~(t.fin_recved /\ t.got = t.taken + 1)
              /\ r.tx_frame = t.taken + 1 /\ r.taken = t.taken + 1
    <3>1. r.tx_frame <= p.sent + 1
      <4>1. t.taken + 1 \in Nat /\ t.taken + 1 > t.taken /\ t.taken + 1 <= t.got
        BY <1>1, <2>3
      <4>2. t.fin_recved => t.taken + 1 < t.got
        BY <1>1, <2>3
      <4>3. t.taken + 1 <= p.sent + 1
        BY <4>1, <4>2, NotTheFin
      <4>4. QED
        BY <2>3, <4>3
    <3>2. t.hs # "Disconnected" => t.taken = Len(t.seen) + 1
      <4>1. t.fin_recved => t.taken + 1 < p.fin_sn
        <5>1. t.fin_recved => t.taken + 1 < t.got
          BY <1>1, <2>3
        <5>2. t.fin_recved => p.wr = p.fin_sn
          BY DEF Good, LinkInv, FinKnown, EndInv, FinLast
        <5>3. t.got <= p.wr
          BY <1>1 DEF Good, LinkInv, PipeOrdered
        <5>4. QED
          BY <1>1, <5>1, <5>2, <5>3
      <4>2. t.fin_recved => ~(t.taken + 1 >= p.fin_sn)
        BY <1>1, <4>1
      <4>3. QED
        BY <2>3, <4>2 DEF Good, LinkInv, NextFrame
    <3>3. r.hs # "Disconnected" => r.tx_frame = Len(r.seen) + 2 /\ r.taken = r.tx_frame
      BY <1>1, <2>3, <3>2
    <3>4. r.tx_frame # 0
      BY <1>1, <2>3
    <3>5. QED
      BY <3>1, <3>3, <3>4 DEF NextFrame
  <2>4. QED
    BY <1>1, <2>1, <2>2, <2>3
<1>7. InOrder(r, p) /\ InOrder(p, r)
  BY DEF Good, InOrder
<1>8. NotStranded(r)
  BY <1>1 DEF NotStranded
<1>9. Forward(t, r)
  <2>1. r.taken >= t.taken
    BY <1>1
  <2>2. QED
    BY <1>1, <2>1 DEF Forward
<1>10. QED
  BY <1>0, <1>2, <1>3, <1>4, <1>5, <1>6, <1>7, <1>8, <1>9 DEF Moves, Good, EndInv, LinkInv

\* The SYN frame of the peer is read.
LEMMA ReadsSyn ==
    ASSUME NEW e \in End, NEW t, NEW r \in EndState, NEW p, Good(e, t, p),
           t.pc = "batch", t.hs = "Syn", t.got > 0,
           r.hs = "Disconnected" \/ (r.hs = "Connected" /\ r.wr = 1),
           r.fin_recved = t.fin_recved, r.input_closed = t.input_closed,
           r.fin_out = t.fin_out, r.fin_sn = t.fin_sn,
           SameLoop(t, r), SameInput(t, r), r.app = t.app, r.seen = t.seen,
           r.out = IF r.hs = "Connected" THEN 1 ELSE 0,
           r.una = t.una, r.got = t.got, r.taken = 1,
           r.wr = t.wr \/ r.wr = 1, r.nxt >= t.nxt, r.nxt <= r.wr, r.told = t.told \/ r.told = t.got
    PROVE  Moves(e, t, r, p)
<1> USE DEF SameLoop, SameInput
<1>0. t \in EndState /\ p \in EndState
  BY DEF Good
<1>1. /\ t.una \in Nat /\ t.got \in Nat /\ t.taken \in Nat /\ t.told \in Nat
      /\ t.wr \in Nat /\ t.nxt \in Nat /\ t.inq \in Nat /\ t.sent \in Nat
      /\ r.wr \in Nat /\ r.nxt \in Nat /\ r.told \in Nat
      /\ p.wr \in Nat /\ p.nxt \in Nat /\ p.una \in Nat /\ p.got \in Nat /\ p.told \in Nat
  BY <1>0, Fields
<1>2. /\ t.wr = 0 \/ t.wr = 1
      /\ t.out = 0 /\ t.app # "open" /\ t.taken = 0 /\ t.sent = 0 /\ t.seen = << >>
      /\ t.tx_frame = 0 /\ t.fin_sn = 0
      /\ t.wr = 0 => t.inq = 0
  BY DEF Good, EndInv, SynFirst
<1>3. SynFirst(e, r)
  BY <1>1, <1>2 DEF SynFirst
<1>4. Accounted(r)
  <2>1. t.wr > 0 => t.wr + t.inq = t.sent + 1
    BY <1>2 DEF Good, EndInv, Accounted
  <2>2. r.wr <= r.sent + 1
    BY <1>1, <1>2
  <2>3. r.wr > 0 => r.wr + r.inq = r.sent + 1
    BY <1>1, <1>2, <2>1
  <2>4. Len(r.seen) = 0
    BY <1>2
  <2>5. QED
    BY <2>2, <2>3, <2>4 DEF Accounted, Good, EndInv
<1>5. FinLast(r)
  BY <1>2 DEF Good, EndInv, FinLast
<1>6. PipeOrdered(r, p) /\ PipeOrdered(p, r)
  BY <1>1 DEF Good, LinkInv, PipeOrdered
<1>7. FinKnown(r, p) /\ FinKnown(p, r) /\ NextFrame(p, r)
  BY DEF Good, LinkInv, FinKnown, NextFrame
<1>8. NextFrame(r, p)
  <2>1. Len(r.seen) = 0
    BY <1>2
  <2>2. QED
    BY <1>2, <2>1 DEF NextFrame
<1>9. InOrder(r, p) /\ InOrder(p, r)
  BY DEF Good, InOrder
<1>10. NotStranded(r)
  BY DEF NotStranded
<1>11. Forward(t, r)
  BY <1>1, <1>2 DEF Forward
<1>12. QED
  BY <1>0, <1>3, <1>4, <1>5, <1>6, <1>7, <1>8, <1>9, <1>10, <1>11 DEF Moves, Good, EndInv, LinkInv

LEMMA SynRecv ==
    ASSUME NEW e \in End, NEW t, NEW p, Good(e, t, p), t.pc = "batch", t.hs = "Syn",
           NEW valid \in BOOLEAN, NEW room \in 0 .. SndWnd
    PROVE  LET r == syn_handshake_recv(e, t, valid, room)
           IN  /\ Moves(e, t, r, p) /\ SameLoop(t, r)
               /\ r.hs = "Syn" => r.taken = r.got
<1>0. /\ t \in EndState /\ t.got \in Nat /\ t.taken = 0 /\ ~t.fin_recved /\ t.tx_frame = 0 /\ t.out = 0
      /\ t.wr \in Nat /\ t.nxt \in Nat /\ t.nxt <= t.wr
  BY Fields DEF Good, EndInv, SynFirst, LinkInv, PipeOrdered
<1> DEFINE k == [t EXCEPT !.taken = @ + 1]
<1> DEFINE w == [k EXCEPT !.flush = TRUE, !.wr = @ + 1]
<1>1. CASE t.got = 0
  <2>1. kcp_recv(t) = [t |-> t, frame |-> 0]
    BY <1>0, <1>1 DEF kcp_recv, nrcv
  <2>2. syn_handshake_recv(e, t, valid, room) = t
    BY <2>1 DEF syn_handshake_recv
  <2>3. QED
    BY <1>0, <1>1, <2>2, MovesNot DEF SameLoop
<1>2. CASE t.got > 0
  <2>1. kcp_recv(t) = [t |-> k, frame |-> 1]
    BY <1>0, <1>2 DEF kcp_recv, nrcv
  <2>2. /\ k \in EndState /\ SameFlags(t, k) /\ SameLoop(t, k) /\ SameSent(t, k) /\ SameInput(t, k)
        /\ SameOutput(t, k) /\ k.una = t.una /\ k.got = t.got /\ k.taken = 1 /\ k.told = t.told
    <3>1. t.taken + 1 = 1 /\ t \in EndState
      BY <1>0
    <3>2. k = [t EXCEPT !.taken = 1]
      BY <3>1
    <3> HIDE DEF k
    <3>3. QED
      BY <3>1, <3>2 DEF EndState, SameFlags, SameLoop, SameSent, SameInput, SameOutput
  <2> HIDE DEF k
  <2> DEFINE s == handshake_send(k, room)
  <2> DEFINE t1 == IF e = "client" THEN k ELSE s
  <2>3. syn_handshake_recv(e, t, valid, room) =
          IF ~valid THEN Disconnect(k, "syn")
          ELSE IF t.out_open THEN [t1 EXCEPT !.hs = "Connected", !.out = @ + 1]
          ELSE Disconnect(t1, "syn")
    BY <2>1 DEF syn_handshake_recv
  <2>4. /\ t1 \in EndState /\ SameFlags(t, t1) /\ SameLoop(t, t1) /\ SameInput(t, t1) /\ SameOutput(t, t1)
        /\ t1.una = t.una /\ t1.got = t.got /\ t1.taken = 1 /\ t1.wr = 1
        /\ t1.nxt >= t.nxt /\ t1.nxt <= t1.wr /\ (t1.told = t.told \/ t1.told = t.got)
    <3>1. CASE e = "client"
      <4>1. t.wr = 1
        BY <3>1 DEF Good, EndInv, SynFirst
      <4>2. t1 = k
        BY <3>1
      <4> HIDE DEF t1
      <4>3. QED
        BY <1>0, <2>2, <4>1, <4>2 DEF SameSent
    <3>2. CASE e # "client"
      <4>1. t.wr = 0 /\ k.wr = 0 /\ k.nxt = t.nxt
        BY <2>2, <3>2 DEF Good, EndInv, SynFirst, SameSent
      <4>2. /\ w \in EndState /\ SameFlags(k, w) /\ SameLoop(k, w) /\ SameInput(k, w) /\ SameOutput(k, w)
            /\ SameRead(k, w) /\ w.told = k.told /\ w.wr = k.wr + 1 /\ w.nxt = k.nxt
        <5>1. k \in EndState /\ k.wr + 1 = 1 /\ w = [k EXCEPT !.flush = TRUE, !.wr = 1]
          BY <2>2, <4>1
        <5> HIDE DEF w
        <5>2. QED
          BY <5>1 DEF EndState, SameFlags, SameLoop, SameInput, SameOutput, SameRead
      <4>3. t1 = kcp_flush(w, room)
        BY <3>2 DEF handshake_send
      <4> HIDE DEF w, t1
      <4>4. FlushOf(w, t1)
        BY <1>0, <4>1, <4>2, <4>3, TaskFlushShape
      <4>5. /\ SameFlags(t, t1) /\ SameLoop(t, t1) /\ SameInput(t, t1) /\ SameOutput(t, t1)
            /\ t1.una = t.una /\ t1.got = t.got /\ t1.taken = 1
        BY <2>2, <4>2, <4>4 DEF FlushOf, SameFlags, SameLoop, SameInput, SameOutput, SameRead
      <4>6. t1 \in EndState /\ t1.wr = 1 /\ t1.nxt >= t.nxt /\ t1.nxt <= t1.wr
        BY <4>1, <4>2, <4>4 DEF FlushOf
      <4>7. t1.told = t.told \/ t1.told = t.got
        BY <2>2, <4>2, <4>4 DEF FlushOf, SameRead
      <4>8. QED
        BY <4>5, <4>6, <4>7
    <3>3. QED
      BY <3>1, <3>2
  <2> HIDE DEF t1
  <2>5. CASE ~valid
    <3> DEFINE d == Disconnect(k, "syn")
    <3>1. /\ d \in EndState /\ d.hs = "Disconnected" /\ d.fin_recved = k.fin_recved
          /\ d.input_closed = k.input_closed /\ d.fin_out = k.fin_out /\ d.fin_sn = k.fin_sn
          /\ SameLoop(k, d) /\ SameInput(k, d) /\ SameOutput(k, d) /\ SameSent(k, d) /\ SameRead(k, d)
          /\ d.told = k.told
      BY <2>2 DEF Disconnect, EndState, Handshake, SameLoop, SameInput, SameOutput, SameSent, SameRead
    <3> HIDE DEF d
    <3>2. /\ d.fin_recved = t.fin_recved /\ d.input_closed = t.input_closed
          /\ d.fin_out = t.fin_out /\ d.fin_sn = t.fin_sn
          /\ SameLoop(t, d) /\ SameInput(t, d) /\ d.app = t.app /\ d.seen = t.seen
          /\ d.una = t.una /\ d.got = t.got /\ d.taken = 1 /\ d.wr = t.wr /\ d.nxt = t.nxt /\ d.told = t.told
      BY <2>2, <3>1 DEF SameFlags, SameLoop, SameInput, SameOutput, SameSent, SameRead
    <3>3. d.out = IF d.hs = "Connected" THEN 1 ELSE 0
      BY <1>0, <2>2, <3>1 DEF SameOutput
    <3>4. d.nxt >= t.nxt /\ d.nxt <= d.wr
      BY <1>0, <3>2
    <3>5. Moves(e, t, d, p)
      BY <1>2, <3>1, <3>2, <3>3, <3>4, ReadsSyn
    <3>6. syn_handshake_recv(e, t, valid, room) = d
      BY <2>3, <2>5 DEF d
    <3>7. QED
      BY <3>1, <3>2, <3>5, <3>6
  <2>6. CASE valid /\ t.out_open
    <3> DEFINE d == [t1 EXCEPT !.hs = "Connected", !.out = @ + 1]
    <3>1. t1.out + 1 = 1 /\ 1 \in 0 .. OutCap
      BY <1>0, <2>4, StreamAssumption DEF SameOutput
    <3>2. /\ d \in EndState /\ d.hs = "Connected" /\ d.fin_recved = t1.fin_recved
          /\ d.input_closed = t1.input_closed /\ d.fin_out = t1.fin_out /\ d.fin_sn = t1.fin_sn
          /\ SameLoop(t1, d) /\ SameInput(t1, d) /\ d.app = t1.app /\ d.seen = t1.seen /\ d.out = 1
          /\ SameSent(t1, d) /\ SameRead(t1, d) /\ d.told = t1.told
      BY <2>4, <3>1 DEF EndState, Handshake, SameLoop, SameInput, SameSent, SameRead
    <3> HIDE DEF d
    <3>3. /\ d.fin_recved = t.fin_recved /\ d.input_closed = t.input_closed
          /\ d.fin_out = t.fin_out /\ d.fin_sn = t.fin_sn
          /\ SameLoop(t, d) /\ SameInput(t, d) /\ d.app = t.app /\ d.seen = t.seen
          /\ d.una = t.una /\ d.got = t.got /\ d.taken = 1 /\ d.wr = 1 /\ d.nxt = t1.nxt /\ d.told = t1.told
      BY <2>4, <3>2 DEF SameFlags, SameLoop, SameInput, SameOutput, SameSent, SameRead
    <3>4. d.out = IF d.hs = "Connected" THEN 1 ELSE 0
      BY <3>2
    <3>5. d.nxt >= t.nxt /\ d.nxt <= d.wr /\ (d.told = t.told \/ d.told = t.got)
      BY <2>4, <3>3
    <3>6. Moves(e, t, d, p)
      BY <1>2, <3>2, <3>3, <3>4, <3>5, ReadsSyn
    <3>7. syn_handshake_recv(e, t, valid, room) = d
      BY <2>3, <2>6 DEF d
    <3>8. QED
      BY <3>2, <3>3, <3>6, <3>7
  <2>7. CASE valid /\ ~t.out_open
    <3> DEFINE d == Disconnect(t1, "syn")
    <3>1. /\ d \in EndState /\ d.hs = "Disconnected" /\ d.fin_recved = t1.fin_recved
          /\ d.input_closed = t1.input_closed /\ d.fin_out = t1.fin_out /\ d.fin_sn = t1.fin_sn
          /\ SameLoop(t1, d) /\ SameInput(t1, d) /\ SameOutput(t1, d) /\ SameSent(t1, d) /\ SameRead(t1, d)
          /\ d.told = t1.told
      BY <2>4 DEF Disconnect, EndState, Handshake, SameLoop, SameInput, SameOutput, SameSent, SameRead
    <3> HIDE DEF d
    <3>2. /\ d.fin_recved = t.fin_recved /\ d.input_closed = t.input_closed
          /\ d.fin_out = t.fin_out /\ d.fin_sn = t.fin_sn
          /\ SameLoop(t, d) /\ SameInput(t, d) /\ d.app = t.app /\ d.seen = t.seen
          /\ d.una = t.una /\ d.got = t.got /\ d.taken = 1 /\ d.wr = 1 /\ d.nxt = t1.nxt /\ d.told = t1.told
      BY <2>4, <3>1 DEF SameFlags, SameLoop, SameInput, SameOutput, SameSent, SameRead
    <3>3. d.out = IF d.hs = "Connected" THEN 1 ELSE 0
      BY <1>0, <2>4, <3>1 DEF SameOutput
    <3>4. d.nxt >= t.nxt /\ d.nxt <= d.wr /\ (d.told = t.told \/ d.told = t.got)
      BY <2>4, <3>2
    <3>5. Moves(e, t, d, p)
      BY <1>2, <3>1, <3>2, <3>3, <3>4, ReadsSyn
    <3>6. syn_handshake_recv(e, t, valid, room) = d
      BY <2>3, <2>7 DEF d
    <3>7. QED
      BY <3>1, <3>2, <3>5, <3>6
  <2>8. QED
    BY <2>5, <2>6, <2>7
<1>3. QED
  BY <1>0, <1>1, <1>2

LEMMA AfterStep ==
    ASSUME NEW e \in End, NEW valid \in BOOLEAN, NEW room \in 0 .. SndWnd,
           Good(e, st[e], st[Peer(e)]), AfterPackets(e, valid, room)
    PROVE  StepOf(e)
<1> DEFINE t == st[e]
<1> DEFINE p == st[Peer(e)]
<1> DEFINE t1 == IF t.hs = "Syn" THEN syn_handshake_recv(e, t, valid, room)
                 ELSE IF is_fin_handshake(t) THEN fin_transit_state(t, room) ELSE t
<1> DEFINE f == IF Fetches(t1) THEN kcp_recv(t1) ELSE [t |-> t1, frame |-> t1.tx_frame]
<1> DEFINE r == [f.t EXCEPT !.pc = "select", !.tx_frame = f.frame]
<1>1. t.pc = "batch" /\ kcp_output(e, kcp_flush(r, room))
  BY DEF AfterPackets
<1>2. /\ Moves(e, t, t1, p) /\ t1.pc = "batch"
      /\ t1.hs = "Syn" => t1.taken = t1.got
  <2>1. CASE t.hs = "Syn"
    BY <1>1, <2>1, SynRecv DEF SameLoop
  <2>2. CASE t.hs # "Syn" /\ is_fin_handshake(t)
    <3>1. t1 = fin_transit_state(t, room)
      BY <2>2
    <3>2. Moves(e, t, t1, p) /\ SameLoop(t, t1) /\ t1.fin_recved = t.fin_recved
      BY <1>1, <3>1, FinTransit
    <3> HIDE DEF t1
    <3>3. t1.hs # "Syn"
      <4>1. t1.taken >= t.taken /\ t.taken \in Nat /\ Len(t.seen) \in Nat /\ t.tx_frame \in Nat
        BY <3>2, Fields DEF Moves, Good, Forward
      <4>2. t.taken > 0 \/ t.fin_recved
        BY <1>1, <2>2, <4>1 DEF Good, LinkInv, NextFrame, is_fin_handshake
      <4>3. t1.hs = "Syn" => t1.taken = 0 /\ ~t1.fin_recved
        BY <3>2 DEF Moves, Good, EndInv, SynFirst
      <4>4. QED
        BY <3>2, <4>1, <4>2, <4>3
    <3>4. QED
      BY <1>1, <3>2, <3>3 DEF SameLoop
  <2>3. CASE t.hs # "Syn" /\ ~is_fin_handshake(t)
    BY <1>1, <2>3, MovesNot
  <2>4. QED
    BY <2>1, <2>2, <2>3
<1> HIDE DEF t1
<1>3. t1 \in EndState /\ t1.got \in Nat /\ t1.taken \in Nat /\ t1.taken <= t1.got
  BY <1>2, Fields DEF Moves, Good, LinkInv, PipeOrdered
<1>4. Moves(e, t1, r, p)
  <2> DEFINE k == [t1 EXCEPT !.taken = @ + 1]
  <2>1. CASE ~Fetches(t1) \/ t1.taken = t1.got
    <3>1. r = [t1 EXCEPT !.pc = "select", !.tx_frame = t1.tx_frame]
      <4>1. CASE ~Fetches(t1)
        <5>1. f = [t |-> t1, frame |-> t1.tx_frame]
          BY <4>1
        <5> HIDE DEF f
        <5>2. QED
          BY <5>1
      <4>2. CASE Fetches(t1) /\ t1.taken = t1.got
        <5>1. f = [t |-> t1, frame |-> 0] /\ t1.tx_frame = 0
          BY <1>3, <4>2 DEF Fetches, kcp_recv, nrcv
        <5> HIDE DEF f
        <5>2. QED
          BY <5>1
      <4>3. QED
        BY <2>1, <4>1, <4>2
    <3>2. /\ r \in EndState
          /\ SameFlags(t1, r) /\ SameSent(t1, r) /\ SameInput(t1, r) /\ SameOutput(t1, r)
          /\ r.pc = "select" /\ r.told = t1.told /\ SameRead(t1, r) /\ r.tx_frame = t1.tx_frame
      BY <1>3, <3>1 DEF EndState, SameFlags, SameSent, SameInput, SameOutput, SameRead
    <3> HIDE DEF r
    <3>3. /\ r.una = t1.una /\ r.got = t1.got /\ r.taken = t1.taken
          /\ t1.tx_frame # 0 \/ (t1.tx_frame = 0 /\ t1.taken = t1.got)
      BY <2>1, <3>2 DEF SameRead, Fetches
    <3>4. QED
      BY <1>2, <3>2, <3>3, Reads DEF Moves
  <2>2. CASE Fetches(t1) /\ t1.taken # t1.got
    <3> DEFINE n == IF t1.fin_recved /\ t1.got = t1.taken + 1 THEN 0 ELSE t1.taken + 1
    <3>1. t1.taken < t1.got /\ t1.taken + 1 \in Nat /\ n \in Nat /\ t1.tx_frame = 0
      BY <1>3, <2>2 DEF Fetches
    <3>2. kcp_recv(t1) = [t |-> k, frame |-> n]
      BY <1>3, <2>2 DEF kcp_recv, nrcv
    <3>3. r = [k EXCEPT !.pc = "select", !.tx_frame = n]
      <4>1. f = [t |-> k, frame |-> n]
        BY <2>2, <3>2
      <4> HIDE DEF f, k, n
      <4>2. QED
        BY <4>1
    <3> HIDE DEF n
    <3>4. /\ k \in EndState
          /\ SameFlags(t1, k) /\ SameSent(t1, k) /\ SameInput(t1, k) /\ SameOutput(t1, k)
          /\ k.told = t1.told /\ k.una = t1.una /\ k.got = t1.got /\ k.taken = t1.taken + 1
      BY <1>3, <3>1 DEF EndState, SameFlags, SameSent, SameInput, SameOutput
    <3> HIDE DEF k, r
    <3>5. /\ r \in EndState
          /\ SameFlags(k, r) /\ SameSent(k, r) /\ SameInput(k, r) /\ SameOutput(k, r)
          /\ r.pc = "select" /\ r.told = k.told /\ SameRead(k, r) /\ r.tx_frame = n
      BY <3>1, <3>3, <3>4 DEF EndState, SameFlags, SameSent, SameInput, SameOutput, SameRead
    <3>6. /\ SameFlags(t1, r) /\ SameSent(t1, r) /\ SameInput(t1, r) /\ SameOutput(t1, r)
          /\ r.told = t1.told /\ r.una = t1.una /\ r.got = t1.got /\ r.taken = t1.taken + 1
      BY <3>4, <3>5 DEF SameFlags, SameSent, SameInput, SameOutput, SameRead
    <3>7. t1.hs # "Syn"
      BY <1>2, <2>2
    <3>8. QED
      BY <1>2, <3>1, <3>5, <3>6, <3>7, Reads DEF Moves, n
  <2>3. QED
    BY <2>1, <2>2
<1> HIDE DEF r
<1>5. Moves(e, t, r, p)
  BY <1>2, <1>4, MovesOn
<1>6. Moves(e, t, kcp_flush(r, room), p)
  <2>1. Moves(e, r, kcp_flush(r, room), p)
    BY <1>5, TaskFlush DEF Moves
  <2>2. QED
    BY <1>5, <2>1, MovesOn
<1>7. QED
  BY <1>1, <1>6, Outputs

-----------------------------------------------------------------------------
(***************************************************************************)
(* The branch of output_tx.                                                 *)
(***************************************************************************)
\* n + 1 frames have gone to the channel, and the next, or none, waits.
Handed(t, r) ==
    \E n \in Nat :
        /\ t.taken + n <= t.got
        /\ t.fin_recved /\ n > 0 => t.taken + n < t.got
        /\ Len(r.seen) = Len(t.seen) + 1 + n
        /\ \/ /\ r.tx_frame = t.taken + n + 1 /\ r.taken = t.taken + n + 1
              /\ r.taken <= t.got /\ (t.fin_recved => r.taken < t.got)
           \/ /\ r.tx_frame = 0 /\ r.taken = t.got
              /\ t.fin_recved \/ t.got = t.taken + n

Recorded(r) == \A i \in DOMAIN r.seen : r.seen[i] = i + 1

Handing(t) == t.pc = "select" /\ t.hs # "Disconnected" /\ t.tx_frame # 0

SameRest(t, r) ==
    /\ SameFlags(t, r) /\ SameSent(t, r) /\ SameInput(t, r)
    /\ r.pc = t.pc /\ r.told = t.told /\ r.una = t.una /\ r.got = t.got /\ r.app = t.app

LEMMA HandsOver ==
    ASSUME NEW e \in End, NEW t, NEW r \in EndState, NEW p, Good(e, t, p), Handing(t),
           SameRest(t, r), Handed(t, r), Recorded(r)
    PROVE  Moves(e, t, r, p)
<1>0. t \in EndState /\ p \in EndState
  BY DEF Good
<1>1. /\ t.una \in Nat /\ t.got \in Nat /\ t.taken \in Nat /\ t.told \in Nat /\ t.tx_frame \in Nat
      /\ t.wr \in Nat /\ t.nxt \in Nat /\ Len(t.seen) \in Nat /\ r.taken \in Nat /\ r.tx_frame \in Nat
      /\ p.wr \in Nat /\ p.nxt \in Nat /\ p.una \in Nat /\ p.got \in Nat /\ p.told \in Nat
      /\ p.fin_sn \in Nat /\ p.sent \in Nat
  BY <1>0, Fields
<1>2. t.hs # "Syn" /\ t.wr > 0
  BY <1>1 DEF Good, EndInv, SynFirst, Handing
<1>3. t.tx_frame = Len(t.seen) + 2 /\ t.taken = t.tx_frame /\ t.tx_frame <= p.sent + 1 /\ t.taken <= t.got
  BY <1>2 DEF Good, LinkInv, NextFrame, PipeOrdered, Handing
<1>4. /\ r.wr = t.wr /\ r.nxt = t.nxt /\ r.una = t.una /\ r.got = t.got /\ r.told = t.told
      /\ r.hs = t.hs /\ r.fin_sn = t.fin_sn /\ r.sent = t.sent
  BY DEF SameRest, SameFlags, SameSent, SameInput
<1>5. SynFirst(e, r)
  BY <1>2, <1>4 DEF SynFirst
<1>6a. PICK n \in Nat :
        /\ t.taken + n <= t.got
        /\ t.fin_recved /\ n > 0 => t.taken + n < t.got
        /\ Len(r.seen) = Len(t.seen) + 1 + n
        /\ \/ /\ r.tx_frame = t.taken + n + 1 /\ r.taken = t.taken + n + 1
              /\ r.taken <= t.got /\ (t.fin_recved => r.taken < t.got)
           \/ /\ r.tx_frame = 0 /\ r.taken = t.got
              /\ t.fin_recved \/ t.got = t.taken + n
  BY DEF Handed
<1>6. Accounted(r) /\ FinLast(r)
  <2>1. r.taken >= t.taken + n
    BY <1>1, <1>6a
  <2>2. Len(r.seen) < r.taken
    BY <1>1, <1>3, <1>6a, <2>1
  <2>3. QED
    BY <2>2 DEF Good, EndInv, Accounted, FinLast, SameRest, SameFlags, SameSent, SameInput
<1>7. r.taken <= t.got /\ r.taken >= t.taken
  <2>1. /\ t.taken + n <= t.got
        /\ (r.taken = t.taken + n + 1 /\ r.taken <= t.got) \/ r.taken = t.got
    BY <1>6a
  <2>2. t.taken \in Nat /\ t.got \in Nat
    BY <1>1
  <2>3. QED
    BY <2>1, <2>2
<1>8. PipeOrdered(r, p) /\ PipeOrdered(p, r)
  BY <1>1, <1>4, <1>7 DEF Good, LinkInv, PipeOrdered
<1>9. FinKnown(r, p) /\ FinKnown(p, r) /\ NextFrame(p, r)
  BY DEF Good, LinkInv, FinKnown, NextFrame, SameRest, SameFlags, SameInput
<1>10. NextFrame(r, p)
  <2>1. Len(r.seen) = Len(t.seen) + 1 + n
    BY <1>6a
  <2>2. CASE r.tx_frame = t.taken + n + 1 /\ r.taken = t.taken + n + 1
              /\ r.taken <= t.got /\ (t.fin_recved => r.taken < t.got)
    <3>1. r.taken > t.taken
      BY <1>1, <2>2
    <3>2. r.taken <= p.sent + 1
      BY <1>1, <2>2, <3>1, NotTheFin
    <3>3. r.tx_frame <= p.sent + 1 /\ r.tx_frame = Len(r.seen) + 2 /\ r.taken = r.tx_frame /\ r.tx_frame # 0
      BY <1>1, <1>3, <2>1, <2>2, <3>2
    <3>4. QED
      BY <3>3 DEF NextFrame
  <2>3. CASE r.tx_frame = 0 /\ r.taken = t.got /\ t.got = t.taken + n
    <3>1. r.taken = Len(r.seen) + 1
      BY <1>1, <1>3, <2>1, <2>3
    <3>2. QED
      BY <2>3, <3>1 DEF NextFrame
  <2>4. CASE r.tx_frame = 0 /\ r.taken = t.got /\ t.fin_recved
    <3>1. p.fin_out
      BY <2>4 DEF Good, LinkInv, FinKnown
    <3>2. p.una + 1 >= p.fin_sn
      BY <3>1 DEF Good, EndInv, FinLast
    <3>3. p.una <= t.got
      BY <1>1 DEF Good, LinkInv, PipeOrdered
    <3>4. r.taken + 1 >= p.fin_sn
      BY <1>1, <2>4, <3>2, <3>3
    <3>5. r.fin_recved
      BY <2>4 DEF SameRest, SameFlags
    <3>6. QED
      BY <2>4, <3>4, <3>5 DEF NextFrame
  <2>5. QED
    BY <1>6a, <2>2, <2>3, <2>4
<1>11. InOrder(r, p) /\ InOrder(p, r)
  <2>1. Len(r.seen) = Len(t.seen) + 1 + n
    BY <1>6a
  <2>2. t.taken + n <= p.sent + 1
    <3>1. CASE n = 0
      BY <1>1, <1>3, <3>1
    <3>2. CASE n > 0
      <4>1. t.taken + n \in Nat /\ t.taken + n > t.taken
        <5>1. t.taken \in Nat
          BY <1>1
        <5>2. QED
          BY <3>2, <5>1
      <4>2. t.taken + n <= t.got /\ (t.fin_recved => t.taken + n < t.got)
        BY <1>6a, <3>2
      <4> DEFINE k == t.taken + n
      <4> HIDE DEF k
      <4>3. k <= p.sent + 1
        BY <4>1, <4>2, NotTheFin DEF k
      <4>4. QED
        BY <4>3 DEF k
    <3>3. QED
      BY <3>1, <3>2
  <2>3. Len(r.seen) <= p.sent
    BY <1>1, <1>3, <2>1, <2>2
  <2>4. QED
    BY <1>4, <2>3 DEF Good, InOrder, Recorded
<1>12. NotStranded(r)
  <2>1. r.tx_frame # 0 \/ r.taken = t.got
    BY <1>1, <1>6a
  <2>2. QED
    BY <1>4, <2>1 DEF NotStranded
<1>13. Forward(t, r)
  <2>1. t.wr \in Nat /\ t.nxt \in Nat /\ t.una \in Nat /\ t.got \in Nat
    BY <1>1
  <2>2. r.wr = t.wr /\ r.nxt = t.nxt /\ r.una = t.una /\ r.got = t.got
    BY <1>4
  <2>3. r.wr >= t.wr /\ r.nxt >= t.nxt /\ r.una >= t.una /\ r.got >= t.got
    BY <2>1, <2>2
  <2>4. QED
    BY <1>7, <2>3 DEF Forward
<1>14. QED
  BY <1>0, <1>5, <1>6, <1>8, <1>9, <1>10, <1>11, <1>12, <1>13 DEF Moves, Good, EndInv, LinkInv

\* The end of run.
LEMMA Ends ==
    ASSUME NEW e \in End, NEW t, NEW p, Good(e, t, p)
    PROVE  Moves(e, t, EndTask(e, t), p)
<1> DEFINE b == HasConv(e)
<1> DEFINE k == [t EXCEPT !.pc = "done", !.tx_frame = 0, !.rx_closed = TRUE]
<1> DEFINE r == [k EXCEPT !.inq = 0, !.reset_out = b]
<1>0. t \in EndState /\ p \in EndState /\ 0 \in 0 .. InCap
  BY StreamAssumption DEF Good
<1>1. b \in BOOLEAN
  BY DEF HasConv
<1>2. EndTask(e, t) = r
  <2>1. EndTask(e, t) = [t EXCEPT !.pc = "done", !.tx_frame = 0, !.inq = 0, !.rx_closed = TRUE, !.reset_out = b]
    BY DEF EndTask
  <2> HIDE DEF b
  <2>2. QED
    BY <1>0, <2>1 DEF EndState
<1> HIDE DEF b
<1>3. /\ k \in EndState /\ SameFlags(t, k) /\ SameRead(t, k) /\ SameSent(t, k) /\ SameOutput(t, k)
      /\ k.told = t.told /\ k.sent = t.sent /\ k.tx_open = t.tx_open
      /\ k.pc = "done" /\ k.tx_frame = 0 /\ k.rx_closed = TRUE
  BY <1>0 DEF EndState, SameFlags, SameRead, SameSent, SameOutput
<1> HIDE DEF k
<1>3a. /\ r \in EndState /\ SameFlags(k, r) /\ SameRead(k, r) /\ SameSent(k, r) /\ SameOutput(k, r)
       /\ r.told = k.told /\ r.sent = k.sent /\ r.tx_open = k.tx_open
       /\ r.pc = k.pc /\ r.tx_frame = k.tx_frame /\ r.inq = 0 /\ r.rx_closed = k.rx_closed
  <2>1. k \in EndState /\ 0 \in 0 .. InCap
    BY <1>0, <1>3
  <2>2. QED
    BY <1>1, <2>1 DEF EndState, SameFlags, SameRead, SameSent, SameOutput
<1> HIDE DEF r
<1> USE DEF SameFlags, SameRead, SameSent, SameOutput
<1>4. SynFirst(e, r) /\ Accounted(r)
  BY <1>3, <1>3a DEF Good, EndInv, SynFirst, Accounted
<1>5. FinLast(r)
  BY <1>3, <1>3a DEF Good, EndInv, FinLast
<1>6. PipeOrdered(r, p) /\ PipeOrdered(p, r)
  BY <1>3, <1>3a DEF Good, LinkInv, PipeOrdered
<1>7. FinKnown(r, p) /\ FinKnown(p, r) /\ NextFrame(r, p) /\ NextFrame(p, r)
  BY <1>3, <1>3a DEF Good, LinkInv, FinKnown, NextFrame
<1>8. InOrder(r, p) /\ InOrder(p, r) /\ NotStranded(r)
  BY <1>3, <1>3a DEF Good, InOrder, NotStranded
<1>9. Forward(t, r)
  BY <1>0, <1>3, <1>3a, Fields DEF Forward
<1>10. Moves(e, t, r, p)
  BY <1>0, <1>3a, <1>4, <1>5, <1>6, <1>7, <1>8, <1>9 DEF Moves, Good, EndInv, LinkInv
<1>11. QED
  BY <1>2, <1>10

LEMMA OutputStep ==
    ASSUME NEW e \in End, Good(e, st[e], st[Peer(e)]), OutputBranch(e)
    PROVE  StepOf(e)
<1> DEFINE t == st[e]
<1> DEFINE p == st[Peer(e)]
<1> DEFINE avail == IF t.fin_recved /\ nrcv(t) > 0 THEN nrcv(t) - 1 ELSE nrcv(t)
<1> DEFINE n == TakenNow(t, avail)
<1> DEFINE more == [i \in 1 .. n |-> t.taken + i]
<1> DEFINE frames == <<t.tx_frame>> \o more
<1> DEFINE w == Rest(t, n, avail)
<1> DEFINE r == [w EXCEPT !.out = @ + n + 1, !.seen = @ \o frames]
<1>0. /\ t \in EndState /\ t.taken \in Nat /\ t.got \in Nat /\ t.taken <= t.got /\ t.tx_frame \in Nat
      /\ t.out \in Nat /\ OutCap \in Nat /\ t.seen \in Seq(Nat) /\ Len(t.seen) \in Nat
  BY Fields, StreamAssumption DEF Good, LinkInv, PipeOrdered
<1>1. t.pc = "select" /\ t.hs # "Disconnected" /\ t.tx_frame # 0
  BY DEF OutputBranch, Running
<1>2. CASE st' = [st EXCEPT ![e] = EndTask(e, t)]
  BY <1>2, Ends DEF StepOf
<1>3. CASE t.out < OutCap /\ kcp_output(e, r)
  <2>1. avail \in Nat /\ avail = IF t.fin_recved /\ t.got > t.taken THEN t.got - t.taken - 1 ELSE t.got - t.taken
    BY <1>0 DEF nrcv
  <2> HIDE DEF avail
  <2>2. n \in Nat /\ n <= avail /\ t.out + n + 1 <= OutCap
    BY <1>0, <1>3, <2>1 DEF TakenNow, imin
  <2> HIDE DEF n
  <2>3. more \in Seq(Nat) /\ Len(more) = n /\ \A i \in 1 .. n : more[i] = t.taken + i
    BY <1>0, <2>2
  <2>4. t.tx_frame = Len(t.seen) + 2 /\ t.taken = t.tx_frame
    <3>1. t.hs # "Syn"
      BY <1>1 DEF Good, EndInv, SynFirst
    <3>2. QED
      BY <1>1, <3>1 DEF Good, LinkInv, NextFrame
  <2> HIDE DEF more
  <2>5. frames \in Seq(Nat) /\ Len(frames) = n + 1 /\ \A i \in 1 .. n + 1 : frames[i] = t.taken + i - 1
    BY <1>0, <2>2, <2>3, <2>4
  <2> HIDE DEF frames
  <2> DEFINE seen == t.seen \o frames
  <2>6. seen \in Seq(Nat) /\ Len(seen) = Len(t.seen) + 1 + n
    <3>1. t.seen \in Seq(Nat) /\ frames \in Seq(Nat)
      BY <1>0, <2>5
    <3>2. seen \in Seq(Nat) /\ Len(seen) = Len(t.seen) + Len(frames)
      BY <3>1
    <3>3. Len(seen) = Len(t.seen) + (n + 1)
      BY <2>5, <3>2
    <3>4. Len(t.seen) \in Nat /\ n \in Nat
      BY <1>0, <2>2
    <3> HIDE DEF seen
    <3>5. QED
      BY <3>2, <3>3, <3>4
  <2>7. \A i \in DOMAIN seen : seen[i] = i + 1
    <3>1. t.seen \in Seq(Nat) /\ frames \in Seq(Nat)
      BY <1>0, <2>5
    <3>2. \A i \in 1 .. Len(t.seen) : seen[i] = t.seen[i] /\ i \in DOMAIN t.seen
      BY <3>1
    <3>3. \A i \in 1 .. Len(frames) : seen[Len(t.seen) + i] = frames[i]
      BY <3>1
    <3>4. Len(t.seen) \in Nat /\ Len(frames) = n + 1 /\ n \in Nat /\ DOMAIN seen = 1 .. Len(seen)
      BY <1>0, <2>2, <2>5, <2>6
    <3> HIDE DEF seen
    <3> SUFFICES ASSUME NEW i \in 1 .. Len(seen) PROVE seen[i] = i + 1
      BY <3>4
    <3>5. CASE i <= Len(t.seen)
      <4>1. i \in 1 .. Len(t.seen)
        BY <2>6, <3>4, <3>5
      <4>2. QED
        BY <3>2, <4>1 DEF Good, InOrder
    <3>6. CASE i > Len(t.seen)
      <4> DEFINE j == i - Len(t.seen)
      <4>1. j \in 1 .. n + 1 /\ Len(t.seen) + j = i
        BY <2>6, <3>4, <3>6
      <4>2. t.taken + j - 1 = i + 1
        <5>1. i \in Nat /\ Len(t.seen) \in Nat /\ t.taken = Len(t.seen) + 2
          BY <2>4, <2>6, <3>4
        <5> DEFINE l == Len(t.seen)
        <5>2. t.taken = l + 2 /\ l \in Nat /\ i \in Nat
          BY <5>1
        <5> HIDE DEF l
        <5>3. t.taken + (i - l) - 1 = i + 1
          BY <5>2
        <5>4. QED
          BY <5>3 DEF l
      <4> HIDE DEF j
      <4>3. seen[i] = frames[j] /\ frames[j] = t.taken + j - 1
        BY <2>5, <3>3, <3>4, <4>1
      <4>4. QED
        BY <4>2, <4>3
    <3>7. QED
      BY <2>6, <3>4, <3>5, <3>6
  <2>8. \/ n < avail /\ w = [t EXCEPT !.tx_frame = t.taken + n + 1, !.taken = t.taken + n + 1]
        \/ n = avail /\ w = [t EXCEPT !.tx_frame = 0, !.taken = t.got]
    BY <1>0, <2>1, <2>2 DEF Rest
  <2> HIDE DEF w, seen
  <2>9. PICK x \in Nat, y \in Nat :
           /\ w = [t EXCEPT !.tx_frame = x, !.taken = y]
           /\ \/ n < avail /\ x = t.taken + n + 1 /\ y = t.taken + n + 1
              \/ n = avail /\ x = 0 /\ y = t.got
    <3>1. t.taken + n + 1 \in Nat
      BY <1>0, <2>2
    <3>2. QED
      BY <1>0, <2>8, <3>1
  <2>10. /\ w \in EndState /\ SameFlags(t, w) /\ SameSent(t, w) /\ SameInput(t, w)
         /\ w.pc = t.pc /\ w.told = t.told /\ w.una = t.una /\ w.got = t.got /\ w.app = t.app
         /\ w.out = t.out /\ w.seen = t.seen /\ w.tx_frame = x /\ w.taken = y
    BY <1>0, <2>9 DEF EndState, SameFlags, SameSent, SameInput
  <2>11. t.out + n + 1 \in 0 .. OutCap
    BY <1>0, <2>2
  <2>12. r = [w EXCEPT !.out = t.out + n + 1, !.seen = seen]
    BY <2>10 DEF seen
  <2> HIDE DEF r
  <2>13. /\ r \in EndState /\ SameFlags(w, r) /\ SameSent(w, r) /\ SameInput(w, r)
         /\ r.pc = w.pc /\ r.told = w.told /\ r.una = w.una /\ r.got = w.got /\ r.app = w.app
         /\ r.seen = seen /\ r.tx_frame = w.tx_frame /\ r.taken = w.taken
    BY <2>6, <2>10, <2>11, <2>12 DEF EndState, SameFlags, SameSent, SameInput
  <2>14. /\ SameFlags(t, r) /\ SameSent(t, r) /\ SameInput(t, r)
         /\ r.pc = t.pc /\ r.told = t.told /\ r.una = t.una /\ r.got = t.got /\ r.app = t.app
         /\ r.tx_frame = x /\ r.taken = y
    BY <2>10, <2>13 DEF SameFlags, SameSent, SameInput
  <2>15. Moves(e, t, r, p)
    <3>1. Len(r.seen) = Len(t.seen) + 1 + n /\ Recorded(r)
      BY <2>6, <2>7, <2>13 DEF Recorded
    <3>2. SameRest(t, r) /\ Handing(t)
      BY <1>1, <2>14 DEF SameRest, Handing
    <3>3. t.taken + n <= t.got /\ (t.fin_recved /\ n > 0 => t.taken + n < t.got)
      BY <1>0, <2>1, <2>2
    <3>4. \/ /\ r.tx_frame = t.taken + n + 1 /\ r.taken = t.taken + n + 1
             /\ r.taken <= t.got /\ (t.fin_recved => r.taken < t.got)
          \/ /\ r.tx_frame = 0 /\ r.taken = t.got
             /\ t.fin_recved \/ t.got = t.taken + n
      <4>1. CASE n < avail /\ x = t.taken + n + 1 /\ y = t.taken + n + 1
        <5>1. y <= t.got /\ (t.fin_recved => y < t.got)
          BY <1>0, <2>1, <2>2, <4>1
        <5>2. QED
          BY <2>14, <4>1, <5>1
      <4>2. CASE n = avail /\ x = 0 /\ y = t.got
        <5>1. t.fin_recved \/ t.got = t.taken + n
          BY <1>0, <2>1, <4>2
        <5>2. QED
          BY <2>14, <4>2, <5>1
      <4>3. QED
        BY <2>9, <4>1, <4>2
    <3>5. Handed(t, r)
      BY <2>2, <3>1, <3>3, <3>4 DEF Handed
    <3>6. QED
      BY <2>13, <3>1, <3>2, <3>5, HandsOver
  <2>16. QED
    BY <1>3, <2>15, Outputs
<1>4. QED
  BY <1>2, <1>3 DEF OutputBranch
-----------------------------------------------------------------------------
(***************************************************************************)
(* The other steps of a task.                                               *)
(***************************************************************************)
LEMMA UpdateStep ==
    ASSUME NEW e \in End, NEW room \in 0 .. SndWnd, Good(e, st[e], st[Peer(e)]), Update(e, room)
    PROVE  StepOf(e)
<1>1. kcp_output(e, ikcp_flush(st[e], room))
  BY DEF Update
<1>2. Moves(e, st[e], ikcp_flush(st[e], room), st[Peer(e)])
  BY Flush
<1>3. QED
  BY <1>1, <1>2, Outputs

LEMMA TimeoutStep ==
    ASSUME NEW e \in End, Good(e, st[e], st[Peer(e)]), HandshakeTimeout(e)
    PROVE  StepOf(e)
<1>1. st' = [st EXCEPT ![e] = Disconnect(st[e], "timeout")]
  BY DEF HandshakeTimeout
<1>2. "timeout" \in Reasons
  BY DEF Reasons, AbruptEvents
<1>3. Moves(e, st[e], Disconnect(st[e], "timeout"), st[Peer(e)])
  BY <1>2, Disconnects
<1>4. QED
  BY <1>1, <1>3 DEF StepOf

LEMMA EndsFor ==
    ASSUME NEW e \in End, NEW w \in Reasons, Good(e, st[e], st[Peer(e)]),
           st' = [st EXCEPT ![e] = EndTask(e, [st[e] EXCEPT !.why = w])]
    PROVE  StepOf(e)
<1> DEFINE t == st[e]
<1> DEFINE r == [t EXCEPT !.why = w]
<1>0. t \in EndState
  BY DEF Good
<1>1. /\ r \in EndState /\ SameFlags(t, r) /\ SameLoop(t, r) /\ SameRead(t, r) /\ SameInput(t, r)
      /\ SameOutput(t, r) /\ SameSent(t, r) /\ r.told = t.told
  BY <1>0 DEF EndState, Reasons, SameFlags, SameLoop, SameRead, SameInput, SameOutput, SameSent
<1>2. st' = [st EXCEPT ![e] = EndTask(e, r)]
  OBVIOUS
<1> HIDE DEF r
<1>3. t.nxt \in Nat /\ t.nxt <= t.wr
  BY <1>0, Fields DEF Good, LinkInv, PipeOrdered
<1>4. Moves(e, t, r, st[Peer(e)])
  <2>1. r.wr = t.wr /\ r.nxt >= t.nxt /\ r.nxt <= t.wr /\ r.told = t.told
    BY <1>1, <1>3 DEF SameSent
  <2>2. QED
    BY <1>1, <2>1, FlushKeeps
<1>5. Moves(e, r, EndTask(e, r), st[Peer(e)])
  BY <1>4, Ends DEF Moves
<1>6. Moves(e, t, EndTask(e, r), st[Peer(e)])
  BY <1>4, <1>5, MovesOn
<1>7. QED
  BY <1>2, <1>6 DEF StepOf

LEMMA LeaveStep ==
    ASSUME NEW e \in End, Good(e, st[e], st[Peer(e)]), DeadLink(e) \/ Cancelled(e) \/ Finish(e)
    PROVE  StepOf(e)
<1>0. {"deadlink", "drop"} \subseteq Reasons
  BY DEF Reasons, AbruptEvents
<1>1. CASE DeadLink(e)
  BY <1>0, <1>1, EndsFor DEF DeadLink
<1>2. CASE Cancelled(e)
  BY <1>0, <1>2, EndsFor DEF Cancelled
<1>3. CASE Finish(e)
  <2>1. st' = [st EXCEPT ![e] = EndTask(e, st[e])]
    BY <1>3 DEF Finish
  <2>2. Moves(e, st[e], EndTask(e, st[e]), st[Peer(e)])
    BY Ends
  <2>3. QED
    BY <2>1, <2>2 DEF StepOf
<1>4. QED
  BY <1>1, <1>2, <1>3

-----------------------------------------------------------------------------
(***************************************************************************)
(* The application.                                                         *)
(***************************************************************************)
\* It reads, or closes its side of the channels.
LEMMA AppKeeps ==
    ASSUME NEW e \in End, NEW t, NEW r \in EndState, NEW p, Good(e, t, p),
           SameFlags(t, r), SameLoop(t, r), SameSent(t, r), SameRead(t, r), r.told = t.told,
           r.inq = t.inq, r.sent = t.sent, r.rx_closed = t.rx_closed, r.seen = t.seen,
           r.tx_open => t.tx_open, r.out <= t.out, r.app = "open" => t.app = "open" \/ t.out > 0
    PROVE  Moves(e, t, r, p)
<1> USE DEF SameFlags, SameLoop, SameSent, SameRead
<1>0. t \in EndState /\ p \in EndState
  BY DEF Good
<1>1. t.out \in Nat /\ r.out \in Nat
  BY <1>0, Fields
<1>2. (t.out = 0 => r.out = 0) /\ ~(t.out = 0 /\ t.out > 0)
  BY <1>1
<1>3. SynFirst(e, r)
  BY <1>2 DEF Good, EndInv, SynFirst
<1>4. Accounted(r)
  BY DEF Good, EndInv, Accounted
<1>5. FinLast(r)
  BY DEF Good, EndInv, FinLast
<1>6. PipeOrdered(r, p) /\ PipeOrdered(p, r)
  BY DEF Good, LinkInv, PipeOrdered
<1>7. FinKnown(r, p) /\ FinKnown(p, r) /\ NextFrame(r, p) /\ NextFrame(p, r)
  BY DEF Good, LinkInv, FinKnown, NextFrame
<1>8. InOrder(r, p) /\ InOrder(p, r) /\ NotStranded(r)
  BY DEF Good, InOrder, NotStranded
<1>9. Forward(t, r)
  BY <1>0, Fields DEF Forward
<1>10. QED
  BY <1>0, <1>3, <1>4, <1>5, <1>6, <1>7, <1>8, <1>9 DEF Moves, Good, EndInv, LinkInv

\* It drops its stream.
LEMMA Drops ==
    ASSUME NEW e \in End, Good(e, st[e], st[Peer(e)]),
           st' = [st EXCEPT ![e] = [@ EXCEPT !.app = "closed", !.tx_open = FALSE,
                                             !.cancelled = TRUE, !.out_open = FALSE]]
    PROVE  StepOf(e)
<1> DEFINE t == st[e]
<1> DEFINE r == [t EXCEPT !.app = "closed", !.tx_open = FALSE, !.cancelled = TRUE, !.out_open = FALSE]
<1>0. t \in EndState
  BY DEF Good
<1>1. /\ r \in EndState /\ SameFlags(t, r) /\ SameLoop(t, r) /\ SameSent(t, r) /\ SameRead(t, r)
      /\ r.told = t.told /\ r.inq = t.inq /\ r.sent = t.sent /\ r.rx_closed = t.rx_closed
      /\ r.seen = t.seen /\ r.out = t.out
  BY <1>0 DEF EndState, SameFlags, SameLoop, SameSent, SameRead
<1>2. (r.tx_open => t.tx_open) /\ (r.app = "open" => t.app = "open" \/ t.out > 0)
  BY <1>0 DEF EndState
<1>3. st' = [st EXCEPT ![e] = r]
  OBVIOUS
<1> HIDE DEF r
<1>4. r.out <= t.out
  BY <1>0, <1>1, Fields
<1>5. Moves(e, t, r, st[Peer(e)])
  BY <1>1, <1>2, <1>4, AppKeeps
<1>6. QED
  BY <1>3, <1>5 DEF StepOf

\* It takes a frame, the first of which is that of the handshake.
LEMMA Takes ==
    ASSUME NEW e \in End, NEW a \in {"wait", "open", "closed"}, Good(e, st[e], st[Peer(e)]), st[e].out > 0,
           st' = [st EXCEPT ![e] = [st[e] EXCEPT !.app = a, !.out = st[e].out - 1]]
    PROVE  StepOf(e)
<1> DEFINE t == st[e]
<1> DEFINE n == t.out - 1
<1> DEFINE r == [t EXCEPT !.app = a, !.out = n]
<1>0. t \in EndState
  BY DEF Good
<1>1. t.out \in Nat /\ t.out <= OutCap /\ OutCap \in Nat
  BY <1>0, Fields, StreamAssumption
<1>2. n \in 0 .. OutCap /\ n <= t.out
  BY <1>1
<1>3. st' = [st EXCEPT ![e] = r]
  OBVIOUS
<1> HIDE DEF n
<1>4. /\ r \in EndState /\ SameFlags(t, r) /\ SameLoop(t, r) /\ SameSent(t, r) /\ SameRead(t, r)
      /\ r.told = t.told /\ r.inq = t.inq /\ r.sent = t.sent /\ r.rx_closed = t.rx_closed
      /\ r.seen = t.seen /\ r.out = n /\ r.tx_open = t.tx_open
  BY <1>0, <1>2 DEF EndState, SameFlags, SameLoop, SameSent, SameRead
<1> HIDE DEF r
<1>5. Moves(e, t, r, st[Peer(e)])
  BY <1>2, <1>4, AppKeeps
<1>6. QED
  BY <1>3, <1>5 DEF StepOf
\* It writes a frame.
LEMMA WriteStep ==
    ASSUME NEW e \in End, Good(e, st[e], st[Peer(e)]), Write(e)
    PROVE  StepOf(e)
<1> DEFINE t == st[e]
<1> DEFINE p == st[Peer(e)]
<1> DEFINE n == t.inq + 1
<1> DEFINE s == t.sent + 1
<1> DEFINE m == t.tries + 1
<1> DEFINE r == [t EXCEPT !.inq = n, !.tries = m, !.sent = s]
<1>0. t \in EndState /\ p \in EndState
  BY DEF Good
<1>1. /\ t.inq \in Nat /\ t.sent \in Nat /\ InCap \in Nat /\ t.wr \in Nat /\ t.fin_sn \in Nat
      /\ Len(p.seen) \in Nat /\ p.tx_frame \in Nat
  BY <1>0, Fields, StreamAssumption
<1>2. t.app = "open" /\ t.tx_open /\ ~t.rx_closed /\ t.inq < InCap
  BY DEF Write
<1>3. n \in 0 .. InCap /\ s \in Nat /\ s > t.sent /\ m \in Nat
  <2>1. t.tries \in Nat
    BY <1>0 DEF EndState
  <2>2. QED
    BY <1>1, <1>2, <2>1
<1>4. st' = [st EXCEPT ![e] = r]
  BY DEF Write
<1>5. t.hs # "Syn" /\ t.wr # 0 /\ t.fin_sn = 0 /\ ~t.input_closed /\ t.pc # "done"
  <2>1. t.hs # "Syn" /\ t.wr # 0
    BY <1>2 DEF Good, EndInv, SynFirst
  <2>2. ~t.input_closed /\ t.pc # "done"
    BY <1>2 DEF Good, EndInv, FinLast, Accounted
  <2>3. ~(t.fin_sn > 0)
    BY <2>2 DEF Good, EndInv, FinLast
  <2>4. QED
    BY <1>1, <2>1, <2>2, <2>3
<1>6. t.wr <= s + 1 /\ t.wr + n = s + 1
  <2>1. t.wr + t.inq = t.sent + 1
    BY <1>1, <1>5 DEF Good, EndInv, Accounted
  <2>2. t.wr \in Nat /\ t.inq \in Nat /\ t.sent \in Nat
    BY <1>1
  <2>3. QED
    BY <2>1, <2>2
<1> HIDE DEF n, m, s
<1>7. /\ r \in EndState /\ SameFlags(t, r) /\ SameLoop(t, r) /\ SameSent(t, r) /\ SameRead(t, r)
      /\ SameOutput(t, r) /\ r.told = t.told /\ r.rx_closed = t.rx_closed /\ r.tx_open = t.tx_open
      /\ r.inq = n /\ r.sent = s
  BY <1>0, <1>3 DEF EndState, SameFlags, SameLoop, SameSent, SameRead, SameOutput
<1> HIDE DEF r
<1> USE DEF SameFlags, SameLoop, SameSent, SameRead, SameOutput
<1>8. SynFirst(e, r)
  BY <1>5, <1>7 DEF SynFirst
<1>9. Accounted(r)
  BY <1>5, <1>6, <1>7 DEF Accounted, Good, EndInv
<1>10. FinLast(r)
  <2>1. r.fin_sn = 0 /\ ~r.input_closed
    BY <1>5, <1>7
  <2>2. /\ ~(r.hs \in {"FinSent", "FinWaitPeer"}) /\ ~r.fin_out
    BY <1>5, <1>7 DEF Good, EndInv, FinLast
  <2>3. QED
    BY <2>1, <2>2 DEF FinLast
<1>11. PipeOrdered(r, p) /\ PipeOrdered(p, r)
  BY <1>7 DEF Good, LinkInv, PipeOrdered
<1>12. FinKnown(r, p) /\ FinKnown(p, r) /\ NextFrame(r, p)
  BY <1>7 DEF Good, LinkInv, FinKnown, NextFrame
<1>13. NextFrame(p, r)
  <2>1. p.tx_frame <= t.sent + 1 => p.tx_frame <= r.sent + 1
    BY <1>1, <1>3, <1>7
  <2>2. r.fin_sn = t.fin_sn
    BY <1>7
  <2>3. QED
    BY <2>1, <2>2 DEF Good, LinkInv, NextFrame
<1>14. InOrder(r, p) /\ InOrder(p, r)
  <2>1. Len(p.seen) <= t.sent => Len(p.seen) <= r.sent
    BY <1>1, <1>3, <1>7
  <2>2. InOrder(p, r)
    BY <2>1 DEF Good, InOrder
  <2>3. InOrder(r, p)
    BY <1>7 DEF Good, InOrder
  <2>4. QED
    BY <2>2, <2>3
<1>15. NotStranded(r)
  BY <1>7 DEF Good, NotStranded
<1>16. Forward(t, r)
  BY <1>0, <1>7, Fields DEF Forward
<1>17. Moves(e, t, r, p)
  BY <1>0, <1>7, <1>8, <1>9, <1>10, <1>11, <1>12, <1>13, <1>14, <1>15, <1>16
     DEF Moves, Good, EndInv, LinkInv
<1>18. QED
  BY <1>4, <1>17 DEF StepOf

LEMMA AppSteps ==
    ASSUME NEW e \in End, st \in [End -> EndState], Good(e, st[e], st[Peer(e)]), AppStep(e)
    PROVE  StepOf(e)
<1> DEFINE t == st[e]
<1>0. t \in EndState
  BY DEF Good
<1>1. CASE WaitConnection(e)
  <2>1. CASE t.out > 0 /\ st' = [st EXCEPT ![e].app = "open", ![e].out = @ - 1]
    <3>1. st' = [st EXCEPT ![e] = [st[e] EXCEPT !.app = "open", !.out = st[e].out - 1]]
      BY <2>1
    <3>2. QED
      BY <2>1, <3>1, Takes
  <2>2. CASE st' = [st EXCEPT ![e] = [@ EXCEPT !.app = "closed", !.tx_open = FALSE,
                                              !.cancelled = TRUE, !.out_open = FALSE]]
    BY <2>2, Drops
  <2>3. QED
    BY <1>1, <2>1, <2>2 DEF WaitConnection
<1>2. CASE Read(e)
  <2>1. t.out > 0 /\ t.app = "open" /\ st' = [st EXCEPT ![e].out = @ - 1]
    BY <1>2 DEF Read
  <2>2. st' = [st EXCEPT ![e] = [st[e] EXCEPT !.app = "open", !.out = st[e].out - 1]]
    <3>1. [t EXCEPT !.app = "open", !.out = t.out - 1] = [t EXCEPT !.out = t.out - 1]
      BY <1>0, <2>1 DEF EndState
    <3>2. QED
      BY <2>1, <3>1
  <2>3. QED
    BY <2>1, <2>2, Takes
<1>3. CASE shutdown_immediately(e)
  <2> DEFINE r == [t EXCEPT !.tx_open = FALSE]
  <2>1. /\ r \in EndState /\ SameFlags(t, r) /\ SameLoop(t, r) /\ SameSent(t, r) /\ SameRead(t, r)
        /\ r.told = t.told /\ r.inq = t.inq /\ r.sent = t.sent /\ r.rx_closed = t.rx_closed
        /\ r.seen = t.seen /\ r.out = t.out /\ r.app = t.app
    BY <1>0 DEF EndState, SameFlags, SameLoop, SameSent, SameRead
  <2>2. r.tx_open => t.tx_open
    BY <1>0 DEF EndState
  <2>3. st' = [st EXCEPT ![e] = r]
    BY <1>3 DEF shutdown_immediately
  <2> HIDE DEF r
  <2>4. r.out <= t.out
    BY <1>0, <2>1, Fields
  <2>5. Moves(e, t, r, st[Peer(e)])
    BY <2>1, <2>2, <2>4, AppKeeps
  <2>6. QED
    BY <2>3, <2>5 DEF StepOf
<1>4. CASE try_close(e)
  BY <1>4, Drops DEF try_close
<1>5. CASE Write(e)
  BY <1>5, WriteStep
<1>6. QED
  BY <1>1, <1>2, <1>3, <1>4, <1>5 DEF AppStep

LEMMA TaskSteps ==
    ASSUME NEW e \in End, Good(e, st[e], st[Peer(e)]), TaskStep(e)
    PROVE  StepOf(e)
<1>1. CASE \E drop \in 0 .. st[e].inq : \E empty \in {FALSE, drop # 0}, room \in 0 .. SndWnd :
             InputBranch(e, drop, empty, room)
  <2>1. PICK drop \in 0 .. st[e].inq :
          \E empty \in {FALSE, drop # 0}, room \in 0 .. SndWnd : InputBranch(e, drop, empty, room)
    BY <1>1
  <2>2. PICK empty \in {FALSE, drop # 0}, room \in 0 .. SndWnd : InputBranch(e, drop, empty, room)
    BY <2>1
  <2>3. empty \in BOOLEAN
    OBVIOUS
  <2>4. QED
    BY <2>2, <2>3, InputStep
<1>2. CASE OutputBranch(e)
  BY <1>2, OutputStep
<1>3. CASE DataPackets(e) \/ FinPackets(e) \/ ResetPacket(e)
  BY <1>3, DataStep, FinStep, ResetStep
<1>4. CASE \E valid \in {TRUE} \cup {"key" \notin Abrupt}, room \in 0 .. SndWnd :
             AfterPackets(e, valid, room)
  <2>1. PICK valid \in {TRUE} \cup {"key" \notin Abrupt}, room \in 0 .. SndWnd :
                AfterPackets(e, valid, room)
    BY <1>4
  <2>2. valid \in BOOLEAN
    OBVIOUS
  <2>3. QED
    BY <2>1, <2>2, AfterStep
<1>5. CASE \E room \in 0 .. SndWnd : Update(e, room)
  BY <1>5, UpdateStep
<1>6. CASE HandshakeTimeout(e)
  BY <1>6, TimeoutStep
<1>7. CASE DeadLink(e) \/ Cancelled(e) \/ Finish(e)
  BY <1>7, LeaveStep
<1>8. QED
  BY <1>1, <1>2, <1>3, <1>4, <1>5, <1>6, <1>7 DEF TaskStep

(***************************************************************************)
(* A step of the system is one of one end, and moves its two pipes on.      *)
(***************************************************************************)
LEMMA Steps ==
    ASSUME IInv, Next
    PROVE  \E e \in End : StepOf(e)
<1>1. PICK e \in End : TaskStep(e) \/ AppStep(e)
  BY DEF Next
<1>2. Good(e, st[e], st[Peer(e)]) /\ st \in [End -> EndState]
  BY PairOf DEF IInv, StreamInv, TypeOK
<1>3. StepOf(e)
  BY <1>1, <1>2, TaskSteps, AppSteps
<1>4. QED
  BY <1>3
-----------------------------------------------------------------------------
(***************************************************************************)
(* Init establishes the invariant.                                          *)
(***************************************************************************)
LEMMA InitGood ==
    ASSUME Init
    PROVE  IInv
<1>0. /\ "Syn" \in Handshake /\ 0 \in 0 .. InCap /\ 0 \in 0 .. OutCap /\ << >> \in Seq(Nat)
  BY StreamAssumption DEF Handshake
<1>1. ASSUME NEW e \in End
      PROVE  /\ st[e] \in EndState /\ st[e].nxt = st[e].wr
             /\ st[e].wr = (IF e = "client" THEN 1 ELSE 0)
             /\ st[e].pc = "select" /\ st[e].hs = "Syn" /\ ~st[e].fin_recved /\ ~st[e].input_closed
             /\ st[e].tx_frame = 0 /\ st[e].una = 0 /\ st[e].got = 0 /\ st[e].taken = 0
             /\ st[e].inq = 0 /\ st[e].out = 0 /\ st[e].app = "wait" /\ st[e].told = 0
             /\ ~st[e].fin_out /\ st[e].fin_sn = 0 /\ st[e].sent = 0 /\ st[e].seen = << >>
  <2> DEFINE n == IF e = "client" THEN 1 ELSE 0
  <2> DEFINE z == << >>
  <2> DEFINE nil == "none"
  <2> DEFINE no == FALSE
  <2> DEFINE yes == TRUE
  <2>1. n \in Nat /\ z \in Seq(Nat) /\ no \in BOOLEAN /\ yes \in BOOLEAN /\ nil \in Reasons
    BY DEF Reasons
  <2>2. st[e] = [pc |-> "select", hs |-> "Syn", flush |-> no, fin_recved |-> no,
                 input_closed |-> no, tx_frame |-> 0,
                 wr |-> n, nxt |-> n, una |-> 0, got |-> 0, taken |-> 0,
                 inq |-> 0, tx_open |-> yes, rx_closed |-> no,
                 out |-> 0, out_open |-> yes, cancelled |-> no, app |-> "wait",
                 told |-> 0, fin_out |-> no, reset_out |-> no,
                 fin_sn |-> 0, tries |-> 0, sent |-> 0, seen |-> z, why |-> nil]
    BY DEF Init
  <2> HIDE DEF n, z, no, yes, nil
  <2>3. st[e] \in EndState
    BY <1>0, <2>1, <2>2 DEF EndState, Reasons
  <2>4. /\ st[e].nxt = st[e].wr /\ st[e].wr = n
        /\ st[e].pc = "select" /\ st[e].hs = "Syn"
        /\ st[e].tx_frame = 0 /\ st[e].una = 0 /\ st[e].got = 0 /\ st[e].taken = 0
        /\ st[e].inq = 0 /\ st[e].out = 0 /\ st[e].app = "wait" /\ st[e].told = 0
        /\ st[e].fin_sn = 0 /\ st[e].sent = 0 /\ st[e].seen = z
    BY <2>2
  <2>5. st[e].fin_recved = no /\ st[e].input_closed = no /\ st[e].fin_out = no
    BY <2>2
  <2>6. QED
    BY <2>3, <2>4, <2>5 DEF n, z, no
<1>2. TypeOK
  <2>1. st = [e \in End |-> st[e]]
    BY DEF Init
  <2>2. QED
    BY <1>1, <2>1 DEF TypeOK
<1>3. ASSUME NEW e \in End, NEW d \in End
      PROVE  EndInv(e, st[e]) /\ LinkInv(st[e], st[d]) /\ InOrder(st[e], st[d])
  <2>1. SynFirst(e, st[e]) /\ Accounted(st[e])
    BY <1>1 DEF SynFirst, Accounted
  <2>2. FinLast(st[e])
    BY <1>1 DEF FinLast
  <2>3. PipeOrdered(st[e], st[d])
    BY <1>1 DEF PipeOrdered
  <2>4. FinKnown(st[e], st[d]) /\ NextFrame(st[e], st[d])
    BY <1>1 DEF FinKnown, NextFrame
  <2>5. InOrder(st[e], st[d])
    BY <1>1 DEF InOrder
  <2>6. QED
    BY <2>1, <2>2, <2>3, <2>4, <2>5 DEF EndInv, LinkInv
<1>4. OnlyDataDelivered
  BY <1>3, Peers DEF OnlyDataDelivered, InOrder
<1>5. NoStrandedFrame
  BY <1>1 DEF NoStrandedFrame, nrcv
<1>6. QED
  BY <1>2, <1>3, <1>4, <1>5, Peers DEF IInv, StreamInv

LEMMA Invariant == Spec => []IInv
<1>1. Init => IInv
  BY InitGood
<1>2. IInv /\ [Next]_st => IInv'
  <2>1. CASE UNCHANGED st
    BY <2>1 DEF IInv, StreamInv, TypeOK, OnlyDataDelivered, NoStrandedFrame, Running
  <2>2. ASSUME IInv, Next PROVE IInv'
    <3>1. PICK e \in End : StepOf(e)
      BY <2>2, Steps
    <3>2. PICK r : st' = [st EXCEPT ![e] = r] /\ Good(e, r, st[Peer(e)])
      BY <3>1 DEF StepOf, Moves
    <3>3. QED
      BY <2>2, <3>2, PairTo
  <2>3. QED
    BY <2>1, <2>2
<1>3. QED
  BY <1>1, <1>2, PTL DEF Spec

(***************************************************************************)
(* Whatever the two tasks, their applications and a network that loses,     *)
(* repeats and reorders do, the reader of each end is handed exactly the    *)
(* frames that the other end's application wrote, once and in order, and    *)
(* never the SYN or FIN frame (kcp_recv and fin_transit_state, stream.rs).  *)
(***************************************************************************)
THEOREM FramesInOrder == Spec => []StreamInv
<1>1. IInv => StreamInv
  BY DEF IInv
<1>2. QED
  BY <1>1, Invariant, PTL

(***************************************************************************)
(* A task that waits in select! without a frame for the output channel has  *)
(* none left in its Kcp either (the receive loop of run, stream.rs).        *)
(***************************************************************************)
THEOREM NothingStranded == Spec => []NoStrandedFrame
<1>1. IInv => NoStrandedFrame
  BY DEF IInv
<1>2. QED
  BY <1>1, Invariant, PTL

(***************************************************************************)
(* When a FIN packet arrives, all that the peer's application wrote is      *)
(* stored already: fin_transit_state waits in FinPending for get_waitsnd    *)
(* before it writes the FIN frame (stream.rs).                              *)
(***************************************************************************)
THEOREM StoredBeforeFin == Spec => []FinAfterAllStored
<1>1. IInv => FinAfterAllStored
  <2> SUFFICES ASSUME IInv, NEW e \in End, st[e].fin_recved
               PROVE  st[e].got >= 1 + st[Peer(e)].sent
    BY DEF FinAfterAllStored
  <2> DEFINE t == st[e]
  <2> DEFINE p == st[Peer(e)]
  <2>1. Good(e, t, p)
    BY PairOf
  <2>2. /\ t.got \in Nat /\ t.told \in Nat /\ p.una \in Nat /\ p.sent \in Nat /\ p.fin_sn \in Nat
    BY <2>1, Fields DEF Good
  <2>3. p.fin_out
    BY <2>1 DEF Good, LinkInv, FinKnown
  <2>4. p.fin_sn = p.sent + 2 /\ p.una + 1 >= p.fin_sn
    BY <2>1, <2>3 DEF Good, EndInv, FinLast
  <2>5. p.una <= t.told /\ t.told <= t.got
    BY <2>1 DEF Good, LinkInv, PipeOrdered
  <2>6. QED
    BY <2>2, <2>4, <2>5
<1>2. QED
  BY <1>1, Invariant, PTL
-----------------------------------------------------------------------------
(***************************************************************************)
(* The two directions as pipes.                                             *)
(***************************************************************************)
LEMMA PipeStep ==
    ASSUME IInv, NEW e \in End, StepOf(e)
    PROVE  /\ st'[Peer(e)] = st[Peer(e)]
           /\ st'[e].wr >= st[e].wr /\ st'[e].nxt >= st[e].nxt /\ st'[e].nxt <= st'[e].wr
           /\ st'[e].una >= st[e].una /\ st'[e].una <= st[Peer(e)].got
           /\ st'[e].got >= st[e].got /\ st'[e].got <= st[Peer(e)].nxt
           /\ st'[e].taken >= st[e].taken /\ st'[e].taken <= st'[e].got
<1>1. PICK r : st' = [st EXCEPT ![e] = r] /\ Good(e, r, st[Peer(e)]) /\ Forward(st[e], r)
  BY DEF StepOf, Moves
<1>2. st \in [End -> EndState] /\ Peer(e) \in End /\ Peer(e) # e
  BY Peers DEF IInv, StreamInv, TypeOK
<1>3. st'[e] = r /\ st'[Peer(e)] = st[Peer(e)]
  BY <1>1, <1>2
<1> DEFINE p == st[Peer(e)]
<1>4. r.una \in Nat /\ p.told \in Nat /\ p.got \in Nat
  BY <1>1, Fields DEF Good
<1>5. /\ r.una <= p.told /\ p.told <= p.got /\ r.got <= p.nxt
      /\ r.taken <= r.got /\ r.nxt <= r.wr
  BY <1>1 DEF Good, LinkInv, PipeOrdered
<1>6. r.una <= p.got
  BY <1>4, <1>5
<1>7. QED
  BY <1>1, <1>3, <1>5, <1>6 DEF Forward

LEMMA PipeSteps ==
    ASSUME IInv, [Next]_st
    PROVE  /\ [Upstream!Next]_(Upstream!pipe)
           /\ [Downstream!Next]_(Downstream!pipe)
<1>1. CASE UNCHANGED st
  BY <1>1 DEF Upstream!pipe, Downstream!pipe
<1>2. CASE Next
  <2>1. PICK e \in End : StepOf(e)
    BY <1>2, Steps
  <2>2. CASE e = "client"
    <3>1. Peer(e) = "server"
      BY <2>2 DEF Peer
    <3>2. Upstream!SenderStep /\ Downstream!ReceiverStep
      BY <2>1, <2>2, <3>1, PipeStep DEF Upstream!SenderStep, Downstream!ReceiverStep
    <3>3. QED
      BY <3>2 DEF Upstream!Next, Downstream!Next
  <2>3. CASE e = "server"
    <3>1. Peer(e) = "client"
      BY <2>3 DEF Peer
    <3>2. Upstream!ReceiverStep /\ Downstream!SenderStep
      BY <2>1, <2>3, <3>1, PipeStep DEF Upstream!ReceiverStep, Downstream!SenderStep
    <3>3. QED
      BY <3>2 DEF Upstream!Next, Downstream!Next
  <2>4. QED
    BY <2>2, <2>3 DEF End
<1>3. QED
  BY <1>1, <1>2

(***************************************************************************)
(* The two tasks implement nothing of the protocol themselves: each         *)
(* direction of a connection is used exactly as a pipe of KcpPipe allows,   *)
(* which is what KcpArq makes of an unreliable network (kcp_recv, kcp_input *)
(* and kcp_flush, stream.rs).                                               *)
(***************************************************************************)
THEOREM TasksUsePipes == Spec => UsesPipes
<1>1. Init => Upstream!Init /\ Downstream!Init
  <2> SUFFICES ASSUME Init PROVE Upstream!Init /\ Downstream!Init
    OBVIOUS
  <2>1. "client" \in End /\ "server" \in End
    BY DEF End
  <2>2. /\ st["client"].wr = 1 /\ st["client"].nxt = 1 /\ st["server"].wr = 0 /\ st["server"].nxt = 0
        /\ \A e \in End : st[e].una = 0 /\ st[e].got = 0 /\ st[e].taken = 0
    BY <2>1 DEF Init
  <2>3. QED
    BY <2>1, <2>2 DEF Upstream!Init, Downstream!Init
<1>2. IInv /\ [Next]_st => [Upstream!Next]_(Upstream!pipe) /\ [Downstream!Next]_(Downstream!pipe)
  BY PipeSteps
<1>3. QED
  BY <1>1, <1>2, Invariant, PTL DEF Spec, UsesPipes, Upstream!Spec, Downstream!Spec

-----------------------------------------------------------------------------
(***************************************************************************)
(* Packets: what ikcp_flush puts into one is k segments without data and    *)
(* then data segments.                                                      *)
(***************************************************************************)
Segment == [cmd : Packets!Commands, len : Nat]

HeadsThenData(p, k) ==
    \A i \in 1 .. Len(p) :
        /\ p[i].cmd \in Packets!Commands /\ p[i].len \in Nat
        /\ i <= k => p[i].len = 0 /\ p[i].cmd # Packets!PUSH
        /\ i > k => p[i].len > 0 /\ p[i].cmd = Packets!PUSH

\* Sequences that are written as functions.
LEMMA FunctionSeq ==
  ASSUME NEW S, NEW n \in Nat, NEW f \in [1 .. n -> S] PROVE f \in Seq(S) /\ Len(f) = n
  OBVIOUS

LEMMA HeadsSeq ==
  ASSUME NEW c \in Packets!Commands, c # Packets!PUSH, NEW n \in Nat
  PROVE  /\ Packets!Heads(c, n) \in Seq(Segment)
         /\ \A i \in 1 .. Len(Packets!Heads(c, n)) :
               Packets!Heads(c, n)[i].len = 0 /\ Packets!Heads(c, n)[i].cmd # Packets!PUSH
<1> DEFINE h == Packets!Heads(c, n)
<1>1. h = [i \in 1 .. n |-> [cmd |-> c, len |-> 0]]
  BY DEF Packets!Heads
<1>2. [cmd |-> c, len |-> 0] \in Segment
  BY DEF Segment
<1>3. h \in Seq(Segment) /\ Len(h) = n
  BY <1>1, <1>2
<1>4. QED
  BY <1>1, <1>3

\* Every packet of ikcp_flush has this shape.
LEMMA FlushedShape ==
  ASSUME NEW p \in Packets!Flushed
  PROVE  p \in Seq(Segment) /\ Len(p) >= 1 /\ \E k \in 0 .. Len(p) : HeadsThenData(p, k)
<1>1. PICK x \in Packets!Contents : p = Packets!ikcp_flush(x)
  BY Zenon DEF Packets!Flushed
<1> DEFINE ls == x.lens
           ha == Packets!Heads(Packets!ACK, x.acks)
           hq == Packets!Heads(Packets!WASK, x.wask)
           hw == Packets!Heads(Packets!WINS, x.wins)
           d == [i \in DOMAIN ls |-> [cmd |-> Packets!PUSH, len |-> ls[i]]]
<1>0. PICK n \in 0 .. MaxPushes : ls \in [1 .. n -> Lens]
  BY DEF Packets!Contents
<1> HIDE DEF ls
<1>2. /\ Packets!PUSH = 81 /\ Packets!ACK = 82 /\ Packets!WASK = 83 /\ Packets!WINS = 84
      /\ Packets!Commands = {81, 82, 83, 84}
  BY DEF Packets!PUSH, Packets!ACK, Packets!WASK, Packets!WINS, Packets!Commands
<1>3. x.acks \in Nat /\ x.wask \in Nat /\ x.wins \in Nat /\ n \in Nat
  BY StreamAssumption DEF Packets!Contents
<1>4. /\ ha \in Seq(Segment) /\ \A i \in 1 .. Len(ha) : ha[i].len = 0 /\ ha[i].cmd # Packets!PUSH
      /\ hq \in Seq(Segment) /\ \A i \in 1 .. Len(hq) : hq[i].len = 0 /\ hq[i].cmd # Packets!PUSH
      /\ hw \in Seq(Segment) /\ \A i \in 1 .. Len(hw) : hw[i].len = 0 /\ hw[i].cmd # Packets!PUSH
  <2>1. Packets!ACK \in Packets!Commands /\ Packets!ACK # Packets!PUSH
    BY <1>2
  <2>2. Packets!WASK \in Packets!Commands /\ Packets!WASK # Packets!PUSH
    BY <1>2
  <2>3. Packets!WINS \in Packets!Commands /\ Packets!WINS # Packets!PUSH
    BY <1>2
  <2>4. QED
    BY <1>3, <2>1, <2>2, <2>3, HeadsSeq, Zenon
<1>5. /\ d \in Seq(Segment)
      /\ \A i \in 1 .. Len(d) : d[i].len > 0 /\ d[i].cmd = Packets!PUSH
  <2>1. \A i \in 1 .. n : ls[i] \in Nat /\ ls[i] > 0
    <3>1. \A y \in Lens : y \in Nat /\ y > 0
      BY StreamAssumption
    <3>2. ASSUME NEW i \in 1 .. n PROVE ls[i] \in Nat /\ ls[i] > 0
      <4>1. ls[i] \in Lens
        BY <1>0
      <4>2. QED
        BY <3>1, <4>1
    <3>3. QED
      BY <3>2
  <2>2. d = [i \in 1 .. n |-> [cmd |-> Packets!PUSH, len |-> ls[i]]]
    BY <1>0
  <2>3. \A i \in 1 .. n : [cmd |-> Packets!PUSH, len |-> ls[i]] \in Segment
    BY <1>2, <2>1 DEF Segment
  <2>4. d \in Seq(Segment) /\ Len(d) = n
    BY <1>3, <2>2, <2>3
  <2>5. QED
    BY <2>1, <2>2, <2>4
<1> HIDE DEF ha, hq, hw, d
<1> DEFINE haq == ha \o hq
           h == haq \o hw
<1>6. haq \in Seq(Segment) /\ \A i \in 1 .. Len(haq) : haq[i].len = 0 /\ haq[i].cmd # Packets!PUSH
  BY <1>4
<1> HIDE DEF haq
<1>7. h \in Seq(Segment) /\ \A i \in 1 .. Len(h) : h[i].len = 0 /\ h[i].cmd # Packets!PUSH
  BY <1>4, <1>6
<1>8. p = h \o d
  BY <1>1, Zenon DEF Packets!ikcp_flush, ls, ha, hq, hw, d, haq, h
<1> HIDE DEF h
<1>9. p \in Seq(Segment) /\ Len(p) = Len(h) + Len(d) /\ Len(h) \in Nat /\ Len(d) \in Nat
  BY <1>5, <1>7, <1>8
<1>10. Len(p) >= 1
  <2>1. p # <<>>
    BY DEF Packets!Flushed
  <2>2. QED
    BY <1>9, <2>1
<1>11. HeadsThenData(p, Len(h))
  <2> SUFFICES ASSUME NEW i \in 1 .. Len(p)
               PROVE  /\ p[i].cmd \in Packets!Commands /\ p[i].len \in Nat
                      /\ i <= Len(h) => p[i].len = 0 /\ p[i].cmd # Packets!PUSH
                      /\ i > Len(h) => p[i].len > 0 /\ p[i].cmd = Packets!PUSH
    BY DEF HeadsThenData
  <2>1. p[i] \in Segment
    BY <1>9
  <2>2. p[i].cmd \in Packets!Commands /\ p[i].len \in Nat
    BY <2>1 DEF Segment
  <2>3. CASE i <= Len(h)
    <3>1. p[i] = h[i] /\ i \in 1 .. Len(h)
      BY <1>5, <1>7, <1>8, <1>9, <2>3
    <3>2. QED
      BY <1>7, <2>2, <2>3, <3>1, <1>9
  <2>4. CASE i > Len(h)
    <3>1. p[i] = d[i - Len(h)] /\ i - Len(h) \in 1 .. Len(d)
      BY <1>5, <1>7, <1>8, <1>9, <2>4
    <3>2. QED
      BY <1>5, <2>2, <2>4, <3>1, <1>9
  <2>5. QED
    BY <1>9, <2>3, <2>4
<1>12. QED
  BY <1>9, <1>10, <1>11

\* The payload is found just when the packet carries data.
LEMMA DataFound ==
  ASSUME NEW p \in Packets!Flushed
  PROVE  Packets!read_payload_data(p) <=> \E i \in DOMAIN p : p[i].cmd = Packets!PUSH
<1>1. p \in Seq(Segment) /\ Len(p) >= 1
  BY FlushedShape
<1>2. PICK k \in 0 .. Len(p) : HeadsThenData(p, k)
  BY FlushedShape
<1>3. DOMAIN p = 1 .. Len(p) /\ Len(p) \in Nat
  BY <1>1
<1>4. ASSUME NEW i \in 1 .. Len(p), p[i].cmd = Packets!PUSH PROVE Packets!read_payload_data(p)
  <2>1. i > k
    BY <1>2, <1>3, <1>4 DEF HeadsThenData
  <2>2. k + 1 \in 1 .. Len(p) /\ k + 1 > k
    BY <1>3, <2>1
  <2>3. p[k + 1].len > 0
    BY <1>2, <2>2 DEF HeadsThenData
  <2>4. \A j \in 1 .. (k + 1) - 1 : p[j].len = 0
    BY <1>2, <1>3 DEF HeadsThenData
  <2>5. QED
    BY <1>3, <2>2, <2>3, <2>4 DEF Packets!read_payload_data
<1>5. ASSUME Packets!read_payload_data(p) PROVE \E i \in 1 .. Len(p) : p[i].cmd = Packets!PUSH
  <2>1. PICK i \in 1 .. Len(p) : p[i].len > 0
    BY <1>3, <1>5 DEF Packets!read_payload_data
  <2>2. i > k
    BY <1>2, <1>3, <2>1 DEF HeadsThenData
  <2>3. QED
    BY <1>2, <2>2 DEF HeadsThenData
<1>6. QED
  BY <1>3, <1>4, <1>5

\* ikcp_input takes a packet whose commands it knows as a whole, and nothing
\* of one that begins with a cmd that it does not know.
LEMMA AcceptedAll ==
  ASSUME NEW S, NEW p \in Seq(S), \A i \in 1 .. Len(p) : p[i].cmd \in Packets!Commands
  PROVE  Packets!Accepted(p) = p
<1> DEFINE T(k) == /\ \A i \in 1 .. k : p[i].cmd \in Packets!Commands
                   /\ k < Len(p) => p[k + 1].cmd \notin Packets!Commands
           n == CHOOSE k \in 0 .. Len(p) : T(k)
<1>1. Len(p) \in Nat /\ Len(p) \in 0 .. Len(p) /\ T(Len(p))
  OBVIOUS
<1>2. n \in 0 .. Len(p) /\ T(n)
  BY <1>1
<1>3. Packets!Accepted(p) = SubSeq(p, 1, n)
  BY DEF Packets!Accepted
<1> HIDE DEF n
<1>4. n = Len(p)
  BY <1>1, <1>2
<1>5. QED
  BY <1>3, <1>4

LEMMA AcceptedNone ==
  ASSUME NEW S, NEW p \in Seq(S), Len(p) >= 1, p[1].cmd \notin Packets!Commands
  PROVE  Packets!Accepted(p) = << >>
<1> DEFINE T(k) == /\ \A i \in 1 .. k : p[i].cmd \in Packets!Commands
                   /\ k < Len(p) => p[k + 1].cmd \notin Packets!Commands
           n == CHOOSE k \in 0 .. Len(p) : T(k)
<1>1. Len(p) \in Nat /\ 0 \in 0 .. Len(p) /\ T(0)
  OBVIOUS
<1>2. n \in 0 .. Len(p) /\ T(n)
  BY <1>1
<1>3. Packets!Accepted(p) = SubSeq(p, 1, n)
  BY DEF Packets!Accepted
<1> HIDE DEF n
<1>4. n = 0
  BY <1>1, <1>2
<1>5. QED
  BY <1>3, <1>4

\* The bits of the commands: FIN and RESET are free in each of them, and what
\* they make of a cmd is not a cmd.
LEMMA Bits ==
  ASSUME NEW c \in Packets!Commands
  PROVE  /\ Packets!Or(c, Packets!KCP_FIN) = c + 32 /\ c \in 81 .. 84
         /\ c + 32 \notin Packets!Commands
         /\ Packets!Bit(c + 32, Packets!KCP_FIN) /\ ~Packets!Bit(c + 32, Packets!KCP_RESET)
         /\ Packets!Xor(c + 32, Packets!KCP_FIN) = c
<1>1. c \in {81, 82, 83, 84} /\ Packets!Commands = {81, 82, 83, 84}
  BY DEF Packets!PUSH, Packets!ACK, Packets!WASK, Packets!WINS, Packets!Commands
<1>2. ~Packets!Bit(c, 32)
  <2>1. c \div 32 = 2
    BY <1>1
  <2>2. QED
    BY <2>1 DEF Packets!Bit
<1>3. Packets!Bit(c + 32, 32)
  <2>1. (c + 32) \div 32 = 3
    BY <1>1
  <2>2. QED
    BY <2>1 DEF Packets!Bit
<1>4. ~Packets!Bit(c + 32, 8)
  <2>1. (c + 32) \div 8 = 14
    BY <1>1
  <2>2. QED
    BY <2>1 DEF Packets!Bit
<1>5. Packets!Or(c, 32) = c + 32 /\ Packets!Xor(c + 32, 32) = c
  BY <1>1, <1>2, <1>3 DEF Packets!Or, Packets!Xor
<1>6. QED
  BY <1>1, <1>3, <1>4, <1>5 DEF Packets!KCP_FIN, Packets!KCP_RESET

\* A packet as it is: nothing of it is refused.
LEMMA PlainInput ==
  ASSUME NEW p \in Packets!Flushed
  PROVE  /\ Packets!kcp_input(p).applied = p
         /\ Packets!kcp_input(p).fin_recved = FALSE
         /\ Packets!kcp_input(p).disconnected = FALSE
<1>1. p \in Seq(Segment) /\ \A i \in 1 .. Len(p) : p[i].cmd \in Packets!Commands
  BY FlushedShape DEF HeadsThenData
<1>2. Packets!Accepted(p) = p
  BY <1>1, AcceptedAll
<1>3. Packets!IsErr(p) = FALSE
  BY <1>2 DEF Packets!IsErr
<1>4. p \o << >> = p
  BY <1>1
<1>5. QED
  BY <1>2, <1>3, <1>4 DEF Packets!kcp_input

\* A packet with a FIN: all of it is refused, the FIN is found, and without
\* the FIN all of it is taken.
LEMMA FinInput ==
  ASSUME NEW p \in Packets!Flushed,
         NEW r, r = Packets!write_cmd(p, Packets!Or(Packets!read_cmd(p), Packets!KCP_FIN))
  PROVE  /\ Packets!kcp_input(r).applied = p
         /\ Packets!kcp_input(r).fin_recved = TRUE
         /\ Packets!kcp_input(r).disconnected = FALSE
<1> DEFINE c == p[1].cmd
<1>1. p \in Seq(Segment) /\ Len(p) >= 1 /\ \A i \in 1 .. Len(p) : p[i].cmd \in Packets!Commands
  BY FlushedShape DEF HeadsThenData
<1>2. Len(p) \in Nat /\ 1 \in 1 .. Len(p) /\ DOMAIN p = 1 .. Len(p) /\ c \in Packets!Commands
  BY <1>1
<1>3. r = [p EXCEPT ![1].cmd = c + 32]
  BY <1>2, Bits DEF Packets!write_cmd, Packets!read_cmd
<1>4. c \in 81 .. 84 /\ c + 32 \notin Packets!Commands
  BY <1>2, Bits
<1>5. p[1] = [cmd |-> c, len |-> p[1].len] /\ p[1].len \in Nat
  <2>1. p[1] \in Segment
    BY <1>1, <1>2
  <2>2. QED
    BY <2>1 DEF Segment
<1>6. /\ r \in Seq([cmd : Nat, len : Nat]) /\ Len(r) = Len(p)
      /\ r[1] = [cmd |-> c + 32, len |-> p[1].len]
  <2>1. r \in [1 .. Len(p) -> [cmd : Nat, len : Nat]]
    <3>1. p \in [1 .. Len(p) -> [cmd : Nat, len : Nat]]
      <4>1. \A i \in 1 .. Len(p) : p[i] \in [cmd : Nat, len : Nat]
        <5>1. \A i \in 1 .. Len(p) : p[i] \in Segment
          BY <1>1
        <5>2. Packets!Commands \subseteq Nat
          BY DEF Packets!PUSH, Packets!ACK, Packets!WASK, Packets!WINS, Packets!Commands
        <5>3. QED
          BY <5>1, <5>2 DEF Segment
      <4>2. p = [i \in 1 .. Len(p) |-> p[i]]
        BY <1>1
      <4>3. QED
        BY <4>1, <4>2
    <3>2. [p[1] EXCEPT !.cmd = c + 32] = [cmd |-> c + 32, len |-> p[1].len]
      BY <1>5
    <3>3. [cmd |-> c + 32, len |-> p[1].len] \in [cmd : Nat, len : Nat]
      BY <1>4, <1>5
    <3>4. QED
      BY <1>3, <3>1, <3>2, <3>3
  <2>2. r[1] = [p[1] EXCEPT !.cmd = c + 32]
    BY <1>2, <1>3
  <2>3. r[1] = [cmd |-> c + 32, len |-> p[1].len]
    BY <1>5, <2>2
  <2>4. r \in Seq([cmd : Nat, len : Nat]) /\ Len(r) = Len(p)
    BY <1>2, <2>1, FunctionSeq
  <2>5. QED
    BY <2>3, <2>4
<1>7. Packets!Accepted(r) = << >> /\ r # << >>
  BY <1>1, <1>4, <1>6, AcceptedNone
<1>8. Packets!IsErr(r) = TRUE
  BY <1>7 DEF Packets!IsErr
<1>9. Packets!read_cmd(r) = c + 32
  BY <1>6 DEF Packets!read_cmd
<1>10. Packets!Bit(c + 32, Packets!KCP_FIN) = TRUE /\ Packets!Bit(c + 32, Packets!KCP_RESET) = FALSE
  BY <1>2, Bits DEF Packets!Bit
<1>11. Packets!write_cmd(r, Packets!Xor(c + 32, Packets!KCP_FIN)) = p
  <2>1. Packets!Xor(c + 32, Packets!KCP_FIN) = c
    BY <1>2, Bits
  <2>2. [r EXCEPT ![1].cmd = c] = p
    <3>1. [r[1] EXCEPT !.cmd = c] = p[1]
      BY <1>5, <1>6
    <3>2. DOMAIN r = 1 .. Len(p) /\ p = [i \in 1 .. Len(p) |-> p[i]]
      BY <1>1, <1>2, <1>3
    <3>3. \A i \in 1 .. Len(p) : i # 1 => r[i] = p[i]
      BY <1>2, <1>3
    <3>4. [r EXCEPT ![1] = p[1]] = p
      BY <1>2, <3>2, <3>3
    <3>5. QED
      BY <3>1, <3>4
  <2>3. QED
    BY <2>1, <2>2 DEF Packets!write_cmd
<1>12. Packets!Accepted(p) = p
  BY <1>1, AcceptedAll
<1>13. << >> \o p = p
  BY <1>1
<1> HIDE DEF c
<1>14. QED
  BY <1>7, <1>8, <1>9, <1>10, <1>11, <1>12, <1>13 DEF Packets!kcp_input

\* The packet of write_ack_head is refused, and taken for a RESET.
LEMMA ResetInput == Packets!kcp_input(Packets!write_ack_head).disconnected = TRUE
<1> DEFINE r == Packets!write_ack_head
<1>1. Packets!Bit(82, 8) = FALSE /\ Packets!Bit(90, 8) = TRUE
  <2>1. 82 \div 8 = 10 /\ 90 \div 8 = 11
    OBVIOUS
  <2>2. QED
    BY <2>1 DEF Packets!Bit
<1>2. r = <<[cmd |-> 90, len |-> 0]>>
  BY <1>1 DEF Packets!write_ack_head, Packets!Or, Packets!ACK, Packets!KCP_RESET
<1> HIDE DEF r
<1>3. r \in Seq([cmd : Nat, len : Nat]) /\ Len(r) = 1 /\ r[1].cmd = 90
  BY <1>2
<1>4. 90 \notin Packets!Commands
  BY DEF Packets!PUSH, Packets!ACK, Packets!WASK, Packets!WINS, Packets!Commands
<1>5. Packets!Accepted(r) = << >> /\ r # << >>
  BY <1>3, <1>4, AcceptedNone
<1>6. Packets!IsErr(r) = TRUE
  BY <1>5 DEF Packets!IsErr
<1>7. Packets!read_cmd(r) = 90
  BY <1>3 DEF Packets!read_cmd
<1>8. Packets!kcp_input(r).disconnected = TRUE
  BY <1>1, <1>6, <1>7 DEF Packets!kcp_input, Packets!KCP_RESET
<1>9. QED
  BY <1>8 DEF r

\* What the peer makes of a packet, in every state of the handshake.
LEMMA Understood ==
  ASSUME NEW hs \in Handshake
  PROVE  hs \in Packets!AppliedOnce \cap Packets!FlagsExact
<1>1. ASSUME NEW p \in Packets!Flushed
      PROVE  LET r == Packets!kcp_input(Packets!kcp_output(p, hs))
             IN  /\ r.applied = p
                 /\ r.fin_recved = (hs = "FinSent" /\ \E i \in DOMAIN p : p[i].cmd = Packets!PUSH)
                 /\ ~r.disconnected
  <2> DEFINE f == hs = "FinSent" /\ \E i \in DOMAIN p : p[i].cmd = Packets!PUSH
  <2>1. CASE f
    <3>1. Packets!kcp_output(p, hs)
            = Packets!write_cmd(p, Packets!Or(Packets!read_cmd(p), Packets!KCP_FIN))
      BY <2>1, DataFound DEF Packets!kcp_output
    <3>2. QED
      BY <2>1, <3>1, FinInput
  <2>2. CASE ~f
    <3>1. Packets!kcp_output(p, hs) = p
      BY <2>2, DataFound DEF Packets!kcp_output
    <3>2. QED
      BY <2>2, <3>1, PlainInput
  <2>3. QED
    BY <2>1, <2>2
<1>2. hs \in Packets!AppliedOnce
  BY <1>1 DEF Packets!AppliedOnce
<1>3. hs \in Packets!FlagsExact
  BY <1>1, ResetInput DEF Packets!FlagsExact
<1>4. QED
  BY <1>2, <1>3

(***************************************************************************)
(* In every state of the handshake, a packet of any number of segments of   *)
(* any lengths is processed once and as it was sent, and is taken for a FIN *)
(* or RESET packet just when it is one: the flags are free bits of each     *)
(* command, so ikcp_input refuses the first segment and has applied nothing *)
(* when kcp_input inputs the packet again (kcp_output and kcp_input,        *)
(* stream.rs).                                                              *)
(***************************************************************************)
THEOREM PacketsAreUnderstood == Spec => []PacketsUnderstood
<1>1. IInv => PacketsUnderstood
  <2> SUFFICES ASSUME IInv, NEW e \in End
               PROVE  st[e].hs \in Packets!AppliedOnce \cap Packets!FlagsExact
    BY DEF PacketsUnderstood
  <2>1. st[e] \in EndState
    BY DEF IInv, StreamInv, TypeOK
  <2>2. st[e].hs \in Handshake
    BY <2>1 DEF EndState
  <2>3. QED
    BY <2>2, Understood
<1>2. QED
  BY <1>1, Invariant, PTL
=============================================================================
