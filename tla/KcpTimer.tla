------------------------------ MODULE KcpTimer ------------------------------
(***************************************************************************)
(* The clocks of the Task of src/stream.rs: the u32 time in milliseconds    *)
(* that wraps, ikcp_check and ikcp_update, the timeouts of the handshakes,  *)
(* session_expire and the dead link.  A tick is a unit of time of any       *)
(* length.  Computing takes no time: time passes in the sleep of select!,   *)
(* while the transport is not ready, and while the loop spins.              *)
(*                                                                          *)
(* The Kcp has at most one segment in flight; what the handshakes exchange  *)
(* is in module KcpStream.                                                  *)
(***************************************************************************)
EXTENDS Integers, FiniteSetsExt

CONSTANTS
    Modulus,          \* of the clock: 2^32
    Slack,            \* 10000 in ikcp_update and ikcp_check
    SynInterval,      \* kcp->interval until the handshake: 100
    Interval,         \* config.nodelay.interval, between 10 and 5000
    Rtos,             \* what may pass between two transmissions of a segment
    DeadLink,         \* kcp->dead_link
    ConnectTimeout, ShutdownTimeout, SessionExpire,
    MaxBlock          \* bound: how long the transport may not be ready

Half == Modulus \div 2

MaxInterval == Max({SynInterval, Interval})

ASSUME TimerAssumption ==
    /\ Modulus \in Nat /\ Modulus = 2 * Half
    /\ Slack \in Nat /\ SynInterval \in 1 .. Slack /\ Interval \in 1 .. Slack /\ Slack < Half
    /\ Rtos # {} /\ Rtos \subseteq 1 .. Half - 1
    /\ DeadLink \in Nat \ {0, 1} /\ MaxBlock \in Nat
    /\ {ConnectTimeout, ShutdownTimeout} \subseteq 1 .. Half - 1 - MaxBlock
    /\ SessionExpire \in 1 .. Half - 1 - MaxInterval - 2 * MaxBlock

VARIABLES
    now,       \* get_system_time()
    kcp,       \* current, ts_flush, interval and the state of the link
    seg,       \* the segment in flight
    task,      \* hs, hs_end_time, last_io_time
    pc,        \* where run is
    left,      \* how long the sleep lasts, or the transport may block
    client,    \* flags & CLIENT
    gone,      \* the peer is gone: no packet comes any more
    real       \* history: what is left until the end of the handshake, the
               \* time since the last I/O and since the segment was due, as
               \* far as the properties tell them apart

vars == <<now, kcp, seg, task, pc, left, client, gone, real>>

Time == 0 .. Modulus - 1

wrapping_add(a, b) == (a + b) % Modulus

\* Mutant: the difference of two u32 is not folded into an i32.
DiffUnfolded(a, b) == a - b

\* The difference of two u32 as an i32.
itimediff(a, b) == ((a - b + Half) % Modulus) - Half

NoSeg == [xmit |-> 0, resendts |-> 0, queued |-> FALSE]

Queued == [xmit |-> 0, resendts |-> 0, queued |-> TRUE]

\* The states with a time limit; FinSent is also FinWaitPeer.
Handshakes == {"Syn", "FinPending", "FinSent"}

TypeOK ==
    /\ now \in Time
    /\ kcp \in [current : Time, ts_flush : Time, interval : {SynInterval, Interval}, dead : BOOLEAN]
    /\ seg \in [xmit : 0 .. DeadLink, resendts : Time, queued : BOOLEAN]
    /\ task \in [hs : {"Connected", "Disconnected"} \cup Handshakes, input_closed : BOOLEAN,
                 hs_end_time : Time, last_io_time : Time]
    /\ pc \in {"top", "output", "sleep", "spin", "done"}
    /\ left \in Nat
    /\ client \in BOOLEAN /\ gone \in BOOLEAN
    /\ real \in [hs_left : Nat, idle : Nat, overdue : Int]

-----------------------------------------------------------------------------
InFlight(s) == s.xmit > 0

Due(s, c) == InFlight(s) /\ itimediff(c, s.resendts) >= 0

\* ikcp_flush at the time c; the next transmission is rto later.
flushed(s, c, rto) ==
    IF s.queued \/ Due(s, c)
    THEN [xmit |-> s.xmit + 1, resendts |-> wrapping_add(c, rto), queued |-> FALSE]
    ELSE s

(***************************************************************************)
(* ikcp_update at the time now: does it flush, and the new ts_flush.        *)
(***************************************************************************)
OutOfRange(diff) == diff >= Slack \/ diff < -Slack

slap(k) ==
    LET d == itimediff(now, k.ts_flush) IN IF OutOfRange(d) THEN 0 ELSE d

\* Mutant: a flush that is due at this very time is left for the next tick.
FlushesLate(k) == slap(k) > 0

Flushes(k) == slap(k) >= 0

next_flush(k) ==
    LET base == IF OutOfRange(itimediff(now, k.ts_flush)) THEN now ELSE k.ts_flush
        next == wrapping_add(base, k.interval)
    IN  IF itimediff(now, next) >= 0 THEN wrapping_add(now, k.interval) ELSE next

\* Mutant: the time is not kept.
UpdateKeepsTime(k) == [k EXCEPT !.ts_flush = IF Flushes(k) THEN next_flush(k) ELSE @]

ikcp_update(k) ==
    [k EXCEPT !.current = now, !.ts_flush = IF Flushes(k) THEN next_flush(k) ELSE @]

\* ikcp_check, from now: how long until ikcp_update should be called.
check ==
    LET d == itimediff(kcp.ts_flush, now)
    IN  IF d <= 0 \/ OutOfRange(-d) \/ Due(seg, now) THEN 0
        ELSE Min({d, kcp.interval}
                   \cup IF InFlight(seg) THEN {itimediff(seg.resendts, now)} ELSE {})

duration_since(since) == Max({itimediff(kcp.current, since), 0})

-----------------------------------------------------------------------------
\* The client has sent its SYN; a server waits for the one that made it.
Init ==
    /\ now = 0
    /\ client \in BOOLEAN
    /\ \E rto \in Rtos :
          /\ seg = IF client THEN flushed(Queued, 0, rto) ELSE NoSeg
          /\ real = [hs_left |-> ConnectTimeout, idle |-> 0, overdue |-> IF client THEN -rto ELSE 0]
    /\ kcp = [current |-> 0, ts_flush |-> SynInterval, interval |-> SynInterval, dead |-> FALSE]
    /\ task = [hs |-> "Syn", input_closed |-> FALSE,
               hs_end_time |-> wrapping_add(0, ConnectTimeout), last_io_time |-> 0]
    /\ pc = IF client THEN "output" ELSE "top"
    /\ left = MaxBlock
    /\ gone = FALSE

(***************************************************************************)
(* One step of the loop leaves the control block k, the segment s and the   *)
(* task t, after a flush by ikcp_update or kcp_flush or without one, and    *)
(* goes on: what was flushed is sent first, which may take time.  A flush   *)
(* may have acknowledgements and probes to send besides the segment.        *)
(***************************************************************************)
Continue(k, s, t, by, rto) ==
    LET s1 == IF by = "" THEN s ELSE flushed(s, k.current, rto)
    IN  /\ seg' = s1
        /\ kcp' = [k EXCEPT !.dead = @ \/ s1.xmit >= DeadLink]
        /\ task' = t
        /\ real' = [hs_left |-> IF t.hs \notin Handshakes THEN 0
                                ELSE IF task.hs = "Connected" THEN ShutdownTimeout ELSE real.hs_left,
                    idle |-> IF by = "kcp_flush" THEN 0 ELSE real.idle,
                    overdue |-> IF ~InFlight(s1) THEN 0
                                ELSE IF s1.xmit # s.xmit THEN -rto ELSE real.overdue]
        /\ pc' \in {"output", "top"}
        /\ by = "" => pc' = "top"
        /\ s1.xmit # s.xmit => pc' = "output"
        /\ left' = MaxBlock
        /\ UNCHANGED <<now, client, gone>>

kcp_flush(k, s, t, rto) ==
    Continue(ikcp_update(k), s, [t EXCEPT !.last_io_time = ikcp_update(k).current], "kcp_flush", rto)

\* fin_transit_state out of Connected.
StartFin(t) ==
    [t EXCEPT !.hs = "FinPending", !.hs_end_time = wrapping_add(now, ShutdownTimeout)]

-----------------------------------------------------------------------------
\* Mutant: the time left is taken for a u32.
timeout_u32 == wrapping_add(task.hs_end_time, Modulus - now)

timeout == itimediff(task.hs_end_time, now)

TimedOut == timeout <= 0

Expired == kcp.dead \/ duration_since(task.last_io_time) >= SessionExpire

Waits == task.hs # "Connected"

Stop == pc' = "done" /\ UNCHANGED <<now, kcp, seg, task, left, client, gone, real>>

\* The loop ends.
Break ==
    /\ pc = "top"
    /\ task.hs = "Disconnected" \/ Expired
    /\ Stop

Going == pc = "top" /\ task.hs # "Disconnected" /\ ~Expired

HandshakeTimeout(rto) ==
    /\ Going /\ Waits /\ TimedOut
    /\ Continue(kcp, seg, [task EXCEPT !.hs = "Disconnected"], "", rto)

\* The minimum with 60000 changes nothing: check is at most the interval.
interval ==
    IF Waits THEN Min({check, timeout}) ELSE check

\* The update may find that it is not the time to flush: the loop comes here again.
Update(rto) ==
    /\ Going /\ ~(Waits /\ TimedOut) /\ interval = 0
    /\ IF Flushes(kcp) THEN Continue(ikcp_update(kcp), seg, task, "update", rto)
       ELSE /\ kcp' = ikcp_update(kcp)
            /\ pc' = "spin"
            /\ UNCHANGED <<now, seg, task, left, client, gone, real>>

Sleep ==
    /\ Going /\ ~(Waits /\ TimedOut) /\ interval > 0
    /\ pc' = "sleep"
    /\ left' = interval
    /\ UNCHANGED <<now, kcp, seg, task, client, gone, real>>

\* A tick of the clock.
Elapse ==
    /\ pc = "spin" \/ (pc \in {"sleep", "output"} /\ left > 0)
    /\ now' = wrapping_add(now, 1)
    /\ pc' = IF pc = "spin" \/ (pc = "sleep" /\ left = 1) THEN "top" ELSE pc
    /\ left' = IF pc = "spin" THEN left ELSE left - 1
    /\ real' = [hs_left |-> Max({real.hs_left - 1, 0}),
                idle |-> Min({real.idle + 1, SessionExpire + MaxInterval}),
                overdue |-> IF InFlight(seg) THEN Min({real.overdue + 1, MaxInterval}) ELSE 0]
    /\ UNCHANGED <<kcp, seg, task, client, gone>>

\* kcp_output is done, or has failed.
Sent ==
    /\ pc = "output"
    /\ pc' = "top"
    /\ UNCHANGED <<now, kcp, seg, task, left, client, gone, real>>

OutputError == pc = "output" /\ Stop

Cancelled == pc \in {"output", "sleep"} /\ Stop

-----------------------------------------------------------------------------
(***************************************************************************)
(* Packets of the peer, which may acknowledge the segment.  Those that      *)
(* kcp_input only accepts after a change (the SYN of another conv, a FIN)   *)
(* ask for no flush.  The new hs is next; a frame of the handshake is sent  *)
(* with it if `send`.                                                       *)
(***************************************************************************)
Moves(idle) ==
    {[next |-> task.hs, send |-> FALSE], [next |-> "Disconnected", send |-> FALSE]}
      \cup CASE task.hs = "Syn" /\ (client => idle) -> {[next |-> "Connected", send |-> ~client]}
             [] task.hs = "Connected"               -> {[next |-> "FinPending", send |-> FALSE]}
             [] task.hs = "FinPending" /\ idle /\ task.input_closed ->
                                                       {[next |-> "FinSent", send |-> TRUE]}
             [] OTHER                               -> {}

TransportBranch(acked, accepted, rto) ==
    LET s == IF acked THEN NoSeg ELSE seg
    IN  /\ pc = "sleep" /\ ~gone
        /\ acked => InFlight(seg)
        /\ \E m \in Moves(s = NoSeg) :
              LET k == [kcp EXCEPT !.interval = IF m.next = "Connected" THEN Interval ELSE @]
                  t == IF task.hs = "Connected" /\ m.next = "FinPending" THEN StartFin(task)
                       ELSE [task EXCEPT !.hs = m.next]
              IN  IF accepted \/ m.send
                  THEN kcp_flush(k, IF m.send THEN Queued ELSE s, t, rto)
                  ELSE Continue(k, s, t, "", rto)

Input == pc = "sleep" /\ ~task.input_closed

\* A frame of the application, flushed at once or with the next update.
InputFrame(flush, rto) ==
    /\ Input /\ task.hs # "Syn" /\ seg = NoSeg
    /\ IF flush THEN kcp_flush(kcp, Queued, task, rto) ELSE Continue(kcp, Queued, task, "", rto)

\* The input channel is closed: the FIN frame goes out unless data is in flight.
InputClosed(rto) ==
    LET t == [task EXCEPT !.input_closed = TRUE]
        fin == IF t.hs = "Connected" THEN StartFin(t) ELSE t
    IN  /\ Input
        /\ CASE t.hs = "Syn" -> Continue(kcp, seg, [t EXCEPT !.hs = "Disconnected"], "", rto)
             [] t.hs # "Syn" /\ seg = NoSeg ->
                   kcp_flush(kcp, Queued, [fin EXCEPT !.hs = "FinSent"], rto)
             [] OTHER -> Continue(kcp, seg, fin, "", rto)

PeerGone ==
    /\ ~gone
    /\ gone' = TRUE
    /\ UNCHANGED <<now, kcp, seg, task, pc, left, client, real>>

Ended == pc = "done" /\ UNCHANGED vars

Loop == Break \/ Sleep \/ \E rto \in Rtos : HandshakeTimeout(rto) \/ Update(rto)

Next ==
    \/ Loop
    \/ Elapse
    \/ Sent \/ OutputError \/ Cancelled
    \/ \E rto \in Rtos :
          \/ \E acked, accepted \in BOOLEAN : TransportBranch(acked, accepted, rto)
          \/ \E flush \in BOOLEAN : InputFrame(flush, rto)
          \/ InputClosed(rto)
    \/ PeerGone
    \/ Ended

Spec == Init /\ [][Next]_vars

\* The loop runs, time passes and the transport is ready in the end.
Fairness == WF_vars(Loop) /\ WF_vars(Elapse) /\ WF_vars(Sent)

FairSpec == Spec /\ Fairness

-----------------------------------------------------------------------------
(***************************************************************************)
(* The end of a SYN or FIN handshake is never slept through, also when      *)
(* hs_end_time lies beyond the wrap of the clock or has gone by while the   *)
(* transport was not ready.                                                 *)
(***************************************************************************)
TimeoutNotSlept ==
    pc \in {"sleep", "spin"} /\ Waits /\ task.hs # "Disconnected" => real.hs_left > 0

(***************************************************************************)
(* A segment whose retransmission is due is sent within an interval, and    *)
(* never waits in a sleep of the task.                                      *)
(***************************************************************************)
RetransmitsInTime ==
    InFlight(seg) =>
        /\ pc = "sleep" => real.overdue < 0
        /\ pc = "spin" => real.overdue < MaxInterval

(***************************************************************************)
(* A session ends session_expire after its last I/O, at most an interval    *)
(* late; it is looked for in kcp->current, which only an update moves on.   *)
(***************************************************************************)
ExpiresInTime == pc \in {"sleep", "spin"} => real.idle < SessionExpire + MaxInterval

(***************************************************************************)
(* Why these hold: each clock of the code says the true time, as no         *)
(* distance reaches half the range.  The distances are taken from now.      *)
(***************************************************************************)
SinceUpdate == itimediff(now, kcp.current)

UntilFlush == itimediff(kcp.ts_flush, now)

IdleAtUpdate == itimediff(kcp.current, task.last_io_time)

Overdue == itimediff(now, seg.resendts)

\* The next flush is an interval after the last update at most, and the task
\* sleeps no longer.
FlushClock ==
    /\ SinceUpdate >= 0 /\ UntilFlush >= -MaxBlock
    /\ SinceUpdate + UntilFlush \in 1 .. MaxInterval
    /\ pc = "output" => left <= MaxBlock /\ SinceUpdate = MaxBlock - left
    /\ pc = "sleep" => left > 0 /\ left <= UntilFlush
    /\ pc = "spin" => SinceUpdate = 0

HandshakeClock ==
    task.hs \in Handshakes =>
        /\ real.hs_left = Max({timeout, 0})
        /\ timeout >= -MaxBlock
        /\ pc = "output" => timeout >= left - MaxBlock
        /\ pc = "sleep" => timeout >= left
        /\ pc = "spin" => timeout > 0

\* A flush has looked at the segment an interval before the next one at most.
ResendClock ==
    InFlight(seg) =>
        /\ real.overdue = Min({Overdue, MaxInterval})
        /\ Overdue > -Half /\ Overdue + UntilFlush < MaxInterval
        /\ pc = "sleep" => Overdue <= -left

IdleClock ==
    /\ real.idle = Min({IdleAtUpdate + SinceUpdate, SessionExpire + MaxInterval})
    /\ IdleAtUpdate \in 0 .. SessionExpire + MaxInterval + MaxBlock - 1
    /\ IdleAtUpdate + SinceUpdate < SessionExpire + MaxInterval + 2 * MaxBlock
    /\ pc = "sleep" => IdleAtUpdate < SessionExpire
    /\ pc = "spin" => IdleAtUpdate + 1 < SessionExpire + MaxInterval

LinkAlive ==
    /\ ~kcp.dead => seg.xmit < DeadLink
    /\ pc = "sleep" => ~kcp.dead /\ task.hs # "Disconnected"

(***************************************************************************)
(* The types, the clocks and what may not be slept through (run, stream.rs, *)
(* ikcp_update and ikcp_check, ikcp.c): an inductive invariant.             *)
(***************************************************************************)
TimerInv ==
    /\ TypeOK /\ FlushClock /\ HandshakeClock /\ ResendClock /\ IdleClock /\ LinkAlive
    /\ TimeoutNotSlept /\ ExpiresInTime

(***************************************************************************)
(* Nothing ends before its time, also across the wrap of the clock: a       *)
(* handshake not before its timeout, a session that has no other reason not *)
(* before session_expire has gone by since its last I/O.                    *)
(***************************************************************************)
NothingEarly ==
    [][/\ pc = "top" /\ pc' = "top" /\ task'.hs # task.hs => real.hs_left = 0
       /\ pc = "top" /\ pc' = "done" =>
             task.hs = "Disconnected" \/ kcp.dead \/ real.idle >= SessionExpire]_vars

(***************************************************************************)
(* A task whose peer is gone ends, as that of a session which a delayed SYN *)
(* made, in whatever state of the handshake and with or without data in     *)
(* flight.                                                                  *)
(***************************************************************************)
OrphanEnds == gone ~> pc = "done"

(***************************************************************************)
(* ikcp_check says when ikcp_update has something to do (ikcp.c): the loop  *)
(* does not come back to an update at the same time.                        *)
(***************************************************************************)
NoSpin == pc # "spin"
=============================================================================
