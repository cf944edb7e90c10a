----------------------------- MODULE KcpStreamIo -----------------------------
(***************************************************************************)
(* The KcpStream handle of src/stream.rs in the hands of the application:   *)
(* AsyncRead and AsyncWrite on top of Stream and Sink, the PollSender of    *)
(* the input channel with the slot that it may have reserved, and closing.  *)
(* Bytes are numbered from 1 in each direction.  Each chunk of poll_write   *)
(* is a step of its own: the task runs on another thread meanwhile.  Of the *)
(* task only the ends of its two channels are here (module KcpStream has    *)
(* the rest).                                                               *)
(***************************************************************************)
EXTENDS Integers, Sequences

CONSTANTS
    MaxFrame,  \* max_frame_size(config.mtu)
    InCap,     \* capacity of the input channel
    OutCap,    \* capacity of the output channel
    Total,     \* bound: bytes that the application writes
    MaxIn      \* bound: bytes that the peer has written

ASSUME IoAssumption ==
    /\ {MaxFrame, InCap, OutCap} \subseteq Nat \ {0}
    /\ Total \in Nat /\ MaxIn \in Nat

VARIABLES
    sink,       \* the PollSender
    inq,        \* frames in the input channel
    rx_closed,  \* input_rx.close() was called
    task,       \* where the task is: in its loop, draining the input, ended
    cancelled,  \* the token
    out,        \* frames in the output channel
    read_buf,   \* the rest of a frame, <<>> for None
    app,        \* the call that the application is in: poll_write with a
                \* buffer of `want` bytes of which `len` are queued, close
    acked,      \* bytes that the application knows to be written
    queued,     \* history: the bytes put into the input channel
    made,       \* history: bytes put into the output channel
    got,        \* history: the bytes that the application has read
    eof         \* history: a read has found the end of the stream

vars == <<sink, inq, rx_closed, task, cancelled, out, read_buf, app, acked, queued, made, got, eof>>
writes == <<sink, inq, queued, acked>>
reads == <<out, read_buf, made, got, eof>>

Bytes(from, n) == [i \in 1 .. n |-> from + i]

TypeOK ==
    /\ sink \in {"idle", "acquiring", "assigned", "ready", "closing", "closed"}
    /\ inq \in Seq(Seq(Nat)) /\ out \in Seq(Seq(Nat)) /\ queued \in Seq(Nat)
    /\ task \in {"run", "drain", "ended"}
    /\ rx_closed \in BOOLEAN /\ cancelled \in BOOLEAN /\ eof \in BOOLEAN
    /\ read_buf \in Seq(Nat) /\ got \in Seq(Nat)
    /\ app \in [pc : {"idle", "write", "close", "gone"}, want : Nat, len : Nat]
    /\ acked \in Nat /\ made \in Nat

Idle == [pc |-> "idle", want |-> 0, len |-> 0]

Init ==
    /\ sink = "idle" /\ inq = <<>> /\ rx_closed = FALSE
    /\ task = "run" /\ cancelled = FALSE
    /\ out = <<>> /\ read_buf = <<>>
    /\ app = Idle
    /\ acked = 0 /\ queued = <<>> /\ made = 0 /\ got = <<>> /\ eof = FALSE

-----------------------------------------------------------------------------
(***************************************************************************)
(* PollSender.  A slot that becomes free goes to the one who waits for it,  *)
(* who holds it before it is polled again.  A sender that is closed keeps a *)
(* slot that poll_ready has reserved.                                       *)
(***************************************************************************)
HoldsSlot == sink \in {"assigned", "ready", "closing"}

poll_reserve ==
    IF sink \in {"ready", "closing", "closed"} THEN sink
    ELSE IF rx_closed THEN "closed"
    ELSE IF sink = "assigned" \/ Len(inq) < InCap THEN "ready" ELSE "acquiring"

Reserved == poll_reserve \in {"ready", "closing"}

\* The slot is used up by the frame.
send_item(frame) ==
    /\ inq' = Append(inq, frame)
    /\ queued' = queued \o frame
    /\ sink' = IF poll_reserve = "closing" THEN "closed" ELSE "idle"

close_sink == IF sink \in {"ready", "closing"} THEN "closing" ELSE "closed"

-----------------------------------------------------------------------------
\* Sink: poll_ready and then start_send of a frame of any size.
poll_ready ==
    /\ app.pc = "idle"
    /\ sink' = poll_reserve
    /\ UNCHANGED <<inq, queued, acked, rx_closed, task, cancelled, app, reads>>

start_send(n) ==
    /\ app.pc = "idle" /\ sink = "ready"
    /\ acked + n <= Total
    /\ send_item(Bytes(acked, n))
    /\ acked' = acked + n
    /\ UNCHANGED <<rx_closed, task, cancelled, app, reads>>

poll_write(n) ==
    /\ app.pc = "idle"
    /\ acked + n <= Total
    /\ app' = [pc |-> "write", want |-> n, len |-> 0]
    /\ UNCHANGED <<writes, rx_closed, task, cancelled, reads>>

\* Mutant: what is queued already is not counted.
ReturnPending == app' = Idle /\ UNCHANGED acked

\* The number of bytes; Pending or an error if there are none.
Return == app' = Idle /\ acked' = acked + app.len

WriteChunk ==
    LET n == IF app.want - app.len < MaxFrame THEN app.want - app.len ELSE MaxFrame
    IN  /\ app.pc = "write"
        /\ \/ /\ app.len < app.want /\ Reserved
              /\ send_item(Bytes(acked + app.len, n))
              /\ app' = [app EXCEPT !.len = @ + n]
              /\ UNCHANGED acked
           \/ /\ app.len < app.want /\ ~Reserved
              /\ sink' = poll_reserve
              /\ Return
              /\ UNCHANGED <<inq, queued>>
           \/ /\ app.len = app.want
              /\ Return
              /\ UNCHANGED <<sink, inq, queued>>
        /\ UNCHANGED <<rx_closed, task, cancelled, reads>>

shutdown_immediately ==
    /\ app.pc = "idle"
    /\ sink' = "closed"
    /\ UNCHANGED <<inq, queued, acked, rx_closed, task, cancelled, app, reads>>

-----------------------------------------------------------------------------
\* output_rx is at its end: the task has dropped output_tx.
OutEnd == out = <<>> /\ task # "run"

Took(chunk) == got' = got \o chunk

\* Mutant: the rest of a frame that poll_read has begun is passed over.
ChunkInChannel == IF out # <<>> THEN Head(out) ELSE read_buf

\* What is read next: the rest of a frame, then the channel.
Chunk == IF read_buf # <<>> THEN read_buf ELSE Head(out)

Behind == IF read_buf # <<>> THEN out ELSE Tail(out)

\* Stream; a poll that is pending changes nothing.
poll_next ==
    /\ app.pc = "idle"
    /\ read_buf # <<>> \/ out # <<>>
    /\ Took(Chunk)
    /\ out' = Behind
    /\ read_buf' = <<>>
    /\ UNCHANGED <<writes, rx_closed, task, cancelled, app, made, eof>>

\* AsyncRead with room for n bytes.
poll_read(n) ==
    LET k == IF n < Len(Chunk) THEN n ELSE Len(Chunk)
    IN  /\ app.pc = "idle"
        /\ read_buf # <<>> \/ out # <<>>
        /\ Took(SubSeq(Chunk, 1, k))
        /\ read_buf' = SubSeq(Chunk, k + 1, Len(Chunk))
        /\ out' = Behind
        /\ UNCHANGED <<writes, rx_closed, task, cancelled, app, made, eof>>

\* Either of them returns None or 0 bytes.
ReadEnd ==
    /\ app.pc = "idle"
    /\ read_buf = <<>> /\ OutEnd
    /\ eof' = TRUE
    /\ UNCHANGED <<writes, rx_closed, task, cancelled, app, out, read_buf, made, got>>

-----------------------------------------------------------------------------
\* Mutant: the token is left alone.
TryCloseNoToken == UNCHANGED cancelled

\* Cancels the token; the task sees it, or that nobody reads its output.
try_close == cancelled' = TRUE

\* poll_close closes the sink, cancels the token and waits for the task.
poll_close ==
    /\ app.pc = "idle"
    /\ sink' = close_sink
    /\ try_close
    /\ app' = [app EXCEPT !.pc = "close"]
    /\ UNCHANGED <<inq, queued, acked, rx_closed, task, reads>>

Closed ==
    /\ app.pc = "close" /\ task = "ended"
    /\ app' = [app EXCEPT !.pc = "gone"]
    /\ UNCHANGED <<writes, rx_closed, task, cancelled, reads>>

\* Drop, which also gives up a poll_close that has not returned.
drop ==
    /\ app.pc \in {"idle", "close"}
    /\ app' = [app EXCEPT !.pc = "gone"]
    /\ try_close
    /\ sink' = "closed"
    /\ UNCHANGED <<inq, queued, acked, rx_closed, task, reads>>

-----------------------------------------------------------------------------
TaskTakes ==
    /\ task = "run" /\ inq # <<>>
    /\ inq' = Tail(inq)
    /\ sink' = IF sink = "acquiring" /\ ~rx_closed THEN "assigned" ELSE sink
    /\ UNCHANGED <<queued, acked, rx_closed, task, cancelled, app, reads>>

TaskDelivers(n) ==
    /\ task = "run" /\ ~cancelled
    /\ Len(out) < OutCap /\ made + n <= MaxIn
    /\ out' = Append(out, Bytes(made, n))
    /\ made' = made + n
    /\ UNCHANGED <<writes, rx_closed, task, cancelled, read_buf, app, got, eof>>

\* A FIN of the peer.
FinReceived ==
    /\ task = "run" /\ ~rx_closed
    /\ rx_closed' = TRUE
    /\ UNCHANGED <<writes, task, cancelled, app, reads>>

\* The loop ends, because of the token or by itself.
TaskBreaks ==
    /\ task = "run"
    /\ task' = "drain"
    /\ rx_closed' = TRUE
    /\ UNCHANGED <<writes, cancelled, app, reads>>

Drained == inq = <<>> /\ ~HoldsSlot

\* input_rx.recv() is None only when no slot is reserved any more.
Drain ==
    /\ task = "drain"
    /\ \/ inq # <<>> /\ inq' = Tail(inq) /\ UNCHANGED task
       \/ Drained /\ task' = "ended" /\ UNCHANGED inq
    /\ UNCHANGED <<sink, queued, acked, rx_closed, cancelled, app, reads>>

Ended == app.pc = "gone" /\ task = "ended" /\ UNCHANGED vars

Next ==
    \/ poll_ready \/ WriteChunk \/ shutdown_immediately
    \/ \E n \in 1 .. Total : start_send(n) \/ poll_write(n)
    \/ poll_next \/ ReadEnd \/ \E n \in 1 .. MaxIn : poll_read(n)
    \/ poll_close \/ Closed \/ drop
    \/ TaskTakes \/ FinReceived \/ TaskBreaks \/ Drain
    \/ \E n \in 1 .. MaxIn : TaskDelivers(n)
    \/ Ended

Spec == Init /\ [][Next]_vars

\* The task runs, sees the token, and wakes up the one who waits for it.
Fairness == WF_vars(cancelled /\ TaskBreaks) /\ WF_vars(Drain) /\ WF_vars(Closed)

FairSpec == Spec /\ Fairness

-----------------------------------------------------------------------------
(***************************************************************************)
(* What poll_write and start_send have put into the input channel is what   *)
(* the application was told, in order and once, while the task takes frames *)
(* or closes the channel between two chunks of a call.                      *)
(***************************************************************************)
WrittenOnce == queued = Bytes(0, acked + app.len)

\* A call writes no more than it was given, and none is left half done.
CallBounded ==
    IF app.pc = "write" THEN app.len <= app.want /\ acked + app.want <= Total
    ELSE app.len = 0 /\ app.want = 0

\* A slot that the PollSender holds, or may get, is free in the channel.
SlotFree == Len(inq) <= InCap /\ (HoldsSlot => Len(inq) < InCap)

(***************************************************************************)
(* The types, WrittenOnce and what it rests on (poll_write, stream.rs): an  *)
(* inductive invariant.                                                     *)
(***************************************************************************)
IoInv == TypeOK /\ WrittenOnce /\ CallBounded /\ SlotFree

\* The byte before the frame i of the output channel, or before those to come.
Before(i) == IF i \in DOMAIN out THEN out[i][1] - 1 ELSE made

(***************************************************************************)
(* poll_read and poll_next may be mixed: the bytes of the peer come out in  *)
(* order, none twice and none left out, as what was read, the rest of a     *)
(* frame and the frames of the channel follow each other without a gap; and *)
(* a read finds the end only when every byte that the task has handed over  *)
(* was read.                                                                *)
(***************************************************************************)
ReadOnce ==
    /\ got = Bytes(0, Len(got))
    /\ read_buf = Bytes(Len(got), Len(read_buf))
    /\ Before(1) = Len(got) + Len(read_buf)
    /\ \A i \in DOMAIN out : /\ out[i] # <<>> /\ out[i] = Bytes(Before(i), Len(out[i]))
                             /\ Before(i + 1) = Before(i) + Len(out[i])
    /\ eof => read_buf = <<>> /\ out = <<>> /\ Len(got) = made /\ task # "run"

(***************************************************************************)
(* close returns (poll_close waits for the task, the task for the input     *)
(* channel), unless the PollSender keeps a slot that poll_ready reserved    *)
(* and start_send did not use.                                              *)
(***************************************************************************)
CloseReturns == app.pc = "close" /\ ~HoldsSlot ~> app.pc = "gone"

(***************************************************************************)
(* close returns whatever was called before it, as tests/stream.rs takes    *)
(* for granted.                                                             *)
(***************************************************************************)
AlwaysCloses == app.pc = "close" ~> app.pc = "gone"
=============================================================================
