-------------------------- MODULE KcpStreamIoProofs --------------------------
(***************************************************************************)
(* Proofs about KcpStreamIo, for every frame size, capacity of the channels *)
(* and number of bytes, whether or not the application closes with a slot   *)
(* reserved.                                                                *)
(***************************************************************************)
EXTENDS KcpStreamIo, TLAPS

-----------------------------------------------------------------------------
(***************************************************************************)
(* Runs of bytes.                                                           *)
(***************************************************************************)
LEMMA BytesFacts ==
    ASSUME NEW a \in Nat, NEW n \in Nat
    PROVE  /\ Bytes(a, n) \in Seq(Nat) /\ Len(Bytes(a, n)) = n
           /\ \A i \in 1 .. n : Bytes(a, n)[i] = a + i
  BY DEF Bytes

LEMMA ConcatFacts ==
    ASSUME NEW S, NEW s \in Seq(S), NEW t \in Seq(S)
    PROVE  /\ s \o t \in Seq(S) /\ Len(s \o t) = Len(s) + Len(t)
           /\ \A i \in 1 .. Len(s) : (s \o t)[i] = s[i]
           /\ \A i \in 1 .. Len(t) : (s \o t)[Len(s) + i] = t[i]
<1>1. Len(s) \in Nat /\ Len(t) \in Nat
  OBVIOUS
<1>2. s \o t \in Seq(S) /\ Len(s \o t) = Len(s) + Len(t)
  BY <1>1
<1>3. ASSUME NEW i \in 1 .. Len(s) PROVE (s \o t)[i] = s[i]
  BY <1>1
<1>4. ASSUME NEW i \in 1 .. Len(t) PROVE (s \o t)[Len(s) + i] = t[i]
  BY <1>1
<1>5. QED
  BY <1>2, <1>3, <1>4

LEMMA TailFacts ==
    ASSUME NEW S, NEW s \in Seq(S), s # <<>>
    PROVE  /\ Head(s) = s[1] /\ Head(s) \in S
           /\ Tail(s) \in Seq(S) /\ Len(s) \in Nat \ {0} /\ Len(Tail(s)) = Len(s) - 1
           /\ Len(Tail(s)) \in Nat /\ Len(Tail(s)) <= Len(s)
           /\ \A i \in 1 .. Len(s) - 1 : Tail(s)[i] = s[i + 1]
<1>1. Len(s) \in Nat \ {0}
  OBVIOUS
<1>2. Head(s) = s[1] /\ Head(s) \in S
  BY <1>1
<1>3. Tail(s) \in Seq(S) /\ Len(Tail(s)) = Len(s) - 1
  BY <1>1
<1>4. \A i \in 1 .. Len(s) - 1 : Tail(s)[i] = s[i + 1]
  BY <1>1
<1>5. QED
  BY <1>1, <1>2, <1>3, <1>4

LEMMA BytesConcat ==
    ASSUME NEW n \in Nat, NEW m \in Nat, NEW s, s = Bytes(0, n), NEW t, t = Bytes(n, m)
    PROVE  s \o t \in Seq(Nat) /\ s \o t = Bytes(0, n + m)
<1>1. s \in Seq(Nat) /\ Len(s) = n /\ \A i \in 1 .. n : s[i] = i
  BY DEF Bytes
<1>2. t \in Seq(Nat) /\ Len(t) = m /\ \A i \in 1 .. m : t[i] = n + i
  BY DEF Bytes
<1> DEFINE u == s \o t
<1>3. /\ u \in Seq(Nat) /\ Len(u) = Len(s) + Len(t)
      /\ \A i \in 1 .. Len(s) : u[i] = s[i]
      /\ \A i \in 1 .. Len(t) : u[Len(s) + i] = t[i]
  <2>1. s \in Seq(Nat) /\ t \in Seq(Nat)
    BY <1>1, <1>2
  <2>2. QED
    BY ONLY <2>1, ConcatFacts
<1> HIDE DEF u
<1>4. ASSUME NEW i \in 1 .. n + m PROVE u[i] = i
  <2>1. CASE i <= n
    <3>1. i \in 1 .. n
      BY <2>1
    <3>2. u[i] = s[i]
      BY ONLY <1>1, <1>3, <3>1
    <3>3. QED
      BY <1>1, <3>1, <3>2
  <2>2. CASE i > n
    <3>1. i - n \in 1 .. m /\ n + (i - n) = i
      BY <2>2
    <3>2. u[n + (i - n)] = t[i - n]
      BY <1>1, <1>2, <1>3, <3>1
    <3>3. QED
      BY <1>2, <3>1, <3>2
  <2>3. QED
    BY <2>1, <2>2
<1>5. Len(u) = n + m
  BY <1>1, <1>2, <1>3
<1>6. u = Bytes(0, n + m)
  BY <1>3, <1>4, <1>5 DEF Bytes
<1>7. QED
  BY <1>3, <1>6 DEF u

-----------------------------------------------------------------------------
(***************************************************************************)
(* The state of the two directions.                                         *)
(***************************************************************************)
AppState == [pc : {"idle", "write", "close", "gone"}, want : Nat, len : Nat]

SinkState == {"idle", "acquiring", "assigned", "ready", "closing", "closed"}

WriteTyped ==
    /\ sink \in SinkState /\ inq \in Seq(Seq(Nat)) /\ queued \in Seq(Nat)
    /\ app \in AppState /\ acked \in Nat

FlagsTyped == task \in {"run", "drain", "ended"} /\ rx_closed \in BOOLEAN /\ cancelled \in BOOLEAN

ReadTyped ==
    /\ out \in Seq(Seq(Nat)) /\ read_buf \in Seq(Nat) /\ got \in Seq(Nat)
    /\ made \in Nat /\ eof \in BOOLEAN

WriteInv == WriteTyped /\ WrittenOnce /\ CallBounded /\ SlotFree

ReadInv == ReadTyped /\ ReadOnce

IInv == WriteInv /\ FlagsTyped /\ ReadInv

LEMMA InvParts == IInv <=> IoInv /\ ReadOnce
  BY DEF IInv, WriteInv, ReadInv, IoInv, TypeOK, WriteTyped, FlagsTyped, ReadTyped, AppState, SinkState

LEMMA InvInit == Init => IInv
<1> SUFFICES ASSUME Init PROVE IInv
  OBVIOUS
<1>1. app = [pc |-> "idle", want |-> 0, len |-> 0] /\ acked = 0 /\ queued = <<>> /\ inq = <<>>
      /\ sink = "idle" /\ app.pc = "idle" /\ app.len = 0 /\ app.want = 0
  BY DEF Init, Idle
<1>2. WriteTyped
  <2>1. inq \in Seq(Seq(Nat)) /\ queued \in Seq(Nat)
    BY <1>1
  <2>2. app \in AppState
    BY <1>1 DEF AppState
  <2>3. QED
    BY <1>1, <2>1, <2>2 DEF WriteTyped, SinkState
<1>3. WrittenOnce
  BY <1>1 DEF WrittenOnce, Bytes
<1>4. CallBounded
  BY <1>1 DEF CallBounded
<1>5. SlotFree
  BY <1>1, IoAssumption DEF SlotFree, HoldsSlot
<1>6. FlagsTyped
  BY DEF Init, FlagsTyped
<1>7. out = <<>> /\ read_buf = <<>> /\ got = <<>> /\ made = 0 /\ eof = FALSE
  BY DEF Init
<1>8. ReadTyped
  <2>1. out \in Seq(Seq(Nat)) /\ read_buf \in Seq(Nat) /\ got \in Seq(Nat)
    BY <1>7
  <2>2. QED
    BY <1>7, <2>1 DEF ReadTyped
<1>9. ReadOnce
  <2>1. Len(got) = 0 /\ Len(read_buf) = 0 /\ DOMAIN out = {}
    BY <1>7
  <2>2. got = Bytes(0, Len(got)) /\ read_buf = Bytes(Len(got), Len(read_buf))
    BY <1>7, <2>1 DEF Bytes
  <2>3. Before(1) = Len(got) + Len(read_buf)
    BY <1>7, <2>1 DEF Before
  <2>4. QED
    BY <1>7, <2>1, <2>2, <2>3 DEF ReadOnce
<1>10. QED
  BY <1>2, <1>3, <1>4, <1>5, <1>6, <1>8, <1>9 DEF IInv, WriteInv, ReadInv

-----------------------------------------------------------------------------
(***************************************************************************)
(* The writing side.                                                        *)
(***************************************************************************)
\* The reading side of a step that leaves it alone; the task does not go back.
LEMMA ReadsKept ==
    ASSUME ReadInv, UNCHANGED reads, task # "run" => task' # "run"
    PROVE  ReadInv'
<1>1. out' = out /\ read_buf' = read_buf /\ made' = made /\ got' = got /\ eof' = eof
  BY DEF reads
<1>2. ReadTyped'
  BY <1>1 DEF ReadInv, ReadTyped
<1>3. ReadOnce'
  BY <1>1 DEF ReadInv, ReadOnce, Before
<1>4. QED
  BY <1>2, <1>3 DEF ReadInv

\* The writing side of a step that leaves the channel and the bytes alone.
LEMMA WritesKept ==
    ASSUME WriteInv, UNCHANGED <<queued, acked, app>>, sink' \in SinkState,
           inq' = inq \/ (inq # <<>> /\ inq' = Tail(inq)),
           (HoldsSlot' => Len(inq') < InCap) \/ (HoldsSlot' => HoldsSlot)
    PROVE  WriteInv'
<1>1. inq \in Seq(Seq(Nat)) /\ Len(inq) \in Nat /\ Len(inq) <= InCap
  BY DEF WriteInv, WriteTyped, SlotFree
<1>2. inq' \in Seq(Seq(Nat)) /\ Len(inq') \in Nat /\ Len(inq') <= Len(inq)
  <2>1. CASE inq' = inq
    BY <1>1, <2>1
  <2>2. CASE inq # <<>> /\ inq' = Tail(inq)
    <3>1. inq # <<>> /\ inq \in Seq(Seq(Nat))
      BY <1>1, <2>2
    <3>2. Tail(inq) \in Seq(Seq(Nat)) /\ Len(Tail(inq)) \in Nat /\ Len(Tail(inq)) <= Len(inq)
      BY ONLY <3>1, TailFacts
    <3>3. QED
      BY <2>2, <3>2
  <2>3. QED
    BY <2>1, <2>2
<1>3. InCap \in Nat
  BY IoAssumption
<1>4. WriteTyped' /\ WrittenOnce' /\ CallBounded'
  BY <1>2 DEF WriteInv, WriteTyped, WrittenOnce, CallBounded
<1>5. HoldsSlot' => Len(inq') < InCap
  <2>1. CASE HoldsSlot' => HoldsSlot
    <3>1. HoldsSlot' => Len(inq) < InCap
      BY <2>1 DEF WriteInv, SlotFree
    <3>2. QED
      BY <1>1, <1>2, <1>3, <3>1
  <2>2. QED
    BY <2>1
<1>6. SlotFree'
  <2>1. Len(inq') <= InCap
    BY <1>1, <1>2, <1>3
  <2>2. QED
    BY <1>5, <2>1 DEF SlotFree
<1>7. QED
  BY <1>4, <1>6 DEF WriteInv

\* A reserved slot is free in the channel.
LEMMA ReserveFacts ==
    ASSUME WriteInv
    PROVE  /\ poll_reserve \in SinkState
           /\ poll_reserve \in {"assigned", "ready", "closing"} => Len(inq) < InCap
<1>1. sink \in SinkState /\ (HoldsSlot => Len(inq) < InCap)
  BY DEF WriteInv, WriteTyped, SlotFree
<1>2. QED
  BY <1>1 DEF poll_reserve, HoldsSlot, SinkState

\* A frame of n bytes goes into the slot: the bytes that follow those queued.
LEMMA SendStep ==
    ASSUME WriteInv, Reserved, NEW n \in Nat, NEW a, a = acked + app.len, NEW f, f = Bytes(a, n),
           send_item(f), acked' \in Nat, app' \in AppState, acked' + app'.len = a + n, CallBounded'
    PROVE  WriteInv'
<1>1. /\ acked \in Nat /\ app.len \in Nat /\ inq \in Seq(Seq(Nat)) /\ Len(inq) \in Nat
      /\ queued = Bytes(0, a) /\ a \in Nat
  BY DEF WriteInv, WriteTyped, AppState, WrittenOnce
<1>2. f \in Seq(Nat)
  BY <1>1 DEF Bytes
<1>3. /\ inq' = Append(inq, f) /\ queued' = queued \o f
      /\ sink' = IF poll_reserve = "closing" THEN "closed" ELSE "idle"
  BY DEF send_item
<1>4. inq' \in Seq(Seq(Nat)) /\ Len(inq') = Len(inq) + 1
  BY <1>1, <1>2, <1>3
<1>5. Len(inq) < InCap
  BY ReserveFacts DEF Reserved
<1>6. queued' \in Seq(Nat) /\ queued' = Bytes(0, a + n)
  <2>1. queued \o f \in Seq(Nat) /\ queued \o f = Bytes(0, a + n)
    <3>1. a \in Nat /\ n \in Nat /\ queued = Bytes(0, a) /\ f = Bytes(a, n)
      BY <1>1
    <3>2. QED
      BY ONLY <3>1, BytesConcat, Zenon
  <2>2. QED
    BY <1>3, <2>1
<1>7. WriteTyped'
  BY <1>3, <1>4, <1>6 DEF WriteTyped, SinkState
<1>8. WrittenOnce'
  BY <1>6 DEF WrittenOnce
<1>9. SlotFree'
  <2>1. Len(inq') <= InCap
    BY <1>1, <1>4, <1>5, IoAssumption
  <2>2. ~ HoldsSlot'
    BY <1>3 DEF HoldsSlot
  <2>3. QED
    BY <2>1, <2>2 DEF SlotFree
<1>10. QED
  BY <1>7, <1>8, <1>9 DEF WriteInv

\* The application writes.
LEMMA WriterStep ==
    ASSUME IInv, \/ poll_ready \/ WriteChunk \/ shutdown_immediately
                 \/ \E n \in 1 .. Total : start_send(n) \/ poll_write(n)
    PROVE  IInv'
<1> USE DEF IInv
<1>0. /\ app \in AppState /\ app.len \in Nat /\ app.want \in Nat /\ acked \in Nat
      /\ WrittenOnce /\ CallBounded
  BY DEF WriteInv, WriteTyped, AppState
<1>1. ASSUME UNCHANGED <<rx_closed, task, cancelled, reads>> PROVE FlagsTyped' /\ ReadInv'
  <2>1. task' = task /\ UNCHANGED reads
    BY <1>1
  <2>2. FlagsTyped'
    BY <1>1 DEF FlagsTyped
  <2>3. QED
    BY <2>1, <2>2, ReadsKept
<1>2. CASE poll_ready
  <2>1. sink' = poll_reserve /\ inq' = inq /\ UNCHANGED <<queued, acked, app>>
        /\ UNCHANGED <<rx_closed, task, cancelled, reads>>
    BY <1>2 DEF poll_ready
  <2>2. HoldsSlot' => Len(inq') < InCap
    BY <2>1, ReserveFacts DEF HoldsSlot
  <2>3. WriteInv'
    BY <2>1, <2>2, ReserveFacts, WritesKept
  <2>4. QED
    BY <1>1, <2>1, <2>3
<1>3. CASE shutdown_immediately
  <2>1. sink' = "closed" /\ inq' = inq /\ UNCHANGED <<queued, acked, app>>
        /\ UNCHANGED <<rx_closed, task, cancelled, reads>>
    BY <1>3 DEF shutdown_immediately
  <2>2. sink' \in SinkState /\ ~HoldsSlot'
    BY <2>1 DEF HoldsSlot, SinkState
  <2>3. WriteInv'
    BY <2>1, <2>2, WritesKept
  <2>4. QED
    BY <1>1, <2>1, <2>3
<1>4. ASSUME NEW n \in 1 .. Total, start_send(n) PROVE IInv'
  <2>1. /\ app.pc = "idle" /\ sink = "ready" /\ send_item(Bytes(acked, n)) /\ acked' = acked + n
        /\ app' = app /\ UNCHANGED <<rx_closed, task, cancelled, reads>>
    BY <1>4 DEF start_send
  <2>2. app.len = 0 /\ app.want = 0 /\ n \in Nat
    BY <1>0, <2>1 DEF CallBounded
  <2>3. Reserved
    BY <2>1 DEF Reserved, poll_reserve
  <2>4. CallBounded'
    BY <2>1, <2>2 DEF CallBounded
  <2>5. /\ acked' \in Nat /\ app' \in AppState /\ acked = acked + app.len
        /\ acked' + app'.len = acked + n
    BY <1>0, <2>1, <2>2
  <2>6. WriteInv'
    BY <2>1, <2>2, <2>3, <2>4, <2>5, SendStep
  <2>7. QED
    BY <1>1, <2>1, <2>6
<1>5. ASSUME NEW n \in 1 .. Total, poll_write(n) PROVE IInv'
  <2>1. /\ app.pc = "idle" /\ acked + n <= Total /\ app' = [pc |-> "write", want |-> n, len |-> 0]
        /\ sink' = sink /\ inq' = inq /\ queued' = queued /\ acked' = acked
        /\ UNCHANGED <<rx_closed, task, cancelled, reads>>
    BY <1>5 DEF poll_write, writes
  <2>2. app.len = 0 /\ n \in Nat
    BY <1>0, <2>1 DEF CallBounded
  <2>3. app' \in AppState /\ app'.pc = "write" /\ app'.len = 0 /\ app'.want = n
    BY <2>1, <2>2 DEF AppState
  <2>4. CallBounded'
    BY <2>1, <2>2, <2>3 DEF CallBounded
  <2>5. WrittenOnce'
    BY <1>0, <2>1, <2>2, <2>3 DEF WrittenOnce
  <2>6. WriteTyped' /\ SlotFree'
    BY <2>1, <2>3 DEF WriteInv, WriteTyped, SlotFree, HoldsSlot
  <2>7. QED
    BY <1>1, <2>1, <2>4, <2>5, <2>6 DEF WriteInv
<1>6. CASE WriteChunk
  <2> DEFINE n == IF app.want - app.len < MaxFrame THEN app.want - app.len ELSE MaxFrame
  <2>1. app.pc = "write" /\ UNCHANGED <<rx_closed, task, cancelled, reads>>
    BY <1>6 DEF WriteChunk
  <2>2. app.len <= app.want /\ acked + app.want <= Total
    BY <1>0, <2>1 DEF CallBounded
  <2>3. CASE app.len < app.want /\ Reserved /\ send_item(Bytes(acked + app.len, n))
             /\ app' = [app EXCEPT !.len = app.len + n] /\ acked' = acked
    <3>1. n \in Nat /\ app.len + n <= app.want
      BY <1>0, <2>3, IoAssumption
    <3> HIDE DEF n
    <3>2. /\ app' \in AppState /\ app'.len = app.len + n /\ app'.want = app.want
          /\ app'.pc = "write"
      BY <1>0, <2>1, <2>3, <3>1 DEF AppState
    <3>3. CallBounded'
      BY <2>2, <2>3, <3>1, <3>2 DEF CallBounded
    <3>4. acked' \in Nat /\ acked' + app'.len = (acked + app.len) + n
      BY <1>0, <2>3, <3>1, <3>2
    <3>5. WriteInv'
      BY <2>3, <3>1, <3>2, <3>3, <3>4, SendStep
    <3>6. QED
      BY <1>1, <2>1, <3>5
  <2>4. CASE /\ Return /\ inq' = inq /\ queued' = queued
             /\ sink' = poll_reserve \/ sink' = sink
    <3>1. app' = [pc |-> "idle", want |-> 0, len |-> 0] /\ acked' = acked + app.len
      BY <2>4 DEF Return, Idle
    <3>2. /\ app' \in AppState /\ app'.len = 0 /\ app'.want = 0 /\ app'.pc = "idle"
          /\ acked' \in Nat
      BY <1>0, <3>1 DEF AppState
    <3>3. acked' + app'.len = acked + app.len
      BY <1>0, <3>1, <3>2
    <3>4. WrittenOnce' /\ CallBounded'
      BY <1>0, <2>4, <3>2, <3>3 DEF WrittenOnce, CallBounded
    <3>5. sink' \in SinkState /\ (HoldsSlot' => Len(inq') < InCap)
      BY <2>4, ReserveFacts DEF WriteInv, WriteTyped, SlotFree, HoldsSlot
    <3>6. WriteTyped' /\ SlotFree'
      BY <2>4, <3>2, <3>5 DEF WriteInv, WriteTyped, SlotFree
    <3>7. QED
      BY <1>1, <2>1, <3>4, <3>6 DEF WriteInv
  <2>5. QED
    BY <1>6, <2>3, <2>4 DEF WriteChunk
<1>7. QED
  BY <1>2, <1>3, <1>4, <1>5, <1>6

\* Closing, and what the task does to the input channel.
LEMMA CloseStep ==
    ASSUME IInv, \/ poll_close \/ Closed \/ drop
                 \/ TaskTakes \/ FinReceived \/ TaskBreaks \/ Drain \/ UNCHANGED vars
    PROVE  IInv'
<1> USE DEF IInv
<1>0. app \in AppState /\ app.pc \in {"idle", "write", "close", "gone"} /\ sink \in SinkState
  BY DEF WriteInv, WriteTyped, AppState
<1>1. UNCHANGED reads /\ FlagsTyped' /\ (task # "run" => task' # "run")
  BY DEF FlagsTyped, poll_close, Closed, drop, TaskTakes, FinReceived, TaskBreaks, Drain, try_close,
         vars, reads
<1>2. ReadInv'
  BY <1>1, ReadsKept
<1>3. CASE /\ app.pc # "write" /\ app' = [app EXCEPT !.pc = app'.pc] /\ app'.pc \in {"close", "gone"}
           /\ sink' \in {sink, close_sink, "closed"} /\ UNCHANGED <<inq, queued, acked>>
  <2>1. app' \in AppState /\ app'.len = app.len /\ app'.want = app.want /\ app'.pc # "write"
    BY <1>0, <1>3 DEF AppState
  <2>2. sink' \in SinkState /\ (HoldsSlot' => HoldsSlot)
    BY <1>0, <1>3 DEF close_sink, HoldsSlot, SinkState
  <2>3. WriteTyped' /\ SlotFree'
    BY <1>3, <2>1, <2>2 DEF WriteInv, WriteTyped, SlotFree
  <2>4. CallBounded'
    BY <1>3, <2>1 DEF WriteInv, CallBounded
  <2>5. WrittenOnce'
    BY <1>3, <2>1 DEF WriteInv, WrittenOnce
  <2>6. QED
    BY <1>1, <1>2, <2>3, <2>4, <2>5 DEF WriteInv
<1>4. CASE poll_close \/ Closed \/ drop
  <2>1. /\ app.pc # "write"
        /\ app' = [app EXCEPT !.pc = "close"] \/ app' = [app EXCEPT !.pc = "gone"]
        /\ sink' \in {sink, close_sink, "closed"} /\ UNCHANGED <<inq, queued, acked>>
    BY <1>4 DEF poll_close, Closed, drop, writes
  <2>2. app' = [app EXCEPT !.pc = app'.pc] /\ app'.pc \in {"close", "gone"}
    BY <1>0, <2>1 DEF AppState
  <2>3. QED
    BY <1>3, <2>1, <2>2
<1>5. CASE TaskTakes
  <2>1. /\ inq # <<>> /\ inq' = Tail(inq) /\ UNCHANGED <<queued, acked, app>>
        /\ sink' \in {"assigned", sink}
    BY <1>5 DEF TaskTakes
  <2>2. inq \in Seq(Seq(Nat)) /\ Len(inq) \in Nat /\ Len(inq) <= InCap
    BY DEF WriteInv, WriteTyped, SlotFree
  <2>3. Len(inq') = Len(inq) - 1
    <3>1. inq \in Seq(Seq(Nat)) /\ inq # <<>>
      BY <2>1, <2>2
    <3>2. Len(Tail(inq)) = Len(inq) - 1
      BY ONLY <3>1, TailFacts
    <3>3. QED
      BY <2>1, <3>2
  <2>4. Len(inq') < InCap
    BY <2>2, <2>3, IoAssumption
  <2>5. sink' \in SinkState
    BY <1>0, <2>1 DEF SinkState
  <2>6. WriteInv'
    BY <2>1, <2>4, <2>5, WritesKept
  <2>7. QED
    BY <1>1, <1>2, <2>6
<1>6. CASE FinReceived \/ TaskBreaks \/ Drain \/ UNCHANGED vars
  <2>1. /\ inq' = inq \/ (inq # <<>> /\ inq' = Tail(inq))
        /\ sink' = sink /\ UNCHANGED <<queued, acked, app>>
    BY <1>6 DEF FinReceived, TaskBreaks, Drain, writes, vars
  <2>2. HoldsSlot' => HoldsSlot
    BY <2>1 DEF HoldsSlot
  <2>3. WriteInv'
    BY <1>0, <2>1, <2>2, WritesKept
  <2>4. QED
    BY <1>1, <1>2, <2>3
<1>7. QED
  BY <1>4, <1>5, <1>6

-----------------------------------------------------------------------------
(***************************************************************************)
(* The reading side.                                                        *)
(***************************************************************************)
\* The writing side of a step that reads.
LEMMA WriterIdle ==
    ASSUME WriteInv, FlagsTyped, UNCHANGED <<writes, rx_closed, task, cancelled, app>>
    PROVE  WriteInv' /\ FlagsTyped'
<1>1. UNCHANGED <<sink, inq, queued, acked, app>>
  BY DEF writes
<1>2. FlagsTyped'
  BY DEF FlagsTyped
<1>3. WriteInv'
  BY <1>1 DEF WriteInv, WriteTyped, WrittenOnce, CallBounded, SlotFree, HoldsSlot
<1>4. QED
  BY <1>2, <1>3

\* What is read next follows what was read.
LEMMA ChunkFacts ==
    ASSUME ReadInv, read_buf # <<>> \/ out # <<>>
    PROVE  Chunk \in Seq(Nat) /\ Len(Chunk) \in Nat /\ Chunk = Bytes(Len(got), Len(Chunk))
<1>1. out \in Seq(Seq(Nat)) /\ read_buf \in Seq(Nat) /\ got \in Seq(Nat) /\ Len(got) \in Nat
  BY DEF ReadInv, ReadTyped
<1>2. CASE read_buf # <<>>
  <2>1. Chunk = read_buf
    BY <1>2 DEF Chunk
  <2>2. read_buf = Bytes(Len(got), Len(read_buf)) /\ Len(read_buf) \in Nat
    BY <1>1 DEF ReadInv, ReadOnce
  <2>3. QED
    BY <1>1, <2>1, <2>2
<1>3. CASE read_buf = <<>>
  <2>1. Chunk = Head(out) /\ out # <<>>
    BY <1>3 DEF Chunk
  <2>2. Head(out) = out[1] /\ out[1] \in Seq(Nat) /\ 1 \in DOMAIN out
    BY <1>1, <2>1
  <2>3. out[1] = Bytes(Before(1), Len(out[1])) /\ Before(1) = Len(got) + Len(read_buf)
    BY <2>2 DEF ReadInv, ReadOnce
  <2>4. Before(1) = Len(got)
    BY <1>1, <1>3, <2>3
  <2>5. Len(out[1]) \in Nat
    BY <2>2
  <2>6. QED
    BY <2>1, <2>2, <2>3, <2>4, <2>5
<1>4. QED
  BY <1>2, <1>3

\* The frames behind it follow it without a gap.
LEMMA BehindFacts ==
    ASSUME ReadInv, read_buf # <<>> \/ out # <<>>, out' = Behind, made' = made
    PROVE  /\ out' \in Seq(Seq(Nat)) /\ Before(1)' = Len(got) + Len(Chunk)
           /\ \A i \in DOMAIN out' : /\ out'[i] # <<>> /\ out'[i] = Bytes(Before(i)', Len(out'[i]))
                                     /\ Before(i + 1)' = Before(i)' + Len(out'[i])
<1>1. out \in Seq(Seq(Nat)) /\ read_buf \in Seq(Nat) /\ got \in Seq(Nat) /\ Len(got) \in Nat
  BY DEF ReadInv, ReadTyped
<1>2. /\ Before(1) = Len(got) + Len(read_buf)
      /\ \A i \in DOMAIN out : /\ out[i] # <<>> /\ out[i] = Bytes(Before(i), Len(out[i]))
                               /\ Before(i + 1) = Before(i) + Len(out[i])
  BY DEF ReadInv, ReadOnce
<1>3. CASE read_buf # <<>>
  <2>1. Chunk = read_buf /\ out' = out
    BY <1>3 DEF Chunk, Behind
  <2>2. Before(1)' = Before(1)
    BY <2>1 DEF Before
  <2>3. ASSUME NEW i \in DOMAIN out PROVE Before(i)' = Before(i) /\ Before(i + 1)' = Before(i + 1)
    BY <2>1 DEF Before
  <2>4. QED
    BY <1>1, <1>2, <2>1, <2>2, <2>3
<1>4. CASE read_buf = <<>>
  <2>1. Chunk = Head(out) /\ out # <<>> /\ out' = Tail(out)
    BY <1>4 DEF Chunk, Behind
  <2>2. /\ Head(out) = out[1] /\ Len(out) \in Nat \ {0}
        /\ out' \in Seq(Seq(Nat)) /\ Len(out') = Len(out) - 1
        /\ \A i \in 1 .. Len(out) - 1 : out'[i] = out[i + 1]
    <3>1. out \in Seq(Seq(Nat)) /\ out # <<>>
      BY <1>1, <2>1
    <3>2. /\ Head(out) = out[1] /\ Len(out) \in Nat \ {0}
          /\ Tail(out) \in Seq(Seq(Nat)) /\ Len(Tail(out)) = Len(out) - 1
          /\ \A i \in 1 .. Len(out) - 1 : Tail(out)[i] = out[i + 1]
      BY ONLY <3>1, TailFacts
    <3>3. QED
      BY <2>1, <3>2
  <2>3. DOMAIN out' = 1 .. Len(out) - 1 /\ DOMAIN out = 1 .. Len(out)
    BY <1>1, <2>2
  <2>4. ASSUME NEW i \in 1 .. Len(out) PROVE Before(i)' = Before(i + 1)
    <3>1. CASE i \in 1 .. Len(out) - 1
      <4>1. i + 1 \in 1 .. Len(out) /\ out'[i] = out[i + 1]
        BY <2>2, <3>1
      <4>2. QED
        BY <2>3, <3>1, <4>1 DEF Before
    <3>2. CASE i \notin 1 .. Len(out) - 1
      <4>1. i + 1 \notin 1 .. Len(out)
        BY <2>2, <3>2
      <4>2. QED
        BY <2>3, <3>2, <4>1 DEF Before
    <3>3. QED
      BY <3>1, <3>2
  <2>5. Before(1)' = Len(got) + Len(Chunk)
    <3>1. 1 \in 1 .. Len(out) /\ 1 + 1 = 2
      BY <2>2
    <3>2. Before(1)' = Before(1 + 1) /\ Before(1 + 1) = Before(1) + Len(out[1])
      BY <1>2, <2>3, <2>4, <3>1
    <3>3. Before(1) = Len(got)
      BY <1>1, <1>2, <1>4
    <3>4. QED
      BY <2>1, <2>2, <3>2, <3>3
  <2>6. ASSUME NEW i \in DOMAIN out'
        PROVE  /\ out'[i] # <<>> /\ out'[i] = Bytes(Before(i)', Len(out'[i]))
               /\ Before(i + 1)' = Before(i)' + Len(out'[i])
    <3>1. i \in 1 .. Len(out) /\ i + 1 \in 1 .. Len(out) /\ out'[i] = out[i + 1]
      BY <2>2, <2>3
    <3>2. Before(i)' = Before(i + 1) /\ Before(i + 1)' = Before((i + 1) + 1)
      BY <2>4, <3>1
    <3>3. /\ out[i + 1] # <<>> /\ out[i + 1] = Bytes(Before(i + 1), Len(out[i + 1]))
          /\ Before((i + 1) + 1) = Before(i + 1) + Len(out[i + 1])
      BY <1>2, <2>3, <3>1
    <3>4. QED
      BY <3>1, <3>2, <3>3
  <2>7. QED
    BY <2>2, <2>5, <2>6
<1>5. QED
  BY <1>3, <1>4

\* The first k bytes of the chunk are read, and the others kept.
LEMMA TakeStep ==
    ASSUME ReadInv, read_buf # <<>> \/ out # <<>>, NEW k \in 0 .. Len(Chunk),
           got' = got \o SubSeq(Chunk, 1, k), read_buf' = SubSeq(Chunk, k + 1, Len(Chunk)),
           out' = Behind, UNCHANGED <<made, eof>>
    PROVE  ReadInv'
<1> DEFINE g == Len(got)
           n == Len(Chunk)
           c == Chunk
<1>1. got \in Seq(Nat) /\ g \in Nat /\ made \in Nat /\ got = Bytes(0, g) /\ eof = FALSE
  BY DEF ReadInv, ReadTyped, ReadOnce
<1>2. c \in Seq(Nat) /\ n \in Nat /\ c = Bytes(g, n)
  BY ChunkFacts
<1>3. /\ out' \in Seq(Seq(Nat)) /\ Before(1)' = g + n
      /\ \A i \in DOMAIN out' : /\ out'[i] # <<>> /\ out'[i] = Bytes(Before(i)', Len(out'[i]))
                                /\ Before(i + 1)' = Before(i)' + Len(out'[i])
  BY BehindFacts
<1>4. k \in Nat /\ k <= n
  BY <1>2
<1> HIDE DEF g, n, c
<1>5. c \in Seq(Nat) /\ Len(c) = n /\ \A i \in 1 .. n : c[i] = g + i
  BY ONLY <1>1, <1>2 DEF Bytes
<1>6. got' \in Seq(Nat) /\ got' = Bytes(0, g + k) /\ Len(got') = g + k
  <2> DEFINE t == SubSeq(c, 1, k)
  <2>1. t = Bytes(g, k)
    <3>1. t \in Seq(Nat) /\ Len(t) = k /\ \A i \in 1 .. k : t[i] = g + i
      BY ONLY <1>5, <1>1, <1>2, <1>4
    <3> HIDE DEF t
    <3>2. QED
      BY ONLY <1>1, <1>4, <3>1 DEF Bytes
  <2>2. got' = got \o t
    BY DEF c
  <2> HIDE DEF t
  <2>3. got \o t \in Seq(Nat) /\ got \o t = Bytes(0, g + k)
    BY ONLY <1>1, <1>4, <2>1, BytesConcat, Zenon
  <2>4. Len(got') = g + k
    BY <1>1, <1>4, <2>2, <2>3 DEF Bytes
  <2>5. QED
    BY <2>2, <2>3, <2>4
<1>7. read_buf' \in Seq(Nat) /\ read_buf' = Bytes(g + k, n - k) /\ Len(read_buf') = n - k
  <2> DEFINE u == SubSeq(c, k + 1, n)
  <2>1. u = Bytes(g + k, n - k) /\ u \in Seq(Nat) /\ Len(u) = n - k
    <3>1. u \in Seq(Nat) /\ Len(u) = n - k
      BY ONLY <1>5, <1>2, <1>4
    <3>2. ASSUME NEW i \in 1 .. n - k PROVE u[i] = (g + k) + i
      <4>1. u[i] = c[k + 1 + i - 1]
        BY ONLY <1>5, <1>2, <1>4, i \in 1 .. n - k
      <4>2. k + 1 + i - 1 = k + i /\ k + i \in 1 .. n
        BY ONLY <1>2, <1>4, i \in 1 .. n - k
      <4>3. c[k + i] = g + (k + i)
        BY ONLY <1>5, <4>2
      <4>4. u[i] = g + (k + i)
        BY ONLY <4>1, <4>2, <4>3
      <4>5. g \in Nat /\ k \in Nat /\ i \in Nat
        BY <1>1, <1>2, <1>4
      <4>6. g + (k + i) = (g + k) + i
        BY ONLY <4>5
      <4> HIDE DEF u
      <4>7. QED
        BY ONLY <4>4, <4>6, Zenon
    <3>3. g + k \in Nat /\ n - k \in Nat
      BY <1>1, <1>2, <1>4
    <3> HIDE DEF u
    <3>4. u = Bytes(g + k, n - k)
      BY ONLY <3>1, <3>2, <3>3 DEF Bytes
    <3>5. QED
      BY <3>1, <3>4
  <2>2. read_buf' = u
    BY DEF c, n
  <2>3. QED
    BY <2>1, <2>2
<1>8. Before(1)' = Len(got') + Len(read_buf')
  <2>1. g \in Nat /\ n \in Nat /\ k \in Nat
    BY <1>1, <1>2, <1>4
  <2>2. g + n = (g + k) + (n - k)
    BY ONLY <2>1
  <2>3. QED
    BY ONLY <1>3, <1>6, <1>7, <2>2, Zenon
<1>9. ReadTyped'
  BY <1>1, <1>3, <1>6, <1>7 DEF ReadTyped
<1>10. ReadOnce'
  <2>1. got' = Bytes(0, Len(got')) /\ read_buf' = Bytes(Len(got'), Len(read_buf'))
    BY <1>6, <1>7
  <2>2. eof' = FALSE
    BY <1>1
  <2>3. QED
    BY <1>3, <1>8, <2>1, <2>2 DEF ReadOnce
<1>11. QED
  BY <1>9, <1>10 DEF ReadInv

\* The application reads.
LEMMA ReaderStep ==
    ASSUME IInv, poll_next \/ ReadEnd \/ \E n \in 1 .. MaxIn : poll_read(n)
    PROVE  IInv'
<1> USE DEF IInv
<1>1. UNCHANGED <<writes, rx_closed, task, cancelled, app>>
  BY DEF poll_next, ReadEnd, poll_read
<1>2. WriteInv' /\ FlagsTyped'
  BY <1>1, WriterIdle
<1>3. CASE poll_next
  <2>1. read_buf # <<>> \/ out # <<>>
    BY <1>3 DEF poll_next
  <2>2. got' = got \o Chunk /\ out' = Behind /\ read_buf' = <<>> /\ UNCHANGED <<made, eof>>
    BY <1>3 DEF poll_next, Took
  <2>3. Chunk \in Seq(Nat) /\ Len(Chunk) \in Nat
    BY <2>1, ChunkFacts
  <2>4. SubSeq(Chunk, 1, Len(Chunk)) = Chunk /\ SubSeq(Chunk, Len(Chunk) + 1, Len(Chunk)) = <<>>
    BY ONLY <2>3
  <2>5. Len(Chunk) \in 0 .. Len(Chunk)
    BY <2>3
  <2>6. ReadInv'
    BY <2>1, <2>2, <2>4, <2>5, TakeStep
  <2>7. QED
    BY <1>2, <2>6
<1>4. ASSUME NEW n \in 1 .. MaxIn, poll_read(n) PROVE IInv'
  <2> DEFINE k == IF n < Len(Chunk) THEN n ELSE Len(Chunk)
  <2>1. read_buf # <<>> \/ out # <<>>
    BY <1>4 DEF poll_read
  <2>2. /\ got' = got \o SubSeq(Chunk, 1, k) /\ read_buf' = SubSeq(Chunk, k + 1, Len(Chunk))
        /\ out' = Behind /\ UNCHANGED <<made, eof>>
    BY <1>4 DEF poll_read, Took
  <2>3. Len(Chunk) \in Nat
    BY <2>1, ChunkFacts
  <2>4. k \in 0 .. Len(Chunk)
    BY <2>3
  <2> HIDE DEF k
  <2>5. ReadInv'
    BY <2>1, <2>2, <2>4, TakeStep
  <2>6. QED
    BY <1>2, <2>5
<1>5. CASE ReadEnd
  <2>1. /\ read_buf = <<>> /\ out = <<>> /\ task # "run" /\ eof' = TRUE
        /\ UNCHANGED <<out, read_buf, made, got>>
    BY <1>5 DEF ReadEnd, OutEnd
  <2>2. Len(got) = made
    <3>1. Before(1) = Len(got) + Len(read_buf) /\ Len(got) \in Nat
      BY DEF ReadInv, ReadTyped, ReadOnce
    <3>2. Before(1) = made /\ Len(read_buf) = 0
      BY <2>1 DEF Before
    <3>3. QED
      BY <3>1, <3>2
  <2>3. ReadTyped'
    BY <2>1 DEF ReadInv, ReadTyped
  <2>4. ReadOnce'
    BY <1>1, <2>1, <2>2 DEF ReadInv, ReadOnce, Before
  <2>5. QED
    BY <1>2, <2>3, <2>4 DEF ReadInv
<1>6. QED
  BY <1>3, <1>4, <1>5

\* The task hands over the next n bytes.
LEMMA DeliverStep == ASSUME IInv, NEW n \in 1 .. MaxIn, TaskDelivers(n) PROVE IInv'
<1>0. ReadInv /\ made \in Nat /\ out \in Seq(Seq(Nat)) /\ Len(out) \in Nat /\ n \in Nat \ {0}
      /\ read_buf \in Seq(Nat) /\ got \in Seq(Nat)
  BY IoAssumption DEF IInv, ReadInv, ReadTyped
<1>1. PICK f : f = Bytes(made, n)
  OBVIOUS
<1>2. /\ out' = Append(out, f) /\ made' = made + n /\ task = "run"
      /\ UNCHANGED <<read_buf, got, eof>>
      /\ UNCHANGED <<writes, rx_closed, task, cancelled, app>>
  BY <1>1 DEF TaskDelivers
<1>3. WriteInv' /\ FlagsTyped'
  BY <1>2, WriterIdle DEF IInv
<1>4. eof = FALSE
  BY <1>0, <1>2 DEF ReadInv, ReadTyped, ReadOnce
<1>5. f \in Seq(Nat) /\ Len(f) = n /\ f[1] = made + 1 /\ f # <<>>
  <2>1. f \in Seq(Nat) /\ Len(f) = n /\ f[1] = made + 1
    BY <1>0, <1>1 DEF Bytes
  <2>2. QED
    BY <1>0, <2>1
<1>6. PICK m \in Nat : m = Len(out)
  BY <1>0
<1>7. /\ out' \in Seq(Seq(Nat)) /\ DOMAIN out' = 1 .. m + 1 /\ DOMAIN out = 1 .. m /\ m \in Nat
      /\ out'[m + 1] = f /\ \A i \in 1 .. m : out'[i] = out[i]
  BY <1>0, <1>2, <1>5, <1>6
<1>8. /\ Before(1) = Len(got) + Len(read_buf)
      /\ \A i \in DOMAIN out : /\ out[i] # <<>> /\ out[i] = Bytes(Before(i), Len(out[i]))
                               /\ Before(i + 1) = Before(i) + Len(out[i])
  BY <1>0 DEF ReadInv, ReadOnce
<1>9. Before(m + 1) = made /\ Before(m + 1)' = made /\ Before((m + 1) + 1)' = made + n
  <2>1. m + 1 \notin DOMAIN out /\ m + 1 \in DOMAIN out' /\ (m + 1) + 1 \notin DOMAIN out'
    BY <1>7
  <2>2. f[1] - 1 = made
    BY <1>0, <1>5
  <2>3. Before(m + 1) = made
    BY ONLY <2>1 DEF Before
  <2>4. Before(m + 1)' = made
    BY ONLY <1>7, <2>1, <2>2 DEF Before
  <2>5. Before((m + 1) + 1)' = made'
    BY ONLY <2>1 DEF Before
  <2>6. QED
    BY <1>2, <2>3, <2>4, <2>5
<1>10. ASSUME NEW i \in 1 .. m PROVE Before(i)' = Before(i) /\ Before(i + 1)' = Before(i + 1)
  <2>1. i \in DOMAIN out /\ i \in DOMAIN out' /\ out'[i] = out[i]
    BY <1>7
  <2>2. Before(i)' = Before(i)
    BY <2>1 DEF Before
  <2>3. CASE i + 1 \in 1 .. m
    <3>1. i + 1 \in DOMAIN out /\ i + 1 \in DOMAIN out' /\ out'[i + 1] = out[i + 1]
      BY <1>7, <2>3
    <3>2. QED
      BY <2>2, <3>1 DEF Before
  <2>4. CASE i + 1 = m + 1
    <3>1. i = m
      <4>1. i \in Nat /\ m \in Nat
        OBVIOUS
      <4>2. QED
        BY ONLY <2>4, <4>1
    <3>2. QED
      BY ONLY <1>9, <2>2, <3>1, Zenon
  <2>5. QED
    BY <1>7, <2>3, <2>4
<1>11. ASSUME NEW i \in DOMAIN out'
      PROVE  /\ out'[i] # <<>> /\ out'[i] = Bytes(Before(i)', Len(out'[i]))
             /\ Before(i + 1)' = Before(i)' + Len(out'[i])
  <2>1. CASE i \in 1 .. m
    BY <1>7, <1>8, <1>10, <2>1
  <2>2. CASE i = m + 1
    <3>1. f = Bytes(made, Len(f))
      BY <1>5, <1>1
    <3>2. out'[i] = f /\ Before(i)' = made /\ Before(i + 1)' = made + n
      BY ONLY <1>7, <1>9, <2>2, Zenon
    <3>3. QED
      BY <1>5, <3>1, <3>2
  <2>3. QED
    BY <1>7, <2>1, <2>2
<1>12. Before(1)' = Before(1)
  <2>1. CASE m = 0
    <3>1. m + 1 = 1
      BY <2>1
    <3>2. QED
      BY ONLY <1>9, <3>1, Zenon
  <2>2. CASE m # 0
    <3>1. 1 \in 1 .. m
      BY <1>7, <2>2
    <3>2. QED
      BY <1>10, <3>1
  <2>3. QED
    BY <2>1, <2>2
<1>13. ReadTyped'
  <2>1. made' \in Nat
    BY <1>0, <1>2
  <2>2. out' \in Seq(Seq(Nat)) /\ read_buf' \in Seq(Nat) /\ got' \in Seq(Nat) /\ eof' \in BOOLEAN
    BY <1>0, <1>2, <1>4, <1>7
  <2>3. QED
    BY <2>1, <2>2 DEF ReadTyped
<1>14. ReadOnce'
  <2>1. got' = Bytes(0, Len(got')) /\ read_buf' = Bytes(Len(got'), Len(read_buf'))
    BY <1>0, <1>2 DEF ReadInv, ReadOnce
  <2>2. Before(1)' = Len(got') + Len(read_buf')
    BY <1>2, <1>8, <1>12
  <2>3. eof' = FALSE
    BY <1>2, <1>4
  <2>4. QED
    BY <1>11, <2>1, <2>2, <2>3 DEF ReadOnce
<1>15. QED
  BY <1>3, <1>13, <1>14 DEF IInv, ReadInv

LEMMA InvNext == IInv /\ [Next]_vars => IInv'
<1> SUFFICES ASSUME IInv, [Next]_vars PROVE IInv'
  OBVIOUS
<1>1. CASE \/ poll_ready \/ WriteChunk \/ shutdown_immediately
           \/ \E n \in 1 .. Total : start_send(n) \/ poll_write(n)
  BY <1>1, WriterStep
<1>2. CASE poll_next \/ ReadEnd \/ \E n \in 1 .. MaxIn : poll_read(n)
  BY <1>2, ReaderStep
<1>3. CASE \/ poll_close \/ Closed \/ drop
           \/ TaskTakes \/ FinReceived \/ TaskBreaks \/ Drain \/ UNCHANGED vars
  BY <1>3, CloseStep
<1>4. ASSUME NEW n \in 1 .. MaxIn, TaskDelivers(n) PROVE IInv'
  BY <1>4, DeliverStep
<1>5. QED
  BY <1>1, <1>2, <1>3, <1>4 DEF Next, Ended

LEMMA InvAlways == Spec => []IInv
  BY InvInit, InvNext, PTL DEF Spec

-----------------------------------------------------------------------------
(***************************************************************************)
(* What poll_write and start_send have put into the input channel is what   *)
(* the application was told, in order and once, and a slot that the         *)
(* PollSender holds is free in the channel, for every frame size, capacity  *)
(* and interleaving with the task (stream.rs).                              *)
(***************************************************************************)
THEOREM BytesWrittenOnce == Spec => []IoInv
<1>1. IInv => IoInv
  BY InvParts
<1>2. QED
  BY <1>1, InvAlways, PTL

(***************************************************************************)
(* The bytes of the peer are read in order, once and without a gap, however *)
(* poll_read and poll_next are mixed, and the end is found only when all    *)
(* were read (stream.rs).                                                   *)
(***************************************************************************)
THEOREM BytesReadOnce == Spec => []ReadOnce
<1>1. IInv => ReadOnce
  BY InvParts
<1>2. QED
  BY <1>1, InvAlways, PTL
=============================================================================
