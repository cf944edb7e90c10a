--------------------------- MODULE KcpTimerProofs ---------------------------
(***************************************************************************)
(* Proofs about KcpTimer for every modulus, interval and timeout.  The      *)
(* distance of two times of the clock is first shown to add up as long as   *)
(* it stays below half the range; each action is then described by what it  *)
(* does to the five distances of TimerInv.                                  *)
(***************************************************************************)
EXTENDS KcpTimer, TLAPS

-----------------------------------------------------------------------------
(***************************************************************************)
(* Minimum and maximum.                                                     *)
(***************************************************************************)
LEMMA MaxPair ==
    ASSUME NEW a \in Int, NEW b \in Int
    PROVE  Max({a, b}) = IF a >= b THEN a ELSE b
<1> DEFINE S == {a, b}
           m == IF a >= b THEN a ELSE b
<1>1. m \in S /\ \A y \in S : m >= y
  OBVIOUS
<1>2. \A x \in S : (\A y \in S : x >= y) => x = m
  OBVIOUS
<1>3. QED
  BY <1>1, <1>2 DEF Max

LEMMA MinPair ==
    ASSUME NEW a \in Int, NEW b \in Int
    PROVE  Min({a, b}) = IF a <= b THEN a ELSE b
<1> DEFINE S == {a, b}
           m == IF a <= b THEN a ELSE b
<1>1. m \in S /\ \A y \in S : m <= y
  OBVIOUS
<1>2. \A x \in S : (\A y \in S : x <= y) => x = m
  OBVIOUS
<1>3. QED
  BY <1>1, <1>2 DEF Min

LEMMA MinTriple ==
    ASSUME NEW a \in Int, NEW b \in Int, NEW c \in Int
    PROVE  LET m == Min({a, b} \cup {c})
           IN  m \in Int /\ m <= a /\ m <= b /\ m <= c /\ m \in {a, b, c}
<1> DEFINE S == {a, b} \cup {c}
<1>1. PICK m \in S : \A y \in S : m <= y
  <2>1. CASE a <= b /\ a <= c
    BY <2>1
  <2>2. CASE b <= a /\ b <= c
    BY <2>2
  <2>3. CASE c <= b /\ c <= a
    BY <2>3
  <2>4. QED
    BY <2>1, <2>2, <2>3
<1>2. \A x \in S : (\A y \in S : x <= y) => x = m
  BY <1>1
<1>3. Min(S) = m
  BY <1>1, <1>2 DEF Min
<1>4. QED
  BY <1>1, <1>3

-----------------------------------------------------------------------------
(***************************************************************************)
(* The constants.                                                           *)
(***************************************************************************)
LEMMA Constants ==
    /\ Half \in Nat /\ Modulus = 2 * Half /\ Modulus \in Nat
    /\ MaxInterval \in Nat /\ SynInterval \in 1 .. MaxInterval /\ Interval \in 1 .. MaxInterval
    /\ Slack \in Nat /\ MaxInterval <= Slack
    /\ MaxBlock \in Nat /\ SessionExpire \in Nat \ {0}
    /\ SessionExpire + MaxInterval + 2 * MaxBlock < Half
    /\ ConnectTimeout \in Nat \ {0} /\ ConnectTimeout < Half
    /\ ShutdownTimeout \in Nat \ {0} /\ ShutdownTimeout < Half
    /\ DeadLink \in Nat /\ DeadLink > 1
    /\ \A rto \in Rtos : rto \in Nat \ {0} /\ rto < Half
<1>1. Half \in Nat
  BY TimerAssumption DEF Half
<1>2. /\ Modulus \in Nat /\ Modulus = 2 * Half
      /\ Slack \in Nat /\ SynInterval \in 1 .. Slack /\ Interval \in 1 .. Slack /\ Slack < Half
      /\ DeadLink \in Nat \ {0, 1} /\ MaxBlock \in Nat
      /\ {ConnectTimeout, ShutdownTimeout} \subseteq 1 .. Half - 1 - MaxBlock
      /\ SessionExpire \in 1 .. Half - 1 - MaxInterval - 2 * MaxBlock
      /\ Rtos \subseteq 1 .. Half - 1
  BY TimerAssumption
<1>3. MaxInterval = IF SynInterval >= Interval THEN SynInterval ELSE Interval
  BY <1>2, MaxPair DEF MaxInterval
<1>4. QED
  BY <1>1, <1>2, <1>3

(***************************************************************************)
(* Times and their distances: that of two times is below half the range in  *)
(* either direction, and adding to a time adds to its distances as long as  *)
(* they stay there.                                                         *)
(***************************************************************************)
LEMMA Distance ==
    ASSUME NEW a \in Time, NEW b \in Time
    PROVE  /\ itimediff(a, b) \in Int /\ -Half <= itimediff(a, b) /\ itimediff(a, b) < Half
           /\ \/ a - b = itimediff(a, b)
              \/ a - b = itimediff(a, b) + Modulus
              \/ a - b = itimediff(a, b) - Modulus
<1>1. Half \in Nat /\ Modulus = 2 * Half /\ a \in 0 .. Modulus - 1 /\ b \in 0 .. Modulus - 1
  BY Constants DEF Time
<1>2. PICK m \in Int : m = a - b + Half
  BY <1>1
<1>3. CASE 0 <= m /\ m < Modulus
  <2>1. m % Modulus = m
    BY <1>1, <1>3
  <2>2. QED
    BY <1>1, <1>2, <1>3, <2>1 DEF itimediff
<1>4. CASE m < 0
  <2>1. m % Modulus = m + Modulus
    BY <1>1, <1>2, <1>4
  <2>2. QED
    BY <1>1, <1>2, <1>4, <2>1 DEF itimediff
<1>5. CASE Modulus <= m
  <2>1. m % Modulus = m - Modulus
    BY <1>1, <1>2, <1>5
  <2>2. QED
    BY <1>1, <1>2, <1>5, <2>1 DEF itimediff
<1>6. QED
  BY <1>1, <1>3, <1>4, <1>5

LEMMA DistanceIs ==
    ASSUME NEW a \in Time, NEW b \in Time, NEW d \in Int, -Half <= d, d < Half,
           a - b = d \/ a - b = d + Modulus \/ a - b = d - Modulus
    PROVE  itimediff(a, b) = d
<1>1. Half \in Nat /\ Modulus = 2 * Half /\ a \in Int /\ b \in Int
  BY Constants DEF Time
<1>2. PICK e \in Int : e = itimediff(a, b)
  BY Distance
<1>3. /\ -Half <= e /\ e < Half
      /\ a - b = e \/ a - b = e + Modulus \/ a - b = e - Modulus
  BY <1>2, Distance
<1>4. e = d
  BY <1>1, <1>3
<1>5. QED
  BY <1>2, <1>4

LEMMA Later ==
    ASSUME NEW a \in Time, NEW n \in Nat, n < Half
    PROVE  /\ wrapping_add(a, n) \in Time
           /\ wrapping_add(a, n) = a + n \/ wrapping_add(a, n) = a + n - Modulus
<1>1. Half \in Nat /\ Modulus = 2 * Half /\ a \in 0 .. Modulus - 1
  BY Constants DEF Time
<1>2. PICK m \in Int : m = a + n
  BY <1>1
<1>3. CASE m < Modulus
  <2>1. m % Modulus = m
    BY <1>1, <1>2, <1>3
  <2>2. QED
    BY <1>1, <1>2, <1>3, <2>1 DEF wrapping_add, Time
<1>4. CASE Modulus <= m
  <2>1. m % Modulus = m - Modulus
    BY <1>1, <1>2, <1>4
  <2>2. QED
    BY <1>1, <1>2, <1>4, <2>1 DEF wrapping_add, Time
<1>5. QED
  BY <1>1, <1>2, <1>3, <1>4

LEMMA Same == ASSUME NEW a \in Time PROVE itimediff(a, a) = 0
<1>1. Half \in Nat /\ a \in Int
  BY Constants DEF Time
<1>2. CASE Half > 0
  BY <1>1, <1>2, DistanceIs
<1>3. QED
  BY <1>1, <1>2, Constants DEF Time

LEMMA Opposite ==
    ASSUME NEW a \in Time, NEW b \in Time, itimediff(a, b) > -Half
    PROVE  itimediff(b, a) = -itimediff(a, b)
<1>1. Half \in Nat /\ Modulus = 2 * Half /\ a \in Int /\ b \in Int
  BY Constants DEF Time
<1>2. PICK d \in Int : d = itimediff(a, b)
  BY Distance
<1>3. /\ -Half < d /\ d < Half
      /\ a - b = d \/ a - b = d + Modulus \/ a - b = d - Modulus
  BY <1>2, Distance
<1>4. /\ -d \in Int /\ -Half <= -d /\ -d < Half
      /\ b - a = -d \/ b - a = -d + Modulus \/ b - a = -d - Modulus
  BY <1>1, <1>3
<1>5. itimediff(b, a) = -d
  BY <1>4, DistanceIs
<1>6. QED
  BY <1>2, <1>5

LEMMA Chain ==
    ASSUME NEW a \in Time, NEW b \in Time, NEW c \in Time,
           -Half <= itimediff(a, b) + itimediff(b, c),
           itimediff(a, b) + itimediff(b, c) < Half
    PROVE  itimediff(a, c) = itimediff(a, b) + itimediff(b, c)
<1>1. Half \in Nat /\ Modulus = 2 * Half /\ a \in 0 .. Modulus - 1 /\ b \in Int /\ c \in 0 .. Modulus - 1
  BY Constants DEF Time
<1>2. PICK d \in Int : d = itimediff(a, b)
  BY Distance
<1>3. PICK e \in Int : e = itimediff(b, c)
  BY Distance
<1>4. /\ -Half <= d + e /\ d + e < Half
      /\ a - b = d \/ a - b = d + Modulus \/ a - b = d - Modulus
      /\ b - c = e \/ b - c = e + Modulus \/ b - c = e - Modulus
  BY <1>2, <1>3, Distance
<1>5. /\ d + e \in Int
      /\ a - c = d + e \/ a - c = d + e + Modulus \/ a - c = d + e - Modulus
  <2>1. a - c \in Int /\ -Modulus < a - c /\ a - c < Modulus
    BY <1>1
  <2>2. \/ a - c = d + e \/ a - c = d + e + Modulus \/ a - c = d + e - Modulus
        \/ a - c = d + e + 2 * Modulus \/ a - c = d + e - 2 * Modulus
    BY <1>1, <1>4
  <2>3. a - c # d + e + 2 * Modulus /\ a - c # d + e - 2 * Modulus
    BY <1>1, <1>4, <2>1
  <2>4. QED
    BY <2>2, <2>3
<1>6. itimediff(a, c) = d + e
  <2>1. PICK f \in Int : f = d + e
    BY <1>5
  <2>2. -Half <= f /\ f < Half /\ (a - c = f \/ a - c = f + Modulus \/ a - c = f - Modulus)
    BY <1>1, <1>4, <1>5, <2>1
  <2>3. itimediff(a, c) = f
    BY ONLY a \in Time, c \in Time, <2>2, DistanceIs, f \in Int
  <2>4. QED
    BY <2>1, <2>3
<1>7. QED
  BY <1>2, <1>3, <1>6

LEMMA After ==
    ASSUME NEW a \in Time, NEW n \in Nat, n < Half
    PROVE  itimediff(wrapping_add(a, n), a) = n /\ itimediff(a, wrapping_add(a, n)) = -n
<1>1. Half \in Nat /\ Modulus = 2 * Half /\ a \in Int
  BY Constants DEF Time
<1>2. PICK b \in Time : b = wrapping_add(a, n)
  BY Later
<1>3. b \in Int /\ (b = a + n \/ b = a + n - Modulus)
  BY <1>2, Later DEF Time
<1>4. itimediff(b, a) = n /\ itimediff(a, b) = -n
  <2>1. b - a = n \/ b - a = n - Modulus
    BY <1>1, <1>3
  <2>2. a - b = -n \/ a - b = -n + Modulus
    BY <1>1, <1>3
  <2>3. -n \in Int /\ -Half <= -n /\ -n < Half /\ -Half <= n
    BY <1>1
  <2>4. itimediff(b, a) = n
    BY <2>1, <2>3, DistanceIs
  <2>5. itimediff(a, b) = -n
    BY <2>2, <2>3, DistanceIs
  <2>6. QED
    BY <2>4, <2>5
<1>5. QED
  BY <1>2, <1>4

-----------------------------------------------------------------------------
(***************************************************************************)
(* ikcp_update leaves the time, and between 1 and an interval until the     *)
(* next flush, if that was not more than an interval away.                  *)
(***************************************************************************)
Block == [current : Time, ts_flush : Time, interval : {SynInterval, Interval}, dead : BOOLEAN]

LEMMA NextFlush ==
    ASSUME now \in Time, NEW k \in Block, itimediff(k.ts_flush, now) \in -MaxBlock .. MaxInterval,
           Flushes(k)
    PROVE  next_flush(k) \in Time /\ itimediff(next_flush(k), now) \in 1 .. MaxInterval
<1>1. k.ts_flush \in Time /\ k.interval \in 1 .. MaxInterval
  BY Constants DEF Block
<1>2. /\ Half \in Nat /\ MaxInterval \in Nat /\ MaxBlock \in Nat /\ Slack \in Nat
      /\ MaxInterval <= Slack /\ MaxInterval + MaxBlock < Half
  BY Constants
<1>3. PICK i \in Nat : i = k.interval
  BY <1>1
<1>4. i > 0 /\ i <= MaxInterval /\ i < Half
  BY <1>1, <1>2, <1>3
<1>5. PICK late \in Int : late = itimediff(now, k.ts_flush)
  BY <1>1, Distance
<1>6. itimediff(k.ts_flush, now) = -late /\ -MaxInterval <= late /\ late <= MaxBlock
  <2>1. PICK d \in Int : d = itimediff(k.ts_flush, now)
    BY <1>1, Distance
  <2>2. -MaxBlock <= d /\ d <= MaxInterval /\ d > -Half
    BY <1>2, <2>1
  <2>3. late = -d
    BY <1>1, <1>5, <2>1, <2>2, Opposite
  <2>4. QED
    BY <1>2, <2>1, <2>2, <2>3
<1>7. /\ wrapping_add(now, i) \in Time
      /\ itimediff(wrapping_add(now, i), now) = i /\ itimediff(now, wrapping_add(now, i)) = -i
  BY <1>4, After, Later
<1>8. CASE OutOfRange(late)
  <2>1. next_flush(k) = wrapping_add(now, i)
    <3>1. next_flush(k) = IF itimediff(now, wrapping_add(now, i)) >= 0
                          THEN wrapping_add(now, i) ELSE wrapping_add(now, i)
      BY ONLY <1>3, <1>5, <1>8 DEF next_flush
    <3>2. QED
      BY ONLY <3>1
  <2>2. QED
    BY <1>4, <1>7, <2>1
<1>9. CASE ~OutOfRange(late)
  <2>1. late >= 0
    <3>1. slap(k) = late
      BY ONLY <1>5, <1>9 DEF slap
    <3>2. QED
      BY <3>1 DEF Flushes
  <2>2. PICK n \in Time : n = wrapping_add(k.ts_flush, i)
    BY <1>1, <1>4, Later
  <2>3. itimediff(n, k.ts_flush) = i /\ itimediff(k.ts_flush, n) = -i
    BY <1>1, <1>4, <2>2, After
  <2>4. itimediff(now, n) = late - i
    <3>1. -Half <= late - i /\ late - i < Half /\ late + -i = late - i
      BY <1>2, <1>4, <1>6, <2>1
    <3>2. QED
      BY <1>1, <1>5, <2>3, <3>1, Chain
  <2>5. itimediff(n, now) = i - late
    <3>1. late - i > -Half /\ -(late - i) = i - late
      BY <1>2, <1>4, <2>1
    <3>2. QED
      BY <2>4, <3>1, Opposite
  <2>6. next_flush(k) = IF itimediff(now, n) >= 0 THEN wrapping_add(now, i) ELSE n
    BY ONLY <1>3, <1>5, <1>9, <2>2 DEF next_flush
  <2>7. CASE late - i >= 0
    BY <1>4, <1>7, <2>4, <2>6, <2>7
  <2>8. CASE late - i < 0
    <3>1. next_flush(k) = n
      BY <2>4, <2>6, <2>8
    <3>2. i - late \in 1 .. MaxInterval
      BY <1>2, <1>4, <2>1, <2>8
    <3>3. QED
      BY <2>5, <3>1, <3>2
  <2>9. QED
    BY <1>3, <1>5, <2>7, <2>8
<1>10. QED
  BY <1>8, <1>9

LEMMA Updated ==
    ASSUME now \in Time, NEW k \in Block, itimediff(k.ts_flush, now) \in -MaxBlock .. MaxInterval
    PROVE  LET u == ikcp_update(k)
           IN  /\ u \in Block /\ u.current = now /\ u.interval = k.interval /\ u.dead = k.dead
               /\ itimediff(u.ts_flush, now) \in 1 .. MaxInterval
               /\ ~Flushes(k) => u.ts_flush = k.ts_flush
<1> DEFINE u == ikcp_update(k)
<1>1. u = [k EXCEPT !.current = now, !.ts_flush = IF Flushes(k) THEN next_flush(k) ELSE @]
  BY DEF ikcp_update
<1>2. k = [current |-> k.current, ts_flush |-> k.ts_flush, interval |-> k.interval, dead |-> k.dead]
      /\ k.ts_flush \in Time /\ k.interval \in {SynInterval, Interval} /\ k.dead \in BOOLEAN
  BY DEF Block
<1>3. CASE Flushes(k)
  <2>1. PICK n \in Time : n = next_flush(k) /\ itimediff(n, now) \in 1 .. MaxInterval
    BY <1>3, NextFlush
  <2>2. u = [k EXCEPT !.current = now, !.ts_flush = n]
    BY ONLY <1>1, <1>3, <2>1
  <2>3. QED
    BY <1>2, <1>3, <2>1, <2>2 DEF Block
<1>4. CASE ~Flushes(k)
  <2>1. u = [k EXCEPT !.current = now]
    BY <1>1, <1>2, <1>4
  <2>2. itimediff(k.ts_flush, now) > 0
    <3>1. PICK late \in Int : late = itimediff(now, k.ts_flush)
      BY <1>2, Distance
    <3>2. late < 0
      BY <1>4, <3>1 DEF Flushes, slap
    <3>3. PICK d \in Int : d = itimediff(k.ts_flush, now)
      BY <1>2, Distance
    <3>4. d > -Half
      BY <3>3, Constants
    <3>5. late = -d
      BY <1>2, <3>1, <3>3, <3>4, Opposite
    <3>6. QED
      BY <3>2, <3>3, <3>5
  <2>3. itimediff(k.ts_flush, now) \in 1 .. MaxInterval
    <3>1. PICK d \in Int : d = itimediff(k.ts_flush, now)
      BY <1>2, Distance
    <3>2. QED
      BY <2>2, <3>1, Constants
  <2>4. QED
    BY <1>2, <1>4, <2>1, <2>3 DEF Block
<1>5. QED
  BY <1>3, <1>4

-----------------------------------------------------------------------------
(***************************************************************************)
(* The distances that the invariant is about.                               *)
(***************************************************************************)
Segment == [xmit : 0 .. DeadLink, resendts : Time, queued : BOOLEAN]

TaskState == [hs : {"Connected", "Disconnected"} \cup Handshakes, input_closed : BOOLEAN,
              hs_end_time : Time, last_io_time : Time]

InRange(d) == d \in Int /\ -Half <= d /\ d < Half

LEMMA Distances ==
    ASSUME TypeOK
    PROVE  /\ InRange(SinceUpdate) /\ InRange(UntilFlush) /\ InRange(IdleAtUpdate)
           /\ InRange(Overdue) /\ InRange(timeout)
<1>1. /\ now \in Time /\ kcp.current \in Time /\ kcp.ts_flush \in Time /\ seg.resendts \in Time
      /\ task.hs_end_time \in Time /\ task.last_io_time \in Time
  BY DEF TypeOK
<1>2. \A a, b \in Time : InRange(itimediff(a, b))
  BY Distance DEF InRange
<1>3. QED
  BY ONLY <1>1, <1>2 DEF SinceUpdate, UntilFlush, IdleAtUpdate, Overdue, timeout

(***************************************************************************)
(* One step of the loop that goes on: with a new segment s and a new task   *)
(* state t, without a flush, after an update, or after kcp_flush.           *)
(***************************************************************************)
Kept(k, t, by) ==
    /\ by = ""
    /\ k.current = kcp.current /\ k.ts_flush = kcp.ts_flush
    /\ t.last_io_time = task.last_io_time

Flushed(k, t, by) ==
    /\ by # "" /\ ~kcp.dead
    /\ k.current = now /\ itimediff(k.ts_flush, now) \in 1 .. MaxInterval
    /\ task.hs \in Handshakes => timeout > 0
    /\ \/ by = "kcp_flush" /\ t.last_io_time = now
       \/ by # "kcp_flush" /\ t.last_io_time = task.last_io_time /\ IdleAtUpdate < SessionExpire

Turn(k, s, t, by, rto) ==
    /\ k \in Block /\ k.dead = kcp.dead
    /\ t \in TaskState
    /\ s \in {seg, NoSeg, Queued}
    /\ rto \in Rtos
    /\ t.hs \in Handshakes =>
           \/ task.hs = "Connected" /\ t.hs_end_time = wrapping_add(now, ShutdownTimeout)
           \/ task.hs \in Handshakes /\ t.hs_end_time = task.hs_end_time
    /\ Kept(k, t, by) \/ Flushed(k, t, by)

\* What is in flight afterwards: as before, or sent now.
Resent(s, s1, rto) ==
    s1 = [xmit |-> s.xmit + 1, resendts |-> wrapping_add(now, rto), queued |-> FALSE]

Afterwards(s, by, c, rto) == IF by = "" THEN s ELSE flushed(s, c, rto)

LEMMA SegmentAfter ==
    ASSUME TimerInv, NEW k, NEW s, NEW t, NEW by, NEW rto, Turn(k, s, t, by, rto)
    PROVE  LET s1 == Afterwards(s, by, k.current, rto)
           IN  /\ s1 \in Segment
               /\ \/ s1 = s /\ (by # "" => ~Due(s, now))
                  \/ Resent(s, s1, rto) /\ by # ""
<1> DEFINE s1 == Afterwards(s, by, k.current, rto)
<1>1. /\ DeadLink \in Nat /\ DeadLink > 1 /\ rto \in Nat /\ rto < Half
      /\ now \in Time /\ 0 \in Time
  BY Constants DEF Turn, TimerInv, TypeOK, Time
<1>2. s \in Segment
  <2>1. NoSeg \in Segment /\ Queued \in Segment
    <3>1. 0 \in 0 .. DeadLink
      BY <1>1
    <3>2. QED
      BY <1>1, <3>1 DEF NoSeg, Queued, Segment
  <2>2. seg \in Segment
    BY DEF TimerInv, TypeOK, Segment
  <2>3. QED
    BY <2>1, <2>2 DEF Turn
<1>3. CASE by = ""
  BY <1>2, <1>3 DEF Afterwards
<1>4. CASE by # ""
  <2>1. k.current = now /\ ~kcp.dead
    BY <1>4 DEF Turn, Kept, Flushed
  <2>2. s1 = flushed(s, now, rto)
    BY <1>4, <2>1 DEF Afterwards
  <2>3. CASE s.queued \/ Due(s, now)
    <3>1. Resent(s, s1, rto)
      BY <2>2, <2>3 DEF flushed, Resent
    <3>2. s.xmit \in Nat /\ s.xmit < DeadLink
      <4>1. CASE s = seg
        <5>1. seg.xmit < DeadLink
          BY <2>1 DEF TimerInv, LinkAlive
        <5>2. QED
          BY <1>2, <4>1, <5>1 DEF Segment
      <4>2. CASE s \in {NoSeg, Queued}
        BY <1>1, <4>2 DEF NoSeg, Queued
      <4>3. QED
        BY <4>1, <4>2 DEF Turn
    <3>3. wrapping_add(now, rto) \in Time
      BY <1>1, Later
    <3>4. s.xmit + 1 \in 0 .. DeadLink
      BY <1>1, <3>2
    <3>5. s1 \in Segment
      BY <3>1, <3>3, <3>4 DEF Resent, Segment
    <3>6. QED
      BY <1>4, <3>1, <3>5
  <2>4. CASE ~(s.queued \/ Due(s, now))
    <3>1. s1 = s
      BY <2>2, <2>4 DEF flushed
    <3>2. QED
      BY <1>2, <2>4, <3>1
  <2>5. QED
    BY <2>3, <2>4
<1>5. QED
  BY <1>3, <1>4

LEMMA ContinueStep ==
    ASSUME TimerInv, NEW k, NEW s, NEW t, NEW by, NEW rto,
           Turn(k, s, t, by, rto), Continue(k, s, t, by, rto)
    PROVE  TimerInv'
<1> DEFINE s1 == Afterwards(s, by, k.current, rto)
<1>1. /\ seg' = s1 /\ task' = t /\ now' = now /\ client' = client /\ gone' = gone
      /\ kcp' = [k EXCEPT !.dead = k.dead \/ s1.xmit >= DeadLink]
      /\ real' = [hs_left |-> IF t.hs \notin Handshakes THEN 0
                              ELSE IF task.hs = "Connected" THEN ShutdownTimeout ELSE real.hs_left,
                  idle |-> IF by = "kcp_flush" THEN 0 ELSE real.idle,
                  overdue |-> IF ~InFlight(s1) THEN 0
                              ELSE IF s1.xmit # s.xmit THEN -rto ELSE real.overdue]
      /\ pc' \in {"output", "top"} /\ (by = "" => pc' = "top") /\ left' = MaxBlock
  BY DEF Continue, Afterwards
<1>0. left' = MaxBlock /\ MaxBlock \in Nat
  BY <1>1, Constants
<1>2. /\ s1 \in Segment
      /\ \/ s1 = s /\ (by # "" => ~Due(s, now))
         \/ Resent(s, s1, rto) /\ by # ""
  BY SegmentAfter
<1> HIDE DEF s1
<1>3. /\ k \in Block /\ t \in TaskState /\ rto \in Nat \ {0} /\ rto < Half /\ now \in Time
      /\ rto \in Int /\ k.dead = kcp.dead
  BY Constants DEF Turn, TimerInv, TypeOK
<1>4. /\ kcp'.current = k.current /\ kcp'.ts_flush = k.ts_flush /\ kcp' \in Block
      /\ kcp'.dead = (k.dead \/ s1.xmit >= DeadLink)
  BY <1>1, <1>3 DEF Block
<1>5. /\ real.hs_left \in Nat /\ real.idle \in Nat /\ real.overdue \in Int
      /\ client \in BOOLEAN /\ gone \in BOOLEAN /\ kcp \in Block /\ seg \in Segment
      /\ task \in TaskState
  BY DEF TimerInv, TypeOK, Block, Segment, TaskState
<1>6. TypeOK'
  <2>1. real' \in [hs_left : Nat, idle : Nat, overdue : Int]
    <3>1. -rto \in Int /\ 0 \in Int /\ 0 \in Nat /\ ShutdownTimeout \in Nat
      BY <1>3, Constants
    <3>2. QED
      BY <1>1, <1>5, <3>1
  <2>2. pc' \in {"top", "output", "sleep", "spin", "done"} /\ left' \in Nat
    BY <1>1, Constants
  <2>3. QED
    BY <1>1, <1>2, <1>3, <1>4, <1>5, <2>1, <2>2 DEF TypeOK, Block, Segment, TaskState
<1>7. /\ Kept(k, t, by) \/ Flushed(k, t, by)
      /\ InRange(SinceUpdate) /\ InRange(UntilFlush) /\ InRange(IdleAtUpdate)
      /\ InRange(Overdue) /\ InRange(timeout)
  BY Distances DEF Turn, TimerInv
<1>f. Flushed(k, t, by) => UntilFlush' \in Int /\ 1 <= UntilFlush' /\ UntilFlush' <= MaxInterval
  <2>1. SUFFICES ASSUME Flushed(k, t, by)
                 PROVE  UntilFlush' \in Int /\ 1 <= UntilFlush' /\ UntilFlush' <= MaxInterval
    OBVIOUS
  <2>2. UntilFlush' \in 1 .. MaxInterval
    BY <1>1, <1>4, <2>1 DEF Flushed, UntilFlush
  <2>3. MaxInterval \in Int
    BY Constants
  <2>4. QED
    BY ONLY <2>2, <2>3
<1>8. FlushClock'
  <2>1. CASE Kept(k, t, by)
    <3>1. SinceUpdate' = SinceUpdate /\ UntilFlush' = UntilFlush /\ pc' = "top"
      BY <1>1, <1>4, <2>1 DEF Kept, SinceUpdate, UntilFlush
    <3>2. QED
      BY <3>1 DEF TimerInv, FlushClock
  <2>2. CASE Flushed(k, t, by)
    <3>1. SinceUpdate' = 0
      BY <1>1, <1>3, <1>4, <2>2, Same DEF Flushed, SinceUpdate
    <3>2. /\ SinceUpdate' >= 0 /\ UntilFlush' >= -MaxBlock
          /\ SinceUpdate' + UntilFlush' \in 1 .. MaxInterval
      <4>1. MaxBlock \in Nat /\ MaxInterval \in Nat
        BY Constants
      <4>2. QED
        BY <1>f, <2>2, <3>1, <4>1
    <3>3. left' <= MaxBlock /\ SinceUpdate' = MaxBlock - left'
      BY ONLY <1>0, <3>1
    <3>4. pc' \in {"top", "output"}
      BY <1>1
    <3>5. QED
      BY <3>2, <3>3, <3>4 DEF FlushClock
  <2>3. QED
    BY <1>7, <2>1, <2>2
<1>9. HandshakeClock'
  <2> SUFFICES ASSUME t.hs \in Handshakes
               PROVE  /\ real'.hs_left = Max({timeout', 0}) /\ timeout' >= -MaxBlock
                      /\ pc' = "output" => timeout' >= left' - MaxBlock
    BY <1>1 DEF HandshakeClock
  <2>1. CASE task.hs = "Connected" /\ t.hs_end_time = wrapping_add(now, ShutdownTimeout)
    <3>1. timeout' = ShutdownTimeout
      BY <1>1, <1>3, <2>1, After, Constants DEF timeout
    <3>2. real'.hs_left = ShutdownTimeout
      BY <1>1, <2>1
    <3>3. Max({timeout', 0}) = ShutdownTimeout
      BY <3>1, MaxPair, Constants
    <3>4. timeout' >= -MaxBlock /\ timeout' >= left' - MaxBlock
      <4>1. ShutdownTimeout \in Nat
        BY Constants
      <4>2. QED
        BY ONLY <1>0, <3>1, <4>1
    <3>5. QED
      BY <3>2, <3>3, <3>4
  <2>2. CASE task.hs \in Handshakes /\ t.hs_end_time = task.hs_end_time
    <3>1. timeout' = timeout
      BY <1>1, <2>2 DEF timeout
    <3>2. task.hs # "Connected"
      BY <2>2 DEF Handshakes
    <3>3. real'.hs_left = real.hs_left
      BY <1>1, <3>2
    <3>4. real.hs_left = Max({timeout, 0}) /\ timeout >= -MaxBlock
      BY <2>2 DEF TimerInv, HandshakeClock
    <3>5. pc' = "output" => timeout >= left' - MaxBlock
      <4>1. SUFFICES ASSUME pc' = "output" PROVE timeout >= left' - MaxBlock
        OBVIOUS
      <4>2. by # ""
        BY <1>1, <4>1
      <4>3. timeout > 0 /\ timeout \in Int
        BY <1>7, <2>2, <4>2 DEF Kept, Flushed, InRange
      <4>4. left' - MaxBlock = 0
        BY ONLY <1>0
      <4>5. QED
        BY <4>3, <4>4
    <3>6. QED
      BY <3>1, <3>3, <3>4, <3>5
  <2>3. QED
    BY <2>1, <2>2 DEF Turn
<1>10. ResendClock'
  <2> SUFFICES ASSUME InFlight(s1)
               PROVE  /\ real'.overdue = Min({Overdue', MaxInterval})
                      /\ Overdue' > -Half /\ Overdue' + UntilFlush' < MaxInterval
    BY <1>1 DEF ResendClock
  <2>1. real'.overdue = IF s1.xmit # s.xmit THEN -rto ELSE real.overdue
    BY <1>1
  <2>2. Overdue' = itimediff(now, s1.resendts)
    BY <1>1 DEF Overdue
  <2>3. CASE s1 = s /\ (by # "" => ~Due(s, now))
    <3>1. s = seg
      <4>1. ~InFlight(NoSeg) /\ ~InFlight(Queued)
        BY DEF InFlight, NoSeg, Queued
      <4>2. QED
        BY <2>3, <4>1 DEF Turn
    <3>2. Overdue' = Overdue /\ real'.overdue = real.overdue
      BY <2>1, <2>2, <2>3, <3>1 DEF Overdue
    <3>3. /\ real.overdue = Min({Overdue, MaxInterval})
          /\ Overdue > -Half /\ Overdue + UntilFlush < MaxInterval
      BY <2>3, <3>1 DEF TimerInv, ResendClock
    <3>4. Overdue + UntilFlush' < MaxInterval
      <4>1. CASE Kept(k, t, by)
        <5>1. UntilFlush' = UntilFlush
          BY <1>1, <1>4, <4>1 DEF Kept, UntilFlush
        <5>2. QED
          BY <3>3, <5>1
      <4>2. CASE Flushed(k, t, by)
        <5>1. UntilFlush' \in Int /\ UntilFlush' <= MaxInterval /\ MaxInterval \in Int
          BY <1>f, <4>2, Constants
        <5>2. ~Due(seg, now)
          BY <2>3, <3>1, <4>2 DEF Flushed
        <5>3. ~(Overdue >= 0)
          BY <2>3, <3>1, <5>2 DEF Due, Overdue
        <5>4. Overdue \in Int
          BY <1>7 DEF InRange
        <5>5. Overdue < 0
          BY ONLY <5>3, <5>4
        <5>6. PICK o \in Int : o = Overdue
          BY <5>4
        <5>7. PICK u \in Int : u = UntilFlush'
          BY <5>1
        <5>8. PICK m \in Int : m = MaxInterval
          BY <5>1
        <5>9. o < 0 /\ u <= m
          BY ONLY <5>1, <5>5, <5>6, <5>7, <5>8
        <5>10. o + u < m
          BY ONLY <5>9, o \in Int, u \in Int, m \in Int
        <5>11. QED
          BY ONLY <5>6, <5>7, <5>8, <5>10
      <4>3. QED
        BY <1>7, <4>1, <4>2
    <3>5. QED
      BY <3>2, <3>3, <3>4
  <2>4. CASE Resent(s, s1, rto) /\ by # ""
    <3>1. s1.xmit # s.xmit /\ s1.resendts = wrapping_add(now, rto)
      <4>1. s1.xmit = s.xmit + 1 /\ s1.resendts = wrapping_add(now, rto)
        BY <2>4 DEF Resent
      <4>2. s.xmit \in Int
        BY <1>5 DEF Turn, NoSeg, Queued, Segment
      <4>3. QED
        BY <4>1, <4>2
    <3>2. Overdue' = -rto /\ real'.overdue = -rto
      BY <1>3, <2>1, <2>2, <3>1, After
    <3>3. UntilFlush' \in Int /\ UntilFlush' <= MaxInterval /\ MaxInterval \in Int /\ Half \in Int
      <4>1. Flushed(k, t, by)
        BY ONLY <1>7, <2>4 DEF Kept
      <4>2. UntilFlush' \in Int /\ UntilFlush' <= MaxInterval
        BY ONLY <1>f, <4>1
      <4>3. QED
        BY ONLY <4>2, Constants
    <3>4. Min({-rto, MaxInterval}) = -rto
      <4>1. -rto \in Int /\ MaxInterval \in Int /\ -rto <= MaxInterval
        BY <1>3, Constants
      <4>2. QED
        BY <4>1, MinPair
    <3>5. -rto > -Half /\ -rto + UntilFlush' < MaxInterval
      <4>1. PICK u \in Int, m \in Int, h \in Int : u = UntilFlush' /\ m = MaxInterval /\ h = Half
        BY <3>3
      <4>2. PICK r \in Int : r = rto /\ 1 <= r /\ r < h
        BY <1>3, <4>1
      <4>3. u <= m
        BY ONLY <3>3, <4>1
      <4>4. -r > -h /\ -r + u < m
        BY ONLY <4>2, <4>3, u \in Int, m \in Int, h \in Int, r \in Int
      <4>5. QED
        BY ONLY <4>1, <4>2, <4>4
    <3>6. QED
      BY <3>2, <3>4, <3>5
  <2>5. QED
    BY <1>2, <2>3, <2>4
<1>11. IdleClock'
  <2>0. pc' # "sleep" /\ pc' # "spin"
    BY <1>1
  <2>1. CASE Kept(k, t, by)
    <3>1. SinceUpdate' = SinceUpdate /\ IdleAtUpdate' = IdleAtUpdate
      BY <1>1, <1>4, <2>1 DEF Kept, SinceUpdate, IdleAtUpdate
    <3>2. real'.idle = real.idle
      BY <1>1, <2>1 DEF Kept
    <3>3. QED
      BY <2>0, <3>1, <3>2 DEF TimerInv, IdleClock
  <2>2. CASE Flushed(k, t, by)
    <3>0. k.current = now /\ by # ""
      BY <2>2 DEF Flushed
    <3>1. SinceUpdate' = 0
      BY <1>1, <1>3, <1>4, <3>0, Same DEF SinceUpdate
    <3>2. CASE by = "kcp_flush" /\ t.last_io_time = now
      <4>1. IdleAtUpdate' = 0
        BY <1>1, <1>3, <1>4, <3>0, <3>2, Same DEF IdleAtUpdate
      <4>2. real'.idle = 0
        BY <1>1, <3>2
      <4>3. Min({IdleAtUpdate' + SinceUpdate', SessionExpire + MaxInterval}) = 0
        <5>1. PICK a \in Int : a = IdleAtUpdate' + SinceUpdate'
          BY <3>1, <4>1
        <5>2. PICK b \in Int : b = SessionExpire + MaxInterval
          BY Constants
        <5>3. a = 0 /\ a <= b
          BY <3>1, <4>1, <5>1, <5>2, Constants
        <5>4. Min({a, b}) = 0
          BY <5>3, MinPair
        <5>5. QED
          BY <5>1, <5>2, <5>4
      <4>4. /\ IdleAtUpdate' \in 0 .. SessionExpire + MaxInterval + MaxBlock - 1
            /\ IdleAtUpdate' + SinceUpdate' < SessionExpire + MaxInterval + 2 * MaxBlock
        BY <3>1, <4>1, Constants
      <4>5. QED
        BY <2>0, <4>2, <4>3, <4>4 DEF IdleClock
    <3>3. CASE by # "kcp_flush" /\ t.last_io_time = task.last_io_time /\ IdleAtUpdate < SessionExpire
      <4>1. /\ IdleAtUpdate \in Int /\ SinceUpdate \in Int /\ UntilFlush \in Int
            /\ IdleAtUpdate >= 0 /\ SinceUpdate >= 0 /\ UntilFlush >= -MaxBlock
            /\ SinceUpdate + UntilFlush <= MaxInterval
        BY <1>7, Constants DEF InRange, TimerInv, FlushClock, IdleClock
      <4>2. /\ IdleAtUpdate + SinceUpdate >= 0
            /\ IdleAtUpdate + SinceUpdate <= SessionExpire + MaxInterval + MaxBlock - 1
        BY <3>3, <4>1, Constants
      <4>3. IdleAtUpdate' = IdleAtUpdate + SinceUpdate
        <5>1. IdleAtUpdate' = itimediff(now, task.last_io_time)
          BY <1>1, <1>4, <3>0, <3>3 DEF IdleAtUpdate
        <5>2. /\ itimediff(now, kcp.current) = SinceUpdate
              /\ itimediff(kcp.current, task.last_io_time) = IdleAtUpdate
          BY DEF SinceUpdate, IdleAtUpdate
        <5>3. kcp.current \in Time /\ task.last_io_time \in Time
          BY <1>5 DEF Block, TaskState
        <5>4. PICK a \in Int : a = SinceUpdate
          BY <4>1
        <5>5. PICK b \in Int : b = IdleAtUpdate
          BY <4>1
        <5>6. -Half <= a + b /\ a + b < Half
          BY <4>1, <4>2, <5>4, <5>5, Constants
        <5>7. itimediff(now, task.last_io_time) = a + b
          BY <1>3, <5>2, <5>3, <5>4, <5>5, <5>6, Chain
        <5>8. QED
          BY <4>1, <5>1, <5>4, <5>5, <5>7
      <4>4. real'.idle = real.idle
        BY <1>1, <3>3
      <4>5. real.idle = Min({IdleAtUpdate + SinceUpdate, SessionExpire + MaxInterval})
        BY DEF TimerInv, IdleClock
      <4>6. IdleAtUpdate' + SinceUpdate' = IdleAtUpdate + SinceUpdate
        BY <3>1, <4>1, <4>3
      <4>7. /\ IdleAtUpdate' \in 0 .. SessionExpire + MaxInterval + MaxBlock - 1
            /\ IdleAtUpdate' + SinceUpdate' < SessionExpire + MaxInterval + 2 * MaxBlock
        BY <4>1, <4>2, <4>3, <4>6, Constants
      <4>8. QED
        BY <2>0, <4>4, <4>5, <4>6, <4>7 DEF IdleClock
    <3>4. QED
      BY <2>2, <3>2, <3>3 DEF Flushed
  <2>3. QED
    BY <1>7, <2>1, <2>2
<1>12. LinkAlive'
  <2>1. pc' # "sleep"
    BY <1>1
  <2>2. ~kcp'.dead => ~(s1.xmit >= DeadLink)
    BY <1>4
  <2>3. s1.xmit \in Int /\ DeadLink \in Int
    <3>1. s1.xmit \in 0 .. DeadLink
      BY ONLY <1>2 DEF Segment
    <3>2. QED
      BY <3>1, Constants
  <2>4. ~(s1.xmit >= DeadLink) => s1.xmit < DeadLink
    BY <2>3
  <2>5. ~kcp'.dead => seg'.xmit < DeadLink
    BY ONLY <1>1, <2>2, <2>4
  <2>6. QED
    BY <2>1, <2>5 DEF LinkAlive
<1>13. TimeoutNotSlept' /\ ExpiresInTime'
  BY <1>1 DEF TimeoutNotSlept, ExpiresInTime
<1>14. QED
  BY <1>6, <1>8, <1>9, <1>10, <1>11, <1>12, <1>13 DEF TimerInv

-----------------------------------------------------------------------------
(***************************************************************************)
(* The initial states.                                                      *)
(***************************************************************************)
LEMMA InitInv == Init => TimerInv
<1> SUFFICES ASSUME Init PROVE TimerInv
  OBVIOUS
<1>1. PICK rto \in Rtos :
         /\ seg = IF client THEN flushed(Queued, 0, rto) ELSE NoSeg
         /\ real = [hs_left |-> ConnectTimeout, idle |-> 0, overdue |-> IF client THEN -rto ELSE 0]
  BY DEF Init
<1>2. /\ now = 0 /\ client \in BOOLEAN /\ left = MaxBlock /\ gone = FALSE
      /\ pc = IF client THEN "output" ELSE "top"
      /\ kcp = [current |-> 0, ts_flush |-> SynInterval, interval |-> SynInterval, dead |-> FALSE]
      /\ task = [hs |-> "Syn", input_closed |-> FALSE,
                 hs_end_time |-> wrapping_add(0, ConnectTimeout), last_io_time |-> 0]
  BY DEF Init
<1>3. rto \in Nat \ {0} /\ rto < Half /\ rto \in Int /\ 0 \in Time /\ SynInterval \in Time
  <2>1. rto \in Nat \ {0} /\ rto < Half /\ rto \in Int
    BY Constants
  <2>2. 0 \in Time /\ SynInterval \in Time
    BY Constants DEF Time
  <2>3. QED
    BY <2>1, <2>2
<1>4. wrapping_add(0, SynInterval) = SynInterval
  <2>1. SynInterval \in Int /\ 0 <= SynInterval /\ SynInterval < Modulus /\ Modulus \in Nat
    BY Constants
  <2>2. PICK n \in Int : n = SynInterval
    BY <2>1
  <2>3. n % Modulus = n /\ 0 + n = n
    BY ONLY <2>1, <2>2, n \in Int
  <2>4. QED
    BY <2>2, <2>3 DEF wrapping_add
<1>5. SinceUpdate = 0 /\ IdleAtUpdate = 0 /\ UntilFlush = SynInterval /\ timeout = ConnectTimeout
  <2>1. now = 0 /\ kcp.current = 0 /\ kcp.ts_flush = wrapping_add(0, SynInterval)
        /\ task.last_io_time = 0 /\ task.hs_end_time = wrapping_add(0, ConnectTimeout)
    BY <1>2, <1>4
  <2>2. itimediff(0, 0) = 0
    BY <1>3, Same
  <2>3. itimediff(wrapping_add(0, SynInterval), 0) = SynInterval
    <3>1. SynInterval \in Nat /\ SynInterval < Half
      BY Constants
    <3>2. QED
      BY <1>3, <3>1, After
  <2>4. itimediff(wrapping_add(0, ConnectTimeout), 0) = ConnectTimeout
    <3>1. ConnectTimeout \in Nat /\ ConnectTimeout < Half
      BY Constants
    <3>2. QED
      BY <1>3, <3>1, After
  <2>5. QED
    BY ONLY <2>1, <2>2, <2>3, <2>4 DEF SinceUpdate, IdleAtUpdate, UntilFlush, timeout
<1>6. /\ client => seg = [xmit |-> 1, resendts |-> wrapping_add(0, rto), queued |-> FALSE]
      /\ ~client => seg = NoSeg
  <2>1. flushed(Queued, 0, rto) = [xmit |-> 0 + 1, resendts |-> wrapping_add(0, rto), queued |-> FALSE]
    BY DEF flushed, Queued
  <2>2. 0 + 1 = 1
    OBVIOUS
  <2>3. QED
    BY <1>1, <2>1, <2>2
<1>7. wrapping_add(0, rto) \in Time /\ wrapping_add(0, ConnectTimeout) \in Time
  <2>1. ConnectTimeout \in Nat /\ ConnectTimeout < Half
    BY Constants
  <2>2. QED
    BY <1>3, <2>1, Later
<1>8. TypeOK
  <2>1. kcp \in [current : Time, ts_flush : Time, interval : {SynInterval, Interval}, dead : BOOLEAN]
    BY <1>2, <1>3
  <2>2. seg \in Segment
    <3>1. 0 \in 0 .. DeadLink /\ 1 \in 0 .. DeadLink
      BY Constants
    <3>2. [xmit |-> 1, resendts |-> wrapping_add(0, rto), queued |-> FALSE] \in Segment
      BY ONLY <1>7, <3>1 DEF Segment
    <3>3. NoSeg \in Segment
      BY ONLY <1>3, <3>1 DEF NoSeg, Segment
    <3>4. QED
      BY ONLY <1>6, <3>2, <3>3
  <2>3. task \in [hs : {"Connected", "Disconnected"} \cup Handshakes, input_closed : BOOLEAN,
                  hs_end_time : Time, last_io_time : Time]
    BY <1>2, <1>3, <1>7 DEF Handshakes
  <2>4. real \in [hs_left : Nat, idle : Nat, overdue : Int]
    <3>1. -rto \in Int /\ ConnectTimeout \in Nat
      BY <1>3, Constants
    <3>2. QED
      BY <1>1, <3>1
  <2>5. left \in Nat /\ now \in Time /\ gone \in BOOLEAN
        /\ pc \in {"top", "output", "sleep", "spin", "done"}
    BY <1>2, <1>3, Constants
  <2>6. QED
    BY <1>2, <2>1, <2>2, <2>3, <2>4, <2>5 DEF TypeOK, Segment
<1>9. FlushClock
  <2>1. SinceUpdate >= 0 /\ UntilFlush >= -MaxBlock /\ SinceUpdate + UntilFlush \in 1 .. MaxInterval
    BY <1>5, Constants
  <2>2. left <= MaxBlock /\ SinceUpdate = MaxBlock - left
    BY <1>2, <1>5, Constants
  <2>3. pc # "sleep" /\ pc # "spin"
    BY <1>2
  <2>4. QED
    BY <2>1, <2>2, <2>3 DEF FlushClock
<1>10. HandshakeClock
  <2>1. Max({timeout, 0}) = ConnectTimeout
    BY <1>5, MaxPair, Constants
  <2>2. real.hs_left = ConnectTimeout
    BY <1>1
  <2>3. timeout >= -MaxBlock /\ timeout >= left - MaxBlock
    BY <1>2, <1>5, Constants
  <2>4. pc # "sleep" /\ pc # "spin"
    BY <1>2
  <2>5. QED
    BY <2>1, <2>2, <2>3, <2>4 DEF HandshakeClock
<1>11. ResendClock
  <2> SUFFICES ASSUME InFlight(seg)
               PROVE  /\ real.overdue = Min({Overdue, MaxInterval})
                      /\ Overdue > -Half /\ Overdue + UntilFlush < MaxInterval
    BY <1>2 DEF ResendClock
  <2>1. client
    BY <1>6 DEF InFlight, NoSeg
  <2>2. Overdue = -rto
    BY <1>2, <1>3, <1>6, <2>1, After DEF Overdue
  <2>3. real.overdue = -rto
    BY <1>1, <2>1
  <2>4. -rto \in Int /\ MaxInterval \in Int /\ -rto <= MaxInterval
    BY <1>3, Constants
  <2>5. Min({-rto, MaxInterval}) = -rto
    BY <2>4, MinPair
  <2>6. -rto > -Half /\ -rto + SynInterval < MaxInterval
    BY ONLY <1>3, Constants
  <2>7. QED
    BY <1>5, <2>2, <2>3, <2>5, <2>6
<1>12. IdleClock
  <2>1. PICK b \in Int : b = SessionExpire + MaxInterval
    BY Constants
  <2>2. Min({0, b}) = 0
    BY <2>1, MinPair, Constants
  <2>3. real.idle = 0 /\ IdleAtUpdate + SinceUpdate = 0
    BY <1>1, <1>5
  <2>4. real.idle = Min({IdleAtUpdate + SinceUpdate, SessionExpire + MaxInterval})
    BY <2>1, <2>2, <2>3
  <2>5. /\ IdleAtUpdate \in 0 .. SessionExpire + MaxInterval + MaxBlock - 1
        /\ IdleAtUpdate + SinceUpdate < SessionExpire + MaxInterval + 2 * MaxBlock
    BY <1>5, Constants
  <2>6. pc # "sleep" /\ pc # "spin"
    BY <1>2
  <2>7. QED
    BY <2>4, <2>5, <2>6 DEF IdleClock
<1>13. LinkAlive
  <2>1. seg.xmit < DeadLink
    BY <1>2, <1>6, Constants DEF NoSeg
  <2>2. QED
    BY <1>2, <2>1 DEF LinkAlive
<1>14. TimeoutNotSlept /\ ExpiresInTime
  BY <1>2 DEF TimeoutNotSlept, ExpiresInTime
<1>15. QED
  BY <1>8, <1>9, <1>10, <1>11, <1>12, <1>13, <1>14 DEF TimerInv

-----------------------------------------------------------------------------
(***************************************************************************)
(* A tick moves every distance from now by one.                             *)
(***************************************************************************)
LEMMA Tick ==
    ASSUME NEW a \in Time, NEW b \in Time
    PROVE  LET c == wrapping_add(a, 1)
           IN  /\ c \in Time
               /\ itimediff(a, b) + 1 < Half => itimediff(c, b) = itimediff(a, b) + 1
               /\ itimediff(b, a) - 1 >= -Half => itimediff(b, c) = itimediff(b, a) - 1
<1>1. 1 < Half /\ 1 \in Nat /\ Half \in Nat
  BY Constants
<1>2. PICK c \in Time : c = wrapping_add(a, 1)
  BY <1>1, Later
<1>3. itimediff(c, a) = 1 /\ itimediff(a, c) = -1
  BY <1>1, <1>2, After
<1>4. PICK d \in Int : d = itimediff(a, b)
  BY Distance
<1>5. PICK e \in Int : e = itimediff(b, a)
  BY Distance
<1>6. -Half <= d /\ e < Half
  BY <1>4, <1>5, Distance
<1>7. d + 1 < Half => itimediff(c, b) = d + 1
  <2>1. SUFFICES ASSUME d + 1 < Half PROVE itimediff(c, b) = d + 1
    OBVIOUS
  <2>2. -Half <= 1 + d /\ 1 + d < Half /\ 1 + d = d + 1
    BY ONLY <1>1, <1>6, <2>1, d \in Int
  <2>3. QED
    BY <1>3, <1>4, <2>2, Chain
<1>8. e - 1 >= -Half => itimediff(b, c) = e - 1
  <2>1. SUFFICES ASSUME e - 1 >= -Half PROVE itimediff(b, c) = e - 1
    OBVIOUS
  <2>2. -Half <= e + -1 /\ e + -1 < Half /\ e + -1 = e - 1
    BY ONLY <1>1, <1>6, <2>1, e \in Int
  <2>3. QED
    BY <1>3, <1>5, <2>2, Chain
<1>9. QED
  BY <1>2, <1>4, <1>5, <1>7, <1>8

LEMMA Bounds ==
    ASSUME TimerInv
    PROVE  /\ SinceUpdate \in Int /\ UntilFlush \in Int /\ IdleAtUpdate \in Int
           /\ Overdue \in Int /\ timeout \in Int /\ left \in Int
           /\ 0 <= SinceUpdate /\ -MaxBlock <= UntilFlush
           /\ 1 <= SinceUpdate + UntilFlush /\ SinceUpdate + UntilFlush <= MaxInterval
           /\ SinceUpdate <= MaxInterval + MaxBlock /\ UntilFlush <= MaxInterval
           /\ 0 <= IdleAtUpdate /\ IdleAtUpdate < SessionExpire + MaxInterval + MaxBlock
           /\ 0 <= left
<1>1. /\ SinceUpdate \in Int /\ UntilFlush \in Int /\ IdleAtUpdate \in Int
      /\ Overdue \in Int /\ timeout \in Int
  BY Distances DEF TimerInv, InRange
<1>2. MaxBlock \in Nat /\ MaxInterval \in Nat /\ SessionExpire \in Nat
  BY Constants
<1>3. /\ SinceUpdate >= 0 /\ UntilFlush >= -MaxBlock
      /\ SinceUpdate + UntilFlush \in 1 .. MaxInterval
  BY DEF TimerInv, FlushClock
<1>4. IdleAtUpdate \in 0 .. SessionExpire + MaxInterval + MaxBlock - 1
  BY DEF TimerInv, IdleClock
<1>5. left \in Int /\ left >= 0
  BY DEF TimerInv, TypeOK
<1>6. /\ 0 <= SinceUpdate /\ -MaxBlock <= UntilFlush
      /\ 1 <= SinceUpdate + UntilFlush /\ SinceUpdate + UntilFlush <= MaxInterval
      /\ SinceUpdate <= MaxInterval + MaxBlock /\ UntilFlush <= MaxInterval
  BY ONLY <1>1, <1>2, <1>3
<1>7. 0 <= IdleAtUpdate /\ IdleAtUpdate < SessionExpire + MaxInterval + MaxBlock
  BY ONLY <1>1, <1>2, <1>4
<1>8. QED
  BY ONLY <1>1, <1>5, <1>6, <1>7

LEMMA ElapseStep == ASSUME TimerInv, Elapse PROVE TimerInv'
<1>1. PICK su \in Int : su = SinceUpdate
  BY Bounds
<1>2. PICK uf \in Int : uf = UntilFlush
  BY Bounds
<1>3. PICK ia \in Int : ia = IdleAtUpdate
  BY Bounds
<1>4. PICK l \in Nat : l = left
  BY DEF TimerInv, TypeOK
<1>c. PICK mb \in Nat, mi \in Nat, se \in Nat, half \in Nat :
         mb = MaxBlock /\ mi = MaxInterval /\ se = SessionExpire /\ half = Half
  BY Constants
<1>d. se + mi + 2 * mb < half /\ 1 <= se
  BY <1>c, Constants
<1>5. /\ 0 <= su /\ -mb <= uf /\ 1 <= su + uf /\ su + uf <= mi
      /\ 0 <= ia /\ ia < se + mi + mb
  BY <1>1, <1>2, <1>3, <1>c, Bounds
<1>6. /\ now' = wrapping_add(now, 1)
      /\ pc = "spin" \/ (pc \in {"sleep", "output"} /\ left > 0)
      /\ pc' = IF pc = "spin" \/ (pc = "sleep" /\ left = 1) THEN "top" ELSE pc
      /\ left' = IF pc = "spin" THEN left ELSE left - 1
      /\ real' = [hs_left |-> Max({real.hs_left - 1, 0}),
                  idle |-> Min({real.idle + 1, SessionExpire + MaxInterval}),
                  overdue |-> IF InFlight(seg) THEN Min({real.overdue + 1, MaxInterval}) ELSE 0]
      /\ kcp' = kcp /\ seg' = seg /\ task' = task /\ client' = client /\ gone' = gone
  BY DEF Elapse
<1>7. \/ pc = "spin" /\ pc' = "top" /\ left' = l
      \/ pc = "sleep" /\ pc' = "top" /\ l = 1 /\ left' = l - 1
      \/ pc = "sleep" /\ pc' = "sleep" /\ l > 1 /\ left' = l - 1
      \/ pc = "output" /\ pc' = "output" /\ l > 0 /\ left' = l - 1
  BY <1>4, <1>6
<1>8. /\ now \in Time /\ kcp.current \in Time /\ kcp.ts_flush \in Time /\ seg.resendts \in Time
      /\ task.hs_end_time \in Time /\ task.last_io_time \in Time
      /\ real.hs_left \in Nat /\ real.idle \in Nat /\ real.overdue \in Int
  BY DEF TimerInv, TypeOK
<1>9. now' \in Time
  BY <1>6, <1>8, Tick
<1>10. SinceUpdate' = su + 1
  <2>1. itimediff(now, kcp.current) = su /\ su + 1 < Half
    <3>1. su + 1 < half
      BY <1>5, <1>d
    <3>2. QED
      BY <1>1, <1>c, <3>1 DEF SinceUpdate
  <2>2. itimediff(now', kcp.current) = su + 1
    BY <1>6, <1>8, <2>1, Tick
  <2>3. QED
    BY <1>6, <2>2 DEF SinceUpdate
<1>11. UntilFlush' = uf - 1
  <2>1. itimediff(kcp.ts_flush, now) = uf /\ uf - 1 >= -Half
    <3>1. uf - 1 >= -half
      BY <1>5, <1>d
    <3>2. QED
      BY <1>2, <1>c, <3>1 DEF UntilFlush
  <2>2. itimediff(kcp.ts_flush, now') = uf - 1
    BY <1>6, <1>8, <2>1, Tick
  <2>3. QED
    BY <1>6, <2>2 DEF UntilFlush
<1>12. IdleAtUpdate' = ia
  BY <1>3, <1>6 DEF IdleAtUpdate
<1>13. TypeOK'
  <2>1. left' \in Nat /\ pc' \in {"top", "output", "sleep", "spin", "done"}
    BY <1>7
  <2>2. Max({real.hs_left - 1, 0}) \in Nat
    <3>1. PICK h \in Int : h = real.hs_left - 1
      BY <1>8
    <3>2. Max({h, 0}) \in Nat
      BY MaxPair
    <3>3. QED
      BY <3>1, <3>2
  <2>3. Min({real.idle + 1, SessionExpire + MaxInterval}) \in Nat
    <3>1. PICK i \in Nat : i = real.idle + 1
      BY <1>8
    <3>2. PICK b \in Nat : b = SessionExpire + MaxInterval
      BY <1>c
    <3>3. Min({i, b}) \in Nat
      BY MinPair
    <3>4. QED
      BY <3>1, <3>2, <3>3
  <2>4. (IF InFlight(seg) THEN Min({real.overdue + 1, MaxInterval}) ELSE 0) \in Int
    <3>1. PICK o \in Int : o = real.overdue + 1
      BY <1>8
    <3>2. Min({o, mi}) \in Int
      BY MinPair
    <3>3. QED
      BY <1>c, <3>1, <3>2
  <2>5. real' \in [hs_left : Nat, idle : Nat, overdue : Int]
    BY ONLY <1>6, <2>2, <2>3, <2>4
  <2>6. QED
    BY <1>6, <1>9, <2>1, <2>5 DEF TimerInv, TypeOK
<1>14. FlushClock'
  <2>1. /\ pc = "output" => l <= mb /\ su = mb - l
        /\ pc = "sleep" => l > 0 /\ l <= uf
        /\ pc = "spin" => su = 0
    BY <1>1, <1>2, <1>4, <1>c DEF TimerInv, FlushClock
  <2>2. /\ su + 1 >= 0 /\ uf - 1 >= -mb
        /\ su + 1 + (uf - 1) \in 1 .. mi
        /\ pc' = "output" => left' <= mb /\ su + 1 = mb - left'
        /\ pc' = "sleep" => left' > 0 /\ left' <= uf - 1
        /\ pc' # "spin"
    <3>1. su + 1 >= 0 /\ su + 1 + (uf - 1) \in 1 .. mi
      BY <1>5
    <3>2. CASE pc = "spin" /\ pc' = "top" /\ left' = l
      <4>1. su = 0
        BY <2>1, <3>2
      <4>2. uf - 1 >= -mb
        BY <1>5, <4>1
      <4>3. QED
        BY <3>1, <3>2, <4>2
    <3>3. CASE pc = "sleep" /\ pc' = "top" /\ l = 1 /\ left' = l - 1
      <4>1. l > 0 /\ l <= uf
        BY <2>1, <3>3
      <4>2. uf - 1 >= -mb
        BY <4>1
      <4>3. QED
        BY <3>1, <3>3, <4>2
    <3>4. CASE pc = "sleep" /\ pc' = "sleep" /\ l > 1 /\ left' = l - 1
      <4>1. l > 0 /\ l <= uf
        BY <2>1, <3>4
      <4>2. uf - 1 >= -mb /\ left' > 0 /\ left' <= uf - 1
        BY <3>4, <4>1
      <4>3. QED
        BY <3>1, <3>4, <4>2
    <3>5. CASE pc = "output" /\ pc' = "output" /\ l > 0 /\ left' = l - 1
      <4>1. l <= mb /\ su = mb - l
        BY <2>1, <3>5
      <4>2. uf - 1 >= -mb /\ left' <= mb /\ su + 1 = mb - left'
        BY <1>5, <3>5, <4>1
      <4>3. QED
        BY <3>1, <3>5, <4>2
    <3>6. QED
      BY <1>7, <3>2, <3>3, <3>4, <3>5
  <2>3. QED
    BY ONLY <1>10, <1>11, <1>c, <2>2 DEF FlushClock
<1>15. HandshakeClock' /\ TimeoutNotSlept'
  <2>1. CASE task.hs \in Handshakes
    <3>1. PICK to \in Int : to = timeout
      BY Bounds
    <3>2. /\ real.hs_left = Max({to, 0}) /\ to >= -mb
          /\ pc = "output" => to >= l - mb
          /\ pc = "sleep" => to >= l
          /\ pc = "spin" => to > 0
      BY <1>4, <1>c, <2>1, <3>1 DEF TimerInv, HandshakeClock
    <3>3. timeout' = to - 1
      <4>1. itimediff(task.hs_end_time, now) = to /\ to - 1 >= -Half
        <5>1. to - 1 >= -half
          BY <1>d, <3>2
        <5>2. QED
          BY <1>c, <3>1, <5>1 DEF timeout
      <4>2. itimediff(task.hs_end_time, now') = to - 1
        BY <1>6, <1>8, <4>1, Tick
      <4>3. QED
        BY <1>6, <4>2 DEF timeout
    <3>4. real'.hs_left = Max({to - 1, 0})
      <4>1. PICK h \in Int : h = real.hs_left
        BY <1>8
      <4>2. h = IF to >= 0 THEN to ELSE 0
        BY <3>2, <4>1, MaxPair
      <4>3. Max({h - 1, 0}) = IF h - 1 >= 0 THEN h - 1 ELSE 0
        <5>1. PICK g \in Int : g = h - 1
          OBVIOUS
        <5>2. Max({g, 0}) = IF g >= 0 THEN g ELSE 0
          BY MaxPair
        <5>3. QED
          BY <5>1, <5>2
      <4>4. Max({to - 1, 0}) = IF to - 1 >= 0 THEN to - 1 ELSE 0
        <5>1. PICK g \in Int : g = to - 1
          OBVIOUS
        <5>2. Max({g, 0}) = IF g >= 0 THEN g ELSE 0
          BY MaxPair
        <5>3. QED
          BY <5>1, <5>2
      <4>5. (IF h - 1 >= 0 THEN h - 1 ELSE 0) = (IF to - 1 >= 0 THEN to - 1 ELSE 0)
        BY ONLY <4>2, h \in Int, to \in Int
      <4>6. real'.hs_left = Max({h - 1, 0})
        BY <1>6, <4>1
      <4>7. QED
        BY ONLY <4>3, <4>4, <4>5, <4>6
    <3>5. /\ to - 1 >= -mb
          /\ pc' = "output" => to - 1 >= left' - mb
          /\ pc' = "sleep" => to - 1 >= left' /\ to - 1 > 0
          /\ pc' # "spin"
      <4>1. CASE pc = "spin" /\ pc' = "top" /\ left' = l
        <5>1. to > 0
          BY <3>2, <4>1
        <5>2. to - 1 >= -mb
          BY <5>1
        <5>3. QED
          BY <4>1, <5>2
      <4>2. CASE pc = "sleep" /\ pc' = "top" /\ l = 1 /\ left' = l - 1
        <5>1. to >= l
          BY <3>2, <4>2
        <5>2. to - 1 >= -mb
          BY <4>2, <5>1
        <5>3. QED
          BY <4>2, <5>2
      <4>3. CASE pc = "sleep" /\ pc' = "sleep" /\ l > 1 /\ left' = l - 1
        <5>1. to >= l
          BY <3>2, <4>3
        <5>2. to - 1 >= -mb /\ to - 1 >= left' /\ to - 1 > 0
          BY <4>3, <5>1
        <5>3. QED
          BY <4>3, <5>2
      <4>4. CASE pc = "output" /\ pc' = "output" /\ l > 0 /\ left' = l - 1
        <5>1. to >= l - mb
          BY <3>2, <4>4
        <5>2. to - 1 >= -mb /\ to - 1 >= left' - mb
          BY <4>4, <5>1
        <5>3. QED
          BY <4>4, <5>2
      <4>5. QED
        BY ONLY <1>7, <4>1, <4>2, <4>3, <4>4
    <3>6. HandshakeClock'
      BY ONLY <1>c, <3>3, <3>4, <3>5 DEF HandshakeClock
    <3>7. TimeoutNotSlept'
      <4>1. SUFFICES ASSUME pc' = "sleep" PROVE real'.hs_left > 0
        BY <3>5 DEF TimeoutNotSlept
      <4>2. PICK g \in Int : g = to - 1
        OBVIOUS
      <4>3. g > 0
        BY <3>5, <4>1, <4>2
      <4>4. Max({g, 0}) = g
        BY <4>3, MaxPair
      <4>5. QED
        BY <3>4, <4>2, <4>3, <4>4
    <3>8. QED
      BY <3>6, <3>7
  <2>2. CASE task.hs \notin Handshakes
    <3>1. task'.hs \notin Handshakes
      BY <1>6, <2>2
    <3>2. pc' = "sleep" => task.hs # "Disconnected"
      BY <1>7 DEF TimerInv, LinkAlive
    <3>3. task.hs \in {"Connected", "Disconnected"}
      BY <2>2 DEF TimerInv, TypeOK
    <3>4. pc' # "spin"
      BY <1>7
    <3>5. QED
      BY <1>6, <3>1, <3>2, <3>3, <3>4 DEF HandshakeClock, TimeoutNotSlept, Waits
  <2>3. QED
    BY <2>1, <2>2
<1>16. ResendClock'
  <2> SUFFICES ASSUME InFlight(seg)
               PROVE  /\ real'.overdue = Min({Overdue', MaxInterval})
                      /\ Overdue' > -Half /\ Overdue' + UntilFlush' < MaxInterval
                      /\ pc' = "sleep" => Overdue' <= -left'
    BY <1>6 DEF ResendClock
  <2>1. PICK ov \in Int : ov = Overdue
    BY Bounds
  <2>2. /\ real.overdue = Min({ov, mi}) /\ ov > -half /\ ov + uf < mi
        /\ pc = "sleep" => ov <= -l
    BY <1>2, <1>4, <1>c, <2>1 DEF TimerInv, ResendClock
  <2>3. Overdue' = ov + 1
    <3>1. itimediff(now, seg.resendts) = ov /\ ov + 1 < Half
      <4>1. ov + 1 < half
        BY ONLY <1>5, <1>d, <2>2, ov \in Int, uf \in Int, mi \in Nat, mb \in Nat, half \in Nat,
                se \in Nat
      <4>2. QED
        BY <1>c, <2>1, <4>1 DEF Overdue
    <3>2. itimediff(now', seg.resendts) = ov + 1
      BY <1>6, <1>8, <3>1, Tick
    <3>3. QED
      BY <1>6, <3>2 DEF Overdue
  <2>4. real'.overdue = Min({ov + 1, mi})
    <3>1. PICK o \in Int : o = real.overdue
      BY <1>8
    <3>2. o = IF ov <= mi THEN ov ELSE mi
      BY <2>2, <3>1, MinPair
    <3>3. Min({o + 1, mi}) = IF o + 1 <= mi THEN o + 1 ELSE mi
      <4>1. PICK g \in Int : g = o + 1
        OBVIOUS
      <4>2. Min({g, mi}) = IF g <= mi THEN g ELSE mi
        BY MinPair
      <4>3. QED
        BY <4>1, <4>2
    <3>4. Min({ov + 1, mi}) = IF ov + 1 <= mi THEN ov + 1 ELSE mi
      <4>1. PICK g \in Int : g = ov + 1
        OBVIOUS
      <4>2. Min({g, mi}) = IF g <= mi THEN g ELSE mi
        BY MinPair
      <4>3. QED
        BY <4>1, <4>2
    <3>5. (IF o + 1 <= mi THEN o + 1 ELSE mi) = (IF ov + 1 <= mi THEN ov + 1 ELSE mi)
      BY ONLY <3>2, o \in Int, ov \in Int, mi \in Nat
    <3>6. real'.overdue = Min({o + 1, mi})
      BY <1>6, <1>c, <3>1
    <3>7. QED
      BY ONLY <3>3, <3>4, <3>5, <3>6
  <2>5. ov + 1 > -half /\ ov + 1 + (uf - 1) < mi
    BY ONLY <2>2, ov \in Int, uf \in Int, mi \in Nat, half \in Nat
  <2>6. pc' = "sleep" => ov + 1 <= -left'
    <3>1. SUFFICES ASSUME pc' = "sleep" PROVE ov + 1 <= -left'
      OBVIOUS
    <3>2. pc = "sleep" /\ left' = l - 1
      BY <1>7, <3>1
    <3>3. ov <= -l
      BY <2>2, <3>2
    <3>4. ov + 1 <= -(l - 1)
      BY <3>3
    <3>5. QED
      BY <3>2, <3>4
  <2>7. QED
    BY ONLY <1>11, <1>c, <2>3, <2>4, <2>5, <2>6
<1>17. IdleClock' /\ ExpiresInTime'
  <2>1. PICK i \in Int : i = real.idle
    BY <1>8
  <2>2. i = IF ia + su <= se + mi THEN ia + su ELSE se + mi
    <3>1. real.idle = Min({ia + su, se + mi})
      BY <1>1, <1>3, <1>c DEF TimerInv, IdleClock
    <3>2. PICK g \in Int : g = ia + su
      OBVIOUS
    <3>3. PICK b \in Int : b = se + mi
      OBVIOUS
    <3>4. Min({g, b}) = IF g <= b THEN g ELSE b
      BY MinPair
    <3>5. QED
      BY <2>1, <3>1, <3>2, <3>3, <3>4
  <2>3. real'.idle = IF i + 1 <= se + mi THEN i + 1 ELSE se + mi
    <3>1. real'.idle = Min({i + 1, se + mi})
      BY <1>6, <1>c, <2>1
    <3>2. PICK g \in Int : g = i + 1
      OBVIOUS
    <3>3. PICK b \in Int : b = se + mi
      OBVIOUS
    <3>4. Min({g, b}) = IF g <= b THEN g ELSE b
      BY MinPair
    <3>5. QED
      BY <3>1, <3>2, <3>3, <3>4
  <2>4. Min({ia + (su + 1), se + mi}) = IF ia + (su + 1) <= se + mi THEN ia + (su + 1) ELSE se + mi
    <3>1. PICK g \in Int : g = ia + (su + 1)
      OBVIOUS
    <3>2. PICK b \in Int : b = se + mi
      OBVIOUS
    <3>3. Min({g, b}) = IF g <= b THEN g ELSE b
      BY MinPair
    <3>4. QED
      BY <3>1, <3>2, <3>3
  <2>5. (IF i + 1 <= se + mi THEN i + 1 ELSE se + mi)
          = (IF ia + (su + 1) <= se + mi THEN ia + (su + 1) ELSE se + mi)
    BY ONLY <2>2, i \in Int, ia \in Int, su \in Int, se \in Nat, mi \in Nat
  <2>6. real'.idle = Min({ia + (su + 1), se + mi})
    BY ONLY <2>3, <2>4, <2>5
  <2>7. /\ pc = "output" => l <= mb /\ su = mb - l
        /\ pc = "sleep" => l > 0 /\ l <= uf /\ ia < se
        /\ pc = "spin" => su = 0 /\ ia + 1 < se + mi
    BY <1>1, <1>2, <1>3, <1>4, <1>c DEF TimerInv, FlushClock, IdleClock
  <2>8. /\ ia + (su + 1) < se + mi + 2 * mb
        /\ pc' = "sleep" => ia < se /\ ia + (su + 1) < se + mi
        /\ pc' # "spin"
    <3>1. CASE pc = "spin" /\ pc' = "top" /\ left' = l
      <4>1. su = 0 /\ ia + 1 < se + mi
        BY <2>7, <3>1
      <4>2. ia + (su + 1) < se + mi + 2 * mb
        BY <4>1
      <4>3. QED
        BY <3>1, <4>2
    <3>2. CASE pc = "sleep" /\ pc' = "top" /\ l = 1 /\ left' = l - 1
      <4>1. l > 0 /\ l <= uf /\ ia < se
        BY <2>7, <3>2
      <4>2. ia + (su + 1) < se + mi + 2 * mb
        BY <1>5, <4>1
      <4>3. QED
        BY <3>2, <4>2
    <3>3. CASE pc = "sleep" /\ pc' = "sleep" /\ l > 1 /\ left' = l - 1
      <4>1. l > 1 /\ l <= uf /\ ia < se
        BY <2>7, <3>3
      <4>2. ia + (su + 1) < se + mi + 2 * mb /\ ia + (su + 1) < se + mi
        BY <1>5, <4>1
      <4>3. QED
        BY <3>3, <4>1, <4>2
    <3>4. CASE pc = "output" /\ pc' = "output" /\ l > 0 /\ left' = l - 1
      <4>1. l > 0 /\ l <= mb /\ su = mb - l
        BY <2>7, <3>4
      <4>2. ia + (su + 1) < se + mi + 2 * mb
        BY <1>5, <4>1
      <4>3. QED
        BY <3>4, <4>2
    <3>5. QED
      BY ONLY <1>7, <3>1, <3>2, <3>3, <3>4
  <2>9. ia \in 0 .. se + mi + mb - 1
    BY <1>5
  <2>10. IdleClock'
    BY ONLY <1>10, <1>12, <1>c, <2>6, <2>8, <2>9 DEF IdleClock
  <2>11. ExpiresInTime'
    <3>1. SUFFICES ASSUME pc' = "sleep" PROVE real'.idle < se + mi
      BY <1>c, <2>8 DEF ExpiresInTime
    <3>2. ia + (su + 1) < se + mi
      BY <2>8, <3>1
    <3>3. QED
      BY <2>3, <2>5, <3>2
  <2>12. QED
    BY <2>10, <2>11
<1>18. LinkAlive'
  <2>1. pc' = "sleep" => pc = "sleep"
    BY <1>7
  <2>2. QED
    BY <1>6, <2>1 DEF TimerInv, LinkAlive
<1>19. QED
  BY <1>13, <1>14, <1>15, <1>16, <1>17, <1>18 DEF TimerInv

-----------------------------------------------------------------------------
(***************************************************************************)
(* The head of the loop: the session is not expired, and ikcp_check gives   *)
(* no time beyond the next flush or the next retransmission.                *)
(***************************************************************************)
LEMMA AtTop ==
    ASSUME TimerInv, Going
    PROVE  ~kcp.dead /\ task.hs # "Disconnected" /\ IdleAtUpdate < SessionExpire /\ pc = "top"
<1>1. pc = "top" /\ task.hs # "Disconnected" /\ ~Expired
  BY DEF Going
<1>2. ~kcp.dead /\ ~(duration_since(task.last_io_time) >= SessionExpire)
  BY <1>1 DEF Expired
<1>3. PICK ia \in Int : ia = IdleAtUpdate
  BY Bounds
<1>4. duration_since(task.last_io_time) = IF ia >= 0 THEN ia ELSE 0
  <2>1. duration_since(task.last_io_time) = Max({ia, 0})
    BY <1>3 DEF duration_since, IdleAtUpdate
  <2>2. QED
    BY <2>1, MaxPair
<1>5. PICK se \in Nat : se = SessionExpire
  BY Constants
<1>6. ~((IF ia >= 0 THEN ia ELSE 0) >= se)
  BY ONLY <1>2, <1>4, <1>5
<1>7. ia < se
  BY ONLY <1>6, ia \in Int, se \in Nat
<1>8. QED
  BY <1>1, <1>2, <1>3, <1>5, <1>7

LEMMA CheckFacts ==
    ASSUME TimerInv
    PROVE  /\ check \in Nat
           /\ check > 0 => /\ check <= UntilFlush
                           /\ InFlight(seg) => check <= -Overdue
<1>1. PICK d \in Int : d = UntilFlush
  BY Bounds
<1>2. PICK i \in Nat : i = kcp.interval /\ i > 0
  BY Constants DEF TimerInv, TypeOK
<1>3. CASE d <= 0 \/ OutOfRange(-d) \/ Due(seg, now)
  <2>1. check = 0
    BY <1>1, <1>3 DEF check, UntilFlush
  <2>2. QED
    BY <2>1
<1>4. CASE ~(d <= 0 \/ OutOfRange(-d) \/ Due(seg, now))
  <2>1. check = Min({d, i} \cup IF InFlight(seg) THEN {itimediff(seg.resendts, now)} ELSE {})
    BY <1>1, <1>2, <1>4 DEF check, UntilFlush
  <2>2. d > 0
    BY <1>4
  <2>3. CASE InFlight(seg)
    <3>1. PICK ov \in Int : ov = Overdue
      BY Bounds
    <3>2. ~(ov >= 0)
      BY <1>4, <2>3, <3>1 DEF Due, Overdue
    <3>3. ov > -Half
      BY <2>3, <3>1 DEF TimerInv, ResendClock
    <3>4. itimediff(seg.resendts, now) = -ov
      <4>1. now \in Time /\ seg.resendts \in Time
        BY DEF TimerInv, TypeOK
      <4>2. QED
        BY <3>1, <3>3, <4>1, Opposite DEF Overdue
    <3>5. PICK x \in Int : x = -ov
      OBVIOUS
    <3>6. check = Min({d, i} \cup {x})
      BY <2>1, <2>3, <3>4, <3>5
    <3>7. PICK m \in Int : m = Min({d, i} \cup {x}) /\ m <= d /\ m <= x /\ m \in {d, i, x}
      <4>1. i \in Int
        OBVIOUS
      <4>2. /\ Min({d, i} \cup {x}) \in Int /\ Min({d, i} \cup {x}) <= d
            /\ Min({d, i} \cup {x}) <= x /\ Min({d, i} \cup {x}) \in {d, i, x}
        BY ONLY <4>1, d \in Int, x \in Int, MinTriple, Zenon
      <4>3. QED
        BY ONLY <4>2, Zenon
    <3>8. m \in Nat /\ m <= d /\ m <= -ov
      BY ONLY <2>2, <3>2, <3>5, <3>7, d \in Int, i \in Nat, x \in Int, ov \in Int, m \in Int
    <3>9. check = m
      BY ONLY <3>6, <3>7
    <3>10. QED
      BY ONLY <1>1, <3>1, <3>8, <3>9
  <2>4. CASE ~InFlight(seg)
    <3>1. check = Min({d, i} \cup {})
      BY <2>1, <2>4
    <3>2. {d, i} \cup {} = {d, i}
      OBVIOUS
    <3>3. check = IF d <= i THEN d ELSE i
      BY <3>1, <3>2, MinPair
    <3>4. check \in Nat /\ check <= d
      BY <2>2, <3>3
    <3>5. QED
      BY <1>1, <2>4, <3>4
  <2>5. QED
    BY <2>3, <2>4
<1>5. QED
  BY <1>3, <1>4

LEMMA SleepStep == ASSUME TimerInv, Sleep PROVE TimerInv'
<1>1. /\ Going /\ ~(Waits /\ TimedOut) /\ interval > 0
      /\ pc' = "sleep" /\ left' = interval
      /\ now' = now /\ kcp' = kcp /\ seg' = seg /\ task' = task /\ client' = client
      /\ gone' = gone /\ real' = real
  BY DEF Sleep
<1>2. ~kcp.dead /\ task.hs # "Disconnected" /\ IdleAtUpdate < SessionExpire
  BY <1>1, AtTop
<1>3. PICK n \in Nat : /\ n = interval /\ n > 0 /\ n <= check
                       /\ Waits => n <= timeout
  <2>1. PICK c \in Nat : c = check
    BY CheckFacts
  <2>2. PICK to \in Int : to = timeout
    BY Bounds
  <2>3. CASE Waits
    <3>1. interval = IF c <= to THEN c ELSE to
      BY <2>1, <2>2, <2>3, MinPair DEF interval
    <3>2. QED
      BY <1>1, <2>1, <2>2, <3>1
  <2>4. CASE ~Waits
    <3>1. interval = c
      BY <2>1, <2>4 DEF interval
    <3>2. QED
      BY <1>1, <2>1, <2>4, <3>1
  <2>5. QED
    BY <2>3, <2>4
<1>4. n <= UntilFlush /\ (InFlight(seg) => n <= -Overdue)
  <2>1. PICK c \in Nat : /\ c = check
                         /\ c > 0 => c <= UntilFlush /\ (InFlight(seg) => c <= -Overdue)
    BY CheckFacts
  <2>2. c > 0 /\ n <= c
    BY ONLY <1>3, <2>1, n \in Nat, c \in Nat
  <2>3. PICK u \in Int : u = UntilFlush
    BY Bounds
  <2>4. PICK o \in Int : o = Overdue
    BY Bounds
  <2>5. c <= u /\ (InFlight(seg) => c <= -o)
    BY ONLY <2>1, <2>2, <2>3, <2>4
  <2>6. n <= u
    BY ONLY <2>2, <2>5, n \in Nat, c \in Nat, u \in Int
  <2>7. c <= -o => n <= -o
    BY ONLY <2>2, n \in Nat, c \in Nat, o \in Int
  <2>8. QED
    BY ONLY <2>3, <2>4, <2>5, <2>6, <2>7
<1>5. /\ SinceUpdate' = SinceUpdate /\ UntilFlush' = UntilFlush /\ IdleAtUpdate' = IdleAtUpdate
      /\ Overdue' = Overdue /\ timeout' = timeout /\ left' = n
  BY <1>1, <1>3 DEF SinceUpdate, UntilFlush, IdleAtUpdate, Overdue, timeout
<1>6. TypeOK'
  BY <1>1, <1>5 DEF TimerInv, TypeOK
<1>7. FlushClock'
  BY <1>1, <1>3, <1>4, <1>5 DEF TimerInv, FlushClock
<1>8. task.hs \in Handshakes => Waits
  BY DEF Handshakes, Waits
<1>9. HandshakeClock'
  <2>1. SUFFICES ASSUME task.hs \in Handshakes
                 PROVE  real.hs_left = Max({timeout, 0}) /\ timeout >= -MaxBlock /\ timeout >= n
    BY <1>1, <1>5 DEF HandshakeClock
  <2>2. timeout \in Int /\ n <= timeout
    BY <1>3, <1>8, <2>1, Bounds
  <2>3. timeout >= n
    BY ONLY <2>2, n \in Nat
  <2>4. QED
    BY <2>1, <2>3 DEF TimerInv, HandshakeClock
<1>10. ResendClock'
  <2>1. SUFFICES ASSUME InFlight(seg)
                 PROVE  /\ real.overdue = Min({Overdue, MaxInterval})
                        /\ Overdue > -Half /\ Overdue + UntilFlush < MaxInterval
                        /\ Overdue <= -n
    BY <1>1, <1>5 DEF ResendClock
  <2>2. Overdue \in Int /\ n <= -Overdue
    BY <1>4, <2>1, Bounds
  <2>3. Overdue <= -n
    BY ONLY <2>2, n \in Nat
  <2>4. QED
    BY <2>1, <2>3 DEF TimerInv, ResendClock
<1>11. IdleClock'
  BY <1>1, <1>2, <1>5 DEF TimerInv, IdleClock
<1>12. LinkAlive'
  BY <1>1, <1>2 DEF TimerInv, LinkAlive
<1>13. TimeoutNotSlept'
  <2>1. SUFFICES ASSUME task.hs \in Handshakes PROVE real.hs_left > 0
    <3>1. task.hs \in {"Connected", "Disconnected"} \cup Handshakes
      BY DEF TimerInv, TypeOK
    <3>2. QED
      BY <1>1, <1>2, <3>1, <2>1 DEF TimeoutNotSlept, Waits
  <2>2. PICK to \in Int : to = timeout
    BY Bounds
  <2>3. n > 0 /\ n <= to
    BY <1>3, <1>8, <2>1, <2>2
  <2>4. real.hs_left = Max({to, 0})
    BY <2>1, <2>2 DEF TimerInv, HandshakeClock
  <2>5. real.hs_left = to
    BY <2>3, <2>4, MaxPair
  <2>6. QED
    BY <2>3, <2>5
<1>14. ExpiresInTime'
  <2>1. PICK su \in Int : su = SinceUpdate
    BY Bounds
  <2>2. PICK ia \in Int : ia = IdleAtUpdate
    BY Bounds
  <2>3. PICK uf \in Int : uf = UntilFlush
    BY Bounds
  <2>4. PICK se \in Nat, mi \in Nat : se = SessionExpire /\ mi = MaxInterval
    BY Constants
  <2>5. ia < se /\ n > 0 /\ n <= uf /\ su + uf <= mi
    BY <1>2, <1>3, <1>4, <2>1, <2>2, <2>3, <2>4, Bounds
  <2>6. ia + su < se + mi
    BY ONLY <2>5, ia \in Int, su \in Int, se \in Nat, mi \in Nat, uf \in Int, n \in Nat
  <2>7. real.idle = Min({ia + su, se + mi})
    BY <2>1, <2>2, <2>4 DEF TimerInv, IdleClock
  <2>8. PICK g \in Int, b \in Int : g = ia + su /\ b = se + mi
    OBVIOUS
  <2>9. g < b
    BY ONLY <2>6, <2>8
  <2>10. Min({g, b}) = g
    BY <2>9, MinPair
  <2>11. real.idle < SessionExpire + MaxInterval
    BY ONLY <2>4, <2>7, <2>8, <2>9, <2>10
  <2>12. QED
    BY <1>1, <2>11 DEF ExpiresInTime
<1>15. QED
  BY <1>6, <1>7, <1>9, <1>10, <1>11, <1>12, <1>13, <1>14 DEF TimerInv

-----------------------------------------------------------------------------
(***************************************************************************)
(* The other steps of the loop.                                             *)
(***************************************************************************)
LEMMA Unmoved ==
    ASSUME TimerInv, UNCHANGED <<now, kcp, seg, task, left, client, real>>, gone' \in BOOLEAN,
           pc' \in {pc, "top", "done"}
    PROVE  TimerInv'
<1>1. /\ SinceUpdate' = SinceUpdate /\ UntilFlush' = UntilFlush /\ IdleAtUpdate' = IdleAtUpdate
      /\ Overdue' = Overdue /\ timeout' = timeout
  BY DEF SinceUpdate, UntilFlush, IdleAtUpdate, Overdue, timeout
<1>2. TypeOK'
  BY DEF TimerInv, TypeOK
<1>3. FlushClock'
  BY <1>1 DEF TimerInv, FlushClock
<1>4. HandshakeClock'
  BY <1>1 DEF TimerInv, HandshakeClock
<1>5. ResendClock'
  BY <1>1 DEF TimerInv, ResendClock
<1>6. IdleClock'
  BY <1>1 DEF TimerInv, IdleClock
<1>7. LinkAlive' /\ TimeoutNotSlept' /\ ExpiresInTime'
  BY DEF TimerInv, LinkAlive, TimeoutNotSlept, ExpiresInTime, Waits
<1>8. QED
  BY <1>2, <1>3, <1>4, <1>5, <1>6, <1>7 DEF TimerInv

LEMMA StopStep == ASSUME TimerInv, Stop PROVE TimerInv'
<1>1. /\ UNCHANGED <<now, kcp, seg, task, left, client, real>> /\ gone' = gone /\ pc' = "done"
      /\ gone \in BOOLEAN
  BY DEF Stop, TimerInv, TypeOK
<1>2. QED
  BY <1>1, Unmoved

\* The block after an update at the head of the loop or in kcp_flush.
LEMMA UpdatedBlock ==
    ASSUME TimerInv, NEW k \in Block, k.ts_flush = kcp.ts_flush, k.dead = kcp.dead
    PROVE  LET u == ikcp_update(k)
           IN  /\ u \in Block /\ u.current = now /\ u.dead = kcp.dead
               /\ itimediff(u.ts_flush, now) \in 1 .. MaxInterval
               /\ ~Flushes(k) => u.ts_flush = kcp.ts_flush
<1>1. itimediff(k.ts_flush, now) \in -MaxBlock .. MaxInterval
  <2>1. PICK uf \in Int : uf = UntilFlush
    BY Bounds
  <2>2. uf \in -MaxBlock .. MaxInterval
    BY <2>1, Bounds, Constants
  <2>3. QED
    BY <2>1, <2>2 DEF UntilFlush
<1>2. now \in Time
  BY DEF TimerInv, TypeOK
<1>3. QED
  BY <1>1, <1>2, Updated

LEMMA Typed ==
    ASSUME TimerInv
    PROVE  kcp \in Block /\ seg \in Segment /\ task \in TaskState
  BY DEF TimerInv, TypeOK, Block, Segment, TaskState

LEMMA UpdateStep == ASSUME TimerInv, NEW rto \in Rtos, Update(rto) PROVE TimerInv'
<1>1. Going /\ ~(Waits /\ TimedOut)
  BY DEF Update
<1>2. ~kcp.dead /\ task.hs # "Disconnected" /\ IdleAtUpdate < SessionExpire /\ pc = "top"
  BY <1>1, AtTop
<1>3. task.hs \in Handshakes => timeout > 0
  <2>1. SUFFICES ASSUME task.hs \in Handshakes PROVE timeout > 0
    OBVIOUS
  <2>2. Waits
    BY <2>1 DEF Waits, Handshakes
  <2>3. ~(timeout <= 0)
    BY <1>1, <2>2 DEF TimedOut
  <2>4. timeout \in Int
    BY Bounds
  <2>5. QED
    BY ONLY <2>3, <2>4
<1>4. kcp \in Block /\ task \in TaskState
  BY Typed
<1>5. PICK u : u = ikcp_update(kcp)
  OBVIOUS
<1>6. /\ u \in Block /\ u.current = now /\ u.dead = kcp.dead
      /\ itimediff(u.ts_flush, now) \in 1 .. MaxInterval
      /\ ~Flushes(kcp) => u.ts_flush = kcp.ts_flush
  BY <1>4, <1>5, UpdatedBlock
<1>7. CASE Flushes(kcp)
  <2>1. Continue(u, seg, task, "update", rto)
    BY <1>5, <1>7 DEF Update
  <2>2. Flushed(u, task, "update")
    BY <1>2, <1>3, <1>6 DEF Flushed
  <2>3. Turn(u, seg, task, "update", rto)
    BY <1>4, <1>6, <2>2 DEF Turn
  <2>4. QED
    BY <2>1, <2>3, ContinueStep
<1>8. CASE ~Flushes(kcp)
  <2>1. /\ kcp' = u /\ pc' = "spin" /\ now' = now /\ seg' = seg /\ task' = task /\ left' = left
        /\ client' = client /\ gone' = gone /\ real' = real
    BY <1>5, <1>8 DEF Update
  <2>2. UntilFlush' = UntilFlush /\ Overdue' = Overdue /\ timeout' = timeout
    BY <1>6, <1>8, <2>1 DEF UntilFlush, Overdue, timeout
  <2>3. SinceUpdate' = 0
    <3>1. now \in Time
      BY DEF TimerInv, TypeOK
    <3>2. QED
      BY <1>6, <2>1, <3>1, Same DEF SinceUpdate
  <2>4. PICK su \in Int : su = SinceUpdate
    BY Bounds
  <2>5. PICK ia \in Int : ia = IdleAtUpdate
    BY Bounds
  <2>6. PICK uf \in Int : uf = UntilFlush /\ 1 <= uf /\ uf <= MaxInterval
    <3>1. PICK x \in Int : x = UntilFlush
      BY Bounds
    <3>2. x \in 1 .. MaxInterval
      BY <1>6, <1>8, <3>1 DEF UntilFlush
    <3>3. 1 <= x /\ x <= MaxInterval
      BY ONLY <3>2, x \in Int, Constants
    <3>4. QED
      BY <3>1, <3>3
  <2>c. PICK mb \in Nat, mi \in Nat, se \in Nat, half \in Nat :
           mb = MaxBlock /\ mi = MaxInterval /\ se = SessionExpire /\ half = Half
    BY Constants
  <2>d. se + mi + 2 * mb < half /\ 1 <= se
    BY <2>c, Constants
  <2>7. 0 <= su /\ su + uf <= mi /\ 1 <= uf /\ uf <= mi /\ 0 <= ia /\ ia < se
    BY <1>2, <2>4, <2>5, <2>6, <2>c, Bounds
  <2>8. 0 <= ia + su /\ ia + su + 1 < se + mi /\ ia + su < half
    BY ONLY <2>7, <2>d, su \in Int, uf \in Int, ia \in Int, mi \in Nat, se \in Nat, mb \in Nat,
            half \in Nat
  <2>9. IdleAtUpdate' = ia + su
    <3>1. IdleAtUpdate' = itimediff(now, task.last_io_time)
      BY <1>6, <2>1 DEF IdleAtUpdate
    <3>2. itimediff(now, kcp.current) = su /\ itimediff(kcp.current, task.last_io_time) = ia
      BY <2>4, <2>5 DEF SinceUpdate, IdleAtUpdate
    <3>3. kcp.current \in Time /\ task.last_io_time \in Time /\ now \in Time
      BY DEF TimerInv, TypeOK
    <3>4. -Half <= su + ia /\ su + ia < Half /\ su + ia = ia + su
      BY <2>8, <2>c
    <3>5. QED
      BY <3>1, <3>2, <3>3, <3>4, Chain
  <2>10. TypeOK'
    BY <1>6, <2>1 DEF TimerInv, TypeOK, Block
  <2>11. FlushClock'
    <3>1. 0 >= 0 /\ uf >= -mb /\ 0 + uf \in 1 .. mi
      BY ONLY <2>7, uf \in Int, mb \in Nat, mi \in Nat
    <3>2. QED
      BY ONLY <2>1, <2>2, <2>3, <2>6, <2>c, <3>1 DEF FlushClock
  <2>12. HandshakeClock' /\ TimeoutNotSlept'
    <3>1. CASE task.hs \in Handshakes
      <4>1. PICK to \in Int : to = timeout
        BY Bounds
      <4>2. to > 0 /\ real.hs_left = Max({to, 0}) /\ to >= -MaxBlock
        BY <1>3, <3>1, <4>1 DEF TimerInv, HandshakeClock
      <4>3. Max({to, 0}) = to
        BY <4>2, MaxPair
      <4>4. QED
        BY <2>1, <2>2, <4>1, <4>2, <4>3 DEF HandshakeClock, TimeoutNotSlept
    <3>2. CASE task.hs \notin Handshakes
      <4>1. task.hs = "Connected"
        BY <1>2, <1>4, <3>2 DEF TaskState
      <4>2. QED
        BY <2>1, <3>2, <4>1 DEF HandshakeClock, TimeoutNotSlept, Waits
    <3>3. QED
      BY <3>1, <3>2
  <2>13. ResendClock'
    BY <2>1, <2>2 DEF TimerInv, ResendClock
  <2>14. real.idle = Min({ia + su, se + mi})
    BY <2>4, <2>5, <2>c DEF TimerInv, IdleClock
  <2>15. IdleClock'
    <3>1. /\ ia + su \in 0 .. se + mi + mb - 1
          /\ ia + su + 0 < se + mi + 2 * mb /\ ia + su + 0 = ia + su
          /\ ia + su + 1 < se + mi
      BY ONLY <2>8, su \in Int, ia \in Int, mi \in Nat, se \in Nat, mb \in Nat
    <3>2. pc' # "sleep"
      BY <2>1
    <3>3. real'.idle = Min({ia + su + 0, se + mi})
      BY ONLY <2>1, <2>14, <3>1
    <3>4. QED
      BY ONLY <2>3, <2>9, <2>c, <3>1, <3>2, <3>3 DEF IdleClock
  <2>16. ExpiresInTime'
    <3>1. PICK g \in Int, b \in Int : g = ia + su /\ b = se + mi
      OBVIOUS
    <3>2. g < b
      BY ONLY <2>8, <3>1, g \in Int, b \in Int
    <3>3. Min({g, b}) = g
      BY <3>2, MinPair
    <3>4. real'.idle < SessionExpire + MaxInterval
      BY ONLY <2>1, <2>14, <2>c, <3>1, <3>2, <3>3
    <3>5. QED
      BY <3>4 DEF ExpiresInTime
  <2>17. LinkAlive'
    BY <1>6, <2>1 DEF TimerInv, LinkAlive
  <2>18. QED
    BY <2>10, <2>11, <2>12, <2>13, <2>15, <2>16, <2>17 DEF TimerInv
<1>9. QED
  BY <1>7, <1>8

LEMMA HandshakeTimeoutStep ==
    ASSUME TimerInv, NEW rto \in Rtos, HandshakeTimeout(rto) PROVE TimerInv'
<1>1. PICK t : t = [task EXCEPT !.hs = "Disconnected"]
  OBVIOUS
<1>2. Continue(kcp, seg, t, "", rto)
  BY <1>1 DEF HandshakeTimeout
<1>3. kcp \in Block /\ task \in TaskState
  BY Typed
<1>4. t \in TaskState /\ t.hs \notin Handshakes /\ t.last_io_time = task.last_io_time
  BY <1>1, <1>3 DEF TaskState, Handshakes
<1>5. Turn(kcp, seg, t, "", rto)
  BY <1>3, <1>4 DEF Turn, Kept
<1>6. QED
  BY <1>2, <1>5, ContinueStep

-----------------------------------------------------------------------------
(***************************************************************************)
(* What wakes the task up: the segment and the task state that follow, with *)
(* or without kcp_flush.                                                    *)
(***************************************************************************)
NewHandshake(t) ==
    /\ t \in TaskState
    /\ t.last_io_time = task.last_io_time
    /\ t.hs \in Handshakes =>
           \/ task.hs = "Connected" /\ t.hs_end_time = wrapping_add(now, ShutdownTimeout)
           \/ task.hs \in Handshakes /\ t.hs_end_time = task.hs_end_time

SameClock(k) ==
    k \in Block /\ k.current = kcp.current /\ k.ts_flush = kcp.ts_flush /\ k.dead = kcp.dead

LEMMA Unflushed ==
    ASSUME TimerInv, NEW k, SameClock(k), NEW s \in {seg, NoSeg, Queued}, NEW t, NewHandshake(t),
           NEW rto \in Rtos, Continue(k, s, t, "", rto)
    PROVE  TimerInv'
<1>1. Turn(k, s, t, "", rto)
  BY DEF Turn, Kept, SameClock, NewHandshake
<1>2. QED
  BY <1>1, ContinueStep

LEMMA FlushStep ==
    ASSUME TimerInv, pc = "sleep", NEW k, SameClock(k), NEW s \in {seg, NoSeg, Queued},
           NEW t, NewHandshake(t), NEW rto \in Rtos, kcp_flush(k, s, t, rto)
    PROVE  TimerInv'
<1>1. PICK u : u = ikcp_update(k)
  OBVIOUS
<1>2. /\ u \in Block /\ u.current = now /\ u.dead = kcp.dead
      /\ itimediff(u.ts_flush, now) \in 1 .. MaxInterval
  <2>1. k \in Block /\ k.ts_flush = kcp.ts_flush /\ k.dead = kcp.dead
    BY DEF SameClock
  <2>2. QED
    BY <1>1, <2>1, UpdatedBlock
<1>3. PICK t1 : t1 = [t EXCEPT !.last_io_time = now]
  OBVIOUS
<1>4. Continue(u, s, t1, "kcp_flush", rto)
  BY <1>1, <1>2, <1>3 DEF kcp_flush
<1>5. /\ t1 \in TaskState /\ t1.last_io_time = now /\ t1.hs = t.hs
      /\ t1.hs_end_time = t.hs_end_time
  <2>1. now \in Time
    BY DEF TimerInv, TypeOK
  <2>2. QED
    BY <1>3, <2>1 DEF NewHandshake, TaskState
<1>6. ~kcp.dead
  BY DEF TimerInv, LinkAlive
<1>7. task.hs \in Handshakes => timeout > 0
  <2>1. SUFFICES ASSUME task.hs \in Handshakes PROVE timeout > 0
    OBVIOUS
  <2>2. timeout >= left /\ left > 0
    BY <2>1 DEF TimerInv, HandshakeClock, FlushClock
  <2>3. QED
    BY <2>2, Bounds
<1>8. Flushed(u, t1, "kcp_flush")
  BY <1>2, <1>5, <1>6, <1>7 DEF Flushed
<1>9. Turn(u, s, t1, "kcp_flush", rto)
  BY <1>2, <1>5, <1>8 DEF Turn, NewHandshake
<1>10. QED
  BY <1>4, <1>9, ContinueStep

LEMMA StartsFin ==
    ASSUME NEW t, NewHandshake(t), TimerInv, t.hs_end_time = task.hs_end_time, task.hs = "Connected"
    PROVE  NewHandshake(StartFin(t)) /\ StartFin(t).hs = "FinPending"
<1>1. wrapping_add(now, ShutdownTimeout) \in Time
  <2>1. now \in Time /\ ShutdownTimeout \in Nat /\ ShutdownTimeout < Half
    BY Constants DEF TimerInv, TypeOK
  <2>2. QED
    BY <2>1, Later
<1>2. t \in TaskState /\ t.last_io_time = task.last_io_time
  BY DEF NewHandshake
<1>3. /\ StartFin(t) \in TaskState /\ StartFin(t).last_io_time = task.last_io_time
      /\ StartFin(t).hs = "FinPending"
      /\ StartFin(t).hs_end_time = wrapping_add(now, ShutdownTimeout)
  BY <1>1, <1>2 DEF StartFin, TaskState, Handshakes
<1>4. QED
  BY <1>3 DEF NewHandshake

LEMMA TransportStep ==
    ASSUME TimerInv, NEW acked \in BOOLEAN, NEW accepted \in BOOLEAN, NEW rto \in Rtos,
           TransportBranch(acked, accepted, rto)
    PROVE  TimerInv'
<1> DEFINE s == IF acked THEN NoSeg ELSE seg
<1>1. PICK m \in Moves(s = NoSeg) :
         LET k == [kcp EXCEPT !.interval = IF m.next = "Connected" THEN Interval ELSE @]
             t == IF task.hs = "Connected" /\ m.next = "FinPending" THEN StartFin(task)
                  ELSE [task EXCEPT !.hs = m.next]
         IN  IF accepted \/ m.send
             THEN kcp_flush(k, IF m.send THEN Queued ELSE s, t, rto)
             ELSE Continue(k, s, t, "", rto)
  BY DEF TransportBranch
<1>2. pc = "sleep"
  BY DEF TransportBranch
<1>3. PICK k : k = [kcp EXCEPT !.interval = IF m.next = "Connected" THEN Interval ELSE @]
  OBVIOUS
<1>4. PICK t : t = IF task.hs = "Connected" /\ m.next = "FinPending" THEN StartFin(task)
                   ELSE [task EXCEPT !.hs = m.next]
  OBVIOUS
<1>5. IF accepted \/ m.send
      THEN kcp_flush(k, IF m.send THEN Queued ELSE s, t, rto)
      ELSE Continue(k, s, t, "", rto)
  BY <1>1, <1>3, <1>4
<1>6. kcp \in Block /\ task \in TaskState
  BY Typed
<1>7. SameClock(k)
  BY <1>3, <1>6 DEF SameClock, Block
<1>8. /\ task.hs = "Syn" => m.next \in {"Syn", "Disconnected", "Connected"}
      /\ task.hs = "Connected" => m.next \in {"Connected", "Disconnected", "FinPending"}
      /\ task.hs = "FinPending" => m.next \in {"FinPending", "Disconnected", "FinSent"}
      /\ task.hs = "FinSent" => m.next \in {"FinSent", "Disconnected"}
  BY DEF Moves
<1>9. task.hs # "Disconnected"
  BY <1>2 DEF TimerInv, LinkAlive
<1>10. NewHandshake(task)
  BY <1>6, <1>9 DEF NewHandshake, TaskState
<1>11. NewHandshake(t)
  <2>1. CASE task.hs = "Connected" /\ m.next = "FinPending"
    BY <1>4, <1>10, <2>1, StartsFin
  <2>2. CASE ~(task.hs = "Connected" /\ m.next = "FinPending")
    <3>1. t = [task EXCEPT !.hs = m.next]
      BY <1>4, <2>2
    <3>2. task.hs \in {"Syn", "Connected", "FinPending", "FinSent"}
      BY <1>6, <1>9 DEF TaskState, Handshakes
    <3>3. /\ m.next \in {"Connected", "Disconnected"} \cup Handshakes
          /\ m.next \in Handshakes => task.hs \in Handshakes
      BY <1>8, <2>2, <3>2 DEF Handshakes
    <3>4. /\ t \in TaskState /\ t.hs = m.next /\ t.last_io_time = task.last_io_time
          /\ t.hs_end_time = task.hs_end_time
      BY <1>6, <3>1, <3>3 DEF TaskState
    <3>5. QED
      BY <3>3, <3>4 DEF NewHandshake
  <2>3. QED
    BY <2>1, <2>2
<1>12. s \in {seg, NoSeg, Queued} /\ (IF m.send THEN Queued ELSE s) \in {seg, NoSeg, Queued}
  OBVIOUS
<1>13. QED
  BY <1>2, <1>5, <1>7, <1>11, <1>12, FlushStep, Unflushed

LEMMA InputFrameStep ==
    ASSUME TimerInv, NEW flush \in BOOLEAN, NEW rto \in Rtos, InputFrame(flush, rto)
    PROVE  TimerInv'
<1>1. /\ pc = "sleep"
      /\ IF flush THEN kcp_flush(kcp, Queued, task, rto) ELSE Continue(kcp, Queued, task, "", rto)
  BY DEF InputFrame, Input
<1>2. kcp \in Block /\ task \in TaskState
  BY Typed
<1>3. task.hs # "Disconnected"
  BY <1>1 DEF TimerInv, LinkAlive
<1>4. SameClock(kcp) /\ NewHandshake(task)
  BY <1>2, <1>3 DEF SameClock, NewHandshake, TaskState
<1>5. QED
  BY <1>1, <1>4, FlushStep, Unflushed

LEMMA InputClosedStep ==
    ASSUME TimerInv, NEW rto \in Rtos, InputClosed(rto)
    PROVE  TimerInv'
<1>1. PICK t : t = [task EXCEPT !.input_closed = TRUE]
  OBVIOUS
<1>2. PICK fin : fin = IF t.hs = "Connected" THEN StartFin(t) ELSE t
  OBVIOUS
<1>3. /\ pc = "sleep"
      /\ CASE t.hs = "Syn" -> Continue(kcp, seg, [t EXCEPT !.hs = "Disconnected"], "", rto)
           [] t.hs # "Syn" /\ seg = NoSeg ->
                 kcp_flush(kcp, Queued, [fin EXCEPT !.hs = "FinSent"], rto)
           [] OTHER -> Continue(kcp, seg, fin, "", rto)
  BY <1>1, <1>2 DEF InputClosed, Input
<1>4. kcp \in Block /\ task \in TaskState /\ SameClock(kcp)
  BY Typed DEF SameClock
<1>5. task.hs # "Disconnected"
  BY <1>3 DEF TimerInv, LinkAlive
<1>6. /\ t \in TaskState /\ t.hs = task.hs /\ t.hs_end_time = task.hs_end_time
      /\ t.last_io_time = task.last_io_time
  BY <1>1, <1>4 DEF TaskState
<1>7. NewHandshake(t)
  BY <1>5, <1>6 DEF NewHandshake, TaskState
<1>8. NewHandshake(fin) /\ (t.hs # "Syn" => fin.hs \in {"FinPending", "FinSent"})
  <2>1. CASE t.hs = "Connected"
    BY <1>2, <1>6, <1>7, <2>1, StartsFin
  <2>2. CASE t.hs # "Connected"
    BY <1>2, <1>5, <1>6, <1>7, <2>2 DEF TaskState, Handshakes
  <2>3. QED
    BY <2>1, <2>2
<1>9. CASE t.hs = "Syn"
  <2>1. PICK t1 : t1 = [t EXCEPT !.hs = "Disconnected"]
    OBVIOUS
  <2>2. NewHandshake(t1)
    BY <1>6, <2>1 DEF NewHandshake, TaskState, Handshakes
  <2>3. Continue(kcp, seg, t1, "", rto)
    BY <1>3, <1>9, <2>1
  <2>4. QED
    BY <1>4, <2>2, <2>3, Unflushed
<1>10. CASE t.hs # "Syn" /\ seg = NoSeg
  <2>1. PICK t1 : t1 = [fin EXCEPT !.hs = "FinSent"]
    OBVIOUS
  <2>2. NewHandshake(t1)
    BY <1>8, <1>10, <2>1 DEF NewHandshake, TaskState, Handshakes
  <2>3. kcp_flush(kcp, Queued, t1, rto)
    BY <1>3, <1>10, <2>1
  <2>4. QED
    BY <1>3, <1>4, <2>2, <2>3, FlushStep
<1>11. CASE t.hs # "Syn" /\ seg # NoSeg
  <2>1. Continue(kcp, seg, fin, "", rto)
    BY <1>3, <1>11
  <2>2. QED
    BY <1>4, <1>8, <2>1, Unflushed
<1>12. QED
  BY <1>9, <1>10, <1>11

LEMMA InvStep == TimerInv /\ [Next]_vars => TimerInv'
<1> SUFFICES ASSUME TimerInv, [Next]_vars PROVE TimerInv'
  OBVIOUS
<1>1. CASE Loop
  <2>1. CASE Break
    BY <2>1, StopStep DEF Break
  <2>2. CASE Sleep
    BY <2>2, SleepStep
  <2>3. ASSUME NEW rto \in Rtos, HandshakeTimeout(rto) PROVE TimerInv'
    BY <2>3, HandshakeTimeoutStep
  <2>4. ASSUME NEW rto \in Rtos, Update(rto) PROVE TimerInv'
    BY <2>4, UpdateStep
  <2>5. QED
    BY <1>1, <2>1, <2>2, <2>3, <2>4 DEF Loop
<1>2. CASE Elapse
  BY <1>2, ElapseStep
<1>3. CASE Sent
  <2>1. /\ UNCHANGED <<now, kcp, seg, task, left, client, real>> /\ pc' = "top"
        /\ gone' \in BOOLEAN
    BY <1>3 DEF Sent, TimerInv, TypeOK
  <2>2. QED
    BY <2>1, Unmoved
<1>4. CASE OutputError \/ Cancelled
  BY <1>4, StopStep DEF OutputError, Cancelled
<1>5. ASSUME NEW rto \in Rtos, NEW acked \in BOOLEAN, NEW accepted \in BOOLEAN,
             TransportBranch(acked, accepted, rto)
      PROVE  TimerInv'
  BY <1>5, TransportStep
<1>6. ASSUME NEW rto \in Rtos, NEW flush \in BOOLEAN, InputFrame(flush, rto) PROVE TimerInv'
  BY <1>6, InputFrameStep
<1>7. ASSUME NEW rto \in Rtos, InputClosed(rto) PROVE TimerInv'
  BY <1>7, InputClosedStep
<1>8. CASE PeerGone \/ Ended \/ UNCHANGED vars
  <2>1. /\ UNCHANGED <<now, kcp, seg, task, left, client, real>> /\ pc' = pc
        /\ gone' \in BOOLEAN
    BY <1>8 DEF PeerGone, Ended, vars, TimerInv, TypeOK
  <2>2. QED
    BY <2>1, Unmoved
<1>9. QED
  BY <1>1, <1>2, <1>3, <1>4, <1>5, <1>6, <1>7, <1>8 DEF Next

-----------------------------------------------------------------------------
(***************************************************************************)
(* For every interval, timeout and retransmission time below half the range *)
(* of the clock, and also when it wraps: no handshake timeout is slept      *)
(* through, and a session is found expired an interval late at most (run of *)
(* stream.rs, ikcp_check and ikcp_update of ikcp.c).                        *)
(***************************************************************************)
THEOREM TimerInvariant == Spec => []TimerInv
  BY InitInv, InvStep, PTL DEF Spec

(***************************************************************************)
(* The task never sleeps while a retransmission is due, and sends one an    *)
(* interval late at most: what ikcp_check promises of ikcp_update.          *)
(***************************************************************************)
THEOREM RetransmissionNotSlept == Spec => []RetransmitsInTime
<1>1. TimerInv => RetransmitsInTime
  <2>1. SUFFICES ASSUME TimerInv, InFlight(seg)
                 PROVE  /\ pc = "sleep" => real.overdue < 0
                        /\ pc = "spin" => real.overdue < MaxInterval
    BY DEF RetransmitsInTime
  <2>2. PICK ov \in Int : ov = Overdue
    BY <2>1, Bounds
  <2>3. PICK uf \in Int : uf = UntilFlush
    BY <2>1, Bounds
  <2>4. PICK l \in Nat : l = left
    BY <2>1 DEF TimerInv, TypeOK
  <2>5. PICK mi \in Nat : mi = MaxInterval
    BY Constants
  <2>6. /\ real.overdue = Min({ov, mi}) /\ ov + uf < mi
        /\ pc = "sleep" => ov <= -l /\ l > 0
    BY <2>1, <2>2, <2>3, <2>4, <2>5 DEF TimerInv, ResendClock, FlushClock
  <2>7. pc = "spin" => 1 <= uf
    <3>1. SUFFICES ASSUME pc = "spin" PROVE 1 <= uf
      OBVIOUS
    <3>2. SinceUpdate = 0
      BY <2>1, <3>1 DEF TimerInv, FlushClock
    <3>3. 1 <= 0 + uf
      BY <2>1, <2>3, <3>2, Bounds
    <3>4. QED
      BY <3>3
  <2>8. Min({ov, mi}) = IF ov <= mi THEN ov ELSE mi
    BY MinPair
  <2>9. CASE pc = "sleep"
    <3>1. ov < 0
      BY ONLY <2>6, <2>9, ov \in Int, l \in Nat
    <3>2. QED
      BY <2>6, <2>8, <2>9, <3>1
  <2>10. CASE pc = "spin"
    <3>1. ov < mi
      BY ONLY <2>6, <2>7, <2>10, ov \in Int, uf \in Int, mi \in Nat
    <3>2. QED
      BY <2>5, <2>6, <2>8, <2>10, <3>1
  <2>11. QED
    BY <2>9, <2>10
<1>2. QED
  BY <1>1, TimerInvariant, PTL

(***************************************************************************)
(* No handshake ends before its timeout and no session before               *)
(* session_expire, also across the wrap of the clock (run of stream.rs).    *)
(***************************************************************************)
THEOREM NothingBeforeItsTime == Spec => NothingEarly
<1> DEFINE Early == /\ pc = "top" /\ pc' = "top" /\ task'.hs # task.hs => real.hs_left = 0
                    /\ pc = "top" /\ pc' = "done" =>
                          task.hs = "Disconnected" \/ kcp.dead \/ real.idle >= SessionExpire
<1>1. ASSUME TimerInv, Next PROVE Early
  <2>1. SUFFICES ASSUME pc = "top" PROVE Early
    OBVIOUS
  <2>2. CASE Break
    <3>1. pc' = "done" /\ (task.hs = "Disconnected" \/ Expired)
      BY <2>2 DEF Break, Stop
    <3>2. Expired => kcp.dead \/ real.idle >= SessionExpire
      <4>1. SUFFICES ASSUME duration_since(task.last_io_time) >= SessionExpire
                     PROVE  real.idle >= SessionExpire
        BY DEF Expired
      <4>2. PICK ia \in Int : ia = IdleAtUpdate
        BY <1>1, Bounds
      <4>3. PICK su \in Int : su = SinceUpdate
        BY <1>1, Bounds
      <4>4. PICK se \in Nat, mi \in Nat : se = SessionExpire /\ mi = MaxInterval /\ se > 0
        BY Constants
      <4>5. Max({ia, 0}) >= se
        BY <4>1, <4>2, <4>4 DEF duration_since, IdleAtUpdate
      <4>6. Max({ia, 0}) = IF ia >= 0 THEN ia ELSE 0
        BY MaxPair
      <4>7. ia >= se
        BY <4>4, <4>5, <4>6
      <4>8. su >= 0
        BY <1>1, <4>3, Bounds
      <4>9. PICK g \in Int, b \in Int : g = ia + su /\ b = se + mi
        OBVIOUS
      <4>10. real.idle = Min({g, b})
        BY <1>1, <4>2, <4>3, <4>4, <4>9 DEF TimerInv, IdleClock
      <4>11. Min({g, b}) = IF g <= b THEN g ELSE b
        BY MinPair
      <4>12. g >= se /\ b >= se
        BY ONLY <4>7, <4>8, <4>9, ia \in Int, su \in Int, se \in Nat, mi \in Nat
      <4>13. QED
        BY ONLY <4>4, <4>10, <4>11, <4>12
    <3>3. QED
      BY <3>1, <3>2
  <2>3. CASE Sleep
    BY <2>3 DEF Sleep
  <2>4. ASSUME NEW rto \in Rtos, HandshakeTimeout(rto) PROVE Early
    <3>1. Going /\ Waits /\ TimedOut
      BY <2>4 DEF HandshakeTimeout
    <3>2. task.hs \in Handshakes
      BY <1>1, <3>1 DEF Going, Waits, TimerInv, TypeOK
    <3>3. PICK to \in Int : to = timeout
      BY <1>1, Bounds
    <3>4. to <= 0 /\ real.hs_left = Max({to, 0})
      BY <1>1, <3>1, <3>2, <3>3 DEF TimedOut, TimerInv, HandshakeClock
    <3>5. real.hs_left = 0
      BY <3>4, MaxPair
    <3>6. pc' \in {"top", "output"}
      BY <2>4 DEF HandshakeTimeout, Continue
    <3>7. QED
      BY <3>5, <3>6
  <2>5. ASSUME NEW rto \in Rtos, Update(rto) PROVE Early
    <3>1. task' = task /\ pc' \in {"top", "output", "spin"}
      BY <2>5 DEF Update, Continue
    <3>2. QED
      BY <3>1
  <2>6. CASE PeerGone \/ Ended
    BY <2>1, <2>6 DEF PeerGone, Ended, vars
  <2>7. ~(Elapse \/ Sent \/ OutputError \/ Cancelled)
    BY <2>1 DEF Elapse, Sent, OutputError, Cancelled
  <2>8. ASSUME NEW rto \in Rtos
        PROVE  /\ \A acked, accepted \in BOOLEAN : ~TransportBranch(acked, accepted, rto)
               /\ \A flush \in BOOLEAN : ~InputFrame(flush, rto)
               /\ ~InputClosed(rto)
    BY <2>1 DEF TransportBranch, InputFrame, InputClosed, Input
  <2>9. QED
    BY <1>1, <2>2, <2>3, <2>4, <2>5, <2>6, <2>7, <2>8 DEF Next, Loop
<1>2. TimerInv /\ [Next]_vars => [Early]_vars
  BY <1>1
<1>3. QED
  BY <1>2, TimerInvariant, PTL DEF Spec, NothingEarly
=============================================================================
