---------------------------- MODULE KcpArqProofs ----------------------------
(***************************************************************************)
(* Proofs about KcpArq for every window size, segment size, mode and bound. *)
(***************************************************************************)
EXTENDS KcpArq, TLAPS, WellFoundedInduction, SequenceTheorems, FiniteSetTheorems

-----------------------------------------------------------------------------
\* "Less than" on the naturals as a relation, and that it is well founded.
NatLess == {p \in Nat \X Nat : p[1] < p[2]}

LEMMA NatLessWF == IsWellFoundedOn(NatLess, Nat)
  BY NatLessThanWellFounded DEF OpToRel, NatLess

\* A non-empty set of naturals has a least element, which is its Min.
LEMMA MinNat ==
    ASSUME NEW S, S \subseteq Nat, S # {}
    PROVE  Min(S) \in S /\ \A x \in S : Min(S) <= x
<1>1. PICK x \in S : \A y \in S : ~ (<<y, x>> \in NatLess)
  BY NatLessWF, WFMin
<1>2. \A y \in S : x <= y
  <2> TAKE y \in S
  <2>1. x \in Nat /\ y \in Nat
    OBVIOUS
  <2>2. ~ (y < x)
    BY <1>1, <2>1 DEF NatLess
  <2>3. QED
    BY <2>1, <2>2
<1>3. QED
  BY <1>2 DEF Min

\* A set of naturals below a bound has a greatest element, which is its Max.
LEMMA MaxNat ==
    ASSUME NEW N \in Nat, NEW S, S \subseteq 0 .. N, S # {}
    PROVE  Max(S) \in S /\ \A x \in S : Max(S) >= x
<1> DEFINE T == {N - x : x \in S}
<1>a. \A x \in S : x \in Nat /\ N - x \in Nat
  OBVIOUS
<1>1. T \subseteq Nat /\ T # {}
  BY <1>a
<1>2. Min(T) \in T /\ \A y \in T : Min(T) <= y
  BY <1>1, MinNat
<1>3. PICK x \in S : Min(T) = N - x
  BY <1>2
<1>4. \A y \in S : N - x <= N - y
  BY <1>2, <1>3
<1>5. \A y \in S : x >= y
  BY <1>4, <1>a
<1>6. QED
  BY <1>5 DEF Max

-----------------------------------------------------------------------------
(***************************************************************************)
(* The operators of Ikcp keep the type of a control block.                  *)
(***************************************************************************)
LEMMA SeqLen ==
    ASSUME NEW S, NEW s \in Seq(S)
    PROVE  Len(s) \in Nat /\ \A i \in 1 .. Len(s) : s[i] \in S
  OBVIOUS

LEMMA ConcatFacts ==
    ASSUME NEW S, NEW s \in Seq(S), NEW t \in Seq(S)
    PROVE  /\ s \o t \in Seq(S) /\ Len(s \o t) = Len(s) + Len(t)
           /\ \A i \in 1 .. Len(s) : (s \o t)[i] = s[i]
           /\ \A i \in 1 .. Len(t) : (s \o t)[Len(s) + i] = t[i]
<1>1. Len(s) \in Nat /\ Len(t) \in Nat
  OBVIOUS
<1>2. s \o t \in Seq(S) /\ Len(s \o t) = Len(s) + Len(t)
  OBVIOUS
<1>3. ASSUME NEW i \in 1 .. Len(s) PROVE (s \o t)[i] = s[i]
  BY <1>1
<1>4. ASSUME NEW i \in 1 .. Len(t) PROVE (s \o t)[Len(s) + i] = t[i]
  <2>1. Len(s) + i \in 1 .. Len(s) + Len(t) /\ Len(s) + i > Len(s) /\ Len(s) + i - Len(s) = i
    BY <1>1
  <2>2. QED
    BY <1>1, <2>1
<1>5. QED
  BY <1>2, <1>3, <1>4

\* A sequence without its first n elements.
LEMMA DropFacts ==
    ASSUME NEW S, NEW s \in Seq(S), NEW n \in 0 .. Len(s)
    PROVE  LET t == SubSeq(s, n + 1, Len(s))
           IN  /\ t \in Seq(S) /\ Len(t) = Len(s) - n
               /\ \A i \in 1 .. Len(t) : t[i] = s[n + i]
<1> DEFINE t == SubSeq(s, n + 1, Len(s))
<1>1. Len(s) \in Nat /\ n \in Nat
  OBVIOUS
<1>2. t \in Seq(S) /\ Len(t) = Len(s) - n
  BY <1>1
<1>3. ASSUME NEW i \in 1 .. Len(s) - n PROVE t[i] = s[n + i]
  <2>1. t[i] = s[n + 1 + i - 1]
    BY <1>1
  <2>2. n + 1 + i - 1 = n + i
    BY <1>1
  <2>3. QED
    BY <2>1, <2>2
<1>4. QED
  BY <1>2, <1>3

LEMMA MoveCountFacts ==
    ASSUME NEW k, IsKcpCB(k)
    PROVE  /\ MoveCount(k) \in 0 .. ikcp_wnd_unused(k)
           /\ ikcp_wnd_unused(k) \in 0 .. RcvWnd
           /\ \A i \in 0 .. MoveCount(k) - 1 : k.rcv_nxt + i \in DOMAIN k.rcv_buf
<1> DEFINE S == {n \in 0 .. ikcp_wnd_unused(k) :
                   \A i \in 0 .. n - 1 : k.rcv_nxt + i \in DOMAIN k.rcv_buf}
<1>1. k.rcv_queue \in Seq(Seg)
  BY DEF IsKcpCB
<1>2. ikcp_wnd_unused(k) \in 0 .. RcvWnd
  BY <1>1, IkcpAssumption, SeqLen DEF ikcp_wnd_unused
<1>3. 0 \in S
  BY <1>2, IkcpAssumption
<1>4. S \subseteq 0 .. ikcp_wnd_unused(k)
  OBVIOUS
<1>5. Max(S) \in S
  BY <1>2, <1>3, <1>4, MaxNat, IkcpAssumption
<1>6. QED
  BY <1>2, <1>5 DEF MoveCount

LEMMA MoveAvailableType ==
    ASSUME NEW k, IsKcpCB(k)
    PROVE  IsKcpCB(MoveAvailable(k))
<1> DEFINE n == MoveCount(k)
           mv == [i \in 1 .. n |-> k.rcv_buf[k.rcv_nxt + i - 1]]
           rb == Restrict(k.rcv_buf, {sn \in DOMAIN k.rcv_buf : sn >= k.rcv_nxt + n})
<1>1. n \in Nat /\ \A i \in 0 .. n - 1 : k.rcv_nxt + i \in DOMAIN k.rcv_buf
  BY MoveCountFacts, IkcpAssumption
<1>2. k.rcv_nxt \in Nat /\ k.rcv_queue \in Seq(Seg) /\ DOMAIN k.rcv_buf \subseteq Nat
      /\ k.rcv_buf \in [DOMAIN k.rcv_buf -> Seg]
  BY DEF IsKcpCB
<1>3. \A i \in 1 .. n : k.rcv_nxt + i - 1 \in DOMAIN k.rcv_buf
  <2> TAKE i \in 1 .. n
  <2>1. i - 1 \in 0 .. n - 1
    BY <1>1
  <2>2. QED
    BY <1>1, <1>2, <2>1
<1>4. mv \in Seq(Seg)
  BY <1>1, <1>2, <1>3
<1>5. k.rcv_queue \o mv \in Seq(Seg)
  BY <1>2, <1>4
<1>6. DOMAIN rb \subseteq Nat /\ rb \in [DOMAIN rb -> Seg]
  BY <1>2 DEF Restrict
<1>7. k.rcv_nxt + n \in Nat
  BY <1>1, <1>2
<1>8. MoveAvailable(k) = [k EXCEPT !.rcv_queue = k.rcv_queue \o mv, !.rcv_buf = rb, !.rcv_nxt = k.rcv_nxt + n]
  BY DEF MoveAvailable
<1> HIDE DEF n, mv, rb
<1>9. QED
  BY <1>5, <1>6, <1>7, <1>8 DEF IsKcpCB

LEMMA CreateType == ASSUME NEW c \in Nat PROVE IsKcpCB(ikcp_create(c))
<1>1. <<>> \in Seq(Seg)
  OBVIOUS
<1>2. DOMAIN EmptyBuf = {} /\ EmptyBuf \in [{} -> SentSeg] /\ EmptyBuf \in [{} -> Seg]
  BY DEF EmptyBuf
<1>3. QED
  BY <1>1, <1>2, IkcpAssumption DEF IsKcpCB, ikcp_create

LEMMA ParseDataType ==
    ASSUME NEW k, IsKcpCB(k), NEW sn \in Nat, NEW seg \in Seg
    PROVE  IsKcpCB(ikcp_parse_data(k, sn, seg))
<1> DEFINE rb == [s \in DOMAIN k.rcv_buf \cup {sn} |-> IF s = sn THEN seg ELSE k.rcv_buf[s]]
<1>1. DOMAIN rb \subseteq Nat /\ rb \in [DOMAIN rb -> Seg]
  BY DEF IsKcpCB
<1> HIDE DEF rb
<1>2. IsKcpCB([k EXCEPT !.rcv_buf = rb])
  BY <1>1 DEF IsKcpCB
<1>3. QED
  BY <1>2, MoveAvailableType DEF ikcp_parse_data, rb

LEMMA ShrinkType ==
    ASSUME NEW k, IsKcpCB(k)
    PROVE  IsKcpCB(ikcp_shrink_buf(k))
<1> DEFINE u == IF DOMAIN k.snd_buf = {} THEN k.snd_nxt ELSE Min(DOMAIN k.snd_buf)
<1>1. u \in Nat
  BY MinNat DEF IsKcpCB
<1> HIDE DEF u
<1>2. IsKcpCB([k EXCEPT !.snd_una = u])
  BY <1>1 DEF IsKcpCB
<1>3. QED
  BY <1>2 DEF ikcp_shrink_buf, u

\* Dropping segments from snd_buf.
LEMMA SndBufType ==
    ASSUME NEW k, IsKcpCB(k), NEW S, S \subseteq DOMAIN k.snd_buf
    PROVE  IsKcpCB([k EXCEPT !.snd_buf = Restrict(k.snd_buf, S)])
<1> DEFINE sb == Restrict(k.snd_buf, S)
<1>1. DOMAIN sb \subseteq Nat /\ sb \in [DOMAIN sb -> SentSeg]
  BY DEF IsKcpCB, Restrict
<1> HIDE DEF sb
<1>2. IsKcpCB([k EXCEPT !.snd_buf = sb])
  BY <1>1 DEF IsKcpCB
<1>3. QED
  BY <1>2 DEF sb

LEMMA InputType ==
    ASSUME NEW k, IsKcpCB(k), NEW m \in WireSeg
    PROVE  /\ IsKcpCB(InputHeader(k, m))
           /\ IsKcpCB(ikcp_input(k, m).kcp)
<1>0. m.wnd \in 0 .. RcvWnd /\ m.sn \in Nat /\ m.una \in Nat /\ m.seg \in Seg /\ m.cmd \in Cmd
  BY DEF WireSeg
<1> DEFINE k0 == [k EXCEPT !.rmt_wnd = m.wnd]
           k1 == InputHeader(k, m)
<1>1. IsKcpCB(k0)
  BY <1>0 DEF IsKcpCB
<1>2. IsKcpCB(ikcp_parse_una(k0, m.una))
  <2> HIDE DEF k0
  <2> QED BY <1>1, SndBufType DEF ikcp_parse_una
<1>3. IsKcpCB(k1)
  BY <1>2, ShrinkType DEF InputHeader
<1> HIDE DEF k0, k1
<1>4. IsKcpCB(InputAck(k1, m))
  <2>1. IsKcpCB(ikcp_parse_ack(k1, m.sn))
    BY <1>3, SndBufType DEF ikcp_parse_ack
  <2>2. QED
    BY <2>1, ShrinkType DEF InputAck
<1>5. IsKcpCB(InputPush(k1, m))
  <2>1. IsKcpCB([k1 EXCEPT !.acklist = k1.acklist \cup {m.sn}])
    BY <1>0, <1>3 DEF IsKcpCB
  <2>2. QED
    BY <1>0, <1>3, <2>1, ParseDataType DEF InputPush
<1>6. IsKcpCB([k1 EXCEPT !.ask_tell = TRUE])
  BY <1>3 DEF IsKcpCB
<1>7. IsKcpCB(ikcp_input(k, m).kcp)
  BY <1>0, <1>3, <1>4, <1>5, <1>6 DEF ikcp_input, k1, Cmd
<1>8. QED
  BY <1>3, <1>7 DEF k1

-----------------------------------------------------------------------------
\* Division rounded up, as ikcp_send computes the number of fragments.
LEMMA DivUp ==
    ASSUME NEW a \in Nat \ {0}, NEW b \in Nat \ {0}
    PROVE  LET q == (a + b - 1) \div b
           IN  q \in Nat \ {0} /\ a <= q * b /\ \A i \in Nat : i < q => i * b < a
<1> DEFINE q == (a + b - 1) \div b
<1>1. q \in Nat
  OBVIOUS
<1>2. a <= q * b
  OBVIOUS
<1>3. \A i \in Nat : i < q => i * b < a
  OBVIOUS
<1>4. q # 0
  BY <1>2
<1>5. QED
  BY <1>1, <1>2, <1>3, <1>4

(***************************************************************************)
(* ikcp_send cuts len bytes into fragments that are not empty, of which all *)
(* but the last are full, and that end where the bytes end.                 *)
(***************************************************************************)
LEMMA FragmentFacts ==
    ASSUME NEW off \in Nat, NEW len \in Nat \ {0}
    PROVE  /\ FragCount(len) \in Nat \ {0}
           /\ Fragments(off, len) \in Seq(Seg)
           /\ Len(Fragments(off, len)) = FragCount(len)
           /\ \A i \in 1 .. FragCount(len) :
                /\ Fragments(off, len)[i].len \in 1 .. Mss
                /\ Fragments(off, len)[i].off = off + (i - 1) * Mss
                /\ i < FragCount(len) => Fragments(off, len)[i].len = Mss
                /\ i = FragCount(len) =>
                     Fragments(off, len)[i].off + Fragments(off, len)[i].len = off + len
<1> DEFINE c == FragCount(len)
           F == Fragments(off, len)
<1>1. c \in Nat \ {0} /\ len <= c * Mss /\ \A i \in Nat : i < c => i * Mss < len
  <2>1. CASE len <= Mss
    BY <2>1, IkcpAssumption DEF FragCount
  <2>2. CASE ~ (len <= Mss)
    BY <2>2, IkcpAssumption, DivUp DEF FragCount
  <2>3. QED
    BY <2>1, <2>2
<1>2. ASSUME NEW i \in 1 .. c
      PROVE  /\ F[i] \in Seg
             /\ F[i].len \in 1 .. Mss
             /\ F[i].off = off + (i - 1) * Mss
             /\ i < c => F[i].len = Mss
             /\ i = c => F[i].off + F[i].len = off + len
  <2> DEFINE x == (i - 1) * Mss
  <2>1. i - 1 \in Nat /\ i - 1 < c /\ c \in Nat
    BY <1>1
  <2>2. x \in Nat /\ x < len
    BY <1>1, <2>1, IkcpAssumption
  <2>3. i < c => x + Mss < len
    <3>1. i * Mss = x + Mss
      BY IkcpAssumption, <2>1
    <3>2. QED
      BY <3>1, <1>1
  <2>4. i = c => len <= x + Mss
    <3>1. i * Mss = x + Mss
      BY IkcpAssumption, <2>1
    <3>2. QED
      BY <3>1, <1>1
  <2>5. c - i \in Nat
    BY <1>1
  <2>6. F[i] = [off |-> off + x, len |-> imin(Mss, len - x), frg |-> IF Stream THEN 0 ELSE c - i]
    BY DEF Fragments
  <2> HIDE DEF x, c, F
  <2>7. imin(Mss, len - x) \in 1 .. Mss
    BY <2>2, IkcpAssumption DEF imin
  <2>8. i < c => imin(Mss, len - x) = Mss
    BY <2>2, <2>3, IkcpAssumption DEF imin
  <2>9. i = c => imin(Mss, len - x) = len - x
    BY <2>2, <2>4, IkcpAssumption DEF imin
  <2>10. F[i] \in Seg
    BY <2>2, <2>5, <2>6, <2>7, IkcpAssumption DEF Seg
  <2>11. QED
    BY <2>2, <2>6, <2>7, <2>8, <2>9, <2>10, IkcpAssumption DEF x
<1>3. F \in Seq(Seg) /\ Len(F) = c
  <2>1. F = [i \in 1 .. c |-> F[i]]
    BY DEF Fragments
  <2> HIDE DEF F, c
  <2>2. QED
    BY <1>1, <1>2, <2>1
<1>4. QED
  BY <1>1, <1>2, <1>3

\* How much the last queued segment is filled up by.
LEMMA ExtendFacts ==
    ASSUME NEW k, IsKcpCB(k), NEW len \in Nat \ {0}
    PROVE  /\ Extend(k, len) \in 0 .. len
           /\ Extend(k, len) > 0 =>
                /\ Stream
                /\ Len(k.snd_queue) > 0
                /\ k.snd_queue[Len(k.snd_queue)].len + Extend(k, len) <= Mss
<1>1. k.snd_queue \in Seq(Seg) /\ Len(k.snd_queue) \in Nat
  BY DEF IsKcpCB
<1>2. Len(k.snd_queue) > 0 => k.snd_queue[Len(k.snd_queue)] \in Seg
  BY <1>1
<1>a. Len(k.snd_queue) > 0 => k.snd_queue[Len(k.snd_queue)].len \in Nat
  BY <1>2 DEF Seg
<1>3. QED
  BY <1>1, <1>a, IkcpAssumption DEF Extend, imin

LEMMA FillUpFacts ==
    ASSUME NEW k, IsKcpCB(k), NEW len \in Nat \ {0}
    PROVE  /\ IsKcpCB(FillUp(k, len))
           /\ FillUp(k, len) = [k EXCEPT !.snd_queue = FillUp(k, len).snd_queue]
           /\ Len(FillUp(k, len).snd_queue) = Len(k.snd_queue)
           /\ \A i \in 1 .. Len(k.snd_queue) :
                FillUp(k, len).snd_queue[i] =
                  IF i = Len(k.snd_queue) /\ Extend(k, len) > 0
                  THEN [off |-> k.snd_queue[i].off,
                        len |-> k.snd_queue[i].len + Extend(k, len), frg |-> 0]
                  ELSE k.snd_queue[i]
<1> DEFINE n == Len(k.snd_queue)
           x == Extend(k, len)
           seg == [off |-> k.snd_queue[n].off, len |-> k.snd_queue[n].len + x, frg |-> 0]
           q == [k.snd_queue EXCEPT ![n] = seg]
<1>1. k.snd_queue \in Seq(Seg) /\ n \in Nat /\ x \in Nat
  BY ExtendFacts DEF IsKcpCB
<1>2. CASE x = 0
  <2>1. FillUp(k, len) = k
    BY <1>2 DEF FillUp
  <2>2. k = [k EXCEPT !.snd_queue = k.snd_queue]
    BY DEF IsKcpCB
  <2>3. QED
    BY <1>2, <2>1, <2>2
<1>3. CASE x > 0
  <2>1. n \in 1 .. n
    BY <1>1, <1>3, ExtendFacts
  <2>2. k.snd_queue[n] \in Seg
    BY <1>1, <2>1
  <2>3. seg \in Seg
    BY <2>2, <1>1 DEF Seg
  <2> HIDE DEF seg
  <2>4. q \in Seq(Seg) /\ Len(q) = n
    BY <1>1, <2>1, <2>3
  <2>5. \A i \in 1 .. n : q[i] = IF i = n THEN seg ELSE k.snd_queue[i]
    BY <1>1, <2>1
  <2>6. FillUp(k, len) = [k EXCEPT !.snd_queue = q]
    BY <1>3 DEF FillUp, seg
  <2> HIDE DEF q, x, n
  <2>7. IsKcpCB([k EXCEPT !.snd_queue = q]) /\ [k EXCEPT !.snd_queue = q].snd_queue = q
    BY <2>4 DEF IsKcpCB
  <2>8. \A i \in 1 .. n : q[i] = IF i = n /\ x > 0 THEN seg ELSE k.snd_queue[i]
    BY <1>3, <2>5
  <2>9. QED
    BY <2>4, <2>6, <2>7, <2>8 DEF n, x, seg
<1>4. QED
  <2>1. x = 0 \/ x > 0
    BY <1>1
  <2>2. QED
    BY <2>1, <1>2, <1>3

\* ikcp_send touches nothing but snd_queue.
LEMMA SendFacts ==
    ASSUME NEW k, IsKcpCB(k), NEW off \in Nat, NEW len \in Nat \ {0}
    PROVE  LET k2 == ikcp_send(k, off, len).kcp
           IN  IsKcpCB(k2) /\ k2 = [k EXCEPT !.snd_queue = k2.snd_queue]
<1> DEFINE x == Extend(k, len)
           k1 == FillUp(k, len)
           fr == Fragments(off + x, len - x)
           k2 == ikcp_send(k, off, len).kcp
<1>1. x \in 0 .. len
  BY ExtendFacts
<1>2. IsKcpCB(k1) /\ k1 = [k EXCEPT !.snd_queue = k1.snd_queue]
  BY FillUpFacts
<1>3. CASE Stream /\ len - x = 0
  <2>1. k2 = k1
    BY <1>3 DEF ikcp_send
  <2>2. QED
    BY <1>2, <2>1
<1>4. CASE ~ (Stream /\ len - x = 0)
  <2>1. len - x \in Nat \ {0} /\ off + x \in Nat
    BY <1>1, <1>4, ExtendFacts
  <2>2. fr \in Seq(Seg)
    BY <2>1, FragmentFacts
  <2>3. k2 = k1 \/ k2 = [k1 EXCEPT !.snd_queue = k1.snd_queue \o fr]
    BY <1>4 DEF ikcp_send
  <2> HIDE DEF k1, fr, x, k2
  <2>4. k1.snd_queue \in Seq(Seg)
    BY <1>2 DEF IsKcpCB
  <2>5. k1.snd_queue \o fr \in Seq(Seg)
    BY <2>2, <2>4
  <2>6. IsKcpCB([k1 EXCEPT !.snd_queue = k1.snd_queue \o fr])
    BY <1>2, <2>5 DEF IsKcpCB
  <2>7. [k1 EXCEPT !.snd_queue = k1.snd_queue \o fr]
          = [k EXCEPT !.snd_queue = [k1 EXCEPT !.snd_queue = k1.snd_queue \o fr].snd_queue]
    BY <1>2 DEF IsKcpCB
  <2>8. IsKcpCB(k2) /\ k2 = [k EXCEPT !.snd_queue = k2.snd_queue]
    BY <1>2, <2>3, <2>6, <2>7
  <2>9. QED
    BY <2>8 DEF k2
<1>5. QED
  BY <1>3, <1>4

\* ikcp_recv takes at least one segment off a non-empty queue.
LEMMA FrameFragmentsFacts ==
    ASSUME NEW q \in Seq(Seg), q # <<>>
    PROVE  FrameFragments(q) \in 1 .. Len(q)
<1> DEFINE S == {i \in 1 .. Len(q) : q[i].frg = 0} \cup {Len(q)}
<1>1. Len(q) \in Nat \ {0}
  OBVIOUS
<1>2. S \subseteq 1 .. Len(q) /\ S # {}
  BY <1>1
<1>3. S \subseteq Nat
  BY <1>1, <1>2
<1>4. Min(S) \in S
  BY <1>2, <1>3, MinNat
<1>5. QED
  BY <1>2, <1>4 DEF FrameFragments

LEMMA RecvFacts ==
    ASSUME NEW k, IsKcpCB(k), k.rcv_queue # <<>>
    PROVE  LET n == FrameFragments(k.rcv_queue)
               k0 == [k EXCEPT !.rcv_queue = SubSeq(k.rcv_queue, n + 1, Len(k.rcv_queue))]
               k1 == MoveAvailable(k0)
               r == ikcp_recv(k)
           IN  /\ n \in 1 .. Len(k.rcv_queue)
               /\ r.frame = SubSeq(k.rcv_queue, 1, n)
               /\ r.frame \in Seq(Seg) /\ Len(r.frame) = n
               /\ IsKcpCB(k0) /\ IsKcpCB(k1) /\ IsKcpCB(r.kcp)
               /\ r.kcp = [k1 EXCEPT !.ask_tell = r.kcp.ask_tell]
<1> DEFINE q == k.rcv_queue
           n == FrameFragments(q)
           rest == SubSeq(q, n + 1, Len(q))
           k0 == [k EXCEPT !.rcv_queue = rest]
           k1 == MoveAvailable(k0)
           r == ikcp_recv(k)
<1>1. q \in Seq(Seg)
  BY DEF IsKcpCB
<1>2. n \in 1 .. Len(q) /\ Len(q) \in Nat
  BY <1>1, FrameFragmentsFacts
<1>3. SubSeq(q, 1, n) \in Seq(Seg) /\ Len(SubSeq(q, 1, n)) = n /\ rest \in Seq(Seg)
  BY <1>1, <1>2
<1>4. IsKcpCB(k0)
  <2> HIDE DEF rest
  <2> QED BY <1>3 DEF IsKcpCB
<1>5. IsKcpCB(k1)
  BY <1>4, MoveAvailableType
<1>6. r.frame = SubSeq(q, 1, n)
  BY DEF ikcp_recv
<1>7. r.kcp = k1 \/ r.kcp = [k1 EXCEPT !.ask_tell = TRUE]
  BY DEF ikcp_recv
<1> HIDE DEF k1
<1>8. k1 = [k1 EXCEPT !.ask_tell = k1.ask_tell] /\ IsKcpCB([k1 EXCEPT !.ask_tell = TRUE])
      /\ [k1 EXCEPT !.ask_tell = TRUE].ask_tell = TRUE
  BY <1>5 DEF IsKcpCB
<1>9. IsKcpCB(r.kcp) /\ r.kcp = [k1 EXCEPT !.ask_tell = r.kcp.ask_tell]
  BY <1>5, <1>7, <1>8
<1>10. QED
  BY <1>2, <1>3, <1>4, <1>5, <1>6, <1>9 DEF k1

LEMMA MovedFacts ==
    ASSUME NEW k, IsKcpCB(k), NEW cwnd \in Nat
    PROVE  Moved(k, cwnd) \in 0 .. Len(k.snd_queue)
<1>1. k.snd_una \in Nat /\ k.snd_nxt \in Nat /\ k.rmt_wnd \in Nat /\ Len(k.snd_queue) \in Nat
  BY IkcpAssumption DEF IsKcpCB
<1>2. QED
  BY <1>1, IkcpAssumption DEF Moved, imin

LEMMA FlushFacts ==
    ASSUME NEW k, IsKcpCB(k), NEW cwnd \in Nat, NEW due, NEW probe
    PROVE  LET n == Moved(k, cwnd)
               r == ikcp_flush(k, cwnd, due, probe)
           IN  /\ IsKcpCB(r.kcp)
               /\ r.out \subseteq WireSeg
<1> DEFINE n == Moved(k, cwnd)
           r == ikcp_flush(k, cwnd, due, probe)
           buf == FlushedBuf(k, n, due)
           sending == (due \cap DOMAIN k.snd_buf) \cup k.snd_nxt .. k.snd_nxt + n - 1
           rest == SubSeq(k.snd_queue, n + 1, Len(k.snd_queue))
<1>1. n \in 0 .. Len(k.snd_queue)
  BY MovedFacts
<1>2. /\ k.snd_nxt \in Nat /\ DOMAIN k.snd_buf \subseteq Nat
      /\ k.snd_buf \in [DOMAIN k.snd_buf -> SentSeg]
      /\ k.snd_queue \in Seq(Seg) /\ Len(k.snd_queue) \in Nat
  BY DEF IsKcpCB
<1>3. DOMAIN buf = DOMAIN k.snd_buf \cup k.snd_nxt .. k.snd_nxt + n - 1
  BY DEF FlushedBuf
<1>4. DOMAIN buf \subseteq Nat
  BY <1>1, <1>2, <1>3
<1>5. ASSUME NEW sn \in DOMAIN buf PROVE buf[sn] \in SentSeg
  <2>1. CASE sn \in DOMAIN k.snd_buf
    <3>1. k.snd_buf[sn] \in SentSeg
      BY <1>2, <2>1
    <3>2. buf[sn] = [k.snd_buf[sn] EXCEPT !.xmit = IF sn \in due THEN imin(k.snd_buf[sn].xmit + 1, DeadLink)
                                                   ELSE k.snd_buf[sn].xmit]
      BY <2>1, <1>3 DEF FlushedBuf
    <3>3. QED
      BY <3>1, <3>2, IkcpAssumption DEF SentSeg, imin
  <2>2. CASE sn \notin DOMAIN k.snd_buf
    <3>1. sn \in k.snd_nxt .. k.snd_nxt + n - 1
      BY <1>3, <2>2
    <3>2. sn - k.snd_nxt + 1 \in 1 .. Len(k.snd_queue)
      BY <1>1, <1>2, <3>1
    <3>3. k.snd_queue[sn - k.snd_nxt + 1] \in Seg
      BY <1>2, <3>2
    <3>4. buf[sn] = [seg |-> k.snd_queue[sn - k.snd_nxt + 1], xmit |-> 1]
      BY <1>3, <2>2 DEF FlushedBuf
    <3>5. QED
      BY <3>3, <3>4, IkcpAssumption DEF SentSeg
  <2>3. QED
    BY <2>1, <2>2
<1>6. buf \in [DOMAIN buf -> SentSeg]
  <2>1. buf = [sn \in DOMAIN buf |-> buf[sn]]
    BY DEF FlushedBuf
  <2> HIDE DEF buf
  <2>2. QED
    BY <1>5, <2>1
<1>7. rest \in Seq(Seg) /\ k.snd_nxt + n \in Nat
  BY <1>1, <1>2
<1>8. IsKcpCB(r.kcp)
  <2> DEFINE dd == k.dead \/ \E sn \in sending : buf[sn].xmit >= DeadLink
  <2>1. r.kcp = [k EXCEPT !.acklist = {}, !.ask_tell = FALSE, !.probe_wait = (k.rmt_wnd = 0),
                          !.snd_queue = rest, !.snd_buf = buf, !.snd_nxt = k.snd_nxt + n,
                          !.dead = dd]
    BY DEF ikcp_flush
  <2>2. dd \in BOOLEAN
    BY DEF IsKcpCB
  <2> HIDE DEF r, n, buf, rest, dd
  <2>3. QED
    BY <1>4, <1>6, <1>7, <2>1, <2>2 DEF IsKcpCB
<1>9. r.out \subseteq WireSeg
  <2>1. k.conv \in Nat /\ k.rcv_nxt \in Nat /\ k.acklist \subseteq Nat
    BY DEF IsKcpCB
  <2>2. ikcp_wnd_unused(k) \in 0 .. RcvWnd
    BY MoveCountFacts
  <2>3. NoSeg \in Seg
    BY DEF NoSeg, Seg
  <2>4. ASSUME NEW cmd \in Cmd, NEW sn \in Nat, NEW seg \in Seg
        PROVE  Header(k, cmd, sn, seg) \in WireSeg
    <3>1. ikcp_wnd_unused(k) % U16 \in 0 .. RcvWnd
      BY <2>2, IkcpAssumption DEF U16
    <3>2. QED
      BY <3>1, <2>1 DEF Header, WireSeg
  <2>5. \A sn \in sending : sn \in Nat /\ buf[sn].seg \in Seg
    <3>1. sending \subseteq DOMAIN buf
      BY <1>3
    <3>2. QED
      BY <3>1, <1>4, <1>5 DEF SentSeg
  <2>6. \A m \in r.out : \/ \E sn \in k.acklist : m = Header(k, "ACK", sn, NoSeg)
                         \/ m = Header(k, "WASK", 0, NoSeg)
                         \/ m = Header(k, "WINS", 0, NoSeg)
                         \/ \E sn \in sending : m = Header(k, "PUSH", sn, buf[sn].seg)
    BY DEF ikcp_flush
  <2> HIDE DEF r, sending, buf
  <2>7. QED
    BY <2>1, <2>3, <2>4, <2>5, <2>6 DEF Cmd
<1>10. QED
  BY <1>8, <1>9

-----------------------------------------------------------------------------
(***************************************************************************)
(* Type correctness.                                                        *)
(***************************************************************************)
LEMMA PeerFacts == \A e \in End : Peer(e) \in End /\ Peer(e) # e /\ Peer(Peer(e)) = e
  BY DEF End, Peer

LEMMA LastOr0Type == ASSUME NEW s \in Seq(Nat) PROVE LastOr0(s) \in Nat
  BY DEF LastOr0

\* A control block replaced by another leaves a function on End.
LEMMA KcpUpdate ==
    ASSUME DOMAIN kcp = End, \A e \in End : IsKcpCB(kcp[e]),
           NEW e \in End, NEW k, IsKcpCB(k), kcp' = [kcp EXCEPT ![e] = k]
    PROVE  DOMAIN kcp' = End /\ \A d \in End : IsKcpCB(kcp'[d])
<1>1. \A d \in End : kcp'[d] = IF d = e THEN k ELSE kcp[d]
  OBVIOUS
<1>2. QED
  BY <1>1

LEMMA TypeInit == Init => TypeOK
<1> SUFFICES ASSUME Init PROVE TypeOK
  OBVIOUS
<1>1. IsKcpCB(ikcp_create(Conv))
  BY CreateType DEF Conv
<1>2. QED
  BY <1>1 DEF Init, TypeOK

LEMMA TypeStep == TypeOK /\ [Next]_vars => TypeOK'
<1> SUFFICES ASSUME TypeOK, [Next]_vars PROVE TypeOK'
  OBVIOUS
<1>0. /\ DOMAIN kcp = End /\ \A e \in End : IsKcpCB(kcp[e])
      /\ net \in [End -> SUBSET WireSeg]
      /\ sent \in [End -> Seq(Nat)]
      /\ log \in [End -> Seq(Seg)]
      /\ dlv \in [End -> Seq(Seg)]
      /\ reads \in [End -> Seq(Nat)]
  BY DEF TypeOK
<1>1. ASSUME NEW e \in Writers, NEW len \in FrameLens, Send(e, len) PROVE TypeOK'
  <2>1. e \in End /\ len \in Nat \ {0} /\ LastOr0(sent[e]) \in Nat
    BY <1>0, ArqAssumption, LastOr0Type
  <2> DEFINE r == ikcp_send(kcp[e], LastOr0(sent[e]), len)
  <2>2. IsKcpCB(r.kcp)
    BY <1>0, <2>1, SendFacts
  <2>3. kcp' = [kcp EXCEPT ![e] = r.kcp]
    BY <1>1 DEF Send
  <2> HIDE DEF r
  <2>4. DOMAIN kcp' = End /\ \A d \in End : IsKcpCB(kcp'[d])
    BY <1>0, <2>1, <2>2, <2>3, KcpUpdate
  <2>5. sent' = sent \/ sent' = [sent EXCEPT ![e] = Append(sent[e], LastOr0(sent[e]) + len)]
    BY <1>1 DEF Send
  <2>6. sent' \in [End -> Seq(Nat)]
    <3>1. Append(sent[e], LastOr0(sent[e]) + len) \in Seq(Nat)
      BY <1>0, <2>1
    <3>2. QED
      BY <1>0, <2>1, <2>5, <3>1
  <2>7. QED
    BY <1>0, <1>1, <2>4, <2>6 DEF TypeOK, Send
<1>2. ASSUME NEW e \in End, NEW cwnd \in 1 .. SndWnd, NEW probe \in BOOLEAN, NEW due, NEW kept,
             Flush(e, cwnd, due, probe, kept)
      PROVE  TypeOK'
  <2> DEFINE k == kcp[e]
             r == ikcp_flush(k, cwnd, due, probe)
  <2>1. cwnd \in Nat /\ IsKcpCB(k)
    BY <1>0, IkcpAssumption
  <2>2. IsKcpCB(r.kcp) /\ r.out \subseteq WireSeg
    BY <2>1, FlushFacts
  <2>3. kcp' = [kcp EXCEPT ![e] = r.kcp] /\ kept \subseteq r.out
    BY <1>2 DEF Flush
  <2>4. Moved(k, cwnd) \in 0 .. Len(k.snd_queue) /\ k.snd_queue \in Seq(Seg)
    BY <2>1, MovedFacts DEF IsKcpCB
  <2>5. SubSeq(k.snd_queue, 1, Moved(k, cwnd)) \in Seq(Seg)
    BY <2>4
  <2> HIDE DEF r
  <2>6. DOMAIN kcp' = End /\ \A d \in End : IsKcpCB(kcp'[d])
    BY <1>0, <2>2, <2>3, KcpUpdate
  <2>7. net' \in [End -> SUBSET WireSeg]
    BY <1>0, <1>2, <2>2, <2>3, PeerFacts DEF Flush
  <2>8. log' \in [End -> Seq(Seg)]
    <3>1. log' = [log EXCEPT ![e] = log[e] \o SubSeq(k.snd_queue, 1, Moved(k, cwnd))]
      BY <1>2 DEF Flush
    <3>2. QED
      BY <1>0, <2>5, <3>1
  <2>9. QED
    BY <1>0, <1>2, <2>6, <2>7, <2>8 DEF TypeOK, Flush
<1>3. ASSUME NEW e \in End, NEW again \in BOOLEAN, NEW m \in net[e], Input(e, m, again)
      PROVE  TypeOK'
  <2>1. m \in WireSeg
    BY <1>0
  <2>2. IsKcpCB(ikcp_input(kcp[e], m).kcp)
    BY <1>0, <2>1, InputType
  <2>3. kcp' = [kcp EXCEPT ![e] = ikcp_input(kcp[e], m).kcp]
    BY <1>3 DEF Input
  <2>4. DOMAIN kcp' = End /\ \A d \in End : IsKcpCB(kcp'[d])
    BY <1>0, <2>2, <2>3, KcpUpdate
  <2>5. net' \in [End -> SUBSET WireSeg]
    BY <1>0, <1>3 DEF Input
  <2>6. QED
    BY <1>0, <1>3, <2>4, <2>5 DEF TypeOK, Input
<1>4. ASSUME NEW e \in End, Recv(e) PROVE TypeOK'
  <2> DEFINE r == ikcp_recv(kcp[e])
             last == r.frame[Len(r.frame)]
  <2>1. kcp[e].rcv_queue # <<>>
    BY <1>4 DEF Recv, ikcp_peeksize
  <2>2. IsKcpCB(r.kcp) /\ r.frame \in Seq(Seg) /\ Len(r.frame) \in Nat \ {0}
    <3>1. kcp[e].rcv_queue \in Seq(Seg)
      BY <1>0 DEF IsKcpCB
    <3>2. Len(kcp[e].rcv_queue) \in Nat
      BY <3>1
    <3>3. FrameFragments(kcp[e].rcv_queue) \in Nat \ {0}
      BY <2>1, <3>1, <3>2, FrameFragmentsFacts
    <3>4. QED
      BY <1>0, <2>1, <3>3, RecvFacts
  <2>3. last \in Seg
    BY <2>2
  <2>4. last.off + last.len \in Nat
    BY <2>3 DEF Seg
  <2>5. kcp' = [kcp EXCEPT ![e] = r.kcp] /\ dlv' = [dlv EXCEPT ![e] = dlv[e] \o r.frame]
        /\ reads' = [reads EXCEPT ![e] = Append(reads[e], last.off + last.len)]
    BY <1>4 DEF Recv
  <2> HIDE DEF r, last
  <2>6. DOMAIN kcp' = End /\ \A d \in End : IsKcpCB(kcp'[d])
    BY <1>0, <2>2, <2>5, KcpUpdate
  <2>7. dlv' \in [End -> Seq(Seg)] /\ reads' \in [End -> Seq(Nat)]
    BY <1>0, <2>2, <2>4, <2>5
  <2>8. QED
    BY <1>0, <1>4, <2>6, <2>7 DEF TypeOK, Recv
<1>5. CASE UNCHANGED vars
  BY <1>0, <1>5 DEF TypeOK, vars
<1>6. QED
  BY <1>1, <1>2, <1>3, <1>4, <1>5 DEF Next

(***************************************************************************)
(* Type correctness for every window, segment size, mode and bound: the     *)
(* windows on the wire stay within 0 .. RcvWnd, and every operation of      *)
(* kcp/ikcp.c keeps the buffers well-formed.                                *)
(***************************************************************************)
THEOREM TypeCorrect == Spec => []TypeOK
  BY TypeInit, TypeStep, PTL DEF Spec

-----------------------------------------------------------------------------
(***************************************************************************)
(* What the operators do to the two roles of a control block.               *)
(***************************************************************************)
SameSender(k, k2) == k2.snd_nxt = k.snd_nxt /\ k2.snd_buf = k.snd_buf

SameReceiver(k, k2) ==
    /\ k2.rcv_nxt = k.rcv_nxt /\ k2.rcv_buf = k.rcv_buf
    /\ k2.rcv_queue = k.rcv_queue /\ k2.acklist = k.acklist

\* The receiver k2 holds whatever k holds.
Keeps(k, k2) ==
    /\ k2.rcv_nxt >= k.rcv_nxt
    /\ \A sn \in Nat : Holds(k, sn) => Holds(k2, sn)

LEMMA MoveAvailableFields ==
    ASSUME NEW k, IsKcpCB(k)
    PROVE  LET n == MoveCount(k)
               k2 == MoveAvailable(k)
           IN  /\ n \in Nat
               /\ \A i \in 1 .. n : k.rcv_nxt + i - 1 \in DOMAIN k.rcv_buf
               /\ k2.rcv_nxt = k.rcv_nxt + n
               /\ DOMAIN k2.rcv_buf = {sn \in DOMAIN k.rcv_buf : sn >= k.rcv_nxt + n}
               /\ \A sn \in DOMAIN k2.rcv_buf : k2.rcv_buf[sn] = k.rcv_buf[sn]
               /\ k2.rcv_queue = k.rcv_queue \o [i \in 1 .. n |-> k.rcv_buf[k.rcv_nxt + i - 1]]
               /\ k2.acklist = k.acklist
               /\ SameSender(k, k2)
<1> DEFINE n == MoveCount(k)
           mv == [i \in 1 .. n |-> k.rcv_buf[k.rcv_nxt + i - 1]]
           rb == Restrict(k.rcv_buf, {sn \in DOMAIN k.rcv_buf : sn >= k.rcv_nxt + n})
           k2 == MoveAvailable(k)
<1>1. n \in Nat /\ \A i \in 0 .. n - 1 : k.rcv_nxt + i \in DOMAIN k.rcv_buf
  BY MoveCountFacts, IkcpAssumption
<1>2. \A i \in 1 .. n : k.rcv_nxt + i - 1 \in DOMAIN k.rcv_buf
  <2> TAKE i \in 1 .. n
  <2>1. i - 1 \in 0 .. n - 1 /\ k.rcv_nxt \in Nat
    BY <1>1 DEF IsKcpCB
  <2>2. QED
    BY <1>1, <2>1
<1>3. k2 = [k EXCEPT !.rcv_queue = k.rcv_queue \o mv, !.rcv_buf = rb, !.rcv_nxt = k.rcv_nxt + n]
  BY DEF MoveAvailable
<1>4. DOMAIN rb = {sn \in DOMAIN k.rcv_buf : sn >= k.rcv_nxt + n}
      /\ \A sn \in DOMAIN rb : rb[sn] = k.rcv_buf[sn]
  BY DEF Restrict
<1>5. /\ k2.rcv_nxt = k.rcv_nxt + n /\ k2.rcv_buf = rb /\ k2.rcv_queue = k.rcv_queue \o mv
      /\ k2.acklist = k.acklist /\ SameSender(k, k2)
  <2> HIDE DEF rb, mv, n, k2
  <2> QED BY <1>3 DEF IsKcpCB, SameSender
<1>6. QED
  BY <1>1, <1>2, <1>4, <1>5

LEMMA MoveAvailableInv ==
    ASSUME NEW k, IsKcpCB(k), NEW lg \in Seq(Seg), NEW d \in Seq(Seg),
           ReceiverInv(k, lg), DeliveredInv(k, lg, d)
    PROVE  LET k2 == MoveAvailable(k)
           IN  ReceiverInv(k2, lg) /\ DeliveredInv(k2, lg, d) /\ Keeps(k, k2)
<1> DEFINE n == MoveCount(k)
           mv == [i \in 1 .. n |-> k.rcv_buf[k.rcv_nxt + i - 1]]
           k2 == MoveAvailable(k)
<1>1. /\ n \in Nat
      /\ \A i \in 1 .. n : k.rcv_nxt + i - 1 \in DOMAIN k.rcv_buf
      /\ k2.rcv_nxt = k.rcv_nxt + n
      /\ DOMAIN k2.rcv_buf = {sn \in DOMAIN k.rcv_buf : sn >= k.rcv_nxt + n}
      /\ \A sn \in DOMAIN k2.rcv_buf : k2.rcv_buf[sn] = k.rcv_buf[sn]
      /\ k2.rcv_queue = k.rcv_queue \o mv
  BY MoveAvailableFields
<1> HIDE DEF n, k2
<1>2. /\ k.rcv_nxt \in Nat /\ DOMAIN k.rcv_buf \subseteq Nat
      /\ k.rcv_queue \in Seq(Seg) /\ k.rcv_buf \in [DOMAIN k.rcv_buf -> Seg]
      /\ Len(k.rcv_queue) \in Nat /\ Len(d) \in Nat /\ Len(lg) \in Nat
  BY DEF IsKcpCB
<1>a. \A i \in 1 .. n : mv[i] \in Seg
  BY <1>1, <1>2
<1>3. mv \in Seq(Seg) /\ Len(mv) = n
  BY <1>1, <1>a
<1>4. Keeps(k, k2)
  BY <1>1, <1>2 DEF Keeps, Holds
<1>5. ReceiverInv(k2, lg)
  <2>1. k2.rcv_nxt <= Len(lg)
    <3>1. CASE n = 0
      BY <3>1, <1>1, <1>2 DEF ReceiverInv
    <3>2. CASE n > 0
      <4>1. k.rcv_nxt + n - 1 \in DOMAIN k.rcv_buf
        BY <1>1, <3>2
      <4>2. QED
        BY <4>1, <1>1, <1>2 DEF ReceiverInv
    <3>3. QED
      BY <1>1, <3>1, <3>2
  <2>2. QED
    BY <1>1, <1>2, <2>1 DEF ReceiverInv
<1>6. DeliveredInv(k2, lg, d)
  <2>1. Len(k2.rcv_queue) = Len(k.rcv_queue) + n
    BY <1>1, <1>2, <1>3
  <2>2. ASSUME NEW i \in 1 .. Len(k2.rcv_queue) PROVE k2.rcv_queue[i] = lg[Len(d) + i]
    <3>1. CASE i <= Len(k.rcv_queue)
      <4>1. k2.rcv_queue[i] = k.rcv_queue[i]
        BY <1>1, <1>2, <1>3, <2>1, <3>1
      <4>2. QED
        BY <4>1, <3>1, <1>2 DEF DeliveredInv
    <3>2. CASE i > Len(k.rcv_queue)
      <4> DEFINE j == i - Len(k.rcv_queue)
      <4>1. j \in 1 .. n
        BY <1>1, <1>2, <2>1, <3>2
      <4>2. k2.rcv_queue[i] = mv[j]
        BY <1>1, <1>2, <1>3, <2>1, <3>2
      <4>3. mv[j] = k.rcv_buf[k.rcv_nxt + j - 1]
        BY <4>1
      <4>4. k.rcv_buf[k.rcv_nxt + j - 1] = lg[k.rcv_nxt + j - 1 + 1]
        BY <4>1, <1>1 DEF ReceiverInv
      <4>5. k.rcv_nxt + j - 1 + 1 = Len(d) + i
        BY <4>1, <1>2, <1>1 DEF DeliveredInv
      <4>6. QED
        BY <4>2, <4>3, <4>4, <4>5
    <3>3. QED
      BY <3>1, <3>2, <1>2, <2>1, <1>1
  <2>3. Len(d) + Len(k2.rcv_queue) = k2.rcv_nxt
    BY <1>1, <1>2, <2>1 DEF DeliveredInv
  <2>4. \A i \in 1 .. Len(d) : d[i] = lg[i]
    BY DEF DeliveredInv
  <2>5. QED
    BY <2>2, <2>3, <2>4 DEF DeliveredInv
<1>7. QED
  BY <1>4, <1>5, <1>6 DEF k2

\* ikcp_parse_data with the segment that the log has for sn.
LEMMA ParseDataInv ==
    ASSUME NEW k, IsKcpCB(k), NEW lg \in Seq(Seg), NEW d \in Seq(Seg),
           ReceiverInv(k, lg), DeliveredInv(k, lg, d),
           NEW sn \in Nat, NEW seg \in Seg, sn < Len(lg), seg = lg[sn + 1],
           k.rcv_nxt <= sn, sn < k.rcv_nxt + RcvWnd
    PROVE  LET k2 == ikcp_parse_data(k, sn, seg)
           IN  /\ ReceiverInv(k2, lg) /\ DeliveredInv(k2, lg, d) /\ Keeps(k, k2)
               /\ Holds(k2, sn) /\ k2.acklist = k.acklist /\ SameSender(k, k2)
<1> DEFINE rb == [s \in DOMAIN k.rcv_buf \cup {sn} |-> IF s = sn THEN seg ELSE k.rcv_buf[s]]
           k1 == IF sn \in DOMAIN k.rcv_buf THEN k ELSE [k EXCEPT !.rcv_buf = rb]
           k2 == ikcp_parse_data(k, sn, seg)
<1>1. k2 = MoveAvailable(k1)
  <2>1. sn \in k.rcv_nxt .. k.rcv_nxt + RcvWnd - 1
    BY IkcpAssumption DEF IsKcpCB
  <2>2. QED
    BY <2>1 DEF ikcp_parse_data
<1>2. DOMAIN rb = DOMAIN k.rcv_buf \cup {sn} /\ rb \in [DOMAIN rb -> Seg]
      /\ \A s \in DOMAIN rb : rb[s] = IF s = sn THEN seg ELSE k.rcv_buf[s]
  BY DEF IsKcpCB
<1> HIDE DEF rb
<1>3. /\ IsKcpCB(k1) /\ sn \in DOMAIN k1.rcv_buf
      /\ k1.rcv_nxt = k.rcv_nxt /\ k1.rcv_queue = k.rcv_queue /\ k1.acklist = k.acklist
      /\ SameSender(k, k1)
      /\ DOMAIN k1.rcv_buf = DOMAIN k.rcv_buf \cup {sn}
      /\ \A s \in DOMAIN k1.rcv_buf : k1.rcv_buf[s] = IF s = sn THEN lg[sn + 1] ELSE k.rcv_buf[s]
  <2>1. CASE sn \in DOMAIN k.rcv_buf
    BY <2>1 DEF SameSender, ReceiverInv
  <2>2. CASE sn \notin DOMAIN k.rcv_buf
    <3>1. k1 = [k EXCEPT !.rcv_buf = rb]
      BY <2>2
    <3> HIDE DEF k1
    <3>2. IsKcpCB(k1) /\ k1.rcv_buf = rb /\ k1.rcv_nxt = k.rcv_nxt
          /\ k1.rcv_queue = k.rcv_queue /\ k1.acklist = k.acklist /\ SameSender(k, k1)
      BY <1>2, <3>1 DEF IsKcpCB, SameSender
    <3>3. QED
      BY <1>2, <3>2
  <2>3. QED
    BY <2>1, <2>2
<1> HIDE DEF k1
<1>4. ReceiverInv(k1, lg) /\ DeliveredInv(k1, lg, d)
  BY <1>3 DEF ReceiverInv, DeliveredInv
<1>5. Keeps(k, k1) /\ Holds(k1, sn)
  BY <1>3 DEF Keeps, Holds, IsKcpCB
<1>6. ReceiverInv(k2, lg) /\ DeliveredInv(k2, lg, d) /\ Keeps(k1, k2)
  BY <1>1, <1>3, <1>4, MoveAvailableInv
<1>7. k2.acklist = k1.acklist /\ SameSender(k1, k2)
  BY <1>1, <1>3, MoveAvailableFields
<1> HIDE DEF k2
<1>8. Keeps(k, k2) /\ Holds(k2, sn)
  <2>1. k.rcv_nxt \in Nat /\ k1.rcv_nxt \in Nat
    BY <1>3 DEF IsKcpCB
  <2>2. IsKcpCB(k2)
    BY <1>1, <1>3, MoveAvailableType
  <2>3. k2.rcv_nxt \in Nat
    BY <2>2 DEF IsKcpCB
  <2>4. QED
    BY <1>5, <1>6, <2>1, <2>3 DEF Keeps
<1>9. QED
  BY <1>3, <1>6, <1>7, <1>8 DEF k2, SameSender

(***************************************************************************)
(* ikcp_input in the receiving role: a PUSH whose payload the log has.      *)
(***************************************************************************)
LEMMA InputReceiver ==
    ASSUME NEW k, IsKcpCB(k), NEW lg \in Seq(Seg), NEW d \in Seq(Seg), NEW m \in WireSeg,
           ReceiverInv(k, lg), DeliveredInv(k, lg, d),
           \A sn \in k.acklist : Holds(k, sn),
           m.cmd = "PUSH" => m.sn < Len(lg) /\ m.seg = lg[m.sn + 1]
    PROVE  LET k2 == ikcp_input(k, m).kcp
           IN  /\ ReceiverInv(k2, lg) /\ DeliveredInv(k2, lg, d) /\ Keeps(k, k2)
               /\ \A sn \in k2.acklist : Holds(k2, sn)
<1> DEFINE k1 == InputHeader(k, m)
           k2 == ikcp_input(k, m).kcp
<1>0. m.wnd \in 0 .. RcvWnd /\ m.sn \in Nat /\ m.una \in Nat /\ m.seg \in Seg /\ m.cmd \in Cmd
  BY DEF WireSeg
<1>1. IsKcpCB(k1)
  BY InputType
<1>2. SameReceiver(k, k1)
  BY DEF InputHeader, ikcp_shrink_buf, ikcp_parse_una, IsKcpCB, SameReceiver
<1>3. ReceiverInv(k1, lg) /\ DeliveredInv(k1, lg, d) /\ \A sn \in k1.acklist : Holds(k1, sn)
  BY <1>2 DEF SameReceiver, ReceiverInv, DeliveredInv, Holds
<1>4. \A k3 : SameReceiver(k1, k3) =>
         /\ ReceiverInv(k3, lg) /\ DeliveredInv(k3, lg, d) /\ Keeps(k, k3)
         /\ \A sn \in k3.acklist : Holds(k3, sn)
  BY <1>2, <1>3 DEF SameReceiver, ReceiverInv, DeliveredInv, Holds, Keeps, IsKcpCB
<1> HIDE DEF k1
<1>5. CASE k2 = k
  <2>1. Keeps(k, k)
    BY DEF Keeps, IsKcpCB
  <2>2. QED
    BY <1>5, <2>1
<1>6. CASE k2 = InputAck(k1, m)
  <2>1. SameReceiver(k1, InputAck(k1, m))
    BY <1>1 DEF InputAck, ikcp_shrink_buf, ikcp_parse_ack, IsKcpCB, SameReceiver
  <2>2. QED
    BY <1>4, <1>6, <2>1
<1>7. CASE k2 = [k1 EXCEPT !.ask_tell = TRUE] \/ k2 = k1
  <2>1. SameReceiver(k1, [k1 EXCEPT !.ask_tell = TRUE]) /\ SameReceiver(k1, k1)
    BY <1>1 DEF IsKcpCB, SameReceiver
  <2>2. QED
    BY <1>4, <1>7, <2>1
<1>8. CASE m.cmd = "PUSH" /\ k2 = InputPush(k1, m)
  <2> DEFINE k3 == [k1 EXCEPT !.acklist = k1.acklist \cup {m.sn}]
             k4 == ikcp_parse_data(k3, m.sn, m.seg)
  <2>0. k.rcv_nxt \in Nat /\ k1.rcv_nxt \in Nat
    BY <1>1 DEF IsKcpCB
  <2>1. CASE m.sn >= k1.rcv_nxt + RcvWnd
    <3>1. k2 = k1
      BY <1>8, <2>1 DEF InputPush
    <3>2. SameReceiver(k1, k1)
      BY DEF SameReceiver
    <3>3. QED
      BY <1>4, <3>1, <3>2
  <2>a. /\ IsKcpCB(k3) /\ k3.rcv_nxt = k1.rcv_nxt /\ k3.rcv_buf = k1.rcv_buf
        /\ k3.rcv_queue = k1.rcv_queue /\ k3.acklist = k1.acklist \cup {m.sn}
    BY <1>0, <1>1 DEF IsKcpCB
  <2> HIDE DEF k3
  <2>b. /\ ReceiverInv(k3, lg) /\ DeliveredInv(k3, lg, d) /\ Keeps(k, k3)
        /\ \A sn \in k3.acklist \ {m.sn} : Holds(k3, sn)
    BY <1>2, <1>3, <2>0, <2>a DEF SameReceiver, ReceiverInv, DeliveredInv, Holds, Keeps
  <2>2. CASE m.sn < k1.rcv_nxt
    <3>1. k2 = k3
      BY <1>0, <1>8, <2>0, <2>2, IkcpAssumption DEF InputPush, k3
    <3>2. Holds(k3, m.sn)
      BY <2>2, <2>a DEF Holds
    <3>3. QED
      BY <2>b, <3>1, <3>2
  <2>3. CASE m.sn >= k1.rcv_nxt /\ m.sn < k1.rcv_nxt + RcvWnd
    <3>1. k2 = k4
      BY <1>0, <1>8, <2>0, <2>3, IkcpAssumption DEF InputPush, k3
    <3>2. /\ ReceiverInv(k4, lg) /\ DeliveredInv(k4, lg, d) /\ Keeps(k3, k4)
          /\ Holds(k4, m.sn) /\ k4.acklist = k3.acklist
      <4>1. /\ m.sn < Len(lg) /\ m.seg = lg[m.sn + 1]
            /\ k3.rcv_nxt <= m.sn /\ m.sn < k3.rcv_nxt + RcvWnd
        BY <1>0, <1>8, <2>0, <2>3, <2>a, IkcpAssumption
      <4>2. QED
        BY <1>0, <2>a, <2>b, <4>1, ParseDataInv
    <3>3. IsKcpCB(k4)
      BY <1>0, <2>a, ParseDataType
    <3> HIDE DEF k4
    <3>4. k3.rcv_nxt \in Nat /\ k4.rcv_nxt \in Nat /\ k4.acklist \subseteq Nat
      BY <2>a, <3>3 DEF IsKcpCB
    <3>5. Keeps(k, k4)
      BY <2>0, <2>b, <3>2, <3>4 DEF Keeps
    <3>6. \A sn \in k4.acklist : Holds(k4, sn)
      BY <2>b, <3>2, <3>4 DEF Keeps
    <3>7. QED
      BY <3>1, <3>2, <3>5, <3>6
  <2>4. QED
    BY <1>0, <2>0, <2>1, <2>2, <2>3, IkcpAssumption
<1>9. QED
  <2>1. \/ k2 = k \/ k2 = InputAck(k1, m) \/ k2 = [k1 EXCEPT !.ask_tell = TRUE] \/ k2 = k1
        \/ m.cmd = "PUSH" /\ k2 = InputPush(k1, m)
    BY <1>0 DEF ikcp_input, k1, Cmd
  <2>2. QED
    BY <2>1, <1>5, <1>6, <1>7, <1>8

(***************************************************************************)
(* ikcp_input in the sending role: only what the receiver holds leaves      *)
(* snd_buf.                                                                 *)
(***************************************************************************)
Shrunk(s, s2, r) ==
    /\ s2.snd_nxt = s.snd_nxt
    /\ DOMAIN s2.snd_buf \subseteq DOMAIN s.snd_buf
    /\ \A sn \in DOMAIN s2.snd_buf : s2.snd_buf[sn] = s.snd_buf[sn]
    /\ \A sn \in DOMAIN s.snd_buf : sn \in DOMAIN s2.snd_buf \/ Holds(r, sn)

LEMMA ShrunkInv ==
    ASSUME NEW s, IsKcpCB(s), NEW s2, NEW r, NEW lg, Shrunk(s, s2, r),
           SenderInv(s, lg), Stored(s, r)
    PROVE  SenderInv(s2, lg) /\ Stored(s2, r)
  BY DEF Shrunk, SenderInv, Stored, IsKcpCB

LEMMA InputSender ==
    ASSUME NEW s, IsKcpCB(s), NEW r, r.rcv_nxt \in Nat, NEW m \in WireSeg,
           m.una <= r.rcv_nxt, m.cmd = "ACK" => Holds(r, m.sn)
    PROVE  Shrunk(s, ikcp_input(s, m).kcp, r)
<1> DEFINE s1 == InputHeader(s, m)
           s2 == ikcp_input(s, m).kcp
<1>0. m.wnd \in 0 .. RcvWnd /\ m.sn \in Nat /\ m.una \in Nat /\ m.seg \in Seg /\ m.cmd \in Cmd
  BY DEF WireSeg
<1>1. IsKcpCB(s1)
  BY InputType
<1>2. s1.snd_nxt = s.snd_nxt /\ s1.snd_buf = Restrict(s.snd_buf, {sn \in DOMAIN s.snd_buf : sn >= m.una})
  BY DEF InputHeader, ikcp_shrink_buf, ikcp_parse_una, IsKcpCB
<1>3. Shrunk(s, s1, r)
  BY <1>0, <1>2 DEF Shrunk, Holds, Restrict, IsKcpCB
<1> HIDE DEF s1
<1>4. \A s3 : SameSender(s1, s3) => Shrunk(s, s3, r)
  BY <1>3 DEF SameSender, Shrunk
<1>5. Shrunk(s, s, r)
  BY DEF Shrunk
<1>6. ASSUME m.cmd = "ACK" PROVE Shrunk(s, InputAck(s1, m), r)
  <2> DEFINE s3 == InputAck(s1, m)
  <2>1. s3.snd_nxt = s1.snd_nxt /\ (s3.snd_buf = s1.snd_buf \/ s3.snd_buf = Restrict(s1.snd_buf, DOMAIN s1.snd_buf \ {m.sn}))
    BY <1>1 DEF InputAck, ikcp_shrink_buf, ikcp_parse_ack, IsKcpCB
  <2> HIDE DEF s3
  <2>2. QED
    BY <1>3, <1>6, <2>1 DEF Shrunk, Restrict, s3
<1>7. SameSender(s1, InputPush(s1, m))
  <2> DEFINE s3 == [s1 EXCEPT !.acklist = s1.acklist \cup {m.sn}]
  <2>1. IsKcpCB(s3) /\ SameSender(s1, s3)
    BY <1>0, <1>1 DEF IsKcpCB, SameSender
  <2>2. SameSender(s1, ikcp_parse_data(s3, m.sn, m.seg))
    <3> DEFINE rb == [x \in DOMAIN s3.rcv_buf \cup {m.sn} |-> IF x = m.sn THEN m.seg ELSE s3.rcv_buf[x]]
               s4 == [s3 EXCEPT !.rcv_buf = rb]
    <3> HIDE DEF s3
    <3>1. DOMAIN rb \subseteq Nat /\ rb \in [DOMAIN rb -> Seg]
      BY <1>0, <2>1 DEF IsKcpCB
    <3> HIDE DEF rb
    <3>2. IsKcpCB(s4) /\ SameSender(s3, s4)
      BY <2>1, <3>1 DEF IsKcpCB, SameSender
    <3> HIDE DEF s4
    <3>3. SameSender(s4, MoveAvailable(s4)) /\ SameSender(s3, MoveAvailable(s3))
      BY <2>1, <3>2, MoveAvailableFields
    <3>4. ikcp_parse_data(s3, m.sn, m.seg) \in {s3, MoveAvailable(s3), MoveAvailable(s4)}
      BY DEF ikcp_parse_data, s4, rb
    <3>5. QED
      BY <2>1, <3>2, <3>3, <3>4 DEF SameSender
  <2>3. SameSender(s1, s1)
    BY DEF SameSender
  <2>4. QED
    BY <2>1, <2>2, <2>3 DEF InputPush
<1>8. SameSender(s1, [s1 EXCEPT !.ask_tell = TRUE]) /\ SameSender(s1, s1)
  BY <1>1 DEF IsKcpCB, SameSender
<1>9. QED
  <2>1. \/ s2 = s
        \/ m.cmd = "ACK" /\ s2 = InputAck(s1, m)
        \/ s2 = [s1 EXCEPT !.ask_tell = TRUE]
        \/ s2 = s1
        \/ s2 = InputPush(s1, m)
    BY <1>0 DEF ikcp_input, s1, Cmd
  <2>2. QED
    BY <2>1, <1>4, <1>5, <1>6, <1>7, <1>8

\* n more segments have got numbers, s2 buffers them and lg2 logs them.
Numbered(s, s2, lg, lg2, n) ==
    /\ n \in Nat
    /\ lg2 \in Seq(Seg) /\ Len(lg2) = Len(lg) + n
    /\ \A i \in 1 .. Len(lg) : lg2[i] = lg[i]
    /\ s2.snd_nxt = s.snd_nxt + n
    /\ DOMAIN s2.snd_buf = DOMAIN s.snd_buf \cup s.snd_nxt .. s.snd_nxt + n - 1
    /\ SenderInv(s2, lg2)

\* ikcp_flush in the sending role: the moved segments get the next numbers.
LEMMA FlushSender ==
    ASSUME NEW s, IsKcpCB(s), NEW cwnd \in Nat, NEW due, NEW probe,
           NEW lg \in Seq(Seg), SenderInv(s, lg)
    PROVE  LET n == Moved(s, cwnd)
               x == ikcp_flush(s, cwnd, due, probe)
               lg2 == lg \o SubSeq(s.snd_queue, 1, n)
           IN  Numbered(s, x.kcp, lg, lg2, n) /\ PushInv(lg2, x.out)
<1> DEFINE n == Moved(s, cwnd)
           x == ikcp_flush(s, cwnd, due, probe)
           mv == SubSeq(s.snd_queue, 1, n)
           lg2 == lg \o mv
           buf == FlushedBuf(s, n, due)
           sending == (due \cap DOMAIN s.snd_buf) \cup s.snd_nxt .. s.snd_nxt + n - 1
<1>1. n \in 0 .. Len(s.snd_queue)
  BY MovedFacts
<1>2. /\ s.snd_nxt \in Nat /\ DOMAIN s.snd_buf \subseteq Nat
      /\ s.snd_queue \in Seq(Seg) /\ Len(s.snd_queue) \in Nat
      /\ s.snd_buf \in [DOMAIN s.snd_buf -> SentSeg]
  BY DEF IsKcpCB
<1>3. mv \in Seq(Seg) /\ Len(mv) = n /\ \A i \in 1 .. n : mv[i] = s.snd_queue[i]
  BY <1>1, <1>2
<1>4. Len(lg) = s.snd_nxt
  BY DEF SenderInv
<1>5. x.kcp.snd_nxt = s.snd_nxt + n /\ x.kcp.snd_buf = buf
  BY DEF ikcp_flush, IsKcpCB
<1>6. DOMAIN buf = DOMAIN s.snd_buf \cup s.snd_nxt .. s.snd_nxt + n - 1
  BY DEF FlushedBuf
<1>7. \A sn \in DOMAIN s.snd_buf : buf[sn].seg = s.snd_buf[sn].seg
  <2> TAKE sn \in DOMAIN s.snd_buf
  <2>1. s.snd_buf[sn] \in SentSeg
    BY <1>2
  <2>2. buf[sn] = [s.snd_buf[sn] EXCEPT !.xmit = IF sn \in due THEN imin(s.snd_buf[sn].xmit + 1, DeadLink)
                                                 ELSE s.snd_buf[sn].xmit]
    BY <1>6 DEF FlushedBuf
  <2>3. QED
    BY <2>1, <2>2 DEF SentSeg
<1>8. \A sn \in DOMAIN buf \ DOMAIN s.snd_buf : buf[sn].seg = s.snd_queue[sn - s.snd_nxt + 1]
  BY <1>6 DEF FlushedBuf
<1>9. (\A sn \in sending : sn < Len(lg2) /\ buf[sn].seg = lg2[sn + 1]) => PushInv(lg2, x.out)
  <2>1. \A m \in x.out : m.cmd = "PUSH" =>
           \E sn \in sending : m.sn = sn /\ m.seg = buf[sn].seg
    BY DEF ikcp_flush, Header
  <2> HIDE DEF sending, buf, x, lg2
  <2>2. QED
    BY <2>1 DEF PushInv
<1> HIDE DEF buf, n, mv, x
<1>10. /\ lg2 \in Seq(Seg) /\ Len(lg2) = Len(lg) + n
       /\ \A i \in 1 .. Len(lg) : lg2[i] = lg[i]
       /\ \A i \in 1 .. n : lg2[Len(lg) + i] = mv[i]
  <2>1. mv \in Seq(Seg)
    BY <1>3
  <2>2. /\ lg2 \in Seq(Seg) /\ Len(lg2) = Len(lg) + Len(mv)
        /\ \A i \in 1 .. Len(lg) : lg2[i] = lg[i]
        /\ \A i \in 1 .. Len(mv) : lg2[Len(lg) + i] = mv[i]
    BY ONLY <2>1, ConcatFacts, lg \in Seq(Seg)
  <2>3. QED
    BY <1>3, <2>2
<1> HIDE DEF lg2
<1>11. ASSUME NEW sn \in DOMAIN buf PROVE sn < Len(lg2) /\ buf[sn].seg = lg2[sn + 1]
  <2>1. CASE sn \in DOMAIN s.snd_buf
    <3>1. sn < s.snd_nxt /\ s.snd_buf[sn].seg = lg[sn + 1]
      BY <2>1 DEF SenderInv
    <3>2. sn + 1 \in 1 .. Len(lg)
      BY <1>2, <1>4, <2>1, <3>1
    <3>3. QED
      BY <1>1, <1>2, <1>4, <1>7, <1>10, <2>1, <3>1, <3>2
  <2>2. CASE sn \notin DOMAIN s.snd_buf
    <3>1. sn \in s.snd_nxt .. s.snd_nxt + n - 1
      BY <1>6, <2>2
    <3>2. sn - s.snd_nxt + 1 \in 1 .. n /\ sn + 1 = Len(lg) + (sn - s.snd_nxt + 1)
      BY <1>1, <1>2, <1>4, <3>1
    <3>3. lg2[sn + 1] = s.snd_queue[sn - s.snd_nxt + 1]
      BY <1>3, <1>10, <3>2
    <3>4. QED
      BY <1>1, <1>2, <1>4, <1>8, <1>10, <2>2, <3>1, <3>3
  <2>3. QED
    BY <2>1, <2>2
<1>12. SenderInv(x.kcp, lg2)
  BY <1>4, <1>5, <1>10, <1>11 DEF SenderInv
<1>13. PushInv(lg2, x.out)
  <2>1. sending \subseteq DOMAIN buf
    BY <1>6
  <2>2. QED
    BY <2>1, <1>9, <1>11
<1>14. n \in Nat
  BY <1>1, <1>2
<1>15. Numbered(s, x.kcp, lg, lg2, n)
  BY <1>5, <1>6, <1>10, <1>12, <1>14 DEF Numbered
<1>16. QED
  BY <1>13, <1>15 DEF n, x, lg2, mv

LEMMA NumberedInv ==
    ASSUME NEW s, NEW s2, NEW r, NEW lg \in Seq(Seg), NEW lg2, NEW d \in Seq(Seg), NEW n,
           NEW toR, NEW toS, NEW kept,
           IsKcpCB(s), IsKcpCB(r), toR \subseteq WireSeg,
           Numbered(s, s2, lg, lg2, n), PushInv(lg2, kept), DirInv(s, r, lg, d, toR, toS)
    PROVE  DirInv(s2, r, lg2, d, toR \cup kept, toS)
<1>1. /\ Len(lg) \in Nat /\ s.snd_nxt \in Nat /\ r.rcv_nxt \in Nat /\ Len(d) \in Nat
      /\ DOMAIN r.rcv_buf \subseteq Nat /\ Len(r.rcv_queue) \in Nat
  BY DEF IsKcpCB
<1>2. /\ n \in Nat /\ Len(lg2) = Len(lg) + n /\ \A i \in 1 .. Len(lg) : lg2[i] = lg[i]
      /\ s2.snd_nxt = s.snd_nxt + n /\ SenderInv(s2, lg2)
      /\ DOMAIN s2.snd_buf = DOMAIN s.snd_buf \cup s.snd_nxt .. s.snd_nxt + n - 1
  BY DEF Numbered
<1>3. /\ PushInv(lg, toR) /\ AckInv(r, toS) /\ ReceiverInv(r, lg) /\ Stored(s, r)
      /\ DeliveredInv(r, lg, d)
  BY DEF DirInv
<1>4. PushInv(lg2, toR \cup kept)
  <2>1. \A m \in toR : m.sn \in Nat
    BY DEF WireSeg
  <2>2. \A m \in toR : m.cmd = "PUSH" => m.sn < Len(lg) /\ m.seg = lg[m.sn + 1]
    BY <1>3 DEF PushInv
  <2>3. ASSUME NEW m \in toR, m.cmd = "PUSH" PROVE m.sn < Len(lg2) /\ m.seg = lg2[m.sn + 1]
    <3>1. m.sn + 1 \in 1 .. Len(lg)
      BY <1>1, <2>1, <2>2, <2>3
    <3>2. QED
      BY <1>1, <1>2, <2>1, <2>2, <2>3, <3>1
  <2>4. QED
    BY <2>3 DEF PushInv
<1>5. ReceiverInv(r, lg2)
  <2>1. r.rcv_nxt <= Len(lg2)
    BY <1>1, <1>2, <1>3 DEF ReceiverInv
  <2>2. ASSUME NEW sn \in DOMAIN r.rcv_buf
        PROVE  r.rcv_nxt <= sn /\ sn < Len(lg2) /\ r.rcv_buf[sn] = lg2[sn + 1]
    <3>1. r.rcv_nxt <= sn /\ sn < Len(lg) /\ r.rcv_buf[sn] = lg[sn + 1]
      BY <1>3 DEF ReceiverInv
    <3>2. sn + 1 \in 1 .. Len(lg)
      BY <1>1, <3>1
    <3>3. QED
      BY <1>1, <1>2, <3>1, <3>2
  <2>3. QED
    BY <2>1, <2>2 DEF ReceiverInv
<1>6. Stored(s2, r)
  <2>1. ASSUME NEW sn \in 0 .. s.snd_nxt + n - 1
        PROVE  sn \in DOMAIN s2.snd_buf \/ Holds(r, sn)
    <3>1. CASE sn < s.snd_nxt
      BY <1>1, <1>2, <1>3, <3>1 DEF Stored
    <3>2. CASE sn >= s.snd_nxt
      BY <1>1, <1>2, <3>2
    <3>3. QED
      BY <1>1, <1>2, <3>1, <3>2
  <2>2. s2.snd_nxt = s.snd_nxt + n /\ s.snd_nxt \in Nat /\ n \in Nat
    BY <1>1, <1>2
  <2>3. \A sn \in 0 .. s2.snd_nxt - 1 : sn \in DOMAIN s2.snd_buf \/ Holds(r, sn)
    BY ONLY <2>1, <2>2
  <2>4. QED
    BY <2>3 DEF Stored
<1>7. DeliveredInv(r, lg2, d)
  <2>1. Len(d) + Len(r.rcv_queue) = r.rcv_nxt /\ r.rcv_nxt <= Len(lg)
    BY <1>3 DEF DeliveredInv, ReceiverInv
  <2>2. \A i \in 1 .. Len(d) : d[i] = lg2[i]
    BY <1>1, <1>2, <1>3, <2>1 DEF DeliveredInv
  <2>3. ASSUME NEW i \in 1 .. Len(r.rcv_queue) PROVE r.rcv_queue[i] = lg2[Len(d) + i]
    <3>1. r.rcv_queue[i] = lg[Len(d) + i]
      BY <1>3 DEF DeliveredInv
    <3>2. Len(d) + i \in 1 .. Len(lg)
      BY <1>1, <2>1
    <3>3. QED
      BY <1>2, <3>1, <3>2
  <2>4. QED
    BY <2>1, <2>2, <2>3 DEF DeliveredInv
<1>8. QED
  BY <1>2, <1>3, <1>4, <1>5, <1>6, <1>7 DEF DirInv

\* ikcp_flush in the receiving role: it acknowledges what it holds.
LEMMA FlushReceiver ==
    ASSUME NEW k, IsKcpCB(k), NEW cwnd \in Nat, NEW due, NEW probe
    PROVE  LET x == ikcp_flush(k, cwnd, due, probe)
           IN  /\ x.kcp.rcv_nxt = k.rcv_nxt /\ x.kcp.rcv_buf = k.rcv_buf
               /\ x.kcp.rcv_queue = k.rcv_queue /\ x.kcp.acklist = {}
               /\ \A m \in x.out : m.una = k.rcv_nxt /\ (m.cmd = "ACK" => m.sn \in k.acklist)
<1> DEFINE x == ikcp_flush(k, cwnd, due, probe)
<1>1. /\ x.kcp.rcv_nxt = k.rcv_nxt /\ x.kcp.rcv_buf = k.rcv_buf
      /\ x.kcp.rcv_queue = k.rcv_queue /\ x.kcp.acklist = {}
  BY DEF ikcp_flush, IsKcpCB
<1>2. \A m \in x.out : m.una = k.rcv_nxt /\ (m.cmd = "ACK" => m.sn \in k.acklist)
  BY DEF ikcp_flush, Header
<1>3. QED
  BY <1>1, <1>2

LEMMA AcknowledgedInv ==
    ASSUME NEW s, NEW r, NEW r2, NEW lg, NEW d, NEW toR, NEW toS, NEW kept,
           IsKcpCB(r), DirInv(s, r, lg, d, toR, toS),
           r2.rcv_nxt = r.rcv_nxt, r2.rcv_buf = r.rcv_buf, r2.rcv_queue = r.rcv_queue,
           r2.acklist = {},
           \A m \in kept : m.una = r.rcv_nxt /\ (m.cmd = "ACK" => m.sn \in r.acklist)
    PROVE  DirInv(s, r2, lg, d, toR, toS \cup kept)
<1>1. /\ SenderInv(s, lg) /\ PushInv(lg, toR) /\ AckInv(r, toS) /\ ReceiverInv(r, lg)
      /\ Stored(s, r) /\ DeliveredInv(r, lg, d) /\ r.rcv_nxt \in Nat
  BY DEF DirInv, IsKcpCB
<1>2. \A sn : Holds(r2, sn) <=> Holds(r, sn)
  BY DEF Holds
<1>3. AckInv(r2, toS \cup kept)
  <2>1. \A m \in kept : m.una <= r2.rcv_nxt /\ (m.cmd = "ACK" => Holds(r2, m.sn))
    BY <1>1, <1>2 DEF AckInv
  <2>2. \A m \in toS : m.una <= r2.rcv_nxt /\ (m.cmd = "ACK" => Holds(r2, m.sn))
    BY <1>1, <1>2 DEF AckInv
  <2>3. QED
    BY <2>1, <2>2 DEF AckInv
<1>4. ReceiverInv(r2, lg) /\ DeliveredInv(r2, lg, d)
  BY <1>1 DEF ReceiverInv, DeliveredInv
<1>5. Stored(s, r2)
  BY <1>1, <1>2 DEF Stored
<1>6. QED
  BY <1>1, <1>3, <1>4, <1>5 DEF DirInv

(***************************************************************************)
(* ikcp_recv: a frame goes from the queue to the application, and what the  *)
(* queue has room for follows.                                              *)
(***************************************************************************)
LEMMA RecvReceiver ==
    ASSUME NEW k, IsKcpCB(k), k.rcv_queue # <<>>, NEW lg \in Seq(Seg), NEW d \in Seq(Seg),
           ReceiverInv(k, lg), DeliveredInv(k, lg, d)
    PROVE  LET r == ikcp_recv(k)
           IN  /\ ReceiverInv(r.kcp, lg) /\ DeliveredInv(r.kcp, lg, d \o r.frame)
               /\ Keeps(k, r.kcp) /\ r.kcp.acklist = k.acklist /\ SameSender(k, r.kcp)
<1> DEFINE q == k.rcv_queue
           n == FrameFragments(q)
           rest == SubSeq(q, n + 1, Len(q))
           k0 == [k EXCEPT !.rcv_queue = rest]
           k1 == MoveAvailable(k0)
           r == ikcp_recv(k)
           d2 == d \o r.frame
<1>1. /\ n \in 1 .. Len(q) /\ r.frame = SubSeq(q, 1, n) /\ r.frame \in Seq(Seg)
      /\ Len(r.frame) = n /\ IsKcpCB(k0) /\ IsKcpCB(k1)
      /\ r.kcp = [k1 EXCEPT !.ask_tell = r.kcp.ask_tell]
  BY RecvFacts
<1>2. /\ q \in Seq(Seg) /\ Len(q) \in Nat /\ Len(d) \in Nat /\ Len(lg) \in Nat
      /\ k.rcv_nxt \in Nat
  BY DEF IsKcpCB
<1>3. Len(rest) = Len(q) - n /\ \A i \in 1 .. Len(rest) : rest[i] = q[n + i]
  <2>1. n \in 0 .. Len(q) /\ q \in Seq(Seg)
    BY <1>1, <1>2
  <2> HIDE DEF n, q
  <2>2. QED
    BY ONLY <2>1, DropFacts
<1> HIDE DEF n, rest, r
<1>4. /\ k0.rcv_nxt = k.rcv_nxt /\ k0.rcv_buf = k.rcv_buf /\ k0.rcv_queue = rest
      /\ k0.acklist = k.acklist /\ SameSender(k, k0)
  BY DEF IsKcpCB, SameSender
<1> HIDE DEF k0, q
<1>5. /\ d2 \in Seq(Seg) /\ Len(d2) = Len(d) + n
      /\ \A i \in 1 .. Len(d) : d2[i] = d[i]
      /\ \A i \in 1 .. n : d2[Len(d) + i] = q[i]
  <2>1. r.frame \in Seq(Seg)
    BY <1>1
  <2>2. /\ d2 \in Seq(Seg) /\ Len(d2) = Len(d) + Len(r.frame)
        /\ \A i \in 1 .. Len(d) : d2[i] = d[i]
        /\ \A i \in 1 .. Len(r.frame) : d2[Len(d) + i] = r.frame[i]
    BY ONLY <2>1, ConcatFacts, d \in Seq(Seg)
  <2>3. \A i \in 1 .. n : r.frame[i] = q[i]
    BY <1>1, <1>2
  <2>4. QED
    BY <1>1, <2>2, <2>3
<1> HIDE DEF d2
<1>6. DeliveredInv(k0, lg, d2)
  <2>1. /\ Len(d) + Len(q) = k.rcv_nxt
        /\ \A i \in 1 .. Len(d) : d[i] = lg[i]
        /\ \A i \in 1 .. Len(q) : q[i] = lg[Len(d) + i]
    BY DEF DeliveredInv, q
  <2>2. Len(d2) + Len(k0.rcv_queue) = k0.rcv_nxt
    BY <1>1, <1>2, <1>3, <1>4, <1>5, <2>1
  <2>3. ASSUME NEW i \in 1 .. Len(d2) PROVE d2[i] = lg[i]
    <3>1. CASE i <= Len(d)
      BY <1>2, <1>5, <2>1, <3>1
    <3>2. CASE i > Len(d)
      <4>1. i - Len(d) \in 1 .. n /\ i = Len(d) + (i - Len(d)) /\ i - Len(d) \in 1 .. Len(q)
        BY <1>1, <1>2, <1>5, <3>2
      <4>2. d2[Len(d) + (i - Len(d))] = q[i - Len(d)]
        BY <1>5, <4>1
      <4>3. q[i - Len(d)] = lg[Len(d) + (i - Len(d))]
        BY <2>1, <4>1
      <4>4. QED
        BY <4>1, <4>2, <4>3
    <3>3. QED
      BY <1>1, <1>2, <1>5, <3>1, <3>2
  <2>4. ASSUME NEW i \in 1 .. Len(rest) PROVE rest[i] = lg[Len(d2) + i]
    <3>1. n + i \in 1 .. Len(q) /\ Len(d) + (n + i) = Len(d2) + i
      BY <1>1, <1>2, <1>3, <1>5
    <3>2. rest[i] = q[n + i] /\ q[n + i] = lg[Len(d) + (n + i)]
      BY <1>3, <2>1, <3>1
    <3>3. QED
      BY <3>1, <3>2
  <2>5. QED
    BY <1>4, <2>2, <2>3, <2>4 DEF DeliveredInv
<1>7. ReceiverInv(k0, lg) /\ Keeps(k, k0)
  BY <1>2, <1>4 DEF ReceiverInv, Keeps, Holds
<1>8. /\ ReceiverInv(k1, lg) /\ DeliveredInv(k1, lg, d2) /\ Keeps(k0, k1)
      /\ k1.acklist = k0.acklist /\ SameSender(k0, k1)
  BY <1>1, <1>5, <1>6, <1>7, MoveAvailableInv, MoveAvailableFields
<1> HIDE DEF k1
<1>9. SameReceiver(k1, r.kcp) /\ SameSender(k1, r.kcp)
  BY <1>1 DEF IsKcpCB, SameReceiver, SameSender
<1>10. ReceiverInv(r.kcp, lg) /\ DeliveredInv(r.kcp, lg, d2)
  BY <1>8, <1>9 DEF ReceiverInv, DeliveredInv, SameReceiver
<1>11. Keeps(k, r.kcp)
  <2>1. k0.rcv_nxt \in Nat /\ k1.rcv_nxt \in Nat
    BY <1>1 DEF IsKcpCB
  <2>2. QED
    BY <1>2, <1>7, <1>8, <1>9, <2>1 DEF Keeps, Holds, SameReceiver
<1>12. r.kcp.acklist = k.acklist /\ SameSender(k, r.kcp)
  BY <1>4, <1>8, <1>9 DEF SameReceiver, SameSender
<1>13. QED
  BY <1>10, <1>11, <1>12 DEF r, d2

-----------------------------------------------------------------------------
(***************************************************************************)
(* The inductive invariant.                                                 *)
(***************************************************************************)
LEMMA ArqInit == Init => ArqInv
<1> SUFFICES ASSUME Init, NEW e \in End
             PROVE  DirInv(kcp[e], kcp[Peer(e)], log[e], dlv[Peer(e)], net[Peer(e)], net[e])
  BY DEF ArqInv
<1> DEFINE c == ikcp_create(Conv)
<1>1. /\ kcp[e] = c /\ kcp[Peer(e)] = c /\ log[e] = <<>> /\ dlv[Peer(e)] = <<>>
      /\ net[Peer(e)] = {} /\ net[e] = {}
  BY PeerFacts DEF Init
<1>2. /\ c.snd_nxt = 0 /\ c.rcv_nxt = 0 /\ DOMAIN c.snd_buf = {} /\ DOMAIN c.rcv_buf = {}
      /\ c.rcv_queue = <<>> /\ c.acklist = {}
  BY DEF ikcp_create, EmptyBuf
<1> HIDE DEF c
<1>3. QED
  BY <1>1, <1>2 DEF DirInv, SenderInv, PushInv, AckInv, ReceiverInv, Stored, DeliveredInv, Holds

\* The two directions, seen from the end x that takes a step.
LEMMA TwoDirections ==
    ASSUME NEW x \in End,
           DirInv(kcp'[x], kcp'[Peer(x)], log'[x], dlv'[Peer(x)], net'[Peer(x)], net'[x]),
           DirInv(kcp'[Peer(x)], kcp'[x], log'[Peer(x)], dlv'[x], net'[x], net'[Peer(x)])
    PROVE  ArqInv'
<1>1. \A e \in End : e = x \/ e = Peer(x)
  BY DEF End, Peer
<1>2. QED
  BY <1>1, PeerFacts DEF ArqInv

\* A change of one end that leaves both roles alone.
LEMMA SameRoles ==
    ASSUME NEW s, NEW s2, NEW r, NEW r2, SameSender(s, s2), SameReceiver(r, r2),
           NEW lg, NEW d, NEW toR, NEW toS, DirInv(s, r, lg, d, toR, toS)
    PROVE  DirInv(s2, r2, lg, d, toR, toS)
  BY DEF SameSender, SameReceiver, DirInv, SenderInv, PushInv, AckInv, ReceiverInv, Stored,
         DeliveredInv, Holds

LEMMA SameRefl == \A k : SameSender(k, k) /\ SameReceiver(k, k)
  BY DEF SameSender, SameReceiver

LEMMA SendStep ==
    ASSUME TypeOK, ArqInv, NEW x \in Writers, NEW len \in FrameLens, Send(x, len)
    PROVE  ArqInv'
<1> DEFINE k2 == ikcp_send(kcp[x], LastOr0(sent[x]), len).kcp
<1>1. x \in End /\ len \in Nat \ {0} /\ LastOr0(sent[x]) \in Nat /\ IsKcpCB(kcp[x])
  BY ArqAssumption, LastOr0Type DEF TypeOK
<1>2. k2 = [kcp[x] EXCEPT !.snd_queue = k2.snd_queue]
  BY <1>1, SendFacts
<1>3. /\ kcp' = [kcp EXCEPT ![x] = k2]
      /\ UNCHANGED <<net, log, dlv>>
  BY DEF Send
<1> HIDE DEF k2
<1>4. SameSender(kcp[x], k2) /\ SameReceiver(kcp[x], k2)
  BY <1>1, <1>2 DEF IsKcpCB, SameSender, SameReceiver
<1>5. kcp'[x] = k2 /\ kcp'[Peer(x)] = kcp[Peer(x)] /\ Peer(x) \in End
  BY <1>1, <1>3, PeerFacts DEF TypeOK
<1>6. /\ DirInv(kcp[x], kcp[Peer(x)], log[x], dlv[Peer(x)], net[Peer(x)], net[x])
      /\ DirInv(kcp[Peer(x)], kcp[x], log[Peer(x)], dlv[x], net[x], net[Peer(x)])
  BY <1>1, <1>5, PeerFacts DEF ArqInv
<1>7. /\ DirInv(k2, kcp[Peer(x)], log[x], dlv[Peer(x)], net[Peer(x)], net[x])
      /\ DirInv(kcp[Peer(x)], k2, log[Peer(x)], dlv[x], net[x], net[Peer(x)])
  BY <1>4, <1>6, SameRefl, SameRoles
<1>8. QED
  BY <1>1, <1>3, <1>5, <1>7, TwoDirections

LEMMA FlushStep ==
    ASSUME TypeOK, ArqInv, NEW x \in End, NEW cwnd \in Nat, NEW due, NEW probe, NEW kept,
           Flush(x, cwnd, due, probe, kept)
    PROVE  ArqInv'
<1> DEFINE k == kcp[x]
           p == Peer(x)
           f == ikcp_flush(k, cwnd, due, probe)
           n == Moved(k, cwnd)
           lg2 == log[x] \o SubSeq(k.snd_queue, 1, n)
<1>1. p \in End /\ p # x /\ IsKcpCB(k) /\ IsKcpCB(kcp[p]) /\ log[x] \in Seq(Seg)
      /\ log[p] \in Seq(Seg)
  BY PeerFacts DEF TypeOK
<1>2. /\ DirInv(k, kcp[p], log[x], dlv[p], net[p], net[x])
      /\ DirInv(kcp[p], k, log[p], dlv[x], net[x], net[p])
  BY <1>1, PeerFacts DEF ArqInv
<1>3. /\ kcp'[x] = f.kcp /\ kcp'[p] = kcp[p] /\ log'[x] = lg2 /\ log'[p] = log[p]
      /\ net'[p] = net[p] \cup kept /\ net'[x] = net[x] /\ kept \subseteq f.out
      /\ dlv' = dlv
  BY <1>1 DEF Flush, TypeOK
<1>4. DirInv(f.kcp, kcp[p], lg2, dlv[p], net[p] \cup kept, net[x])
  <2>1. SenderInv(k, log[x])
    BY <1>2 DEF DirInv
  <2>2. Numbered(k, f.kcp, log[x], lg2, n) /\ PushInv(lg2, f.out)
    BY <1>1, <2>1, FlushSender
  <2>3. PushInv(lg2, kept)
    BY <1>3, <2>2 DEF PushInv
  <2>4. dlv[p] \in Seq(Seg) /\ net[p] \subseteq WireSeg
    BY <1>1 DEF TypeOK
  <2> HIDE DEF f, lg2, n, k, p
  <2>5. QED
    BY <1>1, <1>2, <2>2, <2>3, <2>4, NumberedInv
<1>5. DirInv(kcp[p], f.kcp, log[p], dlv[x], net[x], net[p] \cup kept)
  <2>1. /\ f.kcp.rcv_nxt = k.rcv_nxt /\ f.kcp.rcv_buf = k.rcv_buf
        /\ f.kcp.rcv_queue = k.rcv_queue /\ f.kcp.acklist = {}
        /\ \A m \in f.out : m.una = k.rcv_nxt /\ (m.cmd = "ACK" => m.sn \in k.acklist)
    BY <1>1, FlushReceiver
  <2> HIDE DEF f, k, p
  <2>2. QED
    BY <1>1, <1>2, <1>3, <2>1, AcknowledgedInv
<1>6. QED
  BY <1>3, <1>4, <1>5, TwoDirections

LEMMA InputStep ==
    ASSUME TypeOK, ArqInv, NEW x \in End, NEW again \in BOOLEAN, NEW m \in net[x],
           Input(x, m, again)
    PROVE  ArqInv'
<1> DEFINE k == kcp[x]
           p == Peer(x)
           k2 == ikcp_input(k, m).kcp
<1>1. p \in End /\ p # x /\ IsKcpCB(k) /\ IsKcpCB(kcp[p]) /\ m \in WireSeg
      /\ log[x] \in Seq(Seg) /\ log[p] \in Seq(Seg) /\ dlv[x] \in Seq(Seg)
  BY PeerFacts DEF TypeOK
<1>2. /\ DirInv(k, kcp[p], log[x], dlv[p], net[p], net[x])
      /\ DirInv(kcp[p], k, log[p], dlv[x], net[x], net[p])
  BY <1>1, PeerFacts DEF ArqInv
<1>3. /\ kcp'[x] = k2 /\ kcp'[p] = kcp[p] /\ log' = log /\ dlv' = dlv
      /\ net'[p] = net[p] /\ net'[x] \subseteq net[x]
  BY <1>1 DEF Input, TypeOK
<1>4. DirInv(k2, kcp[p], log[x], dlv[p], net'[p], net'[x])
  <2>1. /\ SenderInv(k, log[x]) /\ PushInv(log[x], net[p]) /\ AckInv(kcp[p], net[x])
        /\ ReceiverInv(kcp[p], log[x]) /\ Stored(k, kcp[p]) /\ DeliveredInv(kcp[p], log[x], dlv[p])
    BY <1>2 DEF DirInv
  <2>2. m.una <= kcp[p].rcv_nxt /\ (m.cmd = "ACK" => Holds(kcp[p], m.sn)) /\ kcp[p].rcv_nxt \in Nat
    BY <1>1, <2>1 DEF AckInv, IsKcpCB
  <2>3. Shrunk(k, k2, kcp[p])
    BY <1>1, <2>2, InputSender
  <2> HIDE DEF k2, k, p
  <2>4. SenderInv(k2, log[x]) /\ Stored(k2, kcp[p])
    BY <1>1, <2>1, <2>3, ShrunkInv
  <2>5. PushInv(log[x], net'[p]) /\ AckInv(kcp[p], net'[x])
    BY <1>3, <2>1 DEF PushInv, AckInv
  <2>6. QED
    BY <2>1, <2>4, <2>5 DEF DirInv
<1>5. DirInv(kcp[p], k2, log[p], dlv[x], net'[x], net'[p])
  <2>1. /\ SenderInv(kcp[p], log[p]) /\ PushInv(log[p], net[x]) /\ AckInv(k, net[p])
        /\ ReceiverInv(k, log[p]) /\ Stored(kcp[p], k) /\ DeliveredInv(k, log[p], dlv[x])
    BY <1>2 DEF DirInv
  <2>2. /\ \A sn \in k.acklist : Holds(k, sn)
        /\ m.cmd = "PUSH" => m.sn < Len(log[p]) /\ m.seg = log[p][m.sn + 1]
    BY <2>1 DEF AckInv, PushInv
  <2>3. /\ ReceiverInv(k2, log[p]) /\ DeliveredInv(k2, log[p], dlv[x]) /\ Keeps(k, k2)
        /\ \A sn \in k2.acklist : Holds(k2, sn)
    BY <1>1, <2>1, <2>2, InputReceiver
  <2>4. IsKcpCB(k2)
    BY <1>1, InputType
  <2> HIDE DEF k2, k
  <2>5. k.rcv_nxt \in Nat /\ k2.rcv_nxt \in Nat /\ kcp[p].snd_nxt \in Nat
    BY <1>1, <2>4 DEF IsKcpCB
  <2>6. AckInv(k2, net[p])
    <3>1. \A q \in net[p] : q.una \in Nat /\ q.sn \in Nat
      BY <1>1 DEF TypeOK, WireSeg
    <3>2. QED
      BY <2>1, <2>3, <2>5, <3>1 DEF AckInv, Keeps
  <2>7. Stored(kcp[p], k2)
    BY <2>1, <2>3, <2>5 DEF Stored, Keeps
  <2>8. PushInv(log[p], net'[x])
    BY <1>3, <2>1 DEF PushInv
  <2>9. QED
    BY <1>3, <2>1, <2>3, <2>6, <2>7, <2>8 DEF DirInv
<1>6. QED
  BY <1>3, <1>4, <1>5, TwoDirections

LEMMA RecvStep == ASSUME TypeOK, ArqInv, NEW x \in End, Recv(x) PROVE ArqInv'
<1> DEFINE k == kcp[x]
           p == Peer(x)
           r == ikcp_recv(k)
<1>1. p \in End /\ p # x /\ IsKcpCB(k) /\ IsKcpCB(kcp[p])
      /\ log[x] \in Seq(Seg) /\ log[p] \in Seq(Seg) /\ dlv[x] \in Seq(Seg)
  BY PeerFacts DEF TypeOK
<1>2. /\ DirInv(k, kcp[p], log[x], dlv[p], net[p], net[x])
      /\ DirInv(kcp[p], k, log[p], dlv[x], net[x], net[p])
  BY <1>1, PeerFacts DEF ArqInv
<1>3. /\ kcp'[x] = r.kcp /\ kcp'[p] = kcp[p] /\ log' = log /\ net' = net
      /\ dlv'[x] = dlv[x] \o r.frame /\ dlv'[p] = dlv[p]
  BY <1>1 DEF Recv, TypeOK
<1>4. k.rcv_queue # <<>>
  BY DEF Recv, ikcp_peeksize
<1>5. ReceiverInv(k, log[p]) /\ DeliveredInv(k, log[p], dlv[x])
  BY <1>2 DEF DirInv
<1>6. /\ ReceiverInv(r.kcp, log[p]) /\ DeliveredInv(r.kcp, log[p], dlv[x] \o r.frame)
      /\ Keeps(k, r.kcp) /\ r.kcp.acklist = k.acklist /\ SameSender(k, r.kcp)
  BY <1>1, <1>4, <1>5, RecvReceiver
<1>7. IsKcpCB(r.kcp)
  BY <1>1, <1>4, RecvFacts
<1> HIDE DEF r, k, p
<1>8. DirInv(r.kcp, kcp[p], log[x], dlv[p], net[p], net[x])
  BY <1>2, <1>6, SameRefl, SameRoles
<1>9. DirInv(kcp[p], r.kcp, log[p], dlv[x] \o r.frame, net[x], net[p])
  <2>1. k.rcv_nxt \in Nat /\ r.kcp.rcv_nxt \in Nat /\ k.acklist \subseteq Nat /\ kcp[p].snd_nxt \in Nat
    BY <1>1, <1>7 DEF IsKcpCB
  <2>2. AckInv(k, net[p]) /\ Stored(kcp[p], k) /\ SenderInv(kcp[p], log[p]) /\ PushInv(log[p], net[x])
    BY <1>2 DEF DirInv
  <2>3. \A q \in net[p] : q.una \in Nat /\ q.sn \in Nat
    BY <1>1 DEF TypeOK, WireSeg
  <2>4. AckInv(r.kcp, net[p])
    BY <1>6, <2>1, <2>2, <2>3 DEF AckInv, Keeps
  <2>5. Stored(kcp[p], r.kcp)
    BY <1>6, <2>1, <2>2 DEF Stored, Keeps
  <2>6. QED
    BY <1>6, <2>2, <2>4, <2>5 DEF DirInv
<1>10. QED
  BY <1>3, <1>8, <1>9, TwoDirections DEF k, p

LEMMA ArqStep == TypeOK /\ ArqInv /\ [Next]_vars => ArqInv'
<1> SUFFICES ASSUME TypeOK, ArqInv, [Next]_vars PROVE ArqInv'
  OBVIOUS
<1>1. ASSUME NEW e \in End, NEW cwnd \in 1 .. SndWnd, NEW probe, NEW due, NEW kept,
             Flush(e, cwnd, due, probe, kept)
      PROVE  ArqInv'
  <2>1. cwnd \in Nat
    BY IkcpAssumption
  <2>2. QED
    BY <1>1, <2>1, FlushStep
<1>2. CASE UNCHANGED vars
  BY <1>2 DEF vars, ArqInv
<1>3. QED
  BY <1>1, <1>2, SendStep, InputStep, RecvStep DEF Next

(***************************************************************************)
(* For every window, segment size, mode and bound, every copy of a segment  *)
(* agrees with the number it was given, and only what the receiver holds is *)
(* ever acknowledged.                                                       *)
(***************************************************************************)
THEOREM ArqInvariant == Spec => []ArqInv
  BY ArqInit, ArqStep, TypeInit, TypeStep, PTL DEF Spec

(***************************************************************************)
(* Nothing that has left the sender's buffer is missing at the receiver.    *)
(***************************************************************************)
THEOREM NothingAckedIsLost == Spec => []AckedIsStored
<1>1. ArqInv => AckedIsStored
  BY DEF ArqInv, DirInv, AckedIsStored
<1>2. QED
  BY <1>1, ArqInvariant, PTL

-----------------------------------------------------------------------------
(***************************************************************************)
(* From the log to the bytes of the accepted frames.                        *)
(***************************************************************************)
LEMMA SeqExt ==
    ASSUME NEW S, NEW s \in Seq(S), NEW t \in Seq(S), Len(s) = Len(t),
           \A i \in 1 .. Len(s) : s[i] = t[i]
    PROVE  s = t
  OBVIOUS

LEMMA ConcatAssoc ==
    ASSUME NEW S, NEW s \in Seq(S), NEW t \in Seq(S), NEW u \in Seq(S)
    PROVE  (s \o t) \o u = s \o (t \o u)
  OBVIOUS

\* Cutting a sequence in two and joining the parts.
LEMMA CutAndJoin ==
    ASSUME NEW S, NEW s \in Seq(S), NEW n \in 0 .. Len(s)
    PROVE  SubSeq(s, 1, n) \o SubSeq(s, n + 1, Len(s)) = s
<1> DEFINE a == SubSeq(s, 1, n)
           b == SubSeq(s, n + 1, Len(s))
<1>1. Len(s) \in Nat /\ n \in Nat
  OBVIOUS
<1>2. a \in Seq(S) /\ Len(a) = n /\ \A i \in 1 .. n : a[i] = s[i]
  BY <1>1
<1>3. b \in Seq(S) /\ Len(b) = Len(s) - n /\ \A i \in 1 .. Len(b) : b[i] = s[n + i]
  BY DropFacts
<1> HIDE DEF a, b
<1>4. /\ a \o b \in Seq(S) /\ Len(a \o b) = Len(a) + Len(b)
      /\ \A i \in 1 .. Len(a) : (a \o b)[i] = a[i]
      /\ \A i \in 1 .. Len(b) : (a \o b)[Len(a) + i] = b[i]
  BY <1>2, <1>3, ConcatFacts
<1>5. ASSUME NEW i \in 1 .. Len(s) PROVE (a \o b)[i] = s[i]
  <2>1. CASE i <= n
    BY <1>1, <1>2, <1>4, <2>1
  <2>2. CASE i > n
    <3>1. i - n \in 1 .. Len(b) /\ n + (i - n) = i
      BY <1>1, <1>3, <2>2
    <3>2. (a \o b)[n + (i - n)] = b[i - n] /\ b[i - n] = s[n + (i - n)]
      BY <1>2, <1>3, <1>4, <3>1
    <3>3. QED
      BY <3>1, <3>2
  <2>3. i <= n \/ i > n
    BY ONLY <1>1, i \in 1 .. Len(s)
  <2>4. QED
    BY ONLY <2>1, <2>2, <2>3
<1>6. Len(a \o b) = Len(s)
  BY <1>1, <1>2, <1>3, <1>4
<1>7. a \o b \in Seq(S)
  BY <1>4
<1>8. \A i \in 1 .. Len(a \o b) : (a \o b)[i] = s[i]
  BY ONLY <1>5, <1>6
<1>9. a \o b = s
  BY ONLY <1>6, <1>7, <1>8, SeqExt, s \in Seq(S)
<1>10. QED
  BY <1>9 DEF a, b

\* Consecutive segments that start where w ends extend w.
LEMMA ContiguousAppend ==
    ASSUME NEW w \in Seq(Seg), Contiguous(w), NEW f \in Seq(Seg), f # <<>>,
           f[1].off = EndOffset(w),
           \A i \in 1 .. Len(f) : f[i].len > 0,
           \A i \in 2 .. Len(f) : f[i].off = f[i - 1].off + f[i - 1].len
    PROVE  Contiguous(w \o f) /\ EndOffset(w \o f) = f[Len(f)].off + f[Len(f)].len
<1> DEFINE v == w \o f
<1>1. /\ v \in Seq(Seg) /\ Len(v) = Len(w) + Len(f)
      /\ \A i \in 1 .. Len(w) : v[i] = w[i]
      /\ \A i \in 1 .. Len(f) : v[Len(w) + i] = f[i]
  BY ConcatFacts
<1>2. Len(w) \in Nat /\ Len(f) \in Nat \ {0}
  OBVIOUS
<1> HIDE DEF v
<1>3. ASSUME NEW i \in 1 .. Len(v)
      PROVE  v[i].len > 0 /\ v[i].off = IF i = 1 THEN 0 ELSE v[i - 1].off + v[i - 1].len
  <2>1. CASE i <= Len(w)
    <3>1. i \in 1 .. Len(w) /\ v[i] = w[i]
      BY <1>1, <1>2, <2>1
    <3>2. i # 1 => v[i - 1] = w[i - 1]
      BY <1>1, <1>2, <3>1
    <3>3. QED
      BY <3>1, <3>2 DEF Contiguous
  <2>2. CASE i = Len(w) + 1
    <3>1. v[i] = f[1] /\ f[1].len > 0
      <4>1. 1 \in 1 .. Len(f)
        BY ONLY <1>2
      <4>2. v[Len(w) + 1] = f[1]
        BY ONLY <1>1, <4>1
      <4>3. QED
        BY <4>1, <4>2, <2>2
    <3>2. i = 1 => EndOffset(w) = 0
      BY <1>2, <2>2 DEF EndOffset
    <3>3. ASSUME i # 1 PROVE EndOffset(w) = v[i - 1].off + v[i - 1].len
      <4>1. i - 1 = Len(w) /\ Len(w) \in 1 .. Len(w)
        BY ONLY <1>1, <1>2, <2>2, <3>3
      <4>2. v[i - 1] = w[Len(w)]
        BY ONLY <1>1, <4>1
      <4>3. w # <<>>
        BY <4>1
      <4>4. QED
        BY ONLY <4>2, <4>3 DEF EndOffset
    <3>4. f[1].off = EndOffset(w)
      OBVIOUS
    <3>5. QED
      BY ONLY <3>1, <3>2, <3>3, <3>4
  <2>3. CASE i > Len(w) + 1
    <3> DEFINE j == i - Len(w)
    <3>1. j \in 2 .. Len(f) /\ j - 1 \in 1 .. Len(f) /\ Len(w) + j = i /\ Len(w) + (j - 1) = i - 1
          /\ j \in 1 .. Len(f) /\ i # 1
      BY ONLY <1>1, <1>2, <2>3, i \in 1 .. Len(v)
    <3>2. v[i] = f[j] /\ v[i - 1] = f[j - 1]
      BY <1>1, <3>1
    <3>3. QED
      BY <3>1, <3>2
  <2>4. QED
    BY <1>1, <1>2, <2>1, <2>2, <2>3
<1>4. v # <<>> /\ v[Len(v)] = f[Len(f)]
  BY <1>1, <1>2
<1>5. QED
  BY <1>3, <1>4 DEF Contiguous, EndOffset, v

LEMMA EndOffsetType == ASSUME NEW v \in Seq(Seg) PROVE EndOffset(v) \in Nat
<1>1. CASE v = <<>>
  BY <1>1 DEF EndOffset
<1>2. CASE v # <<>>
  <2>1. v[Len(v)] \in Seg
    BY <1>2
  <2>2. v[Len(v)].off \in Nat /\ v[Len(v)].len \in Nat
    BY <2>1 DEF Seg
  <2>3. QED
    BY <1>2, <2>2 DEF EndOffset
<1>3. QED
  BY <1>1, <1>2

\* Filling up the last segment of a sequence.
LEMMA ContiguousFill ==
    ASSUME NEW v \in Seq(Seg), Contiguous(v), v # <<>>, NEW x \in Nat, NEW v2 \in Seq(Seg),
           Len(v2) = Len(v),
           \A i \in 1 .. Len(v) : i # Len(v) => v2[i] = v[i],
           v2[Len(v)].off = v[Len(v)].off,
           v2[Len(v)].len = v[Len(v)].len + x
    PROVE  Contiguous(v2) /\ EndOffset(v2) = EndOffset(v) + x
<1> DEFINE n == Len(v)
<1>1. n \in Nat \ {0} /\ v2 # <<>> /\ n \in 1 .. n
  OBVIOUS
<1>2. v[n] \in Seg
  BY <1>1
<1>3. v[n].off \in Nat /\ v[n].len \in Nat
  BY <1>2 DEF Seg
<1>4. ASSUME NEW i \in 1 .. n
      PROVE  v2[i].len > 0 /\ v2[i].off = IF i = 1 THEN 0 ELSE v2[i - 1].off + v2[i - 1].len
  <2>1. v[i].len > 0 /\ v[i].off = IF i = 1 THEN 0 ELSE v[i - 1].off + v[i - 1].len
    BY DEF Contiguous
  <2>2. i # 1 => v2[i - 1] = v[i - 1]
    <3>1. i # 1 => i - 1 \in 1 .. n /\ i - 1 # n
      BY ONLY <1>1, i \in 1 .. n
    <3>2. QED
      BY <3>1
  <2>3. v2[i].off = v[i].off
    BY <1>1
  <2>4. v2[i].len > 0
    <3>1. CASE i = n
      BY <1>3, <2>1, <3>1
    <3>2. CASE i # n
      BY <2>1, <3>2
    <3>3. QED
      BY <3>1, <3>2
  <2>5. QED
    BY <2>1, <2>2, <2>3, <2>4
<1>5. Contiguous(v2)
  BY <1>4 DEF Contiguous
<1>6. EndOffset(v2) = v2[n].off + v2[n].len /\ EndOffset(v) = v[n].off + v[n].len
  BY <1>1 DEF EndOffset
<1>7. QED
  BY <1>3, <1>5, <1>6

\* A frame of at most WndRcv - 1 full segments is cut into fewer than WndRcv.
LEMMA FragCountFits ==
    ASSUME NEW len \in Nat \ {0}, len <= (WndRcv - 1) * Mss
    PROVE  FragCount(len) < WndRcv
<1>1. CASE len <= Mss
  BY <1>1, IkcpAssumption DEF FragCount
<1>2. CASE ~ (len <= Mss)
  <2> DEFINE q == (len + Mss - 1) \div Mss
  <2>1. q \in Nat \ {0} /\ \A i \in Nat : i < q => i * Mss < len
    BY DivUp, IkcpAssumption
  <2>2. FragCount(len) = q
    BY <1>2 DEF FragCount
  <2> HIDE DEF q
  <2>3. WndRcv - 1 \in Nat /\ Mss \in Nat /\ WndRcv \in Nat
    BY IkcpAssumption
  <2>4. ~ (WndRcv - 1 < q)
    <3> SUFFICES ASSUME WndRcv - 1 < q PROVE FALSE
      OBVIOUS
    <3>1. (WndRcv - 1) * Mss < len
      BY <2>1, <2>3
    <3> DEFINE p == (WndRcv - 1) * Mss
    <3>2. p \in Nat /\ len <= p /\ p < len
      BY <2>3, <3>1
    <3> HIDE DEF p
    <3>3. QED
      BY <3>2
  <2>5. QED
    BY <2>1, <2>2, <2>3, <2>4
<1>3. QED
  BY <1>1, <1>2

\* What FillUp does to the bytes.
LEMMA FillUpWrites ==
    ASSUME NEW k, IsKcpCB(k), NEW lg \in Seq(Seg), NEW len \in Nat \ {0},
           Contiguous(lg \o k.snd_queue)
    PROVE  LET q1 == FillUp(k, len).snd_queue
           IN  /\ Contiguous(lg \o q1)
               /\ EndOffset(lg \o q1) = EndOffset(lg \o k.snd_queue) + Extend(k, len)
<1> DEFINE q == k.snd_queue
           n == Len(q)
           x == Extend(k, len)
           q1 == FillUp(k, len).snd_queue
           v == lg \o q
           v2 == lg \o q1
<1>0. q \in Seq(Seg) /\ n \in Nat /\ Len(lg) \in Nat
  BY DEF IsKcpCB
<1>1. x \in Nat /\ (x > 0 => n > 0) /\ q \in Seq(Seg) /\ n \in Nat /\ Len(lg) \in Nat
  BY <1>0, ExtendFacts
<1>2. q1 \in Seq(Seg) /\ Len(q1) = n
      /\ \A i \in 1 .. n : q1[i] = IF i = n /\ x > 0
                                   THEN [off |-> q[i].off, len |-> q[i].len + x, frg |-> 0]
                                   ELSE q[i]
  BY FillUpFacts DEF IsKcpCB
<1>3. CASE x = 0
  <2>1. q1 = q
    BY <1>3 DEF FillUp
  <2>2. EndOffset(v) \in Nat
    <3>1. v \in Seq(Seg)
      BY <1>1
    <3>2. QED
      BY ONLY <3>1, EndOffsetType
  <2>3. QED
    BY <1>3, <2>1, <2>2
<1>4. CASE x > 0
  <2> HIDE DEF q, x, q1
  <2>1. n \in 1 .. n /\ n \in Nat
    BY <1>1, <1>4
  <2>2. /\ v \in Seq(Seg) /\ Len(v) = Len(lg) + n
        /\ \A i \in 1 .. Len(lg) : v[i] = lg[i]
        /\ \A i \in 1 .. n : v[Len(lg) + i] = q[i]
    BY <1>1, ConcatFacts
  <2>3. /\ v2 \in Seq(Seg) /\ Len(v2) = Len(lg) + n
        /\ \A i \in 1 .. Len(lg) : v2[i] = lg[i]
        /\ \A i \in 1 .. n : v2[Len(lg) + i] = q1[i]
    <3>1. q1 \in Seq(Seg)
      BY ONLY <1>2
    <3>2. Len(q1) = n
      BY ONLY <1>2
    <3>3. /\ v2 \in Seq(Seg) /\ Len(v2) = Len(lg) + Len(q1)
          /\ \A i \in 1 .. Len(lg) : v2[i] = lg[i]
          /\ \A i \in 1 .. Len(q1) : v2[Len(lg) + i] = q1[i]
      BY ONLY <3>1, ConcatFacts, lg \in Seq(Seg)
    <3>4. QED
      BY ONLY <3>2, <3>3
  <2>0. Contiguous(v)
    BY DEF q
  <2> HIDE DEF v, v2, n
  <2>4. ASSUME NEW i \in 1 .. Len(v), i # Len(v) PROVE v2[i] = v[i]
    <3>1. CASE i <= Len(lg)
      <4>1. i \in 1 .. Len(lg)
        BY <1>1, <3>1
      <4>2. QED
        BY <2>2, <2>3, <4>1
    <3>2. CASE i > Len(lg)
      <4> DEFINE j == i - Len(lg)
      <4>1. j \in 1 .. n /\ j # n /\ i = Len(lg) + j
        BY ONLY <1>1, <2>1, <2>2, <2>4, <3>2, i \in 1 .. Len(v)
      <4>2. q1[j] = q[j]
        BY <1>2, <4>1
      <4> HIDE DEF j
      <4>3. QED
        BY <2>2, <2>3, <4>1, <4>2
    <3>3. QED
      BY <1>1, <3>1, <3>2
  <2>5. /\ v2[Len(v)].off = v[Len(v)].off
        /\ v2[Len(v)].len = v[Len(v)].len + x
    <3>1. q1[n] = [off |-> q[n].off, len |-> q[n].len + x, frg |-> 0]
      BY <1>2, <1>4, <2>1
    <3>2. v2[Len(lg) + n] = q1[n] /\ v[Len(lg) + n] = q[n]
      BY <2>1, <2>2, <2>3
    <3>3. QED
      BY <2>2, <3>1, <3>2
  <2>6. v # <<>> /\ Len(v2) = Len(v)
    BY <1>1, <2>1, <2>2, <2>3
  <2>7. Contiguous(v2) /\ EndOffset(v2) = EndOffset(v) + x
    BY ONLY <1>1, <2>0, <2>2, <2>3, <2>4, <2>5, <2>6, ContiguousFill
  <2>8. QED
    BY <2>7 DEF v, v2, q, x, q1
<1>5. x = 0 \/ x > 0
  BY <1>1
<1>6. QED
  BY <1>3, <1>4, <1>5

\* The send queue of a control block after it was replaced.
LEMMA QueueUpdate ==
    ASSUME NEW k, IsKcpCB(k), NEW q
    PROVE  [k EXCEPT !.snd_queue = q].snd_queue = q
  BY DEF IsKcpCB

(***************************************************************************)
(* ikcp_send appends exactly the bytes of the frame, or refuses the frame   *)
(* and leaves the queue as it was: in stream mode only if the frame fits.   *)
(***************************************************************************)
LEMMA SendWrites ==
    ASSUME NEW k, IsKcpCB(k), NEW lg \in Seq(Seg), NEW off \in Nat, NEW len \in Nat \ {0},
           Contiguous(lg \o k.snd_queue), EndOffset(lg \o k.snd_queue) = off,
           Stream => len <= (WndRcv - 1) * Mss
    PROVE  LET r == ikcp_send(k, off, len)
           IN  IF r.ret = 0
               THEN /\ Contiguous(lg \o r.kcp.snd_queue)
                    /\ EndOffset(lg \o r.kcp.snd_queue) = off + len
               ELSE r.kcp = k
<1> DEFINE x == Extend(k, len)
           k1 == FillUp(k, len)
           rest == len - x
           fr == Fragments(off + x, rest)
           w == lg \o k1.snd_queue
           r == ikcp_send(k, off, len)
<1>1. x \in 0 .. len /\ x \in Nat /\ (x > 0 => Stream)
  BY ExtendFacts
<1>2. IsKcpCB(k1) /\ k1.snd_queue \in Seq(Seg)
  BY FillUpFacts DEF IsKcpCB
<1>3. Contiguous(w) /\ EndOffset(w) = off + x
  BY FillUpWrites
<1>4. CASE Stream /\ rest = 0
  <2>1. r.ret = 0 /\ r.kcp = k1
    BY <1>4 DEF ikcp_send
  <2>2. off + x = off + len
    BY <1>1, <1>4
  <2>3. QED
    BY <1>3, <2>1, <2>2
<1>5. CASE ~ (Stream /\ rest = 0)
  <2>1. rest \in Nat \ {0} /\ off + x \in Nat /\ rest <= len
    BY <1>1, <1>5
  <2>2. CASE FragCount(rest) >= WndRcv
    <3>1. ~Stream
      <4> SUFFICES ASSUME Stream PROVE FALSE
        OBVIOUS
      <4> DEFINE p == (WndRcv - 1) * Mss
      <4>1. p \in Nat
        BY IkcpAssumption
      <4>2. len <= p
        OBVIOUS
      <4> HIDE DEF p, rest, x
      <4>3. rest <= p
        BY <2>1, <4>1, <4>2
      <4>4. FragCount(rest) < WndRcv
        BY <2>1, <4>3, FragCountFits DEF p
      <4>5. FragCount(rest) \in Nat /\ WndRcv \in Nat
        BY <2>1, FragmentFacts, IkcpAssumption
      <4>6. QED
        BY <2>2, <4>4, <4>5
    <3>2. x = 0
      BY <1>1, <3>1
    <3>3. k1 = k
      BY <3>2 DEF FillUp
    <3>4. r = [ret |-> -2, kcp |-> k1]
      BY <1>5, <2>2 DEF ikcp_send
    <3>5. QED
      BY <3>3, <3>4
  <2>3. CASE ~ (FragCount(rest) >= WndRcv)
    <3>1. r = [ret |-> 0, kcp |-> [k1 EXCEPT !.snd_queue = k1.snd_queue \o fr]]
      BY <1>5, <2>3 DEF ikcp_send
    <3> HIDE DEF rest, x, k1, fr, r
    <3>a. [k1 EXCEPT !.snd_queue = k1.snd_queue \o fr].snd_queue = k1.snd_queue \o fr
      BY ONLY <1>2, QueueUpdate
    <3>2. r.ret = 0 /\ r.kcp.snd_queue = k1.snd_queue \o fr
      BY ONLY <3>1, <3>a
    <3>3. /\ fr \in Seq(Seg) /\ Len(fr) = FragCount(rest) /\ FragCount(rest) \in Nat \ {0}
          /\ \A i \in 1 .. FragCount(rest) :
               /\ fr[i].len \in 1 .. Mss
               /\ fr[i].off = (off + x) + (i - 1) * Mss
               /\ i < FragCount(rest) => fr[i].len = Mss
               /\ i = FragCount(rest) => fr[i].off + fr[i].len = (off + x) + rest
      BY <2>1, FragmentFacts DEF fr
    <3>4. fr # <<>> /\ fr[Len(fr)].off + fr[Len(fr)].len = (off + x) + rest
      BY <3>3
    <3>5. fr[1].off = EndOffset(w)
      <4>1. 1 \in 1 .. FragCount(rest)
        BY <3>3
      <4>2. fr[1].off = (off + x) + (1 - 1) * Mss
        BY <3>3, <4>1
      <4>3. (1 - 1) * Mss = 0
        BY IkcpAssumption
      <4>4. QED
        BY <1>3, <2>1, <4>2, <4>3
    <3>6. \A i \in 1 .. Len(fr) : fr[i].len > 0
      BY <3>3, IkcpAssumption
    <3>7. ASSUME NEW i \in 2 .. Len(fr) PROVE fr[i].off = fr[i - 1].off + fr[i - 1].len
      <4>1. /\ i \in Nat /\ i \in 1 .. FragCount(rest) /\ i - 1 \in 1 .. FragCount(rest)
            /\ i - 1 < FragCount(rest)
        BY <3>3
      <4>2. /\ fr[i].off = (off + x) + (i - 1) * Mss
            /\ fr[i - 1].off = (off + x) + ((i - 1) - 1) * Mss
            /\ fr[i - 1].len = Mss
        BY <3>3, <4>1
      <4>3. (off + x) + (i - 1) * Mss = ((off + x) + ((i - 1) - 1) * Mss) + Mss
        <5> DEFINE o == off + x
        <5>1. o \in Nat /\ Mss \in Nat
          BY <2>1, IkcpAssumption
        <5> HIDE DEF o
        <5>2. o + (i - 1) * Mss = (o + ((i - 1) - 1) * Mss) + Mss
          BY <4>1, <5>1
        <5>3. QED
          BY <5>2 DEF o
      <4>4. QED
        BY <4>2, <4>3
    <3>8. w \in Seq(Seg)
      BY <1>2
    <3> HIDE DEF w
    <3>9. Contiguous(w \o fr) /\ EndOffset(w \o fr) = (off + x) + rest
      <4>1. Contiguous(w \o fr) /\ EndOffset(w \o fr) = fr[Len(fr)].off + fr[Len(fr)].len
        BY ONLY <1>3, <3>3, <3>4, <3>5, <3>6, <3>7, <3>8, ContiguousAppend
      <4>2. QED
        BY <3>4, <4>1
    <3>10. w \o fr = lg \o (k1.snd_queue \o fr)
      <4> DEFINE q1 == k1.snd_queue
      <4>1. q1 \in Seq(Seg) /\ fr \in Seq(Seg)
        BY ONLY <1>2, <3>3
      <4> HIDE DEF q1
      <4>2. \A s, t, u \in Seq(Seg) : (s \o t) \o u = s \o (t \o u)
        BY ONLY ConcatAssoc
      <4>3. (lg \o q1) \o fr = lg \o (q1 \o fr)
        BY ONLY <4>1, <4>2, lg \in Seq(Seg)
      <4>4. QED
        BY <4>3 DEF w, q1
    <3>11. (off + x) + rest = off + len
      BY <1>1 DEF rest
    <3>12. QED
      BY <3>2, <3>9, <3>10, <3>11 DEF r
  <2>4. QED
    BY <2>2, <2>3
<1>6. QED
  BY <1>4, <1>5

\* The other operations of the send queue.
LEMMA InputKeepsQueue ==
    ASSUME NEW k, IsKcpCB(k), NEW m \in WireSeg
    PROVE  ikcp_input(k, m).kcp.snd_queue = k.snd_queue
<1> DEFINE k1 == InputHeader(k, m)
           k2 == ikcp_input(k, m).kcp
<1>1. IsKcpCB(k1) /\ m.sn \in Nat /\ m.seg \in Seg /\ m.cmd \in Cmd
  BY InputType DEF WireSeg
<1>2. k1.snd_queue = k.snd_queue
  BY DEF InputHeader, ikcp_shrink_buf, ikcp_parse_una, IsKcpCB
<1> HIDE DEF k1
<1>3. InputAck(k1, m).snd_queue = k1.snd_queue
  BY <1>1 DEF InputAck, ikcp_shrink_buf, ikcp_parse_ack, IsKcpCB
<1>4. InputPush(k1, m).snd_queue = k1.snd_queue
  <2> DEFINE ka == [k1 EXCEPT !.acklist = k1.acklist \cup {m.sn}]
             kb == [ka EXCEPT !.rcv_buf = [s \in DOMAIN ka.rcv_buf \cup {m.sn} |->
                                             IF s = m.sn THEN m.seg ELSE ka.rcv_buf[s]]]
  <2>1. IsKcpCB(ka) /\ ka.snd_queue = k1.snd_queue
    BY <1>1 DEF IsKcpCB
  <2> HIDE DEF ka
  <2>2. IsKcpCB(kb) /\ kb.snd_queue = ka.snd_queue
    BY <1>1, <2>1 DEF IsKcpCB
  <2> HIDE DEF kb
  <2>3. MoveAvailable(ka).snd_queue = ka.snd_queue
    BY <2>1 DEF MoveAvailable, IsKcpCB
  <2>4. MoveAvailable(kb).snd_queue = kb.snd_queue
    BY <2>2 DEF MoveAvailable, IsKcpCB
  <2>5. ikcp_parse_data(ka, m.sn, m.seg).snd_queue = ka.snd_queue
    BY <2>2, <2>3, <2>4 DEF ikcp_parse_data, kb
  <2>6. InputPush(k1, m) = k1 \/ InputPush(k1, m) = ikcp_parse_data(ka, m.sn, m.seg)
          \/ InputPush(k1, m) = ka
    BY DEF InputPush, ka
  <2>7. QED
    BY <2>1, <2>5, <2>6
<1>5. [k1 EXCEPT !.ask_tell = TRUE].snd_queue = k1.snd_queue
  BY <1>1 DEF IsKcpCB
<1>6. k2 \in {k, k1, InputAck(k1, m), InputPush(k1, m), [k1 EXCEPT !.ask_tell = TRUE]}
  BY <1>1 DEF ikcp_input, Cmd, k1
<1>7. QED
  BY <1>2, <1>3, <1>4, <1>5, <1>6

LEMMA RecvKeepsQueue ==
    ASSUME NEW k, IsKcpCB(k), k.rcv_queue # <<>>
    PROVE  ikcp_recv(k).kcp.snd_queue = k.snd_queue
<1> DEFINE n == FrameFragments(k.rcv_queue)
           k0 == [k EXCEPT !.rcv_queue = SubSeq(k.rcv_queue, n + 1, Len(k.rcv_queue))]
           k1 == MoveAvailable(k0)
           r == ikcp_recv(k)
<1>1. IsKcpCB(k0) /\ IsKcpCB(k1) /\ r.kcp = [k1 EXCEPT !.ask_tell = r.kcp.ask_tell]
  BY RecvFacts
<1>2. k0.snd_queue = k.snd_queue
  BY DEF IsKcpCB
<1> HIDE DEF k0
<1>3. k1.snd_queue = k0.snd_queue
  BY <1>1 DEF MoveAvailable, IsKcpCB
<1> HIDE DEF k1, r
<1>4. r.kcp.snd_queue = k1.snd_queue
  BY <1>1 DEF IsKcpCB
<1>5. QED
  BY <1>2, <1>3, <1>4 DEF r

\* The numbered segments, then the queued ones.
Written(lg, k) == lg \o k.snd_queue

LEMMA FlushKeepsBytes ==
    ASSUME NEW k, IsKcpCB(k), NEW lg \in Seq(Seg), NEW cwnd \in Nat, NEW due, NEW probe
    PROVE  LET lg2 == lg \o SubSeq(k.snd_queue, 1, Moved(k, cwnd))
               k2 == ikcp_flush(k, cwnd, due, probe).kcp
           IN  Written(lg2, k2) = Written(lg, k)
<1> DEFINE q == k.snd_queue
           n == Moved(k, cwnd)
           a == SubSeq(q, 1, n)
           b == SubSeq(q, n + 1, Len(q))
<1>1. q \in Seq(Seg) /\ n \in 0 .. Len(q)
  BY MovedFacts DEF IsKcpCB
<1>2. ikcp_flush(k, cwnd, due, probe).kcp.snd_queue = b
  BY DEF ikcp_flush, IsKcpCB
<1> HIDE DEF n, q
<1>3. a \in Seq(Seg) /\ b \in Seq(Seg)
  BY <1>1, DropFacts
<1>4. a \o b = q
  BY <1>1, CutAndJoin
<1> HIDE DEF a, b
<1>5. (lg \o a) \o b = lg \o (a \o b)
  BY ONLY <1>3, ConcatAssoc, lg \in Seq(Seg)
<1>6. QED
  BY <1>2, <1>4, <1>5 DEF a, n, q, Written

LEMMA WriterInit == TypeOK /\ Init => WriterInv
<1> SUFFICES ASSUME TypeOK, Init, NEW e \in End
             PROVE  /\ Contiguous(log[e] \o kcp[e].snd_queue)
                    /\ EndOffset(log[e] \o kcp[e].snd_queue) = LastOr0(sent[e])
  BY DEF WriterInv
<1>1. log[e] = <<>> /\ kcp[e].snd_queue = <<>> /\ sent[e] = <<>>
  BY DEF Init, ikcp_create
<1>2. log[e] \o kcp[e].snd_queue = <<>>
  BY <1>1
<1>3. Len(<<>>) = 0 /\ 1 .. 0 = {}
  OBVIOUS
<1>4. QED
  BY <1>1, <1>2, <1>3 DEF Contiguous, EndOffset, LastOr0

\* One end moved: the other one keeps what it had.
LEMMA WriterOneEnd ==
    ASSUME WriterInv, NEW x \in End,
           \A e \in End : e # x => kcp'[e] = kcp[e] /\ log'[e] = log[e] /\ sent'[e] = sent[e],
           Contiguous(log'[x] \o kcp'[x].snd_queue),
           EndOffset(log'[x] \o kcp'[x].snd_queue) = LastOr0(sent'[x])
    PROVE  WriterInv'
  BY DEF WriterInv

LEMMA WriterStep == FramesFit /\ TypeOK /\ WriterInv /\ [Next]_vars => WriterInv'
<1> SUFFICES ASSUME FramesFit, TypeOK, WriterInv, [Next]_vars PROVE WriterInv'
  OBVIOUS
<1>0. /\ DOMAIN kcp = End /\ \A e \in End : IsKcpCB(kcp[e])
      /\ net \in [End -> SUBSET WireSeg] /\ sent \in [End -> Seq(Nat)]
      /\ log \in [End -> Seq(Seg)]
  BY DEF TypeOK
<1>a. \A e \in End : /\ Contiguous(log[e] \o kcp[e].snd_queue)
                     /\ EndOffset(log[e] \o kcp[e].snd_queue) = LastOr0(sent[e])
  BY DEF WriterInv
<1>1. ASSUME NEW x \in Writers, NEW len \in FrameLens, Send(x, len) PROVE WriterInv'
  <2> DEFINE off == LastOr0(sent[x])
             r == ikcp_send(kcp[x], off, len)
  <2>1. x \in End /\ len \in Nat \ {0} /\ off \in Nat /\ IsKcpCB(kcp[x]) /\ log[x] \in Seq(Seg)
        /\ sent[x] \in Seq(Nat)
    BY <1>0, ArqAssumption, LastOr0Type
  <2>2. Stream => len <= (WndRcv - 1) * Mss
    BY DEF FramesFit
  <2>3. Contiguous(log[x] \o kcp[x].snd_queue) /\ EndOffset(log[x] \o kcp[x].snd_queue) = off
    BY <1>a, <2>1
  <2>4. IF r.ret = 0
        THEN /\ Contiguous(log[x] \o r.kcp.snd_queue)
             /\ EndOffset(log[x] \o r.kcp.snd_queue) = off + len
        ELSE r.kcp = kcp[x]
    <3> HIDE DEF off
    <3> QED
      BY ONLY <2>1, <2>2, <2>3, SendWrites
  <2>5. /\ kcp' = [kcp EXCEPT ![x] = r.kcp] /\ log' = log
        /\ sent' = IF r.ret = 0 THEN [sent EXCEPT ![x] = Append(sent[x], off + len)] ELSE sent
    BY <1>1 DEF Send
  <2>6. LastOr0(Append(sent[x], off + len)) = off + len
    <3> HIDE DEF off
    <3>1. off + len \in Nat
      BY <2>1
    <3>2. \A s \in Seq(Nat), n \in Nat : LastOr0(Append(s, n)) = n
      BY DEF LastOr0
    <3> QED
      BY <2>1, <3>1, <3>2
  <2> HIDE DEF r, off
  <2>7. /\ kcp'[x] = r.kcp
        /\ \A e \in End : e # x => kcp'[e] = kcp[e] /\ log'[e] = log[e] /\ sent'[e] = sent[e]
    BY <1>0, <2>1, <2>5
  <2>8. CASE r.ret = 0
    <3>1. sent'[x] = Append(sent[x], off + len)
      BY <1>0, <2>1, <2>5, <2>8
    <3>2. /\ Contiguous(log'[x] \o kcp'[x].snd_queue)
          /\ EndOffset(log'[x] \o kcp'[x].snd_queue) = LastOr0(sent'[x])
      BY <2>4, <2>5, <2>6, <2>7, <2>8, <3>1
    <3>3. QED
      BY <2>1, <2>7, <3>2, WriterOneEnd
  <2>9. CASE r.ret # 0
    <3>1. kcp'[x] = kcp[x] /\ sent'[x] = sent[x] /\ log'[x] = log[x]
      BY <2>4, <2>5, <2>7, <2>9
    <3>2. /\ Contiguous(log'[x] \o kcp'[x].snd_queue)
          /\ EndOffset(log'[x] \o kcp'[x].snd_queue) = LastOr0(sent'[x])
      BY <2>3, <3>1 DEF off
    <3>3. QED
      BY <2>1, <2>7, <3>2, WriterOneEnd
  <2>10. QED
    BY <2>8, <2>9
<1>2. ASSUME NEW x \in End, NEW cwnd \in 1 .. SndWnd, NEW probe, NEW due, NEW kept,
             Flush(x, cwnd, due, probe, kept)
      PROVE  WriterInv'
  <2> DEFINE k == kcp[x]
             f == ikcp_flush(k, cwnd, due, probe)
             lg2 == log[x] \o SubSeq(k.snd_queue, 1, Moved(k, cwnd))
  <2>1. cwnd \in Nat /\ IsKcpCB(k) /\ log[x] \in Seq(Seg)
    BY <1>0, IkcpAssumption
  <2>2. lg2 \o f.kcp.snd_queue = log[x] \o k.snd_queue
    <3>1. Written(lg2, f.kcp) = Written(log[x], k)
      BY <2>1, FlushKeepsBytes
    <3>2. QED
      BY ONLY <3>1 DEF Written
  <2>3. /\ kcp' = [kcp EXCEPT ![x] = f.kcp] /\ log' = [log EXCEPT ![x] = lg2] /\ sent' = sent
    BY <1>2 DEF Flush
  <2> HIDE DEF f, lg2
  <2>4. /\ kcp'[x] = f.kcp /\ log'[x] = lg2
        /\ \A e \in End : e # x => kcp'[e] = kcp[e] /\ log'[e] = log[e] /\ sent'[e] = sent[e]
    BY <1>0, <2>3
  <2>5. /\ Contiguous(log'[x] \o kcp'[x].snd_queue)
        /\ EndOffset(log'[x] \o kcp'[x].snd_queue) = LastOr0(sent'[x])
    BY <1>a, <2>2, <2>3, <2>4
  <2>6. QED
    BY <2>4, <2>5, WriterOneEnd
<1>3. ASSUME NEW x \in End, NEW k, k.snd_queue = kcp[x].snd_queue,
             kcp' = [kcp EXCEPT ![x] = k], UNCHANGED <<log, sent>>
      PROVE  WriterInv'
  <2>1. /\ kcp'[x].snd_queue = kcp[x].snd_queue
        /\ \A e \in End : e # x => kcp'[e] = kcp[e] /\ log'[e] = log[e] /\ sent'[e] = sent[e]
    BY <1>0, <1>3
  <2>2. /\ Contiguous(log'[x] \o kcp'[x].snd_queue)
        /\ EndOffset(log'[x] \o kcp'[x].snd_queue) = LastOr0(sent'[x])
    BY <1>a, <1>3, <2>1
  <2>3. QED
    BY <2>1, <2>2, WriterOneEnd
<1>4. ASSUME NEW x \in End, NEW again \in BOOLEAN, NEW m \in net[x], Input(x, m, again)
      PROVE  WriterInv'
  <2> DEFINE k2 == ikcp_input(kcp[x], m).kcp
  <2>1. IsKcpCB(kcp[x]) /\ m \in WireSeg
    BY <1>0
  <2>2. k2.snd_queue = kcp[x].snd_queue
    BY <2>1, InputKeepsQueue
  <2>3. kcp' = [kcp EXCEPT ![x] = k2] /\ UNCHANGED <<log, sent>>
    BY <1>4 DEF Input
  <2> HIDE DEF k2
  <2>4. QED
    BY <1>3, <2>2, <2>3
<1>5. ASSUME NEW x \in End, Recv(x) PROVE WriterInv'
  <2> DEFINE k2 == ikcp_recv(kcp[x]).kcp
  <2>1. IsKcpCB(kcp[x]) /\ kcp[x].rcv_queue # <<>>
    BY <1>0, <1>5 DEF Recv, ikcp_peeksize
  <2>2. k2.snd_queue = kcp[x].snd_queue
    BY <2>1, RecvKeepsQueue
  <2>3. kcp' = [kcp EXCEPT ![x] = k2] /\ UNCHANGED <<log, sent>>
    BY <1>5 DEF Recv
  <2> HIDE DEF k2
  <2>4. QED
    BY <1>3, <2>2, <2>3
<1>6. CASE UNCHANGED vars
  BY <1>6 DEF vars, WriterInv
<1>7. QED
  BY <1>1, <1>2, <1>4, <1>5, <1>6 DEF Next

(***************************************************************************)
(* When the owner offers only frames that fit (in message mode: any), the   *)
(* numbered segments and the send queue hold exactly the accepted bytes.    *)
(***************************************************************************)
THEOREM WriterInvariant ==
    ASSUME FramesFit
    PROVE  Spec => []WriterInv
<1>1. Init => WriterInv
  BY TypeInit, WriterInit
<1>2. TypeOK /\ WriterInv /\ [Next]_vars => WriterInv'
  BY WriterStep
<1>3. QED
  BY <1>1, <1>2, TypeCorrect, PTL DEF Spec

\* No segment of a contiguous sequence ends after the last one does.
LEMMA EndsGrow ==
    ASSUME NEW w \in Seq(Seg), Contiguous(w), NEW n \in 1 .. Len(w)
    PROVE  w[n].off + w[n].len <= EndOffset(w)
<1> DEFINE T == {i \in 1 .. Len(w) : w[i].off + w[i].len > EndOffset(w)}
<1>1. Len(w) \in Nat /\ \A i \in 1 .. Len(w) : w[i].off \in Nat /\ w[i].len \in Nat
  <2>1. \A i \in 1 .. Len(w) : w[i] \in Seg
    OBVIOUS
  <2>2. QED
    BY <2>1 DEF Seg
<1>2. EndOffset(w) \in Nat
  BY EndOffsetType
<1>3. T = {}
  <2> SUFFICES ASSUME T # {} PROVE FALSE
    OBVIOUS
  <2>1. T \subseteq 0 .. Len(w)
    BY <1>1
  <2> DEFINE m == Max(T)
  <2>a. Len(w) \in Nat /\ T # {}
    BY <1>1
  <2> HIDE DEF T, m
  <2>2. m \in T /\ \A j \in T : m >= j
    BY ONLY <2>a, <2>1, MaxNat DEF m
  <2> USE DEF T
  <2>3. m \in 1 .. Len(w) /\ w[m].off + w[m].len > EndOffset(w)
    BY <2>2
  <2>4. m # Len(w)
    <3>1. EndOffset(w) = w[Len(w)].off + w[Len(w)].len
      BY <1>1, <2>3 DEF EndOffset
    <3>2. QED
      BY <1>1, <1>2, <2>3, <3>1
  <2>5. m + 1 \in 1 .. Len(w) /\ m + 1 # 1 /\ (m + 1) - 1 = m
    BY <1>1, <2>3, <2>4
  <2>6. w[m + 1].off = w[m].off + w[m].len /\ w[m + 1].len > 0
    BY <2>5 DEF Contiguous
  <2>7. w[m + 1].off + w[m + 1].len > EndOffset(w)
    BY <1>1, <1>2, <2>3, <2>5, <2>6
  <2>8. m + 1 \in T
    BY <2>5, <2>7
  <2>9. m + 1 <= m /\ m \in Nat
    BY <1>1, <2>2, <2>3, <2>8
  <2>10. QED
    BY <2>9
<1>4. n \notin T
  BY <1>3
<1>5. QED
  BY <1>1, <1>2, <1>4

\* A prefix of a contiguous sequence.
LEMMA PrefixContiguous ==
    ASSUME NEW w \in Seq(Seg), Contiguous(w), NEW d \in Seq(Seg), Len(d) <= Len(w),
           \A i \in 1 .. Len(d) : d[i] = w[i]
    PROVE  Contiguous(d) /\ EndOffset(d) <= EndOffset(w)
<1>1. Len(d) \in Nat /\ Len(w) \in Nat
  OBVIOUS
<1>2. ASSUME NEW i \in 1 .. Len(d)
      PROVE  d[i].len > 0 /\ d[i].off = IF i = 1 THEN 0 ELSE d[i - 1].off + d[i - 1].len
  <2>1. i \in 1 .. Len(w) /\ (i # 1 => i - 1 \in 1 .. Len(d))
    BY <1>1
  <2>2. w[i].len > 0 /\ w[i].off = IF i = 1 THEN 0 ELSE w[i - 1].off + w[i - 1].len
    BY <2>1 DEF Contiguous
  <2>3. d[i] = w[i] /\ (i # 1 => d[i - 1] = w[i - 1])
    BY <2>1
  <2>4. QED
    BY <2>2, <2>3
<1>3. Contiguous(d)
  BY <1>2 DEF Contiguous
<1>4. CASE d = <<>>
  <2>1. EndOffset(d) = 0 /\ EndOffset(w) \in Nat
    BY <1>4, EndOffsetType DEF EndOffset
  <2>2. QED
    BY <1>3, <2>1
<1>5. CASE d # <<>>
  <2> DEFINE n == Len(d)
  <2>1. n \in 1 .. n /\ n \in 1 .. Len(w)
    BY <1>1, <1>5
  <2>2. EndOffset(d) = w[n].off + w[n].len
    BY <1>5, <2>1 DEF EndOffset
  <2>3. w[n].off + w[n].len <= EndOffset(w)
    BY <2>1, EndsGrow
  <2>4. QED
    BY <1>3, <2>2, <2>3
<1>6. QED
  BY <1>4, <1>5

LEMMA DeliveredPrefix == TypeOK /\ ArqInv /\ WriterInv => InOrderDelivery
<1> SUFFICES ASSUME TypeOK, ArqInv, WriterInv, NEW e \in End
             PROVE  /\ Contiguous(dlv[e])
                    /\ EndOffset(dlv[e]) <= LastOr0(sent[Peer(e)])
  BY DEF InOrderDelivery
<1> DEFINE p == Peer(e)
           lg == log[p]
           q == kcp[p].snd_queue
           w == lg \o q
           d == dlv[e]
<1>1. p \in End /\ Peer(p) = e
  BY PeerFacts
<1>2. /\ lg \in Seq(Seg) /\ d \in Seq(Seg) /\ q \in Seq(Seg) /\ kcp[e].rcv_nxt \in Nat
      /\ kcp[e].rcv_queue \in Seq(Seg)
  BY <1>1 DEF TypeOK, IsKcpCB
<1>3. DirInv(kcp[p], kcp[e], lg, d, net[e], net[p])
  BY <1>1 DEF ArqInv
<1>4. /\ Len(d) + Len(kcp[e].rcv_queue) = kcp[e].rcv_nxt /\ kcp[e].rcv_nxt <= Len(lg)
      /\ \A i \in 1 .. Len(d) : d[i] = lg[i]
  BY <1>3 DEF DirInv, ReceiverInv, DeliveredInv
<1>5. Contiguous(w) /\ EndOffset(w) = LastOr0(sent[p])
  BY <1>1 DEF WriterInv
<1> HIDE DEF p, lg, q, d
<1>6. /\ w \in Seq(Seg) /\ Len(w) = Len(lg) + Len(q)
      /\ \A i \in 1 .. Len(lg) : w[i] = lg[i]
  BY <1>2, ConcatFacts
<1> HIDE DEF w
<1>7. Len(d) <= Len(lg) /\ Len(d) <= Len(w) /\ Len(d) \in Nat /\ Len(lg) \in Nat
  BY <1>2, <1>4, <1>6
<1>8. \A i \in 1 .. Len(d) : d[i] = w[i]
  BY <1>4, <1>6, <1>7
<1>9. Contiguous(d) /\ EndOffset(d) <= EndOffset(w)
  BY ONLY <1>2, <1>5, <1>6, <1>7, <1>8, PrefixContiguous
<1>10. QED
  BY <1>5, <1>9 DEF d, p

(***************************************************************************)
(* What is read is a prefix of what was accepted, for every window, segment *)
(* size, mode and bound, if only frames that fit are offered in stream mode.*)
(***************************************************************************)
THEOREM DeliveryInOrder ==
    ASSUME FramesFit
    PROVE  Spec => []InOrderDelivery
  BY TypeCorrect, ArqInvariant, WriterInvariant, DeliveredPrefix, PTL

-----------------------------------------------------------------------------
(***************************************************************************)
(* The windows bound the buffers, nothing that was reached is taken back,   *)
(* and each direction is a pipe of KcpPipe.  Every operation of ikcp.c is   *)
(* first described by what it does to one control block, whatever its peer  *)
(* and the network do.                                                      *)
(***************************************************************************)
(***************************************************************************)
(* What an operation may do to the control block k, now k2: numbers, the    *)
(* acknowledged prefix and the written segments only grow, whatever was     *)
(* received is kept and no used number returns to snd_buf.                  *)
(***************************************************************************)
Advance(k, k2) ==
    /\ k2.snd_nxt >= k.snd_nxt
    /\ k2.snd_nxt + Len(k2.snd_queue) >= k.snd_nxt + Len(k.snd_queue)
    /\ k2.snd_una >= k.snd_una
    /\ Keeps(k, k2)
    /\ \A sn \in 0 .. k.snd_nxt - 1 : sn \in DOMAIN k2.snd_buf => sn \in DOMAIN k.snd_buf

LEMMA Windows == SndWnd \in Nat /\ RcvWnd \in Nat /\ RcvWnd > 0
  BY IkcpAssumption

\* The numbers of a control block and their types.
LEMMA Numbers ==
    ASSUME NEW k, IsKcpCB(k)
    PROVE  /\ k.snd_una \in Nat /\ k.snd_nxt \in Nat /\ k.rcv_nxt \in Nat /\ k.rmt_wnd \in Nat
           /\ k.snd_queue \in Seq(Seg) /\ k.rcv_queue \in Seq(Seg)
           /\ Len(k.snd_queue) \in Nat /\ Len(k.rcv_queue) \in Nat
           /\ DOMAIN k.snd_buf \subseteq Nat /\ DOMAIN k.rcv_buf \subseteq Nat
  BY IkcpAssumption DEF IsKcpCB

\* An operation that leaves both roles but the send queue alone.
LEMMA QueueOnly ==
    ASSUME NEW k, IsKcpCB(k), NEW k2, IsKcpCB(k2), SameSender(k, k2), SameReceiver(k, k2),
           k2.snd_una = k.snd_una, Len(k2.snd_queue) >= Len(k.snd_queue), WithinWindows(k)
    PROVE  WithinWindows(k2) /\ Advance(k, k2)
<1>1. WithinWindows(k2)
  BY DEF WithinWindows, SameSender, SameReceiver
<1>2. Keeps(k, k2)
  BY Numbers DEF Keeps, Holds, SameReceiver
<1>3. k2.snd_nxt = k.snd_nxt /\ k2.snd_buf = k.snd_buf
  BY DEF SameSender
<1>4. QED
  BY <1>1, <1>2, <1>3, Numbers DEF Advance

\* Kcp::send.
LEMMA SendAdvances ==
    ASSUME NEW k, IsKcpCB(k), NEW off \in Nat, NEW len \in Nat \ {0}, WithinWindows(k)
    PROVE  LET k2 == ikcp_send(k, off, len).kcp IN WithinWindows(k2) /\ Advance(k, k2)
<1> DEFINE x == Extend(k, len)
           k1 == FillUp(k, len)
           fr == Fragments(off + x, len - x)
           k2 == ikcp_send(k, off, len).kcp
<1>1. IsKcpCB(k2) /\ k2 = [k EXCEPT !.snd_queue = k2.snd_queue]
  BY SendFacts
<1>2. x \in 0 .. len
  BY ExtendFacts
<1>3. IsKcpCB(k1) /\ Len(k1.snd_queue) = Len(k.snd_queue)
  BY FillUpFacts
<1>4. Len(k2.snd_queue) >= Len(k.snd_queue)
  <2>1. CASE k2 = k1
    BY <2>1, <1>3, Numbers
  <2>2. CASE k2 # k1
    <3>1. ~ (Stream /\ len - x = 0) /\ k2 = [k1 EXCEPT !.snd_queue = k1.snd_queue \o fr]
      BY <2>2 DEF ikcp_send
    <3>2. len - x \in Nat \ {0} /\ off + x \in Nat
      BY <1>2, <3>1, ExtendFacts
    <3>3. fr \in Seq(Seg)
      BY <3>2, FragmentFacts
    <3> HIDE DEF fr, k1, k2, x
    <3>4. k2.snd_queue = k1.snd_queue \o fr
      BY <1>3, <3>1, QueueUpdate
    <3>5. Len(k1.snd_queue \o fr) = Len(k1.snd_queue) + Len(fr) /\ Len(fr) \in Nat
      <4>1. k1.snd_queue \in Seq(Seg)
        BY <1>3, Numbers
      <4>2. QED
        BY ONLY <3>3, <4>1, ConcatFacts, SeqLen
    <3>6. Len(k1.snd_queue) \in Nat /\ Len(k.snd_queue) \in Nat
      BY <1>3, Numbers
    <3>7. QED
      BY <1>3, <3>4, <3>5, <3>6
  <2>3. QED
    BY <2>1, <2>2
<1> HIDE DEF k2
<1>5. SameSender(k, k2) /\ SameReceiver(k, k2) /\ k2.snd_una = k.snd_una
  BY <1>1 DEF IsKcpCB, SameSender, SameReceiver
<1>6. QED
  BY <1>1, <1>4, <1>5, QueueOnly DEF k2

\* Kcp::flush numbers no more than the windows have room for.
LEMMA FlushAdvances ==
    ASSUME NEW k, IsKcpCB(k), NEW cwnd \in Nat, NEW due, NEW probe, WithinWindows(k)
    PROVE  LET k2 == ikcp_flush(k, cwnd, due, probe).kcp IN WithinWindows(k2) /\ Advance(k, k2)
<1> DEFINE n == Moved(k, cwnd)
           buf == FlushedBuf(k, n, due)
           k2 == ikcp_flush(k, cwnd, due, probe).kcp
<1>1. n \in 0 .. Len(k.snd_queue)
  BY MovedFacts
<1>2. /\ k.snd_una \in Nat /\ k.snd_nxt \in Nat /\ k.rmt_wnd \in Nat /\ Len(k.snd_queue) \in Nat
      /\ k.snd_queue \in Seq(Seg) /\ DOMAIN k.snd_buf \subseteq Nat /\ k.rcv_nxt \in Nat
  BY Numbers
<1>3. n > 0 => k.snd_nxt + n <= k.snd_una + SndWnd
  <2> DEFINE w == imin(cwnd, imin(SndWnd, k.rmt_wnd))
             room == k.snd_una + w - k.snd_nxt
  <2>1. w \in Nat /\ w <= SndWnd
    BY <1>2, Windows DEF imin
  <2>2. n = IF room <= 0 THEN 0 ELSE imin(room, Len(k.snd_queue))
    BY DEF Moved
  <2> HIDE DEF w, n
  <2>3. room \in Int
    BY <1>2, <2>1
  <2>4. n > 0 => n <= room
    <3> HIDE DEF room
    <3> QED BY <1>2, <2>2, <2>3 DEF imin
  <2>5. n \in Nat
    BY <1>1, <1>2
  <2>6. QED
    BY <1>2, <2>1, <2>4, <2>5, Windows
<1>4. /\ k2.snd_nxt = k.snd_nxt + n /\ k2.snd_buf = buf /\ k2.snd_una = k.snd_una
      /\ k2.snd_queue = SubSeq(k.snd_queue, n + 1, Len(k.snd_queue))
      /\ k2.rcv_nxt = k.rcv_nxt /\ k2.rcv_buf = k.rcv_buf /\ k2.rcv_queue = k.rcv_queue
  <2> HIDE DEF buf, n
  <2> QED BY DEF ikcp_flush, IsKcpCB, buf, n
<1>5. DOMAIN buf = DOMAIN k.snd_buf \cup k.snd_nxt .. k.snd_nxt + n - 1
  BY DEF FlushedBuf
<1>6. Len(SubSeq(k.snd_queue, n + 1, Len(k.snd_queue))) = Len(k.snd_queue) - n
  BY <1>1, <1>2, DropFacts
<1> HIDE DEF n, buf, k2
<1>7. WithinWindows(k2)
  <2>0. n \in Nat
    BY <1>1, <1>2
  <2>1. Len(k2.rcv_queue) <= RcvWnd
        /\ DOMAIN k2.rcv_buf \subseteq k2.rcv_nxt .. k2.rcv_nxt + RcvWnd - 1
    BY <1>4 DEF WithinWindows
  <2>2. k.snd_una <= k.snd_nxt /\ k.snd_nxt - k.snd_una <= SndWnd
    BY DEF WithinWindows
  <2>3. k2.snd_una <= k2.snd_nxt /\ k2.snd_nxt - k2.snd_una <= SndWnd
    BY <1>2, <1>3, <1>4, <2>0, <2>2, Windows
  <2>4. DOMAIN k.snd_buf \subseteq k.snd_una .. k.snd_nxt - 1
    BY DEF WithinWindows
  <2>5. DOMAIN k2.snd_buf \subseteq k2.snd_una .. k2.snd_nxt - 1
    BY <1>2, <1>4, <1>5, <2>0, <2>2, <2>4
  <2>6. QED
    BY <2>1, <2>3, <2>5 DEF WithinWindows
<1>8. Keeps(k, k2)
  BY <1>2, <1>4 DEF Keeps, Holds
<1>9. Advance(k, k2)
  BY <1>1, <1>2, <1>4, <1>5, <1>6, <1>8 DEF Advance
<1>10. QED
  BY <1>7, <1>9 DEF k2

(***************************************************************************)
(* The receiving role: what is buffered becomes readable.                   *)
(***************************************************************************)
\* An operation of the receiving role only.
Receives(k, k2) ==
    /\ IsKcpCB(k2)
    /\ SameSender(k, k2) /\ k2.snd_una = k.snd_una /\ k2.snd_queue = k.snd_queue
    /\ Keeps(k, k2)
    /\ Len(k2.rcv_queue) <= RcvWnd
    /\ DOMAIN k2.rcv_buf \subseteq k2.rcv_nxt .. k2.rcv_nxt + RcvWnd - 1

LEMMA MoveReceives ==
    ASSUME NEW k, IsKcpCB(k), Len(k.rcv_queue) <= RcvWnd,
           DOMAIN k.rcv_buf \subseteq k.rcv_nxt .. k.rcv_nxt + RcvWnd - 1
    PROVE  Receives(k, MoveAvailable(k))
<1> DEFINE n == MoveCount(k)
           mv == [i \in 1 .. n |-> k.rcv_buf[k.rcv_nxt + i - 1]]
           k2 == MoveAvailable(k)
<1>1. /\ n \in Nat
      /\ \A i \in 1 .. n : k.rcv_nxt + i - 1 \in DOMAIN k.rcv_buf
      /\ k2.rcv_nxt = k.rcv_nxt + n
      /\ DOMAIN k2.rcv_buf = {sn \in DOMAIN k.rcv_buf : sn >= k.rcv_nxt + n}
      /\ k2.rcv_queue = k.rcv_queue \o mv
      /\ SameSender(k, k2)
  BY MoveAvailableFields
<1>2. IsKcpCB(k2)
  BY MoveAvailableType
<1>3. k2.snd_una = k.snd_una /\ k2.snd_queue = k.snd_queue
  BY DEF MoveAvailable, IsKcpCB
<1>4. n \in 0 .. ikcp_wnd_unused(k)
  BY MoveCountFacts
<1>5. k.rcv_nxt \in Nat /\ DOMAIN k.rcv_buf \subseteq Nat /\ k.rcv_queue \in Seq(Seg) /\ Len(k.rcv_queue) \in Nat
  BY Numbers
<1>6. k.rcv_buf \in [DOMAIN k.rcv_buf -> Seg]
  BY DEF IsKcpCB
<1> HIDE DEF n, k2
<1>7. n + Len(k.rcv_queue) <= RcvWnd
  BY <1>1, <1>4, <1>5, Windows DEF ikcp_wnd_unused
<1>8. mv \in Seq(Seg) /\ Len(mv) = n
  <2>1. \A i \in 1 .. n : mv[i] \in Seg
    BY <1>1, <1>6
  <2>2. QED
    BY <1>1, <2>1
<1> HIDE DEF mv
<1>9. Len(k2.rcv_queue) <= RcvWnd
  <2>1. Len(k.rcv_queue \o mv) = Len(k.rcv_queue) + Len(mv)
    BY ONLY <1>5, <1>8, ConcatFacts
  <2>2. QED
    BY <1>1, <1>5, <1>7, <1>8, <2>1, Windows
<1>10. Keeps(k, k2)
  BY <1>1, <1>5 DEF Keeps, Holds
<1>11. DOMAIN k2.rcv_buf \subseteq k2.rcv_nxt .. k2.rcv_nxt + RcvWnd - 1
  BY <1>1, <1>5, Windows
<1>12. QED
  BY <1>1, <1>2, <1>3, <1>9, <1>10, <1>11 DEF Receives, k2

LEMMA KeepsTransitive ==
    ASSUME NEW k, IsKcpCB(k), NEW k1, IsKcpCB(k1), NEW k2, IsKcpCB(k2), Keeps(k, k1), Keeps(k1, k2)
    PROVE  Keeps(k, k2)
<1>1. k.rcv_nxt \in Nat /\ k1.rcv_nxt \in Nat /\ k2.rcv_nxt \in Nat
  BY Numbers
<1>2. QED
  BY <1>1 DEF Keeps

\* A receiving operation keeps within the windows and takes nothing back.
LEMMA ReceivesAdvances ==
    ASSUME NEW k, IsKcpCB(k), NEW k2, Receives(k, k2), WithinWindows(k)
    PROVE  WithinWindows(k2) /\ Advance(k, k2)
<1>1. k2.snd_nxt = k.snd_nxt /\ k2.snd_buf = k.snd_buf /\ k2.snd_una = k.snd_una
      /\ k2.snd_queue = k.snd_queue /\ Keeps(k, k2)
  BY DEF Receives, SameSender
<1>2. WithinWindows(k2)
  BY <1>1 DEF WithinWindows, Receives
<1>3. QED
  BY <1>1, <1>2, Numbers DEF Advance

\* ikcp_parse_data of a segment within the window.
LEMMA ParseDataReceives ==
    ASSUME NEW k, IsKcpCB(k), NEW sn \in Nat, NEW seg \in Seg,
           Len(k.rcv_queue) <= RcvWnd,
           DOMAIN k.rcv_buf \subseteq k.rcv_nxt .. k.rcv_nxt + RcvWnd - 1
    PROVE  Receives(k, ikcp_parse_data(k, sn, seg))
<1> DEFINE rb == [s \in DOMAIN k.rcv_buf \cup {sn} |-> IF s = sn THEN seg ELSE k.rcv_buf[s]]
           k1 == [k EXCEPT !.rcv_buf = rb]
<1>0. k.rcv_nxt \in Nat
  BY Numbers
<1>1. Receives(k, k)
  BY <1>0 DEF Receives, SameSender, Keeps
<1>2. Receives(k, MoveAvailable(k))
  BY MoveReceives
<1>3. ASSUME sn \in k.rcv_nxt .. k.rcv_nxt + RcvWnd - 1 PROVE Receives(k, MoveAvailable(k1))
  <2>1. DOMAIN rb = DOMAIN k.rcv_buf \cup {sn} /\ rb \in [DOMAIN rb -> Seg]
    BY DEF IsKcpCB
  <2>a. DOMAIN k.rcv_buf \subseteq Nat
    BY Numbers
  <2> HIDE DEF rb
  <2>2. /\ IsKcpCB(k1) /\ k1.rcv_buf = rb /\ k1.rcv_nxt = k.rcv_nxt /\ k1.rcv_queue = k.rcv_queue
        /\ SameSender(k, k1) /\ k1.snd_una = k.snd_una /\ k1.snd_queue = k.snd_queue
    BY <2>1, <2>a DEF IsKcpCB, SameSender
  <2> HIDE DEF k1
  <2>3. Receives(k1, MoveAvailable(k1))
    BY <1>3, <2>1, <2>2, MoveReceives
  <2>4. Keeps(k, k1)
    BY <1>0, <2>1, <2>2 DEF Keeps, Holds
  <2>5. Keeps(k, MoveAvailable(k1))
    BY <2>2, <2>3, <2>4, KeepsTransitive DEF Receives
  <2>6. QED
    BY <2>2, <2>3, <2>5 DEF Receives, SameSender
<1>4. ikcp_parse_data(k, sn, seg) =
        IF sn \in k.rcv_nxt .. k.rcv_nxt + RcvWnd - 1
        THEN IF sn \in DOMAIN k.rcv_buf THEN MoveAvailable(k) ELSE MoveAvailable(k1)
        ELSE k
  BY DEF ikcp_parse_data
<1> HIDE DEF k1
<1>5. QED
  BY <1>1, <1>2, <1>3, <1>4

\* Kcp::recv_bytes: room in the queue lets buffered segments in.
LEMMA RecvAdvances ==
    ASSUME NEW k, IsKcpCB(k), k.rcv_queue # <<>>, WithinWindows(k)
    PROVE  LET k2 == ikcp_recv(k).kcp IN WithinWindows(k2) /\ Advance(k, k2)
<1> DEFINE q == k.rcv_queue
           n == FrameFragments(q)
           rest == SubSeq(q, n + 1, Len(q))
           k0 == [k EXCEPT !.rcv_queue = rest]
           k1 == MoveAvailable(k0)
           k2 == ikcp_recv(k).kcp
<1>1. /\ n \in 1 .. Len(q) /\ IsKcpCB(k0) /\ IsKcpCB(k1) /\ IsKcpCB(k2)
      /\ k2 = [k1 EXCEPT !.ask_tell = k2.ask_tell]
  BY RecvFacts
<1>2. q \in Seq(Seg) /\ Len(q) \in Nat /\ k.rcv_nxt \in Nat
  BY Numbers
<1>3. Len(rest) = Len(q) - n
  <2>1. n \in 0 .. Len(q)
    BY <1>1, <1>2
  <2> HIDE DEF n, q
  <2>2. QED
    BY ONLY <1>2, <2>1, DropFacts
<1> HIDE DEF n, rest
<1>4. /\ k0.rcv_nxt = k.rcv_nxt /\ k0.rcv_buf = k.rcv_buf /\ k0.rcv_queue = rest
      /\ SameSender(k, k0) /\ k0.snd_una = k.snd_una /\ k0.snd_queue = k.snd_queue
  BY DEF IsKcpCB, SameSender
<1> HIDE DEF k0, k2
<1>5. Len(q) <= RcvWnd /\ DOMAIN k.rcv_buf \subseteq k.rcv_nxt .. k.rcv_nxt + RcvWnd - 1
  BY DEF WithinWindows
<1> HIDE DEF q
<1>6. Len(k0.rcv_queue) <= RcvWnd
  BY <1>1, <1>2, <1>3, <1>4, <1>5, Windows
<1>7. Receives(k0, k1)
  BY <1>1, <1>4, <1>5, <1>6, MoveReceives
<1> HIDE DEF k1
<1>8. SameReceiver(k1, k2) /\ SameSender(k1, k2) /\ k2.snd_una = k1.snd_una /\ k2.snd_queue = k1.snd_queue
  BY <1>1 DEF IsKcpCB, SameReceiver, SameSender
<1>9. Keeps(k, k0) /\ Keeps(k1, k2)
  BY <1>1, <1>2, <1>4, <1>8, Numbers DEF Keeps, Holds, SameReceiver
<1>10. Keeps(k, k2)
  BY <1>1, <1>7, <1>9, KeepsTransitive DEF Receives
<1>11. Receives(k, k2)
  BY <1>1, <1>4, <1>7, <1>8, <1>10 DEF Receives, SameSender, SameReceiver
<1>12. QED
  BY <1>11, ReceivesAdvances DEF k2

(***************************************************************************)
(* The sending role: what acknowledgements do.                              *)
(***************************************************************************)
LEMMA AdvanceTransitive ==
    ASSUME NEW k, IsKcpCB(k), NEW k1, IsKcpCB(k1), NEW k2, IsKcpCB(k2), Advance(k, k1), Advance(k1, k2)
    PROVE  Advance(k, k2)
<1>1. Keeps(k, k2)
  BY KeepsTransitive DEF Advance
<1>2. /\ k.snd_nxt \in Nat /\ k1.snd_nxt \in Nat /\ k2.snd_nxt \in Nat
      /\ k.snd_una \in Nat /\ k1.snd_una \in Nat /\ k2.snd_una \in Nat
      /\ Len(k.snd_queue) \in Nat /\ Len(k1.snd_queue) \in Nat /\ Len(k2.snd_queue) \in Nat
  BY Numbers
<1>3. k2.snd_nxt >= k.snd_nxt /\ k2.snd_una >= k.snd_una
      /\ k2.snd_nxt + Len(k2.snd_queue) >= k.snd_nxt + Len(k.snd_queue)
  <2> DEFINE w == k.snd_nxt + Len(k.snd_queue)
             w1 == k1.snd_nxt + Len(k1.snd_queue)
             w2 == k2.snd_nxt + Len(k2.snd_queue)
  <2>a. w \in Nat /\ w1 \in Nat /\ w2 \in Nat
    BY <1>2
  <2>1. /\ k1.snd_nxt >= k.snd_nxt /\ k1.snd_una >= k.snd_una
        /\ k2.snd_nxt >= k1.snd_nxt /\ k2.snd_una >= k1.snd_una
        /\ w1 >= w /\ w2 >= w1
    BY DEF Advance
  <2>2. k2.snd_nxt >= k.snd_nxt /\ k2.snd_una >= k.snd_una
    BY <1>2, <2>1
  <2> HIDE DEF w, w1, w2
  <2>3. w2 >= w
    BY <2>a, <2>1
  <2>4. QED
    BY <2>2, <2>3 DEF w, w2
<1>4. \A sn \in 0 .. k.snd_nxt - 1 : sn \in DOMAIN k2.snd_buf => sn \in DOMAIN k.snd_buf
  BY <1>2 DEF Advance
<1>5. QED
  BY <1>1, <1>3, <1>4 DEF Advance

\* ikcp_shrink_buf after some segments were dropped from snd_buf.
LEMMA ShrinkAdvances ==
    ASSUME NEW k, IsKcpCB(k), NEW k1, IsKcpCB(k1), WithinWindows(k), SameReceiver(k, k1),
           DOMAIN k1.snd_buf \subseteq DOMAIN k.snd_buf, k1.snd_nxt = k.snd_nxt, k1.snd_queue = k.snd_queue
    PROVE  LET k2 == ikcp_shrink_buf(k1)
           IN  IsKcpCB(k2) /\ WithinWindows(k2) /\ Advance(k, k2)
<1> DEFINE B == DOMAIN k1.snd_buf
           u == IF B = {} THEN k1.snd_nxt ELSE Min(B)
           k2 == ikcp_shrink_buf(k1)
<1>1. IsKcpCB(k2)
  BY ShrinkType
<1>2. k2.snd_una = u /\ k2.snd_nxt = k.snd_nxt /\ k2.snd_buf = k1.snd_buf /\ k2.snd_queue = k.snd_queue
      /\ SameReceiver(k, k2)
  <2> HIDE DEF u
  <2> QED BY DEF ikcp_shrink_buf, IsKcpCB, SameReceiver, u
<1>3. k.snd_una \in Nat /\ k.snd_nxt \in Nat /\ k.rcv_nxt \in Nat
  BY Numbers
<1>4. B \subseteq k.snd_una .. k.snd_nxt - 1
  BY DEF WithinWindows
<1>5. u \in k.snd_una .. k.snd_nxt /\ \A sn \in B : u <= sn
  <2>1. CASE B = {}
    BY <1>3, <2>1 DEF WithinWindows
  <2>2. CASE B # {}
    <3> HIDE DEF B
    <3>1. B \subseteq Nat
      BY <1>3, <1>4
    <3>2. Min(B) \in B /\ \A sn \in B : Min(B) <= sn
      BY <2>2, <3>1, MinNat
    <3>3. u = Min(B)
      BY <2>2
    <3> HIDE DEF u
    <3>4. u \in k.snd_una .. k.snd_nxt - 1
      BY <1>4, <3>2, <3>3
    <3>5. u \in k.snd_una .. k.snd_nxt
      BY <1>3, <3>4
    <3>6. QED
      BY <3>2, <3>3, <3>5
  <2>3. QED
    BY <2>1, <2>2
<1> HIDE DEF u, k2
<1>6. WithinWindows(k2)
  <2>1. Len(k2.rcv_queue) <= RcvWnd
        /\ DOMAIN k2.rcv_buf \subseteq k2.rcv_nxt .. k2.rcv_nxt + RcvWnd - 1
    BY <1>2 DEF WithinWindows, SameReceiver
  <2>2. k.snd_nxt - k.snd_una <= SndWnd
    BY DEF WithinWindows
  <2>3. k2.snd_una <= k2.snd_nxt /\ k2.snd_nxt - k2.snd_una <= SndWnd
    BY <1>2, <1>3, <1>5, <2>2, Windows
  <2>4. DOMAIN k2.snd_buf \subseteq k2.snd_una .. k2.snd_nxt - 1
    <3> HIDE DEF B
    <3>1. B \subseteq u .. k.snd_nxt - 1
      BY <1>3, <1>4, <1>5
    <3>2. QED
      BY <1>2, <3>1 DEF B
  <2>5. QED
    BY <2>1, <2>3, <2>4 DEF WithinWindows
<1>7. Keeps(k, k2)
  BY <1>2, <1>3 DEF Keeps, Holds, SameReceiver
<1>8. k2.snd_una >= k.snd_una
  BY <1>2, <1>3, <1>5
<1>9. Advance(k, k2)
  BY <1>2, <1>3, <1>7, <1>8, Numbers DEF Advance
<1>10. QED
  BY <1>1, <1>6, <1>9 DEF k2

\* Kcp::input: a segment of any age, in both roles.
LEMMA InputAdvances ==
    ASSUME NEW k, IsKcpCB(k), NEW m \in WireSeg, WithinWindows(k)
    PROVE  LET k2 == ikcp_input(k, m).kcp IN WithinWindows(k2) /\ Advance(k, k2)
<1> DEFINE k0 == [k EXCEPT !.rmt_wnd = m.wnd]
           kh == ikcp_parse_una(k0, m.una)
           k1 == InputHeader(k, m)
           k2 == ikcp_input(k, m).kcp
<1>0. m.wnd \in 0 .. RcvWnd /\ m.sn \in Nat /\ m.una \in Nat /\ m.seg \in Seg /\ m.cmd \in Cmd
  BY DEF WireSeg
<1>1. IsKcpCB(k1) /\ WithinWindows(k1) /\ Advance(k, k1)
  <2>1. /\ IsKcpCB(k0) /\ SameReceiver(k, k0) /\ k0.snd_nxt = k.snd_nxt /\ k0.snd_queue = k.snd_queue
        /\ k0.snd_buf = k.snd_buf
    BY <1>0 DEF IsKcpCB, SameReceiver
  <2> HIDE DEF k0
  <2>2. IsKcpCB(kh)
    BY <2>1, SndBufType DEF ikcp_parse_una
  <2>3. /\ SameReceiver(k0, kh) /\ kh.snd_nxt = k0.snd_nxt /\ kh.snd_queue = k0.snd_queue
        /\ kh.snd_buf = Restrict(k0.snd_buf, {sn \in DOMAIN k0.snd_buf : sn >= m.una})
    BY <2>1 DEF ikcp_parse_una, IsKcpCB, SameReceiver
  <2>4. DOMAIN kh.snd_buf \subseteq DOMAIN k.snd_buf
    BY <2>1, <2>3 DEF Restrict
  <2>5. SameReceiver(k, kh) /\ kh.snd_nxt = k.snd_nxt /\ kh.snd_queue = k.snd_queue
    BY <2>1, <2>3 DEF SameReceiver
  <2>6. k1 = ikcp_shrink_buf(kh)
    BY DEF InputHeader, k0
  <2> HIDE DEF kh, k1
  <2>7. QED
    BY <2>2, <2>4, <2>5, <2>6, ShrinkAdvances
<1> HIDE DEF k1
<1>2. SameReceiver(k1, k1) /\ SameSender(k1, k1)
  BY SameRefl
<1>3. CASE k2 = k
  BY <1>3, QueueOnly, SameRefl, Numbers
<1>4. CASE k2 = InputAck(k1, m)
  <2> DEFINE ka == ikcp_parse_ack(k1, m.sn)
  <2>1. IsKcpCB(ka)
    BY <1>1, SndBufType DEF ikcp_parse_ack
  <2>2. /\ SameReceiver(k1, ka) /\ ka.snd_nxt = k1.snd_nxt /\ ka.snd_queue = k1.snd_queue
        /\ (ka.snd_buf = k1.snd_buf \/ ka.snd_buf = Restrict(k1.snd_buf, DOMAIN k1.snd_buf \ {m.sn}))
    BY <1>1 DEF ikcp_parse_ack, IsKcpCB, SameReceiver
  <2>3. DOMAIN ka.snd_buf \subseteq DOMAIN k1.snd_buf
    BY <2>2 DEF Restrict
  <2>4. k2 = ikcp_shrink_buf(ka)
    BY <1>4 DEF InputAck
  <2> HIDE DEF ka, k2
  <2>5. IsKcpCB(k2) /\ WithinWindows(k2) /\ Advance(k1, k2)
    BY <1>1, <2>1, <2>2, <2>3, <2>4, ShrinkAdvances
  <2>6. QED
    BY <1>1, <2>5, AdvanceTransitive DEF k2
<1>5. CASE k2 = [k1 EXCEPT !.ask_tell = TRUE] \/ k2 = k1
  <2> HIDE DEF k2
  <2>1. IsKcpCB(k2) /\ SameSender(k1, k2) /\ SameReceiver(k1, k2) /\ k2.snd_una = k1.snd_una
        /\ k2.snd_queue = k1.snd_queue
    BY <1>1, <1>5 DEF IsKcpCB, SameSender, SameReceiver
  <2>2. WithinWindows(k2) /\ Advance(k1, k2)
    BY <1>1, <2>1, QueueOnly, Numbers
  <2>3. QED
    BY <1>1, <2>1, <2>2, AdvanceTransitive DEF k2
<1>6. CASE m.cmd = "PUSH" /\ k2 = InputPush(k1, m)
  <2> DEFINE k3 == [k1 EXCEPT !.acklist = k1.acklist \cup {m.sn}]
             k4 == ikcp_parse_data(k3, m.sn, m.seg)
  <2>1. k2 \in {k1, k3, k4}
    BY <1>6 DEF InputPush
  <2>2. /\ IsKcpCB(k3) /\ k3.rcv_nxt = k1.rcv_nxt /\ k3.rcv_buf = k1.rcv_buf /\ k3.rcv_queue = k1.rcv_queue
        /\ SameSender(k1, k3) /\ k3.snd_una = k1.snd_una /\ k3.snd_queue = k1.snd_queue
    BY <1>0, <1>1 DEF IsKcpCB, SameSender
  <2> HIDE DEF k3, k2
  <2>3. Receives(k3, k3) /\ Receives(k3, k4) /\ Receives(k1, k1)
    <3>1. /\ Len(k3.rcv_queue) <= RcvWnd
          /\ DOMAIN k3.rcv_buf \subseteq k3.rcv_nxt .. k3.rcv_nxt + RcvWnd - 1
          /\ Len(k1.rcv_queue) <= RcvWnd
          /\ DOMAIN k1.rcv_buf \subseteq k1.rcv_nxt .. k1.rcv_nxt + RcvWnd - 1
      BY <1>1, <2>2 DEF WithinWindows
    <3>2. Receives(k3, k4)
      BY <1>0, <2>2, <3>1, ParseDataReceives
    <3>3. k3.rcv_nxt \in Nat /\ k1.rcv_nxt \in Nat
      BY <1>1, <2>2, Numbers
    <3>4. Keeps(k3, k3) /\ Keeps(k1, k1)
      BY <3>3 DEF Keeps
    <3>5. QED
      BY <1>1, <2>2, <3>1, <3>2, <3>4 DEF Receives, SameSender
  <2>4. Keeps(k1, k3)
    BY <1>1, <2>2, Numbers DEF Keeps, Holds
  <2> HIDE DEF k4
  <2>5. Receives(k1, k3) /\ Receives(k1, k4)
    <3>1. IsKcpCB(k4)
      BY <2>3 DEF Receives
    <3>2. Keeps(k1, k4)
      BY <1>1, <2>2, <2>3, <2>4, <3>1, KeepsTransitive DEF Receives
    <3>3. QED
      BY <2>2, <2>3, <2>4, <3>2 DEF Receives, SameSender
  <2>6. Receives(k1, k2)
    BY <2>1, <2>3, <2>5
  <2>7. WithinWindows(k2) /\ Advance(k1, k2) /\ IsKcpCB(k2)
    BY <1>1, <2>6, ReceivesAdvances DEF Receives
  <2>8. QED
    BY <1>1, <2>7, AdvanceTransitive DEF k2
<1>7. QED
  <2>1. \/ k2 = k \/ k2 = InputAck(k1, m) \/ k2 = [k1 EXCEPT !.ask_tell = TRUE] \/ k2 = k1
        \/ m.cmd = "PUSH" /\ k2 = InputPush(k1, m)
    BY <1>0 DEF ikcp_input, k1, Cmd
  <2>2. QED
    BY <2>1, <1>3, <1>4, <1>5, <1>6

-----------------------------------------------------------------------------
(***************************************************************************)
(* Steps of the whole system: one end advances, the other stands still.     *)
(***************************************************************************)
Moves(x) ==
    /\ kcp'[Peer(x)] = kcp[Peer(x)] /\ dlv'[Peer(x)] = dlv[Peer(x)]
    /\ WithinWindows(kcp'[x]) /\ Advance(kcp[x], kcp'[x])
    /\ Len(dlv'[x]) >= Len(dlv[x])

LEMMA MovesByUpdate ==
    ASSUME TypeOK, NEW x \in End, NEW k2, kcp' = [kcp EXCEPT ![x] = k2],
           WithinWindows(k2) /\ Advance(kcp[x], k2), dlv'[Peer(x)] = dlv[Peer(x)],
           Len(dlv'[x]) >= Len(dlv[x])
    PROVE  Moves(x)
<1>1. kcp'[x] = k2 /\ kcp'[Peer(x)] = kcp[Peer(x)]
  BY PeerFacts DEF TypeOK
<1>2. QED
  BY <1>1 DEF Moves

LEMMA NextMoves ==
    ASSUME TypeOK, BuffersBounded, Next
    PROVE  \E x \in End : Moves(x)
<1>0. \A x \in End : IsKcpCB(kcp[x]) /\ WithinWindows(kcp[x]) /\ dlv[x] \in Seq(Seg) /\ Len(dlv[x]) >= Len(dlv[x])
  <2> TAKE x \in End
  <2>1. dlv[x] \in Seq(Seg)
    BY DEF TypeOK
  <2>2. Len(dlv[x]) \in Nat
    BY <2>1
  <2>3. QED
    BY <2>1, <2>2 DEF TypeOK, BuffersBounded
<1>1. ASSUME NEW x \in Writers, NEW len \in FrameLens, Send(x, len)
      PROVE  Moves(x) /\ x \in End
  <2> DEFINE k2 == ikcp_send(kcp[x], LastOr0(sent[x]), len).kcp
  <2>1. x \in End /\ len \in Nat \ {0} /\ LastOr0(sent[x]) \in Nat
    BY ArqAssumption, LastOr0Type DEF TypeOK
  <2>2. WithinWindows(k2) /\ Advance(kcp[x], k2)
    BY <1>0, <2>1, SendAdvances
  <2>3. kcp' = [kcp EXCEPT ![x] = k2] /\ dlv' = dlv
    BY <1>1 DEF Send
  <2> HIDE DEF k2
  <2>4. QED
    BY <1>0, <2>1, <2>2, <2>3, MovesByUpdate
<1>2. ASSUME NEW x \in End, NEW cwnd \in 1 .. SndWnd, NEW probe, NEW due, NEW kept,
             Flush(x, cwnd, due, probe, kept)
      PROVE  Moves(x)
  <2> DEFINE k2 == ikcp_flush(kcp[x], cwnd, due, probe).kcp
  <2>1. cwnd \in Nat
    BY Windows
  <2>2. WithinWindows(k2) /\ Advance(kcp[x], k2)
    BY <1>0, <2>1, FlushAdvances
  <2>3. kcp' = [kcp EXCEPT ![x] = k2] /\ dlv' = dlv
    BY <1>2 DEF Flush
  <2> HIDE DEF k2
  <2>4. QED
    BY <1>0, <2>2, <2>3, MovesByUpdate
<1>3. ASSUME NEW x \in End, NEW again \in BOOLEAN, NEW m \in net[x], Input(x, m, again)
      PROVE  Moves(x)
  <2> DEFINE k2 == ikcp_input(kcp[x], m).kcp
  <2>1. m \in WireSeg
    BY DEF TypeOK
  <2>2. WithinWindows(k2) /\ Advance(kcp[x], k2)
    BY <1>0, <2>1, InputAdvances
  <2>3. kcp' = [kcp EXCEPT ![x] = k2] /\ dlv' = dlv
    BY <1>3 DEF Input
  <2> HIDE DEF k2
  <2>4. QED
    BY <1>0, <2>2, <2>3, MovesByUpdate
<1>4. ASSUME NEW x \in End, Recv(x) PROVE Moves(x)
  <2> DEFINE k2 == ikcp_recv(kcp[x]).kcp
             fr == ikcp_recv(kcp[x]).frame
  <2>1. kcp[x].rcv_queue # <<>>
    BY <1>4 DEF Recv, ikcp_peeksize
  <2>2. WithinWindows(k2) /\ Advance(kcp[x], k2)
    BY <1>0, <2>1, RecvAdvances
  <2>3. fr \in Seq(Seg)
    BY <1>0, <2>1, RecvFacts
  <2>4. kcp' = [kcp EXCEPT ![x] = k2] /\ dlv' = [dlv EXCEPT ![x] = dlv[x] \o fr]
    BY <1>4 DEF Recv
  <2> HIDE DEF k2, fr
  <2>5. dlv'[x] = dlv[x] \o fr /\ dlv'[Peer(x)] = dlv[Peer(x)]
    BY <2>4, PeerFacts DEF TypeOK
  <2>6. Len(dlv[x] \o fr) = Len(dlv[x]) + Len(fr) /\ Len(dlv[x]) \in Nat /\ Len(fr) \in Nat
    BY <1>0, <2>3, ConcatFacts, SeqLen
  <2>7. Len(dlv'[x]) >= Len(dlv[x])
    BY <2>5, <2>6
  <2>8. QED
    BY <2>2, <2>4, <2>5, <2>7, MovesByUpdate
<1>5. QED
  BY <1>1, <1>2, <1>3, <1>4 DEF Next

LEMMA BoundedStep == TypeOK /\ BuffersBounded /\ [Next]_vars => BuffersBounded'
<1> SUFFICES ASSUME TypeOK, BuffersBounded, [Next]_vars PROVE BuffersBounded'
  OBVIOUS
<1>1. CASE UNCHANGED vars
  BY <1>1 DEF vars, BuffersBounded
<1>2. CASE Next
  <2>1. PICK x \in End : Moves(x)
    BY <1>2, NextMoves
  <2>2. \A e \in End : e = x \/ e = Peer(x)
    BY DEF End, Peer
  <2>3. QED
    BY <2>1, <2>2, PeerFacts DEF BuffersBounded, Moves
<1>3. QED
  BY <1>1, <1>2

LEMMA BoundedInit == Init => BuffersBounded
<1> SUFFICES ASSUME Init, NEW e \in End PROVE WithinWindows(kcp[e])
  BY DEF BuffersBounded
<1> DEFINE c == ikcp_create(Conv)
<1>1. kcp[e] = c
  BY DEF Init
<1>2. /\ c.snd_una = 0 /\ c.snd_nxt = 0 /\ c.rcv_nxt = 0 /\ DOMAIN c.snd_buf = {} /\ DOMAIN c.rcv_buf = {}
      /\ c.rcv_queue = <<>>
  BY DEF ikcp_create, EmptyBuf
<1> HIDE DEF c
<1>3. QED
  BY <1>1, <1>2, Windows DEF WithinWindows

(***************************************************************************)
(* For every window size: the queue and the buffer of the receiver stay     *)
(* within rcv_wnd, and what the sender has in flight within snd_wnd, also   *)
(* when stale window advertisements and acknowledgements arrive.            *)
(***************************************************************************)
THEOREM BuffersWithinWindows == Spec => []BuffersBounded
  BY BoundedInit, BoundedStep, TypeInit, TypeStep, PTL DEF Spec

(***************************************************************************)
(* No call takes back what was acknowledged or received in order, and no    *)
(* used sequence number returns to snd_buf, however old the segment is that *)
(* ikcp_input is given.                                                     *)
(***************************************************************************)
THEOREM NothingTakenBack == Spec => ProgressKept
<1> DEFINE A == \A e \in End :
                  /\ kcp'[e].snd_una >= kcp[e].snd_una
                  /\ kcp'[e].rcv_nxt >= kcp[e].rcv_nxt
                  /\ \A sn \in 0 .. kcp[e].snd_nxt - 1 :
                        sn \in DOMAIN kcp'[e].snd_buf => sn \in DOMAIN kcp[e].snd_buf
<1>1. TypeOK /\ BuffersBounded /\ [Next]_vars => [A]_vars
  <2> SUFFICES ASSUME TypeOK, BuffersBounded, Next PROVE A
    OBVIOUS
  <2>1. PICK x \in End : Moves(x)
    BY NextMoves
  <2> SUFFICES ASSUME NEW e \in End
               PROVE  /\ kcp'[e].snd_una >= kcp[e].snd_una
                      /\ kcp'[e].rcv_nxt >= kcp[e].rcv_nxt
                      /\ \A sn \in 0 .. kcp[e].snd_nxt - 1 :
                            sn \in DOMAIN kcp'[e].snd_buf => sn \in DOMAIN kcp[e].snd_buf
    OBVIOUS
  <2>2. e = x \/ e = Peer(x)
    BY DEF End, Peer
  <2>3. CASE e = x
    BY <2>1, <2>3 DEF Moves, Advance, Keeps
  <2>4. CASE e = Peer(x)
    <3>1. kcp'[e] = kcp[e]
      BY <2>1, <2>4 DEF Moves
    <3>2. kcp[e].snd_una \in Nat /\ kcp[e].rcv_nxt \in Nat
      BY Numbers DEF TypeOK
    <3>3. QED
      BY <3>1, <3>2
  <2>5. QED
    BY <2>2, <2>3, <2>4
<1>2. QED
  BY <1>1, TypeCorrect, BuffersWithinWindows, PTL DEF Spec, ProgressKept

-----------------------------------------------------------------------------
(***************************************************************************)
(* Each direction is a pipe.                                                *)
(***************************************************************************)
\* StoredBelow is the end of the longest prefix that the receiver holds.
LEMMA StoredBelowFacts ==
    ASSUME NEW r, IsKcpCB(r), WithinWindows(r)
    PROVE  /\ StoredBelow(r) \in Nat /\ StoredBelow(r) >= r.rcv_nxt
           /\ \A sn \in 0 .. StoredBelow(r) - 1 : Holds(r, sn)
           /\ \A n \in Nat : (\A sn \in 0 .. n - 1 : Holds(r, sn)) => n <= StoredBelow(r)
<1> DEFINE S == {n \in r.rcv_nxt .. r.rcv_nxt + RcvWnd : \A sn \in r.rcv_nxt .. n - 1 : Holds(r, sn)}
           g == StoredBelow(r)
<1>1. r.rcv_nxt \in Nat /\ DOMAIN r.rcv_buf \subseteq r.rcv_nxt .. r.rcv_nxt + RcvWnd - 1
  BY Numbers DEF WithinWindows
<1>2. r.rcv_nxt \in S
  BY <1>1, Windows
<1>3. S \subseteq 0 .. r.rcv_nxt + RcvWnd /\ r.rcv_nxt + RcvWnd \in Nat
  BY <1>1, Windows
<1>4. g = Max(S)
  BY DEF StoredBelow
<1> HIDE DEF g
<1>5. g \in S /\ \A n \in S : g >= n
  <2> HIDE DEF S
  <2> QED BY <1>2, <1>3, <1>4, MaxNat
<1>6. g \in Nat /\ g >= r.rcv_nxt
  BY <1>1, <1>5, Windows
<1>7. \A sn \in 0 .. g - 1 : Holds(r, sn)
  BY <1>1, <1>5, <1>6 DEF Holds
<1>8. ASSUME NEW n \in Nat, \A sn \in 0 .. n - 1 : Holds(r, sn) PROVE n <= g
  <2>1. CASE n <= r.rcv_nxt
    BY <1>1, <1>6, <2>1
  <2>2. CASE n > r.rcv_nxt
    <3>1. n <= r.rcv_nxt + RcvWnd
      <4> SUFFICES ASSUME n > r.rcv_nxt + RcvWnd PROVE FALSE
        BY <1>1, Windows
      <4>1. r.rcv_nxt + RcvWnd \in 0 .. n - 1
        BY <1>3
      <4>2. Holds(r, r.rcv_nxt + RcvWnd)
        BY <1>8, <4>1
      <4>3. QED
        BY <1>1, <4>2, Windows DEF Holds
    <3>2. n \in S
      BY <1>1, <1>8, <2>2, <3>1, Windows
    <3>3. QED
      BY <1>5, <1>6, <3>2
  <2>3. QED
    BY <1>1, <2>1, <2>2
<1>9. QED
  BY <1>6, <1>7, <1>8 DEF g

\* A receiver that keeps what it holds stores no less than before.
LEMMA StoredGrows ==
    ASSUME NEW r, IsKcpCB(r), WithinWindows(r), NEW r2, IsKcpCB(r2), WithinWindows(r2), Keeps(r, r2)
    PROVE  StoredBelow(r2) >= StoredBelow(r)
<1>1. StoredBelow(r) \in Nat /\ StoredBelow(r2) \in Nat /\ \A sn \in 0 .. StoredBelow(r) - 1 : Holds(r, sn)
  BY StoredBelowFacts
<1>2. \A sn \in 0 .. StoredBelow(r) - 1 : Holds(r2, sn)
  BY <1>1 DEF Keeps
<1>3. StoredBelow(r) <= StoredBelow(r2)
  BY <1>1, <1>2, StoredBelowFacts
<1>4. QED
  BY <1>1, <1>3

\* The order of the numbers of one direction, from the sender s with the log
\* lg to the receiver r that delivered d.
LEMMA PipeOrder ==
    ASSUME NEW s, IsKcpCB(s), WithinWindows(s), NEW r, IsKcpCB(r), WithinWindows(r),
           NEW lg \in Seq(Seg), NEW d \in Seq(Seg), NEW toR, NEW toS, DirInv(s, r, lg, d, toR, toS)
    PROVE  /\ s.snd_una <= StoredBelow(r)
           /\ StoredBelow(r) <= s.snd_nxt
           /\ Len(d) <= StoredBelow(r)
<1> DEFINE g == StoredBelow(r)
<1>1. /\ s.snd_una \in Nat /\ s.snd_nxt \in Nat /\ r.rcv_nxt \in Nat /\ Len(r.rcv_queue) \in Nat
      /\ Len(lg) \in Nat /\ Len(d) \in Nat
  BY Numbers
<1>2. /\ g \in Nat /\ g >= r.rcv_nxt
      /\ \A sn \in 0 .. g - 1 : Holds(r, sn)
      /\ \A n \in Nat : (\A sn \in 0 .. n - 1 : Holds(r, sn)) => n <= g
  BY StoredBelowFacts
<1> HIDE DEF g
<1>3. s.snd_una <= g
  <2>1. DOMAIN s.snd_buf \subseteq s.snd_una .. s.snd_nxt - 1 /\ s.snd_una <= s.snd_nxt
    BY DEF WithinWindows
  <2>2. \A sn \in 0 .. s.snd_nxt - 1 : sn \in DOMAIN s.snd_buf \/ Holds(r, sn)
    BY DEF DirInv, Stored
  <2>3. \A sn \in 0 .. s.snd_una - 1 : Holds(r, sn)
    <3> TAKE sn \in 0 .. s.snd_una - 1
    <3>1. sn \in 0 .. s.snd_nxt - 1 /\ sn \notin s.snd_una .. s.snd_nxt - 1
      BY <1>1, <2>1
    <3>2. QED
      BY <2>1, <2>2, <3>1
  <2>4. QED
    BY <1>1, <1>2, <2>3
<1>4. g <= s.snd_nxt
  <2>1. Len(lg) = s.snd_nxt /\ r.rcv_nxt <= Len(lg) /\ \A sn \in DOMAIN r.rcv_buf : sn < Len(lg)
    BY DEF DirInv, SenderInv, ReceiverInv
  <2>2. SUFFICES ASSUME g > s.snd_nxt PROVE FALSE
    BY <1>1, <1>2
  <2>3. Holds(r, s.snd_nxt)
    <3>1. s.snd_nxt \in 0 .. g - 1
      BY <1>1, <1>2, <2>2
    <3>2. QED
      BY <1>2, <3>1
  <2>4. QED
    BY <1>1, <2>1, <2>3 DEF Holds
<1>5. Len(d) <= g
  <2>1. Len(d) + Len(r.rcv_queue) = r.rcv_nxt
    BY DEF DirInv, DeliveredInv
  <2>2. Len(d) <= r.rcv_nxt
    BY <1>1, <2>1
  <2>3. QED
    BY <1>1, <1>2, <2>2
<1>6. QED
  BY <1>3, <1>4, <1>5 DEF g

\* Everything the refinement needs of a state.
PipeInv == TypeOK /\ ArqInv /\ BuffersBounded

Ordered(x) ==
    /\ IsKcpCB(kcp[x]) /\ WithinWindows(kcp[x])
    /\ kcp[x].snd_una <= StoredBelow(kcp[Peer(x)])
    /\ StoredBelow(kcp[Peer(x)]) <= kcp[x].snd_nxt
    /\ Len(dlv[Peer(x)]) <= StoredBelow(kcp[Peer(x)])
    /\ kcp[x].snd_nxt <= kcp[x].snd_nxt + Len(kcp[x].snd_queue)

BothOrdered == \A x \in End : Ordered(x)

LEMMA PipeFacts == PipeInv => BothOrdered
<1> SUFFICES ASSUME PipeInv, NEW x \in End PROVE Ordered(x)
  BY DEF BothOrdered
<1>1. Peer(x) \in End
  BY PeerFacts
<1>2. /\ IsKcpCB(kcp[x]) /\ WithinWindows(kcp[x]) /\ IsKcpCB(kcp[Peer(x)]) /\ WithinWindows(kcp[Peer(x)])
      /\ log[x] \in Seq(Seg) /\ dlv[Peer(x)] \in Seq(Seg)
  BY <1>1 DEF PipeInv, TypeOK, BuffersBounded
<1>3. DirInv(kcp[x], kcp[Peer(x)], log[x], dlv[Peer(x)], net[Peer(x)], net[x])
  BY DEF PipeInv, ArqInv
<1>4. kcp[x].snd_nxt \in Nat /\ Len(kcp[x].snd_queue) \in Nat
  BY <1>2, Numbers
<1>5. kcp[x].snd_nxt <= kcp[x].snd_nxt + Len(kcp[x].snd_queue)
  BY <1>4
<1>6. QED
  BY <1>2, <1>3, <1>5, PipeOrder DEF Ordered

(***************************************************************************)
(* A step of the end x is one of the sender of the direction from x, and    *)
(* one of the receiver of the direction to x.                               *)
(***************************************************************************)
LEMMA MovesSenderReceiver ==
    ASSUME PipeInv, PipeInv', NEW x \in End, NEW y \in End, y = Peer(x), Moves(x)
    PROVE  /\ kcp'[x].snd_nxt + Len(kcp'[x].snd_queue) >= kcp[x].snd_nxt + Len(kcp[x].snd_queue)
           /\ kcp'[x].snd_nxt >= kcp[x].snd_nxt
           /\ kcp'[x].snd_nxt <= kcp'[x].snd_nxt + Len(kcp'[x].snd_queue)
           /\ kcp'[x].snd_una >= kcp[x].snd_una
           /\ kcp'[x].snd_una <= StoredBelow(kcp[y])
           /\ kcp'[y] = kcp[y] /\ dlv'[y] = dlv[y]
           /\ StoredBelow(kcp'[x]) >= StoredBelow(kcp[x])
           /\ StoredBelow(kcp'[x]) <= kcp[y].snd_nxt
           /\ Len(dlv'[x]) >= Len(dlv[x])
           /\ Len(dlv'[x]) <= StoredBelow(kcp'[x])
<1>1. Peer(y) = x
  BY PeerFacts
<1>2. kcp'[y] = kcp[y] /\ dlv'[y] = dlv[y] /\ Advance(kcp[x], kcp'[x]) /\ Len(dlv'[x]) >= Len(dlv[x])
  BY DEF Moves
<1>3. BothOrdered /\ BothOrdered'
  BY PipeFacts, PTL
<1>4. /\ IsKcpCB(kcp[x]) /\ WithinWindows(kcp[x])
      /\ IsKcpCB(kcp'[x]) /\ WithinWindows(kcp'[x])
      /\ kcp'[x].snd_una <= StoredBelow(kcp'[y])
      /\ StoredBelow(kcp'[x]) <= kcp'[y].snd_nxt
      /\ Len(dlv'[x]) <= StoredBelow(kcp'[x])
      /\ kcp'[x].snd_nxt <= kcp'[x].snd_nxt + Len(kcp'[x].snd_queue)
  BY <1>1, <1>3 DEF BothOrdered, Ordered
<1>5. StoredBelow(kcp'[x]) >= StoredBelow(kcp[x])
  BY <1>2, <1>4, StoredGrows DEF Advance
<1>6. /\ kcp'[x].snd_nxt + Len(kcp'[x].snd_queue) >= kcp[x].snd_nxt + Len(kcp[x].snd_queue)
      /\ kcp'[x].snd_nxt >= kcp[x].snd_nxt
      /\ kcp'[x].snd_una >= kcp[x].snd_una
  BY <1>2 DEF Advance
<1>7. QED
  BY <1>2, <1>4, <1>5, <1>6

LEMMA PipeSteps ==
    ASSUME PipeInv, PipeInv', [Next]_vars
    PROVE  [AToB!Next]_(AToB!pipe) /\ [BToA!Next]_(BToA!pipe)
<1>0. "a" \in End /\ "b" \in End /\ Peer("a") = "b" /\ Peer("b") = "a"
  BY DEF End, Peer
<1>1. CASE UNCHANGED vars
  BY <1>1 DEF vars, AToB!pipe, BToA!pipe
<1>2. CASE Moves("a")
  <2>1. AToB!SenderStep
    BY <1>0, <1>2, MovesSenderReceiver DEF AToB!SenderStep
  <2>2. BToA!ReceiverStep
    BY <1>0, <1>2, MovesSenderReceiver DEF BToA!ReceiverStep
  <2>3. QED
    BY <2>1, <2>2 DEF AToB!Next, BToA!Next
<1>3. CASE Moves("b")
  <2>1. BToA!SenderStep
    BY <1>0, <1>3, MovesSenderReceiver DEF BToA!SenderStep
  <2>2. AToB!ReceiverStep
    BY <1>0, <1>3, MovesSenderReceiver DEF AToB!ReceiverStep
  <2>3. QED
    BY <2>1, <2>2 DEF AToB!Next, BToA!Next
<1>4. QED
  <2>1. CASE Next
    BY <2>1, <1>2, <1>3, NextMoves DEF PipeInv, End
  <2>2. QED
    BY <2>1, <1>1

LEMMA PipeInit == Init => AToB!Init /\ BToA!Init
<1> SUFFICES ASSUME Init PROVE AToB!Init /\ BToA!Init
  OBVIOUS
<1> DEFINE c == ikcp_create(Conv)
<1>0. "a" \in End /\ "b" \in End
  BY DEF End
<1>1. kcp["a"] = c /\ kcp["b"] = c /\ dlv["a"] = <<>> /\ dlv["b"] = <<>>
  BY <1>0 DEF Init
<1>2. c.snd_nxt = 0 /\ c.snd_una = 0 /\ c.snd_queue = <<>> /\ c.rcv_nxt = 0 /\ DOMAIN c.rcv_buf = {}
  BY DEF ikcp_create, EmptyBuf
<1>3. IsKcpCB(c) /\ WithinWindows(c)
  <2>1. IsKcpCB(c)
    BY CreateType DEF Conv
  <2>2. WithinWindows(kcp["a"])
    BY <1>0, BoundedInit DEF BuffersBounded
  <2>3. QED
    BY <1>1, <2>1, <2>2
<1> HIDE DEF c
<1>4. StoredBelow(c) = 0
  <2>1. StoredBelow(c) \in Nat /\ \A sn \in 0 .. StoredBelow(c) - 1 : Holds(c, sn)
    BY <1>3, StoredBelowFacts
  <2>2. SUFFICES ASSUME StoredBelow(c) > 0 PROVE FALSE
    BY <2>1
  <2>3. Holds(c, 0)
    BY <2>1, <2>2
  <2>4. QED
    BY <1>2, <2>3 DEF Holds
<1>5. QED
  BY <1>1, <1>2, <1>4 DEF AToB!Init, BToA!Init

(***************************************************************************)
(* KCP over a network that loses, repeats and reorders implements a pipe in *)
(* each direction: what is acknowledged is stored, what is stored was       *)
(* numbered, what is read was stored, and none of it is ever taken back.    *)
(***************************************************************************)
THEOREM DirectionsArePipes == Spec => ImplementsPipe
<1>1. PipeInv /\ PipeInv' /\ [Next]_vars => [AToB!Next]_(AToB!pipe) /\ [BToA!Next]_(BToA!pipe)
  BY PipeSteps
<1>2. Spec => []PipeInv
  BY TypeCorrect, ArqInvariant, BuffersWithinWindows, PTL DEF PipeInv
<1>3. QED
  BY <1>1, <1>2, PipeInit, PTL DEF Spec, ImplementsPipe, AToB!Spec, BToA!Spec

-----------------------------------------------------------------------------
(***************************************************************************)
(* Frames.  An offset in the written data is the end of a frame just when   *)
(* a segment with frg = 0 ends there; so what is to be known of a frame is  *)
(* how the frg of its segments count down.  w is the written segments of an *)
(* end, s the ends of the frames that it wrote.                             *)
(***************************************************************************)
SegEnd(seg) == seg.off + seg.len

\* The frames of s follow one another, each ends with a segment with frg = 0
\* and nothing else does, and frg counts down to it.
Framed(w, s) ==
    /\ \A i, j \in 1 .. Len(s) : i < j => s[i] < s[j]
    /\ \A j \in 1 .. Len(s) :
         s[j] > 0 /\ \E i \in 1 .. Len(w) : SegEnd(w[i]) = s[j] /\ w[i].frg = 0
    /\ \A i \in 1 .. Len(w) : w[i].frg = 0 => \E j \in 1 .. Len(s) : SegEnd(w[i]) = s[j]
    /\ \A i \in 1 .. Len(w) : w[i].frg > 0 => i < Len(w) /\ w[i + 1].frg = w[i].frg - 1

\* The frames read so far, rd, are the first ones of s, and the delivered
\* segments d end with the last of them: no frame is read in part.
ReadFrames(d, rd, s) ==
    /\ EndOffset(d) = LastOr0(rd)
    /\ Len(rd) <= Len(s)
    /\ \A i \in 1 .. Len(rd) : rd[i] = s[i]

\* What FramesPreserved rests on, in message mode.
FramesInv ==
    ~Stream => \A e \in End :
        /\ Framed(Written(log[e], kcp[e]), sent[e])
        /\ ReadFrames(dlv[Peer(e)], reads[Peer(e)], sent[e])

\* No segment is empty, and no frame has more segments than fit in a window.
Sized(w) == \A i \in 1 .. Len(w) : w[i].len > 0 /\ w[i].frg < WndRcv

\* What FullQueueReadable rests on, in both modes.
SizesInv == \A e \in End : Sized(Written(log[e], kcp[e]))

\* The fields of the segments of a sequence.
LEMMA SegFields ==
    ASSUME NEW w \in Seq(Seg)
    PROVE  /\ Len(w) \in Nat
           /\ \A i \in 1 .. Len(w) :
                /\ w[i] \in Seg /\ w[i].off \in Nat /\ w[i].len \in Nat /\ w[i].frg \in Nat
                /\ SegEnd(w[i]) \in Nat
<1>1. Len(w) \in Nat /\ \A i \in 1 .. Len(w) : w[i] \in Seg
  OBVIOUS
<1>2. \A x \in Seg : x.off \in Nat /\ x.len \in Nat /\ x.frg \in Nat /\ SegEnd(x) \in Nat
  BY DEF Seg, SegEnd
<1>3. QED
  BY <1>1, <1>2

\* In a contiguous sequence every segment ends after the ones before it.
LEMMA EndsIncrease ==
    ASSUME NEW w \in Seq(Seg), Contiguous(w), NEW i \in 1 .. Len(w), NEW j \in 1 .. Len(w), i < j
    PROVE  SegEnd(w[i]) < SegEnd(w[j])
<1> DEFINE T == {n \in 1 .. Len(w) : i < n /\ ~ (SegEnd(w[i]) < SegEnd(w[n]))}
<1>1. Len(w) \in Nat /\ \A n \in 1 .. Len(w) :
        w[n].off \in Nat /\ w[n].len \in Nat /\ SegEnd(w[n]) \in Nat
  BY SegFields
<1>2. ASSUME NEW n \in 1 .. Len(w), n > 1 PROVE SegEnd(w[n - 1]) < SegEnd(w[n])
  <2>1. n - 1 \in 1 .. Len(w)
    BY <1>1, <1>2
  <2>2. w[n].len > 0 /\ w[n].off = w[n - 1].off + w[n - 1].len
    BY <1>2 DEF Contiguous
  <2>3. w[n].off = SegEnd(w[n - 1]) /\ SegEnd(w[n]) = w[n].off + w[n].len
    BY <2>2 DEF SegEnd
  <2>4. QED
    BY <1>1, <2>1, <2>2, <2>3
<1>3. T = {}
  <2> SUFFICES ASSUME T # {} PROVE FALSE
    OBVIOUS
  <2> DEFINE m == Min(T)
  <2>1. T \subseteq Nat
    BY <1>1
  <2>2. m \in T /\ \A n \in T : m <= n
    BY <2>1, MinNat
  <2> HIDE DEF m
  <2>3. m \in 1 .. Len(w) /\ i < m /\ ~ (SegEnd(w[i]) < SegEnd(w[m]))
    BY <2>2
  <2>4. m > 1 /\ m - 1 \in 1 .. Len(w) /\ m - 1 \notin T
    BY <1>1, <2>2, <2>3
  <2>5. SegEnd(w[m - 1]) < SegEnd(w[m])
    BY <1>2, <2>3, <2>4
  <2>6. m - 1 = i \/ SegEnd(w[i]) < SegEnd(w[m - 1])
    BY <1>1, <2>3, <2>4
  <2>7. SegEnd(w[i]) < SegEnd(w[m])
    BY <1>1, <2>3, <2>4, <2>5, <2>6
  <2>8. QED
    BY <2>3, <2>7
<1>4. QED
  BY <1>3

\* The fragments of a frame are counted down: the last one has frg = 0.
LEMMA CountedDown ==
    ASSUME NEW q \in Seq(Seg), q # <<>>, q[1].frg + 1 <= Len(q),
           \A i \in 1 .. Len(q) - 1 : q[i].frg > 0 => q[i + 1].frg = q[i].frg - 1
    PROVE  q[q[1].frg + 1].frg = 0
<1> DEFINE f == q[1].frg
           T == {n \in 0 .. f : q[n + 1].frg # f - n}
<1>1. Len(q) \in Nat \ {0} /\ f \in Nat /\ f + 1 <= Len(q)
      /\ \A i \in 1 .. Len(q) : q[i].frg \in Nat
  BY SegFields
<1>2. T = {}
  <2> SUFFICES ASSUME T # {} PROVE FALSE
    OBVIOUS
  <2> DEFINE m == Min(T)
  <2>1. T \subseteq Nat
    OBVIOUS
  <2>2. m \in T /\ \A n \in T : m <= n
    BY <2>1, MinNat
  <2> HIDE DEF m
  <2>3. m \in 0 .. f /\ q[m + 1].frg # f - m
    BY <2>2
  <2>4. m # 0
    BY <1>1, <2>3
  <2>5. m - 1 \in 0 .. f /\ m - 1 \notin T
    BY <1>1, <2>2, <2>3, <2>4
  <2>6. q[(m - 1) + 1].frg = f - (m - 1)
    BY <2>5
  <2>7. (m - 1) + 1 = m /\ m \in 1 .. Len(q) - 1 /\ f - (m - 1) > 0
        /\ (f - (m - 1)) - 1 = f - m
    BY <1>1, <2>3, <2>4
  <2>8. q[m].frg = f - (m - 1)
    BY <2>6, <2>7
  <2>9. q[m + 1].frg = q[m].frg - 1
    BY <2>7, <2>8
  <2>10. QED
    BY <2>3, <2>7, <2>8, <2>9
<1>3. f \notin T /\ f \in 0 .. f /\ f - f = 0
  BY <1>1, <1>2
<1>4. QED
  BY <1>3

\* The first frame of a queue that holds a whole one ends with its fragment 0.
LEMMA WholeFrame ==
    ASSUME NEW q \in Seq(Seg), q # <<>>, q[1].frg + 1 <= Len(q),
           \A i \in 1 .. Len(q) - 1 : q[i].frg > 0 => q[i + 1].frg = q[i].frg - 1
    PROVE  LET n == FrameFragments(q)
           IN  /\ n \in 1 .. Len(q) /\ q[n].frg = 0
               /\ \A i \in 1 .. Len(q) : i < n => q[i].frg # 0
<1> DEFINE S == {i \in 1 .. Len(q) : q[i].frg = 0} \cup {Len(q)}
           n == Min(S)
           z == q[1].frg + 1
<1>1. Len(q) \in Nat \ {0} /\ z \in 1 .. Len(q)
  BY SegFields
<1>2. q[z].frg = 0
  BY CountedDown
<1>3. S \subseteq Nat /\ S # {} /\ S \subseteq 1 .. Len(q)
  BY <1>1
<1>4. n \in S /\ \A i \in S : n <= i
  BY <1>3, MinNat
<1> HIDE DEF n, z
<1>5. z \in S
  BY <1>1, <1>2
<1>6. n \in 1 .. Len(q)
  BY <1>3, <1>4
<1>7. q[n].frg = 0
  <2>1. CASE n = Len(q)
    <3>1. z = Len(q)
      BY <1>1, <1>4, <1>5, <2>1
    <3>2. QED
      BY <1>2, <2>1, <3>1
  <2>2. CASE n # Len(q)
    BY <1>4, <2>2
  <2>3. QED
    BY <2>1, <2>2
<1>8. \A i \in 1 .. Len(q) : i < n => q[i].frg # 0
  <2> SUFFICES ASSUME NEW i \in 1 .. Len(q), i < n, q[i].frg = 0 PROVE FALSE
    OBVIOUS
  <2>1. i \in S
    OBVIOUS
  <2>2. n <= i
    BY <1>4, <2>1
  <2>3. QED
    BY <1>1, <1>6, <2>2
<1>9. QED
  BY <1>6, <1>7, <1>8 DEF FrameFragments, n

(***************************************************************************)
(* The heart of it: if what was read ends with frame Len(rd) of s, then the *)
(* first whole frame of the queue that follows is the next one of s.        *)
(***************************************************************************)
LEMMA NextFrame ==
    ASSUME NEW w \in Seq(Seg), Contiguous(w), NEW s \in Seq(Nat), Framed(w, s),
           NEW rd \in Seq(Nat), Len(rd) <= Len(s), \A i \in 1 .. Len(rd) : rd[i] = s[i],
           NEW d \in Nat, NEW q \in Seq(Seg), q # <<>>, d + Len(q) <= Len(w),
           \A i \in 1 .. Len(q) : q[i] = w[d + i],
           LastOr0(rd) = IF d = 0 THEN 0 ELSE SegEnd(w[d]),
           q[1].frg + 1 <= Len(q)
    PROVE  LET n == FrameFragments(q)
           IN  Len(rd) + 1 \in 1 .. Len(s) /\ SegEnd(q[n]) = s[Len(rd) + 1]
<1> DEFINE n == FrameFragments(q)
           u == Len(rd) + 1
           E0 == LastOr0(rd)
<1>1. /\ Len(w) \in Nat /\ Len(q) \in Nat \ {0} /\ Len(rd) \in Nat /\ Len(s) \in Nat /\ u \in Nat
      /\ \A i \in 1 .. Len(s) : s[i] \in Nat
      /\ \A i \in 1 .. Len(w) : SegEnd(w[i]) \in Nat /\ w[i].frg \in Nat
      /\ E0 \in Nat
  BY SegFields, LastOr0Type
<1>2. /\ \A i, j \in 1 .. Len(s) : i < j => s[i] < s[j]
      /\ \A j \in 1 .. Len(s) :
           s[j] > 0 /\ \E i \in 1 .. Len(w) : SegEnd(w[i]) = s[j] /\ w[i].frg = 0
      /\ \A i \in 1 .. Len(w) : w[i].frg = 0 => \E j \in 1 .. Len(s) : SegEnd(w[i]) = s[j]
      /\ \A i \in 1 .. Len(w) : w[i].frg > 0 => i < Len(w) /\ w[i + 1].frg = w[i].frg - 1
  BY DEF Framed
<1>3. n \in 1 .. Len(q) /\ q[n].frg = 0 /\ \A i \in 1 .. Len(q) : i < n => q[i].frg # 0
  <2>1. ASSUME NEW i \in 1 .. Len(q) - 1, q[i].frg > 0 PROVE q[i + 1].frg = q[i].frg - 1
    <3>1. i \in 1 .. Len(q) /\ i + 1 \in 1 .. Len(q) /\ d + i \in 1 .. Len(w)
          /\ d + (i + 1) = (d + i) + 1
      <4>1. Len(w) \in Nat /\ Len(q) \in Nat \ {0} /\ d + Len(q) <= Len(w)
        BY <1>1
      <4>2. QED
        BY ONLY <4>1, d \in Nat, i \in 1 .. Len(q) - 1
    <3>2. q[i] = w[d + i] /\ q[i + 1] = w[(d + i) + 1]
      BY <3>1
    <3>3. QED
      BY <1>2, <2>1, <3>1, <3>2
  <2>2. QED
    BY <2>1, WholeFrame
<1> HIDE DEF n, u, E0
<1>4. d + n \in 1 .. Len(w) /\ w[d + n] = q[n]
  BY <1>1, <1>3
<1>5. PICK j \in 1 .. Len(s) : SegEnd(w[d + n]) = s[j]
  BY <1>2, <1>3, <1>4
<1>6. E0 = IF d = 0 THEN 0 ELSE SegEnd(w[d])
  BY DEF E0
<1>7. E0 < s[j]
  <2>1. CASE d = 0
    BY <1>2, <1>6, <2>1
  <2>2. CASE d # 0
    <3>1. d \in 1 .. Len(w) /\ d < d + n
      BY <1>1, <1>3, <2>2
    <3>2. SegEnd(w[d]) < SegEnd(w[d + n])
      BY <1>4, <3>1, EndsIncrease
    <3>3. QED
      BY <1>5, <1>6, <2>2, <3>2
  <2>3. QED
    BY <2>1, <2>2
<1>8. rd # <<>> => Len(rd) \in 1 .. Len(s) /\ E0 = s[Len(rd)]
  BY <1>1 DEF E0, LastOr0
<1>9. j >= u
  <2>1. CASE rd = <<>>
    <3>1. Len(rd) = 0
      BY <2>1
    <3>2. QED
      BY <1>1, <3>1 DEF u
  <2>2. CASE rd # <<>>
    <3>1. ~ (j <= Len(rd))
      <4> SUFFICES ASSUME j <= Len(rd) PROVE FALSE
        OBVIOUS
      <4>1. s[j] <= s[Len(rd)]
        <5>1. CASE j = Len(rd)
          BY <1>1, <1>8, <2>2, <5>1
        <5>2. CASE j # Len(rd)
          <6>1. j < Len(rd)
            BY <1>1, <5>2
          <6>2. s[j] < s[Len(rd)]
            BY <1>2, <1>8, <2>2, <6>1
          <6>3. QED
            BY <1>1, <1>8, <2>2, <6>2
        <5>3. QED
          BY <5>1, <5>2
      <4>2. QED
        BY <1>1, <1>7, <1>8, <2>2, <4>1
    <3>2. QED
      BY <1>1, <3>1 DEF u
  <2>3. QED
    BY <2>1, <2>2
<1>10. u \in 1 .. Len(s) /\ E0 < s[u]
  <2>1. u \in 1 .. Len(s)
    BY <1>1, <1>9 DEF u
  <2>2. CASE rd = <<>>
    <3>1. E0 = 0
      BY <2>2 DEF E0, LastOr0
    <3>2. QED
      BY <1>2, <2>1, <3>1
  <2>3. CASE rd # <<>>
    <3>1. Len(rd) < u
      BY <1>1 DEF u
    <3>2. QED
      BY <1>2, <1>8, <2>1, <2>3, <3>1
  <2>4. QED
    BY <2>1, <2>2, <2>3
<1>11. j = u
  <2> SUFFICES ASSUME j # u PROVE FALSE
    OBVIOUS
  <2>1. u < j /\ s[u] < s[j]
    BY <1>1, <1>2, <1>9, <1>10
  <2>2. PICK i \in 1 .. Len(w) : SegEnd(w[i]) = s[u] /\ w[i].frg = 0
    BY <1>2, <1>10
  <2>3. i > d
    <3> SUFFICES ASSUME i <= d PROVE FALSE
      BY <1>1
    <3>1. d # 0 /\ d \in 1 .. Len(w)
      BY <1>1
    <3>2. SegEnd(w[i]) <= SegEnd(w[d])
      <4>1. CASE i = d
        BY <1>1, <3>1, <4>1
      <4>2. CASE i # d
        <5>1. i < d
          BY <4>2
        <5>2. SegEnd(w[i]) < SegEnd(w[d])
          BY <3>1, <5>1, EndsIncrease
        <5>3. QED
          BY <1>1, <3>1, <5>2
      <4>3. QED
        BY <4>1, <4>2
    <3>3. E0 = SegEnd(w[d])
      BY <1>6, <3>1
    <3>4. QED
      BY <1>1, <1>10, <2>2, <3>2, <3>3
  <2>4. i < d + n
    <3> SUFFICES ASSUME ~ (i < d + n) PROVE FALSE
      OBVIOUS
    <3>1. SegEnd(w[d + n]) <= SegEnd(w[i])
      <4>1. CASE i = d + n
        BY <1>1, <1>4, <4>1
      <4>2. CASE i # d + n
        <5>1. d + n < i
          BY <1>1, <1>4, <4>2
        <5>2. SegEnd(w[d + n]) < SegEnd(w[i])
          BY <1>4, <5>1, EndsIncrease
        <5>3. QED
          BY <1>1, <1>4, <5>2
      <4>3. QED
        BY <4>1, <4>2
    <3>2. QED
      BY <1>1, <1>5, <1>10, <2>1, <2>2, <3>1
  <2>5. i - d \in 1 .. Len(q) /\ i - d < n /\ d + (i - d) = i
    BY <1>1, <1>3, <2>3, <2>4
  <2>6. q[i - d] = w[i]
    BY <2>5
  <2>7. QED
    BY <1>3, <2>2, <2>5, <2>6
<1>12. QED
  BY <1>4, <1>5, <1>10, <1>11 DEF n, u

-----------------------------------------------------------------------------
\* The send queue after ikcp_send: filled up, with or without new fragments.
Appends(k, off, len, q2) ==
    LET x == Extend(k, len)
        q1 == FillUp(k, len).snd_queue
    IN  \/ q2 = q1
        \/ /\ len - x \in Nat \ {0} /\ off + x \in Nat /\ FragCount(len - x) < WndRcv
           /\ q2 = q1 \o Fragments(off + x, len - x)

\* In message mode: the fragments of the whole frame, if it is accepted.
Fragmented(k, off, len, r) ==
    r.kcp.snd_queue = IF r.ret = 0 THEN k.snd_queue \o Fragments(off, len) ELSE k.snd_queue

\* What ikcp_send does to the send queue.
LEMMA SendQueue ==
    ASSUME NEW k, IsKcpCB(k), NEW off \in Nat, NEW len \in Nat \ {0}
    PROVE  /\ Appends(k, off, len, ikcp_send(k, off, len).kcp.snd_queue)
           /\ ~Stream => Fragmented(k, off, len, ikcp_send(k, off, len))
<1> DEFINE r == ikcp_send(k, off, len)
           x == Extend(k, len)
           k1 == FillUp(k, len)
           q1 == k1.snd_queue
           rest == len - x
           fr == Fragments(off + x, rest)
<1>1. x \in 0 .. len /\ x \in Nat /\ (x > 0 => Stream)
  BY ExtendFacts
<1>2. IsKcpCB(k1)
  BY FillUpFacts
<1>3. ~Stream => x = 0 /\ k1 = k
  BY <1>1 DEF FillUp
<1>4. CASE Stream /\ rest = 0
  <2>1. r = [ret |-> 0, kcp |-> k1]
    BY <1>4 DEF ikcp_send
  <2>2. QED
    BY <1>4, <2>1 DEF Appends
<1>5. CASE ~ (Stream /\ rest = 0)
  <2>1. rest \in Nat \ {0} /\ off + x \in Nat
    BY <1>1, <1>5
  <2>2. FragCount(rest) \in Nat /\ WndRcv \in Nat
    BY <2>1, FragmentFacts, IkcpAssumption
  <2>3. CASE FragCount(rest) >= WndRcv
    <3>1. r = [ret |-> -2, kcp |-> k1]
      BY <1>5, <2>3 DEF ikcp_send
    <3>2. r.ret # 0 /\ r.kcp = k1
      BY <3>1
    <3>3. QED
      BY <1>3, <3>2 DEF Appends, Fragmented
  <2>4. CASE ~ (FragCount(rest) >= WndRcv)
    <3>1. r = [ret |-> 0, kcp |-> [k1 EXCEPT !.snd_queue = k1.snd_queue \o fr]]
      BY <1>5, <2>4 DEF ikcp_send
    <3> HIDE DEF r, k1, fr
    <3>2. [k1 EXCEPT !.snd_queue = k1.snd_queue \o fr].snd_queue = k1.snd_queue \o fr
      BY ONLY <1>2, QueueUpdate
    <3>3. r.ret = 0 /\ r.kcp.snd_queue = q1 \o fr
      BY ONLY <3>1, <3>2
    <3>4. FragCount(rest) < WndRcv
      BY <2>2, <2>4
    <3>5. ~Stream => fr = Fragments(off, len) /\ q1 = k.snd_queue
      <4>1. x = 0 => off + x = off /\ rest = len
        OBVIOUS
      <4>2. QED
        BY <1>3, <4>1 DEF fr
    <3>6. QED
      BY <2>1, <3>3, <3>4, <3>5 DEF r, k1, fr, Appends, Fragmented
  <2>5. QED
    BY <2>3, <2>4
<1>6. QED
  BY <1>4, <1>5

\* How the fragments of a frame are counted.
LEMMA FragmentFrg ==
    ASSUME NEW off \in Nat, NEW len \in Nat \ {0}, NEW i \in 1 .. FragCount(len)
    PROVE  Fragments(off, len)[i].frg = IF Stream THEN 0 ELSE FragCount(len) - i
  BY DEF Fragments

\* No segment is empty, and no frame is longer than the smallest window.
LEMMA SizedSend ==
    ASSUME NEW k, IsKcpCB(k), NEW lg \in Seq(Seg), NEW off \in Nat, NEW len \in Nat \ {0},
           Sized(Written(lg, k))
    PROVE  Sized(Written(lg, ikcp_send(k, off, len).kcp))
<1> DEFINE q == k.snd_queue
           x == Extend(k, len)
           q1 == FillUp(k, len).snd_queue
           q2 == ikcp_send(k, off, len).kcp.snd_queue
           fr == Fragments(off + x, len - x)
<1>0. q \in Seq(Seg) /\ Len(lg) \in Nat /\ Len(q) \in Nat
  BY DEF IsKcpCB
<1>1. x \in Nat /\ q \in Seq(Seg) /\ Len(lg) \in Nat /\ Len(q) \in Nat
  BY <1>0, ExtendFacts
<1>2. q1 \in Seq(Seg) /\ Len(q1) = Len(q)
      /\ \A i \in 1 .. Len(q) : q1[i] = IF i = Len(q) /\ x > 0
                                   THEN [off |-> q[i].off, len |-> q[i].len + x, frg |-> 0]
                                   ELSE q[i]
  BY FillUpFacts DEF IsKcpCB
<1>3. \/ q2 = q1
      \/ /\ len - x \in Nat \ {0} /\ off + x \in Nat /\ FragCount(len - x) < WndRcv
         /\ q2 = q1 \o fr
  <2>1. Appends(k, off, len, q2)
    BY SendQueue
  <2>2. QED
    BY <2>1 DEF Appends
<1>4. Sized(lg) /\ Sized(q)
  <2>1. /\ Len(lg \o q) = Len(lg) + Len(q)
        /\ \A i \in 1 .. Len(lg) : (lg \o q)[i] = lg[i]
        /\ \A i \in 1 .. Len(q) : (lg \o q)[Len(lg) + i] = q[i]
    BY <1>1, ConcatFacts
  <2>2. \A i \in 1 .. Len(lg) : i \in 1 .. Len(lg) + Len(q)
    BY <1>1
  <2>3. \A i \in 1 .. Len(q) : Len(lg) + i \in 1 .. Len(lg) + Len(q)
    BY <1>1
  <2>4. Sized(lg \o q)
    BY DEF Written
  <2> HIDE DEF q
  <2>5. QED
    BY <2>1, <2>2, <2>3, <2>4 DEF Sized
<1>5. Sized(q1)
  <2> SUFFICES ASSUME NEW i \in 1 .. Len(q) PROVE q1[i].len > 0 /\ q1[i].frg < WndRcv
    BY <1>2 DEF Sized
  <2>1. q[i].len > 0 /\ q[i].frg < WndRcv /\ q[i].len \in Nat
    BY <1>1, <1>4, SegFields DEF Sized
  <2>2. CASE i = Len(q) /\ x > 0
    <3>a. q1[i] = [off |-> q[i].off, len |-> q[i].len + x, frg |-> 0]
      BY <1>2, <2>2
    <3>1. q1[i].len = q[i].len + x /\ q1[i].frg = 0
      BY ONLY <3>a
    <3>2. QED
      BY <1>1, <2>1, <3>1, IkcpAssumption
  <2>3. CASE ~ (i = Len(q) /\ x > 0)
    <3>1. q1[i] = q[i]
      BY <1>2, <2>3
    <3>2. QED
      BY <2>1, <3>1
  <2>4. QED
    BY <2>2, <2>3
<1>6. ASSUME NEW s \in Seq(Seg), NEW t \in Seq(Seg), Sized(s), Sized(t) PROVE Sized(s \o t)
  <2>1. /\ Len(s \o t) = Len(s) + Len(t) /\ Len(s) \in Nat /\ Len(t) \in Nat
        /\ \A i \in 1 .. Len(s) : (s \o t)[i] = s[i]
        /\ \A i \in 1 .. Len(t) : (s \o t)[Len(s) + i] = t[i]
    BY ConcatFacts
  <2> SUFFICES ASSUME NEW i \in 1 .. Len(s) + Len(t)
               PROVE  (s \o t)[i].len > 0 /\ (s \o t)[i].frg < WndRcv
    BY <2>1 DEF Sized
  <2>2. CASE i <= Len(s)
    <3>1. i \in 1 .. Len(s)
      BY <2>1, <2>2
    <3>2. QED
      BY <1>6, <2>1, <3>1 DEF Sized
  <2>3. CASE ~ (i <= Len(s))
    <3> DEFINE j == i - Len(s)
    <3>1. j \in 1 .. Len(t) /\ Len(s) + j = i
      BY <2>1, <2>3
    <3> HIDE DEF j
    <3>2. (s \o t)[i] = t[j]
      BY <2>1, <3>1
    <3>3. QED
      BY <1>6, <3>1, <3>2 DEF Sized
  <2>4. QED
    BY <2>2, <2>3
<1>7. ASSUME len - x \in Nat \ {0}, off + x \in Nat, FragCount(len - x) < WndRcv
      PROVE  fr \in Seq(Seg) /\ Sized(fr)
  <2> DEFINE c == FragCount(len - x)
  <2>1. /\ c \in Nat \ {0} /\ fr \in Seq(Seg) /\ Len(fr) = c
        /\ \A i \in 1 .. c : fr[i].len \in 1 .. Mss
    BY <1>7, FragmentFacts
  <2>2. \A i \in 1 .. c : fr[i].frg = IF Stream THEN 0 ELSE c - i
    BY <1>7, FragmentFrg
  <2> HIDE DEF fr, c
  <2>3. WndRcv \in Nat /\ WndRcv > 0 /\ c < WndRcv
    BY <1>7, IkcpAssumption DEF c
  <2>4. \A i \in 1 .. c : fr[i].len > 0 /\ fr[i].frg < WndRcv
    BY <2>1, <2>2, <2>3, IkcpAssumption
  <2>5. QED
    BY <2>1, <2>4 DEF Sized
<1> HIDE DEF q1, fr, x, q
<1>8. q2 \in Seq(Seg) /\ Sized(q2)
  <2>1. CASE q2 = q1
    BY <1>2, <1>5, <2>1
  <2>2. CASE q2 # q1
    <3>1. fr \in Seq(Seg) /\ Sized(fr) /\ q2 = q1 \o fr
      BY <1>3, <1>7, <2>2
    <3>2. QED
      BY <1>2, <1>5, <1>6, <3>1
  <2>3. QED
    BY <2>1, <2>2
<1>9. Sized(lg \o q2)
  BY <1>4, <1>6, <1>8
<1>10. QED
  BY <1>9 DEF Written

\* In message mode an accepted frame adds one frame to the written segments.
LEMMA FramedSend ==
    ASSUME ~Stream, NEW w \in Seq(Seg), Contiguous(w), NEW s \in Seq(Nat), Framed(w, s),
           NEW off \in Nat, EndOffset(w) = off, NEW len \in Nat \ {0}
    PROVE  Framed(w \o Fragments(off, len), Append(s, off + len))
<1> DEFINE f == Fragments(off, len)
           c == FragCount(len)
           v == w \o f
           t == Append(s, off + len)
<1>1. /\ c \in Nat \ {0} /\ f \in Seq(Seg) /\ Len(f) = c
      /\ \A i \in 1 .. c : f[i].frg = c - i
      /\ SegEnd(f[c]) = off + len
  <2>1. /\ c \in Nat \ {0} /\ f \in Seq(Seg) /\ Len(f) = c
        /\ \A i \in 1 .. c : i = c => f[i].off + f[i].len = off + len
    BY FragmentFacts
  <2>2. \A i \in 1 .. c : f[i].frg = c - i
    BY FragmentFrg
  <2>3. c \in 1 .. c
    BY <2>1
  <2>4. QED
    BY <2>1, <2>2, <2>3 DEF SegEnd
<1> HIDE DEF f, c
<1>2. /\ v \in Seq(Seg) /\ Len(v) = Len(w) + c /\ Len(w) \in Nat
      /\ \A i \in 1 .. Len(w) : v[i] = w[i]
      /\ \A i \in 1 .. c : v[Len(w) + i] = f[i]
  <2>1. f \in Seq(Seg) /\ Len(f) = c
    BY <1>1
  <2>2. Len(w) \in Nat
    OBVIOUS
  <2>3. /\ v \in Seq(Seg) /\ Len(v) = Len(w) + Len(f)
        /\ \A i \in 1 .. Len(w) : v[i] = w[i]
        /\ \A i \in 1 .. Len(f) : v[Len(w) + i] = f[i]
    <3>1. \A a, b \in Seq(Seg) : /\ a \o b \in Seq(Seg) /\ Len(a \o b) = Len(a) + Len(b)
                                 /\ \A i \in 1 .. Len(a) : (a \o b)[i] = a[i]
                                 /\ \A i \in 1 .. Len(b) : (a \o b)[Len(a) + i] = b[i]
      BY ConcatFacts
    <3>2. QED
      BY ONLY <2>1, <3>1, w \in Seq(Seg)
  <2>4. QED
    BY ONLY <2>1, <2>2, <2>3
<1>3. /\ t \in Seq(Nat) /\ Len(t) = Len(s) + 1 /\ Len(s) \in Nat
      /\ \A j \in 1 .. Len(s) : t[j] = s[j] /\ s[j] \in Nat
      /\ t[Len(s) + 1] = off + len
  OBVIOUS
<1> HIDE DEF v, t
<1>4. /\ \A i, j \in 1 .. Len(s) : i < j => s[i] < s[j]
      /\ \A j \in 1 .. Len(s) :
           s[j] > 0 /\ \E i \in 1 .. Len(w) : SegEnd(w[i]) = s[j] /\ w[i].frg = 0
      /\ \A i \in 1 .. Len(w) : w[i].frg = 0 => \E j \in 1 .. Len(s) : SegEnd(w[i]) = s[j]
      /\ \A i \in 1 .. Len(w) : w[i].frg > 0 => i < Len(w) /\ w[i + 1].frg = w[i].frg - 1
  BY DEF Framed
<1>5. ASSUME NEW j \in 1 .. Len(s) PROVE s[j] < off + len
  <2>1. PICK i \in 1 .. Len(w) : SegEnd(w[i]) = s[j]
    BY <1>4
  <2>2. w[i].off + w[i].len <= off
    BY EndsGrow
  <2>3. s[j] <= off
    BY <2>1, <2>2 DEF SegEnd
  <2>4. QED
    BY <1>3, <2>3
<1>6. ASSUME NEW i \in 1 .. Len(t), NEW j \in 1 .. Len(t), i < j PROVE t[i] < t[j]
  <2>1. CASE j = Len(s) + 1
    <3>1. i \in 1 .. Len(s)
      BY <1>3, <1>6, <2>1
    <3>2. QED
      BY <1>3, <1>5, <2>1, <3>1
  <2>2. CASE j # Len(s) + 1
    <3>1. i \in 1 .. Len(s) /\ j \in 1 .. Len(s)
      <4>1. Len(t) = Len(s) + 1 /\ Len(s) \in Nat
        BY ONLY <1>3
      <4>2. QED
        BY ONLY <1>6, <2>2, <4>1, i \in 1 .. Len(t), j \in 1 .. Len(t)
    <3>2. QED
      BY <1>3, <1>4, <1>6, <3>1
  <2>3. QED
    BY <2>1, <2>2
<1>7. ASSUME NEW j \in 1 .. Len(t)
      PROVE  t[j] > 0 /\ \E i \in 1 .. Len(v) : SegEnd(v[i]) = t[j] /\ v[i].frg = 0
  <2>1. CASE j = Len(s) + 1
    <3>1. Len(w) + c \in 1 .. Len(v) /\ v[Len(w) + c] = f[c] /\ f[c].frg = c - c /\ c - c = 0
      BY <1>1, <1>2
    <3>2. t[j] = off + len /\ off + len > 0
      BY <1>3, <2>1
    <3>3. QED
      BY <1>1, <3>1, <3>2
  <2>2. CASE j # Len(s) + 1
    <3>1. j \in 1 .. Len(s) /\ t[j] = s[j]
      BY <1>3, <2>2
    <3>2. PICK i \in 1 .. Len(w) : SegEnd(w[i]) = s[j] /\ w[i].frg = 0
      BY <1>4, <3>1
    <3>3. i \in 1 .. Len(v) /\ v[i] = w[i]
      BY <1>1, <1>2
    <3>4. QED
      BY <1>4, <3>1, <3>2, <3>3
  <2>3. QED
    BY <2>1, <2>2
<1>8. ASSUME NEW i \in 1 .. Len(v)
      PROVE  /\ v[i].frg = 0 => \E j \in 1 .. Len(t) : SegEnd(v[i]) = t[j]
             /\ v[i].frg > 0 => i < Len(v) /\ v[i + 1].frg = v[i].frg - 1
  <2>1. CASE i <= Len(w)
    <3>1. i \in 1 .. Len(w) /\ v[i] = w[i]
      BY <1>2, <2>1
    <3>2. v[i].frg = 0 => \E j \in 1 .. Len(t) : SegEnd(v[i]) = t[j]
      <4> SUFFICES ASSUME v[i].frg = 0 PROVE \E j \in 1 .. Len(t) : SegEnd(v[i]) = t[j]
        OBVIOUS
      <4>1. PICK j \in 1 .. Len(s) : SegEnd(w[i]) = s[j]
        BY <1>4, <3>1
      <4>2. j \in 1 .. Len(t) /\ t[j] = s[j]
        BY <1>3
      <4>3. QED
        BY <3>1, <4>1, <4>2
    <3>3. v[i].frg > 0 => i < Len(v) /\ v[i + 1].frg = v[i].frg - 1
      <4> SUFFICES ASSUME v[i].frg > 0 PROVE i < Len(v) /\ v[i + 1].frg = v[i].frg - 1
        OBVIOUS
      <4>1. i < Len(w) /\ w[i + 1].frg = w[i].frg - 1
        BY <1>4, <3>1
      <4>2. i + 1 \in 1 .. Len(w) /\ i < Len(v)
        BY <1>1, <1>2, <4>1
      <4>3. QED
        BY <1>2, <3>1, <4>1, <4>2
    <3>4. QED
      BY <3>2, <3>3
  <2>2. CASE ~ (i <= Len(w))
    <3> DEFINE m == i - Len(w)
    <3>1. m \in 1 .. c /\ i = Len(w) + m
      BY <1>1, <1>2, <2>2
    <3> HIDE DEF m
    <3>2. v[i] = f[m] /\ v[i].frg = c - m
      BY <1>1, <1>2, <3>1
    <3>3. v[i].frg = 0 => \E j \in 1 .. Len(t) : SegEnd(v[i]) = t[j]
      <4> SUFFICES ASSUME v[i].frg = 0 PROVE \E j \in 1 .. Len(t) : SegEnd(v[i]) = t[j]
        OBVIOUS
      <4>1. m = c
        BY <1>1, <3>1, <3>2
      <4>2. SegEnd(v[i]) = t[Len(s) + 1] /\ Len(s) + 1 \in 1 .. Len(t)
        BY <1>1, <1>3, <3>2, <4>1
      <4>3. QED
        BY <4>2
    <3>4. v[i].frg > 0 => i < Len(v) /\ v[i + 1].frg = v[i].frg - 1
      <4> SUFFICES ASSUME v[i].frg > 0 PROVE i < Len(v) /\ v[i + 1].frg = v[i].frg - 1
        OBVIOUS
      <4>1. m < c /\ m + 1 \in 1 .. c /\ i + 1 = Len(w) + (m + 1) /\ i < Len(v)
            /\ c - (m + 1) = (c - m) - 1
        BY <1>1, <1>2, <3>1, <3>2
      <4>2. v[i + 1] = f[m + 1] /\ f[m + 1].frg = c - (m + 1)
        BY <1>1, <1>2, <4>1
      <4>3. QED
        BY <3>2, <4>1, <4>2
    <3>5. QED
      BY <3>3, <3>4
  <2>3. QED
    BY <2>1, <2>2
<1>9. Framed(v, t)
  BY <1>6, <1>7, <1>8 DEF Framed
<1>10. QED
  BY <1>9 DEF v, t, f

-----------------------------------------------------------------------------
(***************************************************************************)
(* What a step does to the written segments of an end: nothing, or what     *)
(* ikcp_send does.                                                          *)
(***************************************************************************)
SendsAt(e, len) ==
    LET r == ikcp_send(kcp[e], LastOr0(sent[e]), len)
    IN  /\ kcp'[e] = r.kcp /\ log'[e] = log[e]
        /\ sent'[e] = IF r.ret = 0 THEN Append(sent[e], LastOr0(sent[e]) + len) ELSE sent[e]

\* What leaves the written segments of an end as they are.
SameWritten(e) ==
    Written(log'[e], kcp'[e]) = Written(log[e], kcp[e]) /\ sent'[e] = sent[e]

\* Every step is one or the other for each end.
LEMMA WrittenMoves ==
    ASSUME TypeOK, [Next]_vars, NEW e \in End
    PROVE  SameWritten(e) \/ \E len \in Nat \ {0} : SendsAt(e, len)
<1>0. /\ DOMAIN kcp = End /\ \A x \in End : IsKcpCB(kcp[x])
      /\ net \in [End -> SUBSET WireSeg] /\ sent \in [End -> Seq(Nat)]
      /\ log \in [End -> Seq(Seg)]
  BY DEF TypeOK
<1>1. ASSUME NEW x \in End, NEW k, k.snd_queue = kcp[x].snd_queue,
             kcp' = [kcp EXCEPT ![x] = k], UNCHANGED <<log, sent>>
      PROVE  SameWritten(e)
  <2>1. kcp'[e].snd_queue = kcp[e].snd_queue /\ log'[e] = log[e] /\ sent'[e] = sent[e]
    BY <1>0, <1>1
  <2>2. QED
    BY <2>1 DEF SameWritten, Written
<1>2. ASSUME NEW x \in Writers, NEW len \in FrameLens, Send(x, len)
      PROVE  SameWritten(e) \/ SendsAt(e, len)
  <2> DEFINE r == ikcp_send(kcp[x], LastOr0(sent[x]), len)
  <2>1. x \in End
    BY ArqAssumption
  <2>2. /\ kcp' = [kcp EXCEPT ![x] = r.kcp] /\ log' = log
        /\ sent' = IF r.ret = 0
                   THEN [sent EXCEPT ![x] = Append(sent[x], LastOr0(sent[x]) + len)] ELSE sent
    BY <1>2 DEF Send
  <2> HIDE DEF r
  <2>3. CASE e = x
    <3>1. kcp'[e] = r.kcp
      BY <1>0, <2>1, <2>2, <2>3
    <3>2. sent'[e] = IF r.ret = 0 THEN Append(sent[e], LastOr0(sent[e]) + len) ELSE sent[e]
      BY <1>0, <2>1, <2>2, <2>3
    <3>3. SendsAt(e, len)
      BY <2>2, <2>3, <3>1, <3>2 DEF SendsAt, r
    <3>4. QED
      BY <3>3
  <2>4. CASE e # x
    <3>1. kcp'[e] = kcp[e] /\ sent'[e] = sent[e]
      BY <1>0, <2>1, <2>2, <2>4
    <3>2. QED
      BY <2>2, <3>1 DEF SameWritten
  <2>5. QED
    BY <2>3, <2>4
<1>3. ASSUME NEW x \in End, NEW cwnd \in 1 .. SndWnd, NEW probe, NEW due, NEW kept,
             Flush(x, cwnd, due, probe, kept)
      PROVE  SameWritten(e)
  <2> DEFINE k == kcp[x]
             f == ikcp_flush(k, cwnd, due, probe)
             lg2 == log[x] \o SubSeq(k.snd_queue, 1, Moved(k, cwnd))
  <2>1. cwnd \in Nat /\ IsKcpCB(k) /\ log[x] \in Seq(Seg)
    BY <1>0, IkcpAssumption
  <2>2. Written(lg2, f.kcp) = Written(log[x], k)
    BY <2>1, FlushKeepsBytes
  <2>3. /\ kcp' = [kcp EXCEPT ![x] = f.kcp] /\ log' = [log EXCEPT ![x] = lg2] /\ sent' = sent
    BY <1>3 DEF Flush
  <2> HIDE DEF f, lg2
  <2>4. CASE e = x
    <3>1. kcp'[e] = f.kcp /\ log'[e] = lg2
      BY <1>0, <2>3, <2>4
    <3>2. QED
      BY <2>2, <2>3, <2>4, <3>1 DEF SameWritten
  <2>5. CASE e # x
    <3>1. kcp'[e] = kcp[e] /\ log'[e] = log[e]
      BY <1>0, <2>3, <2>5
    <3>2. QED
      BY <2>3, <3>1 DEF SameWritten
  <2>6. QED
    BY <2>4, <2>5
<1>4. ASSUME NEW x \in End, NEW again \in BOOLEAN, NEW m \in net[x], Input(x, m, again)
      PROVE  SameWritten(e)
  <2> DEFINE k2 == ikcp_input(kcp[x], m).kcp
  <2>1. IsKcpCB(kcp[x]) /\ m \in WireSeg
    BY <1>0
  <2>2. k2.snd_queue = kcp[x].snd_queue
    BY <2>1, InputKeepsQueue
  <2>3. kcp' = [kcp EXCEPT ![x] = k2] /\ UNCHANGED <<log, sent>>
    BY <1>4 DEF Input
  <2> HIDE DEF k2
  <2>4. QED
    BY <1>1, <2>2, <2>3
<1>5. ASSUME NEW x \in End, Recv(x) PROVE SameWritten(e)
  <2> DEFINE k2 == ikcp_recv(kcp[x]).kcp
  <2>1. IsKcpCB(kcp[x]) /\ kcp[x].rcv_queue # <<>>
    BY <1>0, <1>5 DEF Recv, ikcp_peeksize
  <2>2. k2.snd_queue = kcp[x].snd_queue
    BY <2>1, RecvKeepsQueue
  <2>3. kcp' = [kcp EXCEPT ![x] = k2] /\ UNCHANGED <<log, sent>>
    BY <1>5 DEF Recv
  <2> HIDE DEF k2
  <2>4. QED
    BY <1>1, <2>2, <2>3
<1>6. CASE UNCHANGED vars
  BY <1>6 DEF vars, SameWritten
<1>7. FrameLens \subseteq Nat \ {0}
  BY ArqAssumption
<1>8. QED
  BY <1>2, <1>3, <1>4, <1>5, <1>6, <1>7 DEF Next

\* Nothing is written in the initial state.
LEMMA SizesInit == Init => SizesInv
<1> SUFFICES ASSUME Init, NEW e \in End PROVE Sized(Written(log[e], kcp[e]))
  BY DEF SizesInv
<1>1. log[e] = <<>> /\ kcp[e].snd_queue = <<>>
  BY DEF Init, ikcp_create
<1>2. Written(log[e], kcp[e]) = <<>>
  BY <1>1 DEF Written
<1>3. Len(<<>>) = 0 /\ 1 .. 0 = {}
  OBVIOUS
<1>4. QED
  BY <1>2, <1>3 DEF Sized

\* Every step keeps the sizes.
LEMMA SizesStep == TypeOK /\ SizesInv /\ [Next]_vars => SizesInv'
<1> SUFFICES ASSUME TypeOK, SizesInv, [Next]_vars, NEW e \in End
             PROVE  Sized(Written(log'[e], kcp'[e]))
  BY DEF SizesInv
<1>1. Sized(Written(log[e], kcp[e]))
  BY DEF SizesInv
<1>2. CASE SameWritten(e)
  BY <1>1, <1>2 DEF SameWritten
<1>3. ASSUME NEW len \in Nat \ {0}, SendsAt(e, len) PROVE Sized(Written(log'[e], kcp'[e]))
  <2>1. IsKcpCB(kcp[e]) /\ log[e] \in Seq(Seg) /\ LastOr0(sent[e]) \in Nat
    BY LastOr0Type DEF TypeOK
  <2>2. Sized(Written(log[e], ikcp_send(kcp[e], LastOr0(sent[e]), len).kcp))
    BY <1>1, <2>1, SizedSend
  <2>3. QED
    BY <1>3, <2>2 DEF SendsAt
<1>4. QED
  BY <1>2, <1>3, WrittenMoves

\* What the receiver has queued are written segments.
LEMMA QueuedIsWritten ==
    ASSUME TypeOK, ArqInv, NEW e \in End
    PROVE  LET p == Peer(e)
               w == Written(log[p], kcp[p])
               d == dlv[e]
               q == kcp[e].rcv_queue
           IN  /\ w \in Seq(Seg) /\ d \in Seq(Seg) /\ q \in Seq(Seg)
               /\ Len(d) \in Nat /\ Len(q) \in Nat /\ Len(d) + Len(q) <= Len(w)
               /\ \A i \in 1 .. Len(d) : d[i] = w[i]
               /\ \A i \in 1 .. Len(q) : q[i] = w[Len(d) + i]
<1> DEFINE p == Peer(e)
           lg == log[p]
           sq == kcp[p].snd_queue
           w == lg \o sq
           d == dlv[e]
           q == kcp[e].rcv_queue
<1>1. p \in End /\ Peer(p) = e
  BY PeerFacts
<1>2. /\ lg \in Seq(Seg) /\ d \in Seq(Seg) /\ sq \in Seq(Seg) /\ q \in Seq(Seg)
      /\ kcp[e].rcv_nxt \in Nat
  BY <1>1 DEF TypeOK, IsKcpCB
<1>3. DirInv(kcp[p], kcp[e], lg, d, net[e], net[p])
  BY <1>1 DEF ArqInv
<1>4. /\ Len(d) + Len(q) = kcp[e].rcv_nxt /\ kcp[e].rcv_nxt <= Len(lg)
      /\ \A i \in 1 .. Len(d) : d[i] = lg[i]
      /\ \A i \in 1 .. Len(q) : q[i] = lg[Len(d) + i]
  BY <1>3 DEF DirInv, ReceiverInv, DeliveredInv
<1> HIDE DEF p, lg, sq, d, q
<1>5. /\ w \in Seq(Seg) /\ Len(w) = Len(lg) + Len(sq)
      /\ \A i \in 1 .. Len(lg) : w[i] = lg[i]
  BY <1>2, ConcatFacts
<1>6. Len(lg) \in Nat /\ Len(sq) \in Nat /\ Len(d) \in Nat /\ Len(q) \in Nat
  BY <1>2
<1> HIDE DEF w
<1>7. Len(d) + Len(q) <= Len(lg) /\ Len(d) + Len(q) <= Len(w)
  BY <1>2, <1>4, <1>5, <1>6
<1>8. ASSUME NEW i \in 1 .. Len(d) PROVE d[i] = w[i]
  <2>1. i \in 1 .. Len(lg)
    BY <1>6, <1>7
  <2>2. QED
    BY <1>4, <1>5, <2>1
<1>9. ASSUME NEW i \in 1 .. Len(q) PROVE q[i] = w[Len(d) + i]
  <2>1. Len(d) + i \in 1 .. Len(lg)
    BY <1>6, <1>7
  <2>2. QED
    BY <1>4, <1>5, <2>1
<1>10. QED
  BY <1>2, <1>5, <1>6, <1>7, <1>8, <1>9 DEF w, p, lg, sq, d, q, Written
-----------------------------------------------------------------------------
\* The value of a sum g over the set s of indices of f, from smaller sets.
SumStep(f, g, s) ==
    IF s = {} THEN 0
    ELSE f[CHOOSE x \in s : TRUE] + g[s \ {CHOOSE x \in s : TRUE}]

\* g satisfies the recursive definition of a sum on the sets in D.
SumsOn(f, g, D) == g = [s \in D |-> SumStep(f, g, s)]

\* The subsets of S with at most n elements.
UpTo(S, n) == {s \in SUBSET S : Cardinality(s) <= n}

\* What FrameLen folds: the function chosen by the recursive definition.
LEMMA FoldIsSum ==
    ASSUME NEW f
    PROVE  FoldFunction(LAMBDA a, b : a + b, 0, f)
             = (CHOOSE g : SumsOn(f, g, SUBSET DOMAIN f))[DOMAIN f]
  BY DEF FoldFunction, FoldFunctionOnSet, MapThenFoldSet, SumsOn, SumStep

\* Taking the chosen element away leaves a smaller set.
LEMMA SmallerSet ==
    ASSUME NEW S, IsFiniteSet(S), NEW s \in SUBSET S, s # {}
    PROVE  LET c == CHOOSE x \in s : TRUE
           IN  /\ c \in s /\ s \ {c} \in SUBSET S
               /\ Cardinality(s) \in Nat /\ Cardinality(s \ {c}) = Cardinality(s) - 1
               /\ Cardinality(s) > 0
<1> DEFINE c == CHOOSE x \in s : TRUE
<1>1. c \in s
  OBVIOUS
<1> HIDE DEF c
<1>2. IsFiniteSet(s)
  BY FS_Subset
<1>3. Cardinality(s) \in Nat /\ Cardinality(s \ {c}) = Cardinality(s) - 1
  BY <1>1, <1>2, FS_RemoveElement, FS_CardinalityType
<1>4. Cardinality(s) # 0
  BY <1>2, FS_EmptySet
<1>5. QED
  BY <1>1, <1>3, <1>4 DEF c

\* The recursive definition of a sum over a finite set has a solution.
LEMMA SumExists ==
    ASSUME NEW S, IsFiniteSet(S), NEW f
    PROVE  \E g : SumsOn(f, g, SUBSET S)
<1> DEFINE T == {n \in Nat : ~ \E g : SumsOn(f, g, UpTo(S, n))}
<1>0. \A s \in SUBSET S : Cardinality(s) \in Nat /\ Cardinality(s) <= Cardinality(S)
  BY FS_Subset, FS_CardinalityType
<1>1. T = {}
  <2> SUFFICES ASSUME T # {} PROVE FALSE
    OBVIOUS
  <2> DEFINE n == Min(T)
  <2>1. n \in T /\ \A m \in T : n <= m
    BY MinNat
  <2> HIDE DEF n
  <2>2. n \in Nat /\ ~ \E g : SumsOn(f, g, UpTo(S, n))
    BY <2>1
  <2>3. CASE n = 0
    <3> DEFINE g == [s \in UpTo(S, n) |-> 0]
    <3>1. \A s \in UpTo(S, n) : s = {}
      <4> TAKE s \in UpTo(S, n)
      <4>1. s \in SUBSET S /\ Cardinality(s) <= 0
        BY <2>3 DEF UpTo
      <4>2. s # {} => Cardinality(s) \in Nat /\ Cardinality(s) > 0
        BY <4>1, SmallerSet
      <4>3. QED
        BY <4>1, <4>2
    <3>2. \A s \in UpTo(S, n) : SumStep(f, g, s) = 0
      BY <3>1 DEF SumStep
    <3>3. SumsOn(f, g, UpTo(S, n))
      <4> HIDE DEF g
      <4>1. [s \in UpTo(S, n) |-> SumStep(f, g, s)] = [s \in UpTo(S, n) |-> 0]
        BY <3>2
      <4>2. QED
        BY <4>1 DEF SumsOn, g
    <3>4. QED
      BY <2>2, <3>3
  <2>4. CASE n # 0
    <3>1. n - 1 \in Nat /\ n - 1 \notin T
      BY <2>1, <2>2, <2>4
    <3>2. PICK h : SumsOn(f, h, UpTo(S, n - 1))
      BY <3>1
    <3> DEFINE g == [s \in UpTo(S, n) |-> SumStep(f, h, s)]
    <3>3. ASSUME NEW s \in UpTo(S, n) PROVE SumStep(f, g, s) = SumStep(f, h, s)
      <4>1. CASE s = {}
        BY <4>1 DEF SumStep
      <4>2. CASE s # {}
        <5> DEFINE c == CHOOSE x \in s : TRUE
                   t == s \ {c}
        <5>1. s \in SUBSET S /\ Cardinality(s) <= n
          BY DEF UpTo
        <5>2. t \in SUBSET S /\ Cardinality(s) \in Nat /\ Cardinality(t) = Cardinality(s) - 1
          BY <4>2, <5>1, SmallerSet
        <5> HIDE DEF t
        <5>3. t \in UpTo(S, n) /\ t \in UpTo(S, n - 1)
          BY <2>2, <5>1, <5>2 DEF UpTo
        <5>4. g[t] = SumStep(f, h, t)
          BY <5>3
        <5>5. h[t] = SumStep(f, h, t)
          <6> DEFINE hh == [u \in UpTo(S, n - 1) |-> SumStep(f, h, u)]
          <6>1. hh[t] = SumStep(f, h, t)
            BY <5>3
          <6>2. h = hh
            BY <3>2 DEF SumsOn
          <6> HIDE DEF hh
          <6>3. QED
            BY <6>1, <6>2
        <5> HIDE DEF g
        <5>6. SumStep(f, g, s) = f[c] + g[t] /\ SumStep(f, h, s) = f[c] + h[t]
          BY <4>2 DEF SumStep, t
        <5>7. QED
          BY <5>4, <5>5, <5>6
      <4>3. QED
        BY <4>1, <4>2
    <3>4. SumsOn(f, g, UpTo(S, n))
      <4> HIDE DEF g
      <4>1. [s \in UpTo(S, n) |-> SumStep(f, g, s)] = [s \in UpTo(S, n) |-> SumStep(f, h, s)]
        BY <3>3
      <4>2. QED
        BY <4>1 DEF SumsOn, g
    <3>5. QED
      BY <2>2, <3>4
  <2>5. QED
    BY <2>3, <2>4
<1>2. Cardinality(S) \in Nat
  BY FS_CardinalityType
<1>3. PICK g : SumsOn(f, g, UpTo(S, Cardinality(S)))
  BY <1>1, <1>2
<1>4. UpTo(S, Cardinality(S)) = SUBSET S
  BY <1>0 DEF UpTo
<1>5. QED
  BY <1>3, <1>4

\* A sum of positive numbers is positive, if there are any.
LEMMA SumPositive ==
    ASSUME NEW S, IsFiniteSet(S), NEW f \in [S -> Nat \ {0}], S # {}
    PROVE  FoldFunction(LAMBDA a, b : a + b, 0, f) \in Nat \ {0}
<1> DEFINE g == CHOOSE h : SumsOn(f, h, SUBSET S)
<1>1. SumsOn(f, g, SUBSET S)
  BY SumExists
<1>2. FoldFunction(LAMBDA a, b : a + b, 0, f) = g[S]
  BY FoldIsSum
<1> HIDE DEF g
<1>3. ASSUME NEW s \in SUBSET S PROVE g[s] = SumStep(f, g, s)
  <2> DEFINE gg == [t \in SUBSET S |-> SumStep(f, g, t)]
  <2>1. gg[s] = SumStep(f, g, s)
    OBVIOUS
  <2>2. g = gg
    BY <1>1 DEF SumsOn
  <2> HIDE DEF gg
  <2>3. QED
    BY <2>1, <2>2
<1> DEFINE Bad == {s \in SUBSET S : ~ (g[s] \in Nat /\ (s # {} => g[s] > 0))}
           T == {Cardinality(s) : s \in Bad}
<1>4. Bad = {}
  <2> SUFFICES ASSUME Bad # {} PROVE FALSE
    OBVIOUS
  <2>1. T \subseteq Nat /\ T # {}
    BY FS_Subset, FS_CardinalityType
  <2> DEFINE m == Min(T)
  <2>a. m \in T /\ \A n \in T : m <= n
    BY <2>1, MinNat
  <2> HIDE DEF m
  <2>2. PICK s \in Bad : Cardinality(s) = m
    BY <2>a
  <2>3. \A t \in Bad : Cardinality(s) <= Cardinality(t)
    BY <2>a, <2>2
  <2>4. s \in SUBSET S /\ g[s] = SumStep(f, g, s)
    BY <1>3
  <2>5. CASE s = {}
    <3>1. g[s] = 0
      BY <2>4, <2>5 DEF SumStep
    <3>2. QED
      BY <2>5, <3>1
  <2>6. CASE s # {}
    <3> DEFINE c == CHOOSE x \in s : TRUE
               t == s \ {c}
    <3>1. /\ c \in s /\ t \in SUBSET S /\ Cardinality(s) \in Nat
          /\ Cardinality(t) = Cardinality(s) - 1
      BY <2>4, <2>6, SmallerSet
    <3>2. g[s] = f[c] + g[t]
      BY <2>4, <2>6 DEF SumStep
    <3> HIDE DEF c, t
    <3>3. t \notin Bad
      BY <2>3, <3>1
    <3>4. g[t] \in Nat /\ f[c] \in Nat \ {0}
      BY <2>4, <3>1, <3>3
    <3>5. QED
      BY <3>2, <3>4
  <2>7. QED
    BY <2>5, <2>6
<1>5. S \notin Bad /\ S \in SUBSET S
  BY <1>4
<1>6. g[S] \in Nat /\ g[S] > 0
  BY <1>5
<1> DEFINE F == FoldFunction(LAMBDA a, b : a + b, 0, f)
<1>7. F = g[S]
  BY <1>2
<1> HIDE DEF F
<1>8. F \in Nat \ {0}
  BY <1>6, <1>7
<1>9. QED
  BY <1>8 DEF F

\* The frame at the head of a queue that holds a whole one is not empty.
LEMMA PeekPositive ==
    ASSUME NEW k, IsKcpCB(k), k.rcv_queue # <<>>, Sized(k.rcv_queue),
           k.rcv_queue[1].frg + 1 <= Len(k.rcv_queue)
    PROVE  ikcp_peeksize(k) \in Nat \ {0}
<1> DEFINE q == k.rcv_queue
           n == FrameFragments(q)
           f == [i \in 1 .. n |-> q[i].len]
<1>1. q \in Seq(Seg) /\ q # <<>>
  BY DEF IsKcpCB
<1>2. /\ Len(q) \in Nat \ {0} /\ n \in 1 .. Len(q) /\ q[1].frg \in Nat
      /\ \A i \in 1 .. Len(q) : q[i].len \in Nat
  BY <1>1, SegFields, FrameFragmentsFacts
<1>3. \A i \in 1 .. Len(q) : q[i].len > 0
  BY DEF Sized
<1>4. f \in [1 .. n -> Nat \ {0}] /\ 1 .. n # {}
  BY <1>2, <1>3
<1>5. IsFiniteSet(1 .. n)
  BY <1>2, FS_Interval
<1>6. FrameLen(q) \in Nat \ {0}
  <2> HIDE DEF f, n
  <2>1. FoldFunction(LAMBDA a, b : a + b, 0, f) \in Nat \ {0}
    BY <1>4, <1>5, SumPositive
  <2>2. QED
    BY <2>1 DEF FrameLen, f, n
<1> HIDE DEF q, n, f
<1>7. q[1].frg + 1 <= Len(q)
  BY DEF q
<1>8. ~ (Len(q) < q[1].frg + 1)
  BY <1>2, <1>7
<1>9. ikcp_peeksize(k) = FrameLen(q)
  BY <1>1, <1>8 DEF ikcp_peeksize, q
<1>10. QED
  BY <1>6, <1>9

\* A full queue is long enough for a frame, so it holds a whole one.
LEMMA QueueReadable == TypeOK /\ ArqInv /\ SizesInv => FullQueueReadable
<1> SUFFICES ASSUME TypeOK, ArqInv, SizesInv, NEW e \in End, ikcp_wnd_unused(kcp[e]) = 0
             PROVE  ikcp_peeksize(kcp[e]) > 0
  BY DEF FullQueueReadable
<1> DEFINE p == Peer(e)
           w == Written(log[p], kcp[p])
           d == dlv[e]
           q == kcp[e].rcv_queue
<1>0. /\ w \in Seq(Seg) /\ d \in Seq(Seg) /\ q \in Seq(Seg)
      /\ Len(d) \in Nat /\ Len(q) \in Nat /\ Len(d) + Len(q) <= Len(w)
      /\ \A i \in 1 .. Len(d) : d[i] = w[i]
      /\ \A i \in 1 .. Len(q) : q[i] = w[Len(d) + i]
  BY QueuedIsWritten
<1>1. /\ w \in Seq(Seg) /\ q \in Seq(Seg) /\ Len(w) \in Nat
      /\ Len(d) \in Nat /\ Len(q) \in Nat /\ Len(d) + Len(q) <= Len(w)
      /\ \A i \in 1 .. Len(q) : q[i] = w[Len(d) + i]
  <2> HIDE DEF w, d, q
  <2> QED BY <1>0
<1>2. p \in End /\ IsKcpCB(kcp[e])
  BY PeerFacts DEF TypeOK
<1>3. Sized(w)
  BY <1>2 DEF SizesInv
<1>4. Len(q) >= RcvWnd
  <2>1. RcvWnd \in Nat
    BY IkcpAssumption
  <2>2. QED
    BY <1>1, <2>1 DEF ikcp_wnd_unused
<1> HIDE DEF w, d, q, p
<1>5. ASSUME NEW i \in 1 .. Len(q) PROVE q[i].len > 0 /\ q[i].frg < WndRcv
  <2>1. Len(d) + i \in 1 .. Len(w) /\ q[i] = w[Len(d) + i]
    BY <1>1
  <2>2. QED
    BY <1>3, <2>1 DEF Sized
<1>6. Sized(q) /\ q # <<>> /\ q[1].frg + 1 <= Len(q)
  <2>1. Sized(q)
    BY <1>5 DEF Sized
  <2>2. Len(q) >= 2 /\ Len(q) >= WndRcv /\ WndRcv \in Nat
    BY <1>1, <1>4, IkcpAssumption
  <2>3. 1 \in 1 .. Len(q) /\ q # <<>>
    BY <1>1, <2>2
  <2>4. q[1].frg \in Nat /\ q[1].frg < WndRcv
    BY <1>1, <1>5, <2>3, SegFields
  <2>5. QED
    BY <1>1, <2>1, <2>2, <2>3, <2>4
<1>7. ikcp_peeksize(kcp[e]) \in Nat \ {0}
  BY <1>2, <1>6, PeekPositive DEF q
<1>8. QED
  BY <1>7

(***************************************************************************)
(* A receive queue that closes the window holds a whole frame, for every    *)
(* window, segment size and mode: ikcp_send cuts a frame into fewer than    *)
(* IKCP_WND_RCV fragments and ikcp_wndsize keeps rcv_wnd at that or above.  *)
(***************************************************************************)
THEOREM FullQueueHasFrame == Spec => []FullQueueReadable
<1>1. Init => SizesInv
  BY SizesInit
<1>2. TypeOK /\ SizesInv /\ [Next]_vars => SizesInv'
  BY SizesStep
<1>3. Spec => []SizesInv
  BY <1>1, <1>2, TypeCorrect, PTL DEF Spec
<1>4. QED
  BY <1>3, TypeCorrect, ArqInvariant, QueueReadable, PTL

-----------------------------------------------------------------------------
\* Nothing is written or read in the initial state.
LEMMA FramesInit == Init => FramesInv
<1> SUFFICES ASSUME Init, NEW e \in End
             PROVE  /\ Framed(Written(log[e], kcp[e]), sent[e])
                    /\ ReadFrames(dlv[Peer(e)], reads[Peer(e)], sent[e])
  BY DEF FramesInv
<1>1. log[e] = <<>> /\ kcp[e].snd_queue = <<>> /\ sent[e] = <<>>
  BY DEF Init, ikcp_create
<1>2. dlv[Peer(e)] = <<>> /\ reads[Peer(e)] = <<>>
  BY PeerFacts DEF Init
<1>3. Written(log[e], kcp[e]) = <<>>
  BY <1>1 DEF Written
<1>4. Len(<<>>) = 0 /\ 1 .. 0 = {}
  OBVIOUS
<1>5. QED
  BY <1>1, <1>2, <1>3, <1>4 DEF Framed, ReadFrames, EndOffset, LastOr0

\* What a step does to the frames read by an end: nothing, or what Recv does.
LEMMA ReadMoves ==
    ASSUME TypeOK, [Next]_vars, NEW e \in End
    PROVE  (dlv'[e] = dlv[e] /\ reads'[e] = reads[e]) \/ Recv(e)
<1>0. dlv \in [End -> Seq(Seg)] /\ reads \in [End -> Seq(Nat)]
  BY DEF TypeOK
<1>1. ASSUME NEW x \in End, Recv(x), x # e PROVE dlv'[e] = dlv[e] /\ reads'[e] = reads[e]
  <2> DEFINE r == ikcp_recv(kcp[x])
             last == r.frame[Len(r.frame)]
  <2>1. /\ dlv' = [dlv EXCEPT ![x] = dlv[x] \o r.frame]
        /\ reads' = [reads EXCEPT ![x] = Append(reads[x], last.off + last.len)]
    BY <1>1 DEF Recv
  <2> HIDE DEF r, last
  <2>2. QED
    BY <1>0, <1>1, <2>1
<1>2. UNCHANGED <<dlv, reads>> \/ \E x \in End : Recv(x)
  BY DEF Next, Send, Flush, Input, vars
<1>3. QED
  BY <1>1, <1>2

\* The frame that Kcp::recv_bytes returns is the next one that was written.
LEMMA RecvReads ==
    ASSUME ~Stream, TypeOK, ArqInv, WriterInv, FramesInv, NEW e \in End, Recv(e)
    PROVE  ReadFrames(dlv'[e], reads'[e], sent[Peer(e)])
<1> DEFINE p == Peer(e)
           w == Written(log[p], kcp[p])
           s == sent[p]
           d == dlv[e]
           rd == reads[e]
           k == kcp[e]
           q == k.rcv_queue
           n == FrameFragments(q)
           fr == ikcp_recv(k).frame
<1>0. p \in End /\ Peer(p) = e /\ s \in Seq(Nat) /\ rd \in Seq(Nat) /\ IsKcpCB(k)
      /\ dlv \in [End -> Seq(Seg)] /\ reads \in [End -> Seq(Nat)]
  BY PeerFacts DEF TypeOK
<1>1. /\ w \in Seq(Seg) /\ d \in Seq(Seg) /\ q \in Seq(Seg)
      /\ Len(d) \in Nat /\ Len(q) \in Nat /\ Len(d) + Len(q) <= Len(w)
      /\ \A i \in 1 .. Len(d) : d[i] = w[i]
      /\ \A i \in 1 .. Len(q) : q[i] = w[Len(d) + i]
  BY QueuedIsWritten
<1>2. Contiguous(w)
  BY <1>0 DEF WriterInv, Written
<1>3. Framed(w, s) /\ ReadFrames(d, rd, s)
  BY <1>0 DEF FramesInv
<1>4. ikcp_peeksize(k) > 0
  BY DEF Recv
<1>5. q # <<>> /\ q[1].frg + 1 <= Len(q)
  <2>1. ~ (-1 > 0)
    OBVIOUS
  <2>2. q # <<>> /\ ~ (Len(q) < q[1].frg + 1)
    BY <1>4, <2>1 DEF ikcp_peeksize
  <2>3. q[1].frg \in Nat
    BY <1>1, <2>2, SegFields
  <2>4. QED
    BY <1>1, <2>2, <2>3
<1>6. n \in 1 .. Len(q) /\ fr = SubSeq(q, 1, n) /\ fr \in Seq(Seg) /\ Len(fr) = n
  BY <1>0, <1>5, RecvFacts
<1>7. fr[n] = q[n]
  BY <1>1, <1>6
<1>8. /\ dlv' = [dlv EXCEPT ![e] = d \o fr]
      /\ reads' = [reads EXCEPT ![e] = Append(rd, fr[Len(fr)].off + fr[Len(fr)].len)]
  BY DEF Recv
<1> HIDE DEF p, w, s, d, rd, k, q, n, fr
<1>9. dlv'[e] = d \o fr /\ reads'[e] = Append(rd, SegEnd(q[n]))
  BY <1>0, <1>6, <1>7, <1>8 DEF SegEnd
<1>10. LastOr0(rd) = IF Len(d) = 0 THEN 0 ELSE SegEnd(w[Len(d)])
  <2>1. EndOffset(d) = LastOr0(rd)
    BY <1>3 DEF ReadFrames
  <2>2. CASE d = <<>>
    <3>1. Len(d) = 0
      BY <2>2
    <3>2. QED
      BY <2>1, <2>2, <3>1 DEF EndOffset
  <2>3. CASE d # <<>>
    <3>1. Len(d) # 0 /\ Len(d) \in 1 .. Len(d)
      BY <1>1, <2>3
    <3>2. EndOffset(d) = SegEnd(d[Len(d)])
      BY <2>3 DEF EndOffset, SegEnd
    <3>3. QED
      BY <1>1, <2>1, <3>1, <3>2
  <2>4. QED
    BY <2>2, <2>3
<1>11. Len(rd) <= Len(s) /\ \A i \in 1 .. Len(rd) : rd[i] = s[i]
  BY <1>3 DEF ReadFrames
<1>12. Len(rd) + 1 \in 1 .. Len(s) /\ SegEnd(q[n]) = s[Len(rd) + 1]
  BY <1>0, <1>1, <1>2, <1>3, <1>5, <1>10, <1>11, NextFrame DEF n
<1>13. SegEnd(q[n]) \in Nat
  BY <1>1, <1>6, SegFields
<1>14. EndOffset(d \o fr) = SegEnd(q[n])
  <2> DEFINE v == d \o fr
  <2>1. v \in Seq(Seg) /\ Len(v) = Len(d) + n /\ v[Len(d) + n] = fr[n]
    <3>1. \A a, b \in Seq(Seg) : /\ a \o b \in Seq(Seg) /\ Len(a \o b) = Len(a) + Len(b)
                                 /\ \A i \in 1 .. Len(b) : (a \o b)[Len(a) + i] = b[i]
      BY ConcatFacts
    <3>2. n \in 1 .. n
      BY <1>1, <1>6
    <3>3. QED
      BY ONLY <1>1, <1>6, <3>1, <3>2
  <2> HIDE DEF v
  <2>2. v # <<>>
    BY <1>1, <1>6, <2>1
  <2>3. EndOffset(v) = SegEnd(fr[n])
    BY <2>1, <2>2 DEF EndOffset, SegEnd
  <2>4. QED
    BY <1>7, <2>3 DEF v
<1>15. LET t == Append(rd, SegEnd(q[n]))
       IN  /\ LastOr0(t) = SegEnd(q[n]) /\ Len(t) <= Len(s)
           /\ \A i \in 1 .. Len(t) : t[i] = s[i]
  <2> DEFINE t == Append(rd, SegEnd(q[n]))
  <2>1. /\ t \in Seq(Nat) /\ Len(t) = Len(rd) + 1 /\ Len(rd) \in Nat
        /\ \A i \in 1 .. Len(rd) : t[i] = rd[i]
        /\ t[Len(rd) + 1] = SegEnd(q[n])
    BY <1>0, <1>13
  <2> HIDE DEF t
  <2>2. LastOr0(t) = SegEnd(q[n])
    BY <2>1 DEF LastOr0
  <2>3. Len(t) <= Len(s)
    BY <1>0, <1>12, <2>1
  <2>4. \A i \in 1 .. Len(t) : t[i] = s[i]
    <3> TAKE i \in 1 .. Len(t)
    <3>1. i \in 1 .. Len(rd) \/ i = Len(rd) + 1
      BY <2>1
    <3>2. QED
      BY <1>11, <1>12, <2>1, <3>1
  <2>5. QED
    BY <2>2, <2>3, <2>4 DEF t
<1>16. QED
  BY <1>9, <1>14, <1>15 DEF ReadFrames, s, p

\* Every step keeps the frames.
LEMMA FramesStep ==
    TypeOK /\ ArqInv /\ WriterInv /\ FramesInv /\ [Next]_vars => FramesInv'
<1> SUFFICES ASSUME ~Stream, TypeOK, ArqInv, WriterInv, FramesInv, [Next]_vars, NEW e \in End
             PROVE  /\ Framed(Written(log'[e], kcp'[e]), sent'[e])
                    /\ ReadFrames(dlv'[Peer(e)], reads'[Peer(e)], sent'[e])
  BY DEF FramesInv
<1> DEFINE p == Peer(e)
           w == Written(log[e], kcp[e])
           s == sent[e]
           off == LastOr0(s)
<1>0. p \in End /\ Peer(p) = e /\ s \in Seq(Nat) /\ off \in Nat /\ IsKcpCB(kcp[e])
      /\ log[e] \in Seq(Seg) /\ kcp[e].snd_queue \in Seq(Seg) /\ reads[p] \in Seq(Nat)
  BY PeerFacts, LastOr0Type DEF TypeOK, IsKcpCB
<1>1. Framed(w, s) /\ ReadFrames(dlv[p], reads[p], s)
  BY DEF FramesInv
<1>2. w \in Seq(Seg) /\ Contiguous(w) /\ EndOffset(w) = off
  BY <1>0 DEF WriterInv, Written
<1>3. ReadFrames(dlv'[p], reads'[p], s)
  <2>1. CASE dlv'[p] = dlv[p] /\ reads'[p] = reads[p]
    BY <1>1, <2>1
  <2>2. CASE Recv(p)
    BY <1>0, <2>2, RecvReads
  <2>3. QED
    BY <1>0, <2>1, <2>2, ReadMoves
<1>4. CASE SameWritten(e)
  BY <1>1, <1>3, <1>4 DEF SameWritten
<1>5. ASSUME NEW len \in Nat \ {0}, SendsAt(e, len)
      PROVE  /\ Framed(Written(log'[e], kcp'[e]), sent'[e])
             /\ ReadFrames(dlv'[p], reads'[p], sent'[e])
  <2> DEFINE r == ikcp_send(kcp[e], off, len)
             fr == Fragments(off, len)
  <2>1. kcp'[e] = r.kcp /\ log'[e] = log[e]
        /\ sent'[e] = IF r.ret = 0 THEN Append(s, off + len) ELSE s
    BY <1>5 DEF SendsAt
  <2>2. r.kcp.snd_queue = IF r.ret = 0 THEN kcp[e].snd_queue \o fr ELSE kcp[e].snd_queue
    <3> HIDE DEF off
    <3>1. Fragmented(kcp[e], off, len, r)
      BY <1>0, SendQueue
    <3>2. QED
      BY <3>1 DEF Fragmented
  <2>3. fr \in Seq(Seg)
    BY <1>0, FragmentFacts
  <2> HIDE DEF r, off, fr, s
  <2>4. CASE r.ret = 0
    <3>1. Written(log'[e], kcp'[e]) = w \o fr
      <4>1. kcp'[e].snd_queue = kcp[e].snd_queue \o fr
        BY <2>1, <2>2, <2>4
      <4>2. \A a, b, c \in Seq(Seg) : (a \o b) \o c = a \o (b \o c)
        BY ONLY ConcatAssoc
      <4> DEFINE lg == log[e]
                 q == kcp[e].snd_queue
      <4>3. lg \in Seq(Seg) /\ q \in Seq(Seg) /\ fr \in Seq(Seg)
        BY ONLY <1>0, <2>3
      <4> HIDE DEF lg, q
      <4>4. (lg \o q) \o fr = lg \o (q \o fr)
        BY ONLY <4>2, <4>3
      <4>5. QED
        BY ONLY <2>1, <4>1, <4>4 DEF Written, lg, q, w
    <3>2. sent'[e] = Append(s, off + len)
      BY <2>1, <2>4
    <3> HIDE DEF w
    <3>3. Framed(w \o fr, Append(s, off + len))
      BY <1>0, <1>1, <1>2, FramedSend DEF fr
    <3>4. ReadFrames(dlv'[p], reads'[p], Append(s, off + len))
      <4> DEFINE rd == reads'[p]
                 t == Append(s, off + len)
      <4>1. /\ Len(t) = Len(s) + 1 /\ Len(s) \in Nat /\ \A i \in 1 .. Len(s) : t[i] = s[i]
        BY <1>0
      <4>2. Len(rd) <= Len(s) /\ \A i \in 1 .. Len(rd) : rd[i] = s[i]
        BY <1>3 DEF ReadFrames
      <4>3. Len(rd) \in Nat
        <5>1. TypeOK'
          BY TypeStep
        <5>2. rd \in Seq(Nat)
          BY <1>0, <5>1 DEF TypeOK
        <5>3. QED
          BY <5>2
      <4> HIDE DEF rd, t
      <4>4. Len(rd) <= Len(t) /\ \A i \in 1 .. Len(rd) : rd[i] = t[i]
        BY <4>1, <4>2, <4>3
      <4>5. QED
        BY <1>3, <4>4 DEF ReadFrames, rd, t
    <3>5. QED
      BY <3>1, <3>2, <3>3, <3>4
  <2>5. CASE r.ret # 0
    <3>1. Written(log'[e], kcp'[e]) = w /\ sent'[e] = s
      BY <2>1, <2>2, <2>5 DEF Written
    <3>2. QED
      BY <1>1, <1>3, <3>1
  <2>6. QED
    BY <2>4, <2>5
<1>6. QED
  BY <1>4, <1>5, WrittenMoves

\* The frames read are those written, in their order.
LEMMA FramesImply == FramesInv => FramesPreserved
<1> SUFFICES ASSUME FramesInv, ~Stream, NEW e \in End
             PROVE  /\ Len(reads[e]) <= Len(sent[Peer(e)])
                    /\ \A i \in 1 .. Len(reads[e]) : reads[e][i] = sent[Peer(e)][i]
  BY DEF FramesPreserved
<1>1. Peer(e) \in End /\ Peer(Peer(e)) = e
  BY PeerFacts
<1>2. ReadFrames(dlv[e], reads[e], sent[Peer(e)])
  BY <1>1 DEF FramesInv
<1>3. QED
  BY <1>2 DEF ReadFrames

(***************************************************************************)
(* In message mode the n-th frame that Kcp::recv_bytes returns is the n-th  *)
(* that Kcp::send accepted, for every window, segment size and bound.       *)
(***************************************************************************)
THEOREM FramesReadAsWritten == Spec => []FramesPreserved
<1>1. CASE Stream
  <2>1. FramesPreserved
    BY <1>1 DEF FramesPreserved
  <2>2. QED
    BY <2>1, PTL
<1>2. CASE ~Stream
  <2>1. FramesFit
    BY <1>2 DEF FramesFit
  <2>2. Spec => []WriterInv
    BY <2>1, WriterInvariant
  <2>3. Init => FramesInv
    BY FramesInit
  <2>4. TypeOK /\ ArqInv /\ WriterInv /\ FramesInv /\ [Next]_vars => FramesInv'
    BY FramesStep
  <2>5. FramesInv => FramesPreserved
    BY FramesImply
  <2>6. QED
    BY <2>2, <2>3, <2>4, <2>5, TypeCorrect, ArqInvariant, PTL DEF Spec
<1>3. QED
  BY <1>1, <1>2
=============================================================================
