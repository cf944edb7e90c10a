-------------------------- MODULE ConvCacheProofs --------------------------
(***************************************************************************)
(* Proofs about ConvCache, for every set of convs and of listeners and      *)
(* every timeout.                                                           *)
(***************************************************************************)
EXTENDS ConvCache, TLAPS, WellFoundedInduction

\* "Less than" on the naturals as a relation: it is well founded.
NatLess == {p \in Nat \X Nat : p[1] < p[2]}

LEMMA LeastNat ==
    ASSUME NEW S, S \subseteq Nat, S # {}
    PROVE  \E x \in S : \A y \in S : x <= y
<1>1. IsWellFoundedOn(NatLess, Nat)
  BY NatLessThanWellFounded DEF OpToRel, NatLess
<1>2. PICK x \in S : \A y \in S : ~ (<<y, x>> \in NatLess)
  BY <1>1, WFMin
<1>3. \A y \in S : x <= y
  <2> TAKE y \in S
  <2>1. x \in Nat /\ y \in Nat
    OBVIOUS
  <2>2. ~ (y < x)
    BY <1>2, <2>1 DEF NatLess
  <2>3. QED
    BY <2>1, <2>2
<1>4. QED
  BY <1>3

\* A sequence without its first n elements.
LEMMA DropFacts ==
    ASSUME NEW S, NEW s \in Seq(S), NEW n \in 0 .. Len(s)
    PROVE  LET t == SubSeq(s, n + 1, Len(s))
           IN  /\ t \in Seq(S) /\ Len(t) = Len(s) - n
               /\ \A i \in 1 .. Len(t) : t[i] = s[n + i]
<1> DEFINE t == SubSeq(s, n + 1, Len(s))
<1>1. Len(s) \in Nat /\ n \in Nat
  OBVIOUS
<1>2. t \in Seq(S) /\ Len(t) = Len(s) - n
  BY <1>1
<1>3. ASSUME NEW i \in 1 .. Len(s) - n PROVE t[i] = s[n + i]
  <2>1. t[i] = s[n + 1 + i - 1]
    BY <1>1
  <2>2. n + 1 + i - 1 = n + i
    BY <1>1
  <2>3. QED
    BY <2>1, <2>2
<1>4. QED
  BY <1>2, <1>3

-----------------------------------------------------------------------------
(***************************************************************************)
(* A map m whose entries have the times of d, oldest first, at time t.      *)
(***************************************************************************)
Sound(m, d, t) ==
    /\ m \in Seq(Entry)
    /\ \A i \in 1 .. Len(m) : m[i].time = d[m[i].conv] /\ m[i].time <= t
    /\ \A i, j \in 1 .. Len(m) : i < j => m[i].conv # m[j].conv /\ m[i].time <= m[j].time

LEMMA EntryFacts ==
    ASSUME NEW m \in Seq(Entry)
    PROVE  /\ Len(m) \in Nat
           /\ \A i \in 1 .. Len(m) : m[i] \in Entry /\ m[i].conv \in Conv /\ m[i].time \in Nat
<1>1. Len(m) \in Nat /\ \A i \in 1 .. Len(m) : m[i] \in Entry
  OBVIOUS
<1>2. QED
  BY <1>1 DEF Entry

\* update drops a prefix of expired entries and stops at one that is not.
LEMMA UpdateCut ==
    ASSUME NEW m \in Seq(Entry), NEW t \in Nat
    PROVE  \E n \in 0 .. Len(m) :
              /\ update(m, t) = SubSeq(m, n + 1, Len(m))
              /\ \A i \in 1 .. n : Expired(m[i], t)
              /\ n < Len(m) => ~Expired(m[n + 1], t)
<1> DEFINE P(k) == /\ \A i \in 1 .. k : Expired(m[i], t)
                   /\ k < Len(m) => ~Expired(m[k + 1], t)
           n == CHOOSE k \in 0 .. Len(m) : P(k)
<1>1. Len(m) \in Nat
  BY EntryFacts
<1>2. \E k \in 0 .. Len(m) : P(k)
  <2> DEFINE S == {k \in 0 .. Len(m) : k < Len(m) => ~Expired(m[k + 1], t)}
  <2>1. Len(m) \in S /\ S \subseteq Nat
    BY <1>1
  <2>2. PICK k \in S : \A j \in S : k <= j
    BY <2>1, LeastNat
  <2>3. ASSUME NEW i \in 1 .. k PROVE Expired(m[i], t)
    <3>0. k \in 0 .. Len(m)
      BY <2>2
    <3>1. i - 1 \notin S
      <4>1. ~ (k <= i - 1)
        BY <1>1, <3>0
      <4>2. QED
        BY <2>2, <4>1
    <3>2. i - 1 \in 0 .. Len(m) /\ i - 1 + 1 = i
      BY <1>1, <3>0
    <3>3. QED
      BY <3>1, <3>2
  <2>4. QED
    BY <2>2, <2>3
<1>3. n \in 0 .. Len(m) /\ P(n)
  BY <1>2
<1>4. update(m, t) = SubSeq(m, n + 1, Len(m))
  BY DEF update
<1> HIDE DEF n
<1>5. QED
  BY <1>3, <1>4

(***************************************************************************)
(* Because the times are in order, update leaves exactly the entries that   *)
(* have not expired.                                                        *)
(***************************************************************************)
LEMMA UpdateSound ==
    ASSUME NEW m, NEW d, NEW t \in Nat, Sound(m, d, t)
    PROVE  /\ Sound(update(m, t), d, t)
           /\ Keys(update(m, t)) = {m[i].conv : i \in {j \in 1 .. Len(m) : ~Expired(m[j], t)}}
<1>1. m \in Seq(Entry) /\ Len(m) \in Nat
      /\ \A i \in 1 .. Len(m) : m[i] \in Entry /\ m[i].conv \in Conv /\ m[i].time \in Nat
  BY EntryFacts DEF Sound
<1>2. PICK n \in 0 .. Len(m) :
         /\ update(m, t) = SubSeq(m, n + 1, Len(m))
         /\ \A i \in 1 .. n : Expired(m[i], t)
         /\ n < Len(m) => ~Expired(m[n + 1], t)
  BY <1>1, UpdateCut
<1> DEFINE u == update(m, t)
<1>3. u \in Seq(Entry) /\ Len(u) = Len(m) - n /\ \A i \in 1 .. Len(u) : u[i] = m[n + i]
  BY <1>1, <1>2, DropFacts
<1> HIDE DEF u
<1>4. \A i \in 1 .. Len(u) : n + i \in 1 .. Len(m)
  BY <1>1, <1>3
<1>5. Sound(u, d, t)
  <2>1. \A i \in 1 .. Len(u) : u[i].time = d[u[i].conv] /\ u[i].time <= t
    BY <1>3, <1>4 DEF Sound
  <2>2. ASSUME NEW i \in 1 .. Len(u), NEW j \in 1 .. Len(u), i < j
        PROVE  u[i].conv # u[j].conv /\ u[i].time <= u[j].time
    <3>1. n + i \in 1 .. Len(m) /\ n + j \in 1 .. Len(m) /\ n + i < n + j
      BY <1>1, <1>4, <2>2
    <3>2. m[n + i].conv # m[n + j].conv /\ m[n + i].time <= m[n + j].time
      BY <3>1 DEF Sound
    <3>3. QED
      BY <1>3, <3>2
  <2>3. QED
    BY <1>3, <2>1, <2>2 DEF Sound
<1>6. \A i \in 1 .. Len(m) : ~Expired(m[i], t) <=> i > n
  <2> TAKE i \in 1 .. Len(m)
  <2>1. CASE i <= n
    BY <1>1, <1>2, <2>1
  <2>2. CASE i > n
    <3>1. n + 1 \in 1 .. Len(m) /\ n < Len(m)
      BY <1>1, <2>2
    <3>2. m[n + 1].time <= m[i].time
      <4>1. CASE n + 1 = i
        BY <1>1, <3>1, <4>1
      <4>2. CASE n + 1 < i
        BY <3>1, <4>2 DEF Sound
      <4>3. QED
        BY <1>1, <2>2, <4>1, <4>2
    <3>3. ~ (t - m[n + 1].time >= Timeout)
      BY <1>2, <3>1 DEF Expired
    <3>4. m[n + 1].time \in Nat /\ m[i].time \in Nat
      BY <1>1, <3>1
    <3>5. ~ (t - m[i].time >= Timeout)
      BY <3>2, <3>3, <3>4, CacheAssumption
    <3>6. QED
      BY <2>2, <3>5 DEF Expired
  <2>3. QED
    BY <1>1, <2>1, <2>2
<1>7. Keys(u) = {m[i].conv : i \in {j \in 1 .. Len(m) : ~Expired(m[j], t)}}
  <2>1. ASSUME NEW i \in 1 .. Len(u)
        PROVE  \E j \in 1 .. Len(m) : ~Expired(m[j], t) /\ u[i].conv = m[j].conv
    <3>1. n + i \in 1 .. Len(m) /\ n + i > n
      BY <1>1, <1>4
    <3>2. QED
      BY <1>3, <1>6, <3>1
  <2>2. ASSUME NEW j \in 1 .. Len(m), ~Expired(m[j], t)
        PROVE  \E i \in 1 .. Len(u) : u[i].conv = m[j].conv
    <3>1. j > n
      BY <1>6, <2>2
    <3>2. j - n \in 1 .. Len(u) /\ n + (j - n) = j
      BY <1>1, <1>3, <3>1
    <3>3. QED
      BY <1>3, <3>2
  <2>3. QED
    <3> DEFINE K == {m[i].conv : i \in {j \in 1 .. Len(m) : ~Expired(m[j], t)}}
    <3>1. \A c \in Keys(u) : c \in K
      BY <2>1 DEF Keys
    <3>2. \A c \in K : c \in Keys(u)
      BY <2>2 DEF Keys
    <3>3. QED
      BY <3>1, <3>2
<1>8. QED
  BY <1>5, <1>7 DEF u

\* A sequence without its element number n.
LEMMA RemoveFacts ==
    ASSUME NEW S, NEW s \in Seq(S), NEW n \in 1 .. Len(s)
    PROVE  LET w == SubSeq(s, 1, n - 1) \o SubSeq(s, n + 1, Len(s))
           IN  /\ w \in Seq(S) /\ Len(w) = Len(s) - 1
               /\ \A i \in 1 .. Len(w) : w[i] = s[IF i < n THEN i ELSE i + 1]
<1> DEFINE a == SubSeq(s, 1, n - 1)
           b == SubSeq(s, n + 1, Len(s))
           w == a \o b
<1>1. Len(s) \in Nat /\ n \in Nat /\ n >= 1 /\ n <= Len(s)
  OBVIOUS
<1>2. a \in Seq(S) /\ Len(a) = n - 1 /\ \A i \in 1 .. n - 1 : a[i] = s[i]
  <2> DEFINE k == n - 1
  <2>1. k \in Nat /\ k <= Len(s)
    BY <1>1
  <2> HIDE DEF k
  <2>2. SubSeq(s, 1, k) \in Seq(S) /\ Len(SubSeq(s, 1, k)) = k
        /\ \A i \in 1 .. k : SubSeq(s, 1, k)[i] = s[i]
    BY <1>1, <2>1
  <2>3. QED
    BY <2>2 DEF k
<1>3. b \in Seq(S) /\ Len(b) = Len(s) - n /\ \A i \in 1 .. Len(b) : b[i] = s[n + i]
  <2>1. n \in 0 .. Len(s)
    BY <1>1
  <2>2. QED
    BY ONLY <2>1, s \in Seq(S), DropFacts
<1> HIDE DEF a, b
<1>4. w \in Seq(S) /\ Len(w) = Len(a) + Len(b)
  <2>1. a \in Seq(S) /\ b \in Seq(S)
    BY <1>2, <1>3
  <2>2. QED
    BY ONLY <2>1
<1>5. ASSUME NEW i \in 1 .. Len(w) PROVE w[i] = s[IF i < n THEN i ELSE i + 1]
  <2>0. i \in 1 .. Len(a) + Len(b) /\ Len(a) \in Nat /\ Len(b) \in Nat
    BY <1>1, <1>2, <1>3, <1>4
  <2>1. CASE i < n
    <3>1. i \in 1 .. n - 1 /\ i <= Len(a)
      BY <1>1, <1>2, <2>0, <2>1
    <3>2. w[i] = a[i]
      BY <1>2, <1>3, <2>0, <3>1
    <3>3. QED
      BY <1>2, <2>1, <3>1, <3>2
  <2>2. CASE ~ (i < n)
    <3> DEFINE j == i - Len(a)
    <3>1. j \in 1 .. Len(b) /\ n + j = i + 1 /\ i > Len(a)
      BY <1>1, <1>2, <2>0, <2>2
    <3>2. w[i] = b[j]
      BY <1>2, <1>3, <2>0, <3>1
    <3>3. b[j] = s[n + j]
      BY <1>3, <3>1
    <3>4. QED
      BY <2>2, <3>1, <3>2, <3>3
  <2>3. QED
    BY <2>1, <2>2
<1>6. Len(w) = Len(s) - 1
  BY <1>1, <1>2, <1>3, <1>4
<1>7. QED
  BY <1>4, <1>5, <1>6 DEF a, b

LEMMA WithoutSound ==
    ASSUME NEW m, NEW d, NEW t \in Nat, Sound(m, d, t), NEW c \in Conv
    PROVE  Sound(Without(m, c), d, t) /\ Keys(Without(m, c)) = Keys(m) \ {c}
<1>0. m \in Seq(Entry) /\ Len(m) \in Nat
  BY EntryFacts DEF Sound
<1>1. CASE c \notin Keys(m)
  <2>1. Without(m, c) = m
    BY <1>1 DEF Without
  <2>2. QED
    BY <1>1, <2>1
<1>2. CASE c \in Keys(m)
  <2> DEFINE n == CHOOSE i \in 1 .. Len(m) : m[i].conv = c
             w == Without(m, c)
             At(i) == IF i < n THEN i ELSE i + 1
  <2>1. n \in 1 .. Len(m) /\ m[n].conv = c
    BY <1>2 DEF Keys
  <2>2. w = SubSeq(m, 1, n - 1) \o SubSeq(m, n + 1, Len(m))
    BY <1>2 DEF Without
  <2> HIDE DEF n, w
  <2>3. w \in Seq(Entry) /\ Len(w) = Len(m) - 1 /\ \A i \in 1 .. Len(w) : w[i] = m[At(i)]
    BY <1>0, <2>1, <2>2, RemoveFacts
  <2>4. \A i \in 1 .. Len(w) : At(i) \in 1 .. Len(m) /\ At(i) # n
    BY <1>0, <2>1, <2>3
  <2>5. \A i, j \in 1 .. Len(w) : i < j => At(i) < At(j)
    BY <1>0, <2>1, <2>3
  <2>6. \A j \in 1 .. Len(m) : j # n => \E i \in 1 .. Len(w) : At(i) = j
    <3> SUFFICES ASSUME NEW j \in 1 .. Len(m), j # n PROVE \E i \in 1 .. Len(w) : At(i) = j
      OBVIOUS
    <3>1. CASE j < n
      BY <1>0, <2>1, <2>3, <3>1
    <3>2. CASE j > n
      <4>1. j - 1 \in 1 .. Len(w) /\ ~ (j - 1 < n) /\ j - 1 + 1 = j
        BY <1>0, <2>1, <2>3, <3>2
      <4>2. QED
        BY <4>1
    <3>3. QED
      BY <1>0, <2>1, <3>1, <3>2
  <2> HIDE DEF At
  <2>7. Sound(w, d, t)
    <3>1. \A i \in 1 .. Len(w) : w[i].time = d[w[i].conv] /\ w[i].time <= t
      BY <2>3, <2>4 DEF Sound
    <3>2. ASSUME NEW i \in 1 .. Len(w), NEW j \in 1 .. Len(w), i < j
          PROVE  w[i].conv # w[j].conv /\ w[i].time <= w[j].time
      <4>1. At(i) \in 1 .. Len(m) /\ At(j) \in 1 .. Len(m) /\ At(i) < At(j)
        BY <2>4, <2>5, <3>2
      <4>2. m[At(i)].conv # m[At(j)].conv /\ m[At(i)].time <= m[At(j)].time
        BY <4>1 DEF Sound
      <4>3. QED
        BY <2>3, <4>2
    <3>3. QED
      BY <2>3, <3>1, <3>2 DEF Sound
  <2>8. \A x \in Keys(w) : x \in Keys(m) \ {c}
    <3> SUFFICES ASSUME NEW i \in 1 .. Len(w) PROVE w[i].conv \in Keys(m) \ {c}
      BY DEF Keys
    <3>1. At(i) \in 1 .. Len(m) /\ At(i) # n /\ w[i].conv = m[At(i)].conv
      BY <2>3, <2>4
    <3>2. At(i) < n \/ n < At(i)
      BY <1>0, <2>1, <3>1
    <3>3. m[At(i)].conv # m[n].conv
      BY <2>1, <3>1, <3>2 DEF Sound
    <3>4. QED
      BY <2>1, <3>1, <3>3 DEF Keys
  <2>9. \A x \in Keys(m) \ {c} : x \in Keys(w)
    <3> SUFFICES ASSUME NEW j \in 1 .. Len(m), m[j].conv # c PROVE m[j].conv \in Keys(w)
      BY DEF Keys
    <3>1. PICK i \in 1 .. Len(w) : At(i) = j
      BY <2>1, <2>6
    <3>2. w[i].conv = m[j].conv
      BY <2>3, <3>1
    <3>3. QED
      BY <3>2 DEF Keys
  <2>10. QED
    BY <2>7, <2>8, <2>9 DEF w
<1>3. QED
  BY <1>1, <1>2

\* LinkedHashMap::insert of a conv that dies at time t.
LEMMA InsertSound ==
    ASSUME NEW m, NEW d \in [Conv -> Nat], NEW t \in Nat, Sound(m, d, t), NEW c \in Conv,
           NEW d2 \in [Conv -> Nat], d2[c] = t, \A x \in Conv : x # c => d2[x] = d[x]
    PROVE  /\ Sound(insert(m, c, t), d2, t)
           /\ Keys(insert(m, c, t)) = Keys(m) \cup {c}
<1> DEFINE w == Without(m, c)
           e == [conv |-> c, time |-> t]
           v == Append(w, e)
<1>1. Sound(w, d, t) /\ Keys(w) = Keys(m) \ {c}
  BY WithoutSound
<1> HIDE DEF w
<1>2. w \in Seq(Entry) /\ Len(w) \in Nat
      /\ \A i \in 1 .. Len(w) : w[i] \in Entry /\ w[i].conv \in Conv /\ w[i].time \in Nat
  BY <1>1, EntryFacts DEF Sound
<1>3. e \in Entry /\ e.conv = c /\ e.time = t
  BY DEF Entry
<1>4. insert(m, c, t) = v
  BY DEF insert, w
<1> HIDE DEF e
<1>5. /\ v \in Seq(Entry) /\ Len(v) = Len(w) + 1
      /\ \A i \in 1 .. Len(w) : v[i] = w[i]
      /\ v[Len(w) + 1] = e
  BY <1>2, <1>3
<1> HIDE DEF v
<1>6. \A i \in 1 .. Len(w) : w[i].conv # c
  BY <1>1 DEF Keys
<1>7. Sound(v, d2, t)
  <2>1. ASSUME NEW i \in 1 .. Len(v) PROVE v[i].time = d2[v[i].conv] /\ v[i].time <= t
    <3>1. CASE i \in 1 .. Len(w)
      <4>1. v[i] = w[i] /\ w[i].conv # c /\ w[i].conv \in Conv
        BY <1>2, <1>5, <1>6, <3>1
      <4>2. d2[w[i].conv] = d[w[i].conv]
        BY <4>1
      <4>3. w[i].time = d[w[i].conv] /\ w[i].time <= t
        BY <1>1, <3>1 DEF Sound
      <4>4. QED
        BY <4>1, <4>2, <4>3
    <3>2. CASE i = Len(w) + 1
      <4>1. d2[c] = t
        OBVIOUS
      <4>2. v[i].conv = c /\ v[i].time = t
        BY <1>3, <1>5, <3>2
      <4>3. QED
        BY <4>1, <4>2
    <3>3. QED
      BY <1>2, <1>5, <3>1, <3>2
  <2>2. ASSUME NEW i \in 1 .. Len(v), NEW j \in 1 .. Len(v), i < j
        PROVE  v[i].conv # v[j].conv /\ v[i].time <= v[j].time
    <3>1. i \in 1 .. Len(w) /\ v[i] = w[i]
      BY <1>2, <1>5, <2>2
    <3>2. CASE j \in 1 .. Len(w)
      <4>1. v[j] = w[j]
        BY <1>5, <3>2
      <4>2. QED
        BY <1>1, <2>2, <3>1, <3>2, <4>1 DEF Sound
    <3>3. CASE j = Len(w) + 1
      <4>1. v[j].conv = c /\ v[j].time = t
        BY <1>3, <1>5, <3>3
      <4>2. w[i].conv # c /\ w[i].time <= t
        BY <1>1, <1>6, <3>1 DEF Sound
      <4>3. QED
        BY <3>1, <4>1, <4>2
    <3>4. QED
      BY <1>2, <1>5, <3>2, <3>3
  <2>3. QED
    BY <1>5, <2>1, <2>2 DEF Sound
<1>8. Keys(v) = Keys(m) \cup {c}
  <2>1. \A x \in Keys(v) : x \in Keys(w) \cup {c}
    <3> SUFFICES ASSUME NEW i \in 1 .. Len(v) PROVE v[i].conv \in Keys(w) \cup {c}
      BY DEF Keys
    <3>1. i \in 1 .. Len(w) \/ i = Len(w) + 1
      BY <1>2, <1>5
    <3>2. QED
      BY <1>3, <1>5, <3>1 DEF Keys
  <2>2. \A i \in 1 .. Len(w) : i \in 1 .. Len(v)
    BY <1>2, <1>5
  <2>3. Len(w) + 1 \in 1 .. Len(v)
    BY <1>2, <1>5
  <2>4. \A x \in Keys(w) : x \in Keys(v)
    BY <1>5, <2>2 DEF Keys
  <2>5. c \in Keys(v)
    BY <1>3, <1>5, <2>3 DEF Keys
  <2>6. QED
    BY <1>1, <2>1, <2>4, <2>5
<1>9. QED
  BY <1>4, <1>7, <1>8

-----------------------------------------------------------------------------
(***************************************************************************)
(* The cache: Recent is what died in d less than Timeout before t.          *)
(***************************************************************************)
Recent(d, t) == {c \in Conv : d[c] # Never /\ t - d[c] < Timeout}

Cached(m, d, t) == Sound(m, d, t) /\ Recent(d, t) \subseteq Keys(m)

\* A map that has lost nothing recent is cut by update to what is recent.
LEMMA UpdateExact ==
    ASSUME NEW m, NEW d \in [Conv -> Nat], NEW t \in Nat, t <= MaxTime, Cached(m, d, t)
    PROVE  Keys(update(m, t)) = Recent(d, t) /\ Cached(update(m, t), d, t)
<1> DEFINE K == {m[i].conv : i \in {j \in 1 .. Len(m) : ~Expired(m[j], t)}}
<1>1. Sound(update(m, t), d, t) /\ Keys(update(m, t)) = K
  BY UpdateSound DEF Cached
<1>2. Len(m) \in Nat /\ \A i \in 1 .. Len(m) : m[i].conv \in Conv /\ m[i].time \in Nat
  BY EntryFacts DEF Cached, Sound
<1>3. ASSUME NEW i \in 1 .. Len(m), ~Expired(m[i], t) PROVE m[i].conv \in Recent(d, t)
  <2>1. m[i].time = d[m[i].conv] /\ m[i].time <= t
    BY DEF Cached, Sound
  <2>2. m[i].time < Never
    BY <1>2, <2>1, CacheAssumption DEF Never
  <2>3. t - m[i].time < Timeout
    BY <1>2, <1>3, CacheAssumption DEF Expired
  <2>4. m[i].time # Never
    BY <1>2, <2>2, CacheAssumption DEF Never
  <2>5. QED
    BY <1>2, <2>1, <2>3, <2>4 DEF Recent
<1>4. ASSUME NEW c \in Recent(d, t) PROVE c \in K
  <2>1. PICK i \in 1 .. Len(m) : m[i].conv = c
    BY DEF Cached, Keys
  <2>2. t - d[c] < Timeout /\ m[i].time = d[c] /\ d[c] \in Nat
    BY <2>1 DEF Recent, Cached, Sound
  <2>3. ~Expired(m[i], t)
    BY <2>2, CacheAssumption DEF Expired
  <2>4. QED
    BY <2>1, <2>3
<1>5. \A c \in K : c \in Recent(d, t)
  BY <1>3
<1>6. K = Recent(d, t)
  <2> HIDE DEF K
  <2> QED BY <1>4, <1>5
<1>7. QED
  BY <1>1, <1>6 DEF Cached

\* CacheInv in these terms.
LEMMA InvCached ==
    CacheInv <=> /\ now \in Nat /\ now <= MaxTime
                 /\ in_use \in [Listener -> SUBSET Conv] /\ died \in [Conv -> Nat]
                 /\ Cached(map, died, now)
<1>0. Recent(died, now) = {c \in Conv : Quarantined(c)}
  BY DEF Recent, Quarantined
<1>1. ASSUME CacheInv
      PROVE  /\ now \in Nat /\ now <= MaxTime
             /\ in_use \in [Listener -> SUBSET Conv] /\ died \in [Conv -> Nat]
             /\ Cached(map, died, now)
  <2>1. map \in Seq(Entry) /\ now \in Nat /\ now <= MaxTime /\ died \in [Conv -> Nat]
        /\ in_use \in [Listener -> SUBSET Conv]
    BY <1>1 DEF CacheInv, TypeOK, OldestFirst
  <2>2. Len(map) \in Nat
    BY <2>1, EntryFacts
  <2>3. \A i, j \in 1 .. Len(map) : i < j => map[i].conv # map[j].conv
    <3> DEFINE f == [i \in 1 .. Len(map) |-> map[i].conv]
    <3>1. \A i, j \in 1 .. Len(map) : f[i] = f[j] => i = j
      BY <1>1 DEF CacheInv, TypeOK, IsInjective
    <3>2. QED
      BY <2>2, <3>1
  <2>4. Sound(map, died, now)
    BY <1>1, <2>1, <2>3 DEF CacheInv, OldestFirst, Sound
  <2>5. Recent(died, now) \subseteq Keys(map)
    <3>1. Keys(update(map, now)) = Recent(died, now)
      BY <1>0, <1>1 DEF CacheInv, CacheExact
    <3>2. Keys(update(map, now)) = {map[i].conv : i \in {j \in 1 .. Len(map) : ~Expired(map[j], now)}}
      BY <2>1, <2>4, UpdateSound
    <3>3. QED
      BY <3>1, <3>2 DEF Keys
  <2>6. QED
    BY <2>1, <2>4, <2>5 DEF Cached
<1>2. ASSUME now \in Nat, now <= MaxTime, in_use \in [Listener -> SUBSET Conv],
             died \in [Conv -> Nat], Cached(map, died, now)
      PROVE  CacheInv
  <2>1. map \in Seq(Entry) /\ Sound(map, died, now)
    BY <1>2 DEF Cached, Sound
  <2>2. Len(map) \in Nat
    BY <2>1, EntryFacts
  <2>3. IsInjective([i \in 1 .. Len(map) |-> map[i].conv])
    <3> DEFINE f == [i \in 1 .. Len(map) |-> map[i].conv]
    <3> SUFFICES ASSUME NEW i \in 1 .. Len(map), NEW j \in 1 .. Len(map), f[i] = f[j] PROVE i = j
      BY DEF IsInjective
    <3>1. map[i].conv = map[j].conv
      OBVIOUS
    <3>2. ~ (i < j) /\ ~ (j < i)
      BY <2>1, <3>1 DEF Sound
    <3>3. QED
      BY <2>2, <3>2
  <2>4. OldestFirst
    BY <1>2, <2>1 DEF OldestFirst, Sound
  <2>5. CacheExact
    BY <1>0, <1>2, UpdateExact DEF CacheExact
  <2>6. QED
    BY <1>2, <2>1, <2>3, <2>4, <2>5 DEF CacheInv, TypeOK
<1>3. QED
  BY <1>1, <1>2

LEMMA CacheInit == Init => CacheInv
<1> SUFFICES ASSUME Init PROVE CacheInv
  OBVIOUS
<1>1. now = 0 /\ map = <<>> /\ in_use \in [Listener -> SUBSET Conv] /\ died = [c \in Conv |-> Never]
  BY DEF Init
<1>2. Never \in Nat
  BY CacheAssumption DEF Never
<1>3. died \in [Conv -> Nat] /\ \A c \in Conv : died[c] = Never
  BY <1>1, <1>2
<1>4. Recent(died, now) = {}
  BY <1>3 DEF Recent
<1>5. Sound(map, died, now)
  BY <1>1 DEF Sound
<1>6. QED
  BY <1>1, <1>3, <1>4, <1>5, InvCached, CacheAssumption DEF Cached

(***************************************************************************)
(* The steps: from Cached after update to Cached after the operation.       *)
(***************************************************************************)
\* insert of a conv that dies now.
LEMMA InsertCached ==
    ASSUME NEW m, NEW d \in [Conv -> Nat], NEW t \in Nat, Cached(m, d, t), NEW c \in Conv,
           NEW d2, d2 = [d EXCEPT ![c] = t]
    PROVE  Cached(insert(m, c, t), d2, t) /\ d2 \in [Conv -> Nat]
<1>1. d2 \in [Conv -> Nat] /\ d2[c] = t /\ \A x \in Conv : x # c => d2[x] = d[x]
  OBVIOUS
<1>2. Sound(insert(m, c, t), d2, t) /\ Keys(insert(m, c, t)) = Keys(m) \cup {c}
  <2>1. Sound(m, d, t)
    BY DEF Cached
  <2>2. d \in [Conv -> Nat] /\ t \in Nat /\ c \in Conv
    OBVIOUS
  <2>3. QED
    BY ONLY <1>1, <2>1, <2>2, InsertSound
<1>3. Recent(d2, t) \subseteq Recent(d, t) \cup {c}
  BY <1>1 DEF Recent
<1>4. QED
  BY <1>1, <1>2, <1>3 DEF Cached

\* A conv that is in quarantine a tick later is in it now.
LEMMA RecentShrinks ==
    ASSUME NEW d \in [Conv -> Nat], NEW t \in Nat, NEW t2, t2 = t + 1
    PROVE  Recent(d, t2) \subseteq Recent(d, t)
<1> SUFFICES ASSUME NEW c \in Recent(d, t2) PROVE c \in Recent(d, t)
  OBVIOUS
<1>1. c \in Conv /\ d[c] # Never /\ t2 - d[c] < Timeout
  BY DEF Recent
<1>2. d[c] \in Nat
  BY <1>1
<1>3. t - d[c] < Timeout
  BY <1>1, <1>2, CacheAssumption
<1>4. QED
  BY <1>1, <1>3 DEF Recent

LEMMA CacheStep == CacheInv /\ [Next]_vars => CacheInv'
<1> SUFFICES ASSUME CacheInv, [Next]_vars PROVE CacheInv'
  OBVIOUS
<1> DEFINE u == update(map, now)
<1>0. /\ now \in Nat /\ now <= MaxTime
      /\ in_use \in [Listener -> SUBSET Conv] /\ died \in [Conv -> Nat]
      /\ Cached(map, died, now)
  BY InvCached
<1>1. Keys(u) = Recent(died, now) /\ Cached(u, died, now)
  BY <1>0, UpdateExact
<1> HIDE DEF u
<1>2. ASSUME /\ now' \in Nat /\ now' <= MaxTime
             /\ in_use' \in [Listener -> SUBSET Conv] /\ died' \in [Conv -> Nat]
             /\ Cached(map', died', now')
      PROVE  CacheInv'
  <2>1. (/\ now \in Nat /\ now <= MaxTime
         /\ in_use \in [Listener -> SUBSET Conv] /\ died \in [Conv -> Nat]
         /\ Cached(map, died, now))'
    BY <1>2
  <2>2. QED
    BY <2>1, InvCached, PTL
<1>3. ASSUME NEW l \in Listener, NEW conv \in Conv, allocate(l, conv) PROVE CacheInv'
  <2>1. map' = u /\ now' = now /\ died' = died /\ in_use' = [in_use EXCEPT ![l] = in_use[l] \cup {conv}]
    BY <1>3 DEF allocate, u
  <2>2. in_use' \in [Listener -> SUBSET Conv]
    BY <1>0, <2>1
  <2>3. QED
    BY <1>0, <1>1, <1>2, <2>1, <2>2
<1>4. ASSUME NEW l \in Listener, NEW conv \in Conv, add(l, conv) PROVE CacheInv'
  <2>1. /\ map' = insert(u, conv, now) /\ now' = now /\ died' = [died EXCEPT ![conv] = now]
        /\ in_use' = [in_use EXCEPT ![l] = in_use[l] \ {conv}]
    BY <1>4 DEF add, u
  <2>2. in_use' \in [Listener -> SUBSET Conv]
    BY <1>0, <2>1
  <2>3. Cached(map', died', now') /\ died' \in [Conv -> Nat]
    BY <1>0, <1>1, <2>1, InsertCached
  <2>4. QED
    BY <1>0, <1>2, <2>1, <2>2, <2>3
<1>5. ASSUME NEW conv \in Conv, fill(conv) PROVE CacheInv'
  <2>1. now' = now /\ in_use' = in_use
        /\ \/ map' = u /\ died' = died
           \/ map' = insert(u, conv, now) /\ died' = [died EXCEPT ![conv] = now]
    BY <1>5 DEF fill, u
  <2>2. Cached(map', died', now') /\ died' \in [Conv -> Nat]
    BY <1>0, <1>1, <2>1, InsertCached
  <2>3. QED
    BY <1>0, <1>2, <2>1, <2>2
<1>6. ASSUME Restart PROVE CacheInv'
  <2> DEFINE v == [i \in 1 .. Len(u) |-> [conv |-> u[i].conv, time |-> now]]
             d2 == [c \in Conv |-> IF c \in Keys(u) THEN now ELSE died[c]]
  <2>1. u \in Seq(Entry) /\ Len(u) \in Nat /\ \A i \in 1 .. Len(u) : u[i].conv \in Conv
    BY <1>1, EntryFacts DEF Cached, Sound
  <2>2. map' = v /\ died' = d2 /\ now' = now /\ in_use' = in_use
    <3>1. dump = [i \in 1 .. Len(u) |-> u[i].conv]
      BY DEF dump, u
    <3>2. /\ map' = [i \in 1 .. Len(dump) |-> [conv |-> dump[i], time |-> now]]
          /\ died' = d2 /\ now' = now /\ in_use' = in_use
      BY <1>6 DEF Restart, u
    <3>3. Len(dump) = Len(u) /\ \A i \in 1 .. Len(u) : dump[i] = u[i].conv
      BY <2>1, <3>1
    <3>4. QED
      BY <3>2, <3>3
  <2>3. v \in Seq(Entry) /\ Len(v) = Len(u)
    <3>1. \A i \in 1 .. Len(u) : [conv |-> u[i].conv, time |-> now] \in Entry
      BY <1>0, <2>1 DEF Entry
    <3>2. QED
      BY <2>1, <3>1
  <2>4. \A i \in 1 .. Len(u) : v[i].conv = u[i].conv /\ v[i].time = now
    OBVIOUS
  <2>5. d2 \in [Conv -> Nat] /\ \A c \in Conv : d2[c] = IF c \in Keys(u) THEN now ELSE died[c]
    BY <1>0
  <2> HIDE DEF v, d2
  <2>6. Keys(v) = Keys(u)
    BY <2>3, <2>4 DEF Keys
  <2>7. Sound(v, d2, now)
    <3>1. ASSUME NEW i \in 1 .. Len(v) PROVE v[i].time = d2[v[i].conv] /\ v[i].time <= now
      <4>1. v[i].conv \in Keys(u) /\ v[i].conv \in Conv /\ v[i].time = now
        BY <2>1, <2>3, <2>4 DEF Keys
      <4>2. d2[v[i].conv] = now
        BY <2>5, <4>1
      <4>3. QED
        BY <1>0, <4>1, <4>2
    <3>2. ASSUME NEW i \in 1 .. Len(v), NEW j \in 1 .. Len(v), i < j
          PROVE  v[i].conv # v[j].conv /\ v[i].time <= v[j].time
      <4>1. u[i].conv # u[j].conv
        BY <1>1, <2>3, <3>2 DEF Cached, Sound
      <4>2. v[i].time = now /\ v[j].time = now
        BY <2>3, <2>4
      <4>3. v[i].conv # v[j].conv
        BY <2>3, <2>4, <4>1
      <4>4. QED
        BY <1>0, <4>2, <4>3
    <3>3. QED
      BY <2>3, <3>1, <3>2 DEF Sound
  <2>8. Recent(d2, now) \subseteq Keys(u)
    <3> SUFFICES ASSUME NEW c \in Recent(d2, now), c \notin Keys(u) PROVE FALSE
      OBVIOUS
    <3>1. c \in Conv /\ d2[c] = died[c]
      BY <2>5 DEF Recent
    <3>2. c \in Recent(died, now)
      BY <3>1 DEF Recent
    <3>3. QED
      BY <1>1, <3>2
  <2>9. QED
    BY <1>0, <1>2, <2>2, <2>5, <2>6, <2>7, <2>8 DEF Cached
<1>7. ASSUME Tick PROVE CacheInv'
  <2>1. now' = now + 1 /\ now < MaxTime /\ map' = map /\ in_use' = in_use /\ died' = died
    BY <1>7 DEF Tick
  <2>2. now' \in Nat /\ now' <= MaxTime
    BY <1>0, <2>1, CacheAssumption
  <2>3. Sound(map, died, now')
    <3>1. Sound(map, died, now) /\ \A i \in 1 .. Len(map) : map[i].time \in Nat
      BY <1>0, EntryFacts DEF Cached, Sound
    <3>2. \A i \in 1 .. Len(map) : map[i].time <= now'
      BY <1>0, <2>1, <3>1 DEF Sound
    <3>3. QED
      BY <3>1, <3>2 DEF Sound
  <2>4. Recent(died, now') \subseteq Recent(died, now)
    BY <1>0, <2>1, RecentShrinks
  <2>5. QED
    BY <1>0, <1>2, <2>1, <2>2, <2>3, <2>4 DEF Cached
<1>8. CASE UNCHANGED vars
  BY <1>0, <1>2, <1>8 DEF vars
<1>9. QED
  BY <1>3, <1>4, <1>5, <1>6, <1>7, <1>8 DEF Next

(***************************************************************************)
(* What the cache keeps is, after update, exactly the conversation numbers  *)
(* that died less than the timeout ago, for any number of listeners that    *)
(* share it, repeated additions, fill and restarts (ConvCache of conv.rs).  *)
(***************************************************************************)
THEOREM CacheInvariant == Spec => []CacheInv
  BY CacheInit, CacheStep, PTL DEF Spec

(***************************************************************************)
(* No listener draws a number that died less than the timeout ago.          *)
(***************************************************************************)
THEOREM QuarantineKept == Spec => NotDrawnEarly
<1> DEFINE A == \A l \in Listener, c \in Conv :
                  c \in in_use'[l] \ in_use[l] => c \notin Invalid /\ ~Quarantined(c)
<1>1. CacheInv /\ [Next]_vars => [A]_vars
  <2> SUFFICES ASSUME CacheInv, Next, NEW l \in Listener, NEW c \in Conv, c \in in_use'[l] \ in_use[l]
               PROVE  c \notin Invalid /\ ~Quarantined(c)
    OBVIOUS
  <2>0. in_use \in [Listener -> SUBSET Conv]
    BY DEF CacheInv, TypeOK
  <2>1. ASSUME NEW k \in Listener, NEW conv \in Conv, allocate(k, conv)
        PROVE  c \notin Invalid /\ ~Quarantined(c)
    <3>1. in_use' = [in_use EXCEPT ![k] = in_use[k] \cup {conv}] /\ conv \notin Invalid
          /\ conv \notin Keys(update(map, now))
      BY <2>1 DEF allocate
    <3>2. c = conv
      BY <2>0, <3>1
    <3>3. QED
      BY <3>1, <3>2 DEF CacheInv, CacheExact
  <2>2. ASSUME NEW k \in Listener, NEW conv \in Conv, add(k, conv) PROVE FALSE
    BY <2>0, <2>2 DEF add
  <2>3. ~ (in_use' = in_use)
    OBVIOUS
  <2>4. QED
    BY <2>1, <2>2, <2>3 DEF Next, fill, Restart, Tick
<1>2. QED
  BY <1>1, CacheInvariant, PTL DEF Spec, NotDrawnEarly
=============================================================================
