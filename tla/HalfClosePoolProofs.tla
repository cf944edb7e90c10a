------------------------ MODULE HalfClosePoolProofs ------------------------
(***************************************************************************)
(* Proofs about HalfClosePool for any number of streams and of RESET        *)
(* packets.                                                                 *)
(***************************************************************************)
EXTENDS HalfClosePool, TLAPS, FiniteSetTheorems

\* The HalfClose values that exist.
Existing == {t \in Closed : hc[t].pc \in Live}

\* The part of PoolInv that holds for any number of callers.
CountInv == TypeOK /\ HasPackets /\ Counted

-----------------------------------------------------------------------------
LEMMA CountInit == Init => CountInv
<1> SUFFICES ASSUME Init PROVE CountInv
  OBVIOUS
<1>1. TypeOK /\ HasPackets
  <2>1. Repeat \in 0 .. Repeat /\ Repeat > 0
    BY PoolAssumption
  <2>2. hc \in [Closed -> HalfClose] /\ HasPackets
    BY <2>1 DEF Init, HalfClose, HasPackets
  <2>3. waiting \in Seq(Callers) /\ task_count \in Nat
    BY DEF Init
  <2>4. sh \in [Callers -> {"idle", "load", "await", "wait", "done"}]
    BY DEF Init
  <2>5. token \in BOOLEAN /\ permit \in BOOLEAN
    BY DEF Init
  <2>6. QED
    BY <2>2, <2>3, <2>4, <2>5 DEF TypeOK
<1>2. Existing = {}
  BY DEF Init, Existing, Live
<1>3. Counted
  BY <1>2, FS_EmptySet DEF Counted, Existing, Init
<1>4. QED
  BY <1>1, <1>3 DEF CountInv

\* What a step that replaces the state of one HalfClose does to the set.
LEMMA ExistingFinite == IsFiniteSet(Existing) /\ Cardinality(Existing) \in Nat
<1>1. Existing \in SUBSET Closed
  BY DEF Existing
<1>2. QED
  BY <1>1, PoolAssumption, FS_Subset, FS_CardinalityType

LEMMA CountStep == CountInv /\ [Next]_vars => CountInv'
<1> SUFFICES ASSUME CountInv, [Next]_vars PROVE CountInv'
  OBVIOUS
<1> USE DEF CountInv
<1>0. Repeat \in Nat /\ hc \in [Closed -> HalfClose] /\ sh \in [Callers -> {"idle", "load", "await", "wait", "done"}]
  BY PoolAssumption DEF TypeOK
<1>a. ASSUME Existing' = Existing, task_count' = task_count PROVE Counted'
  BY <1>a DEF Counted, Existing
<1>1. ASSUME NEW t \in Closed, create_task(t) PROVE CountInv'
  <2>1. TypeOK' /\ HasPackets'
    BY <1>1, <1>0 DEF create_task, TypeOK, HalfClose, Live, HasPackets
  <2>2. Existing' = Existing \cup {t} /\ t \notin Existing
    BY <1>1, <1>0 DEF create_task, Existing, Live, HalfClose
  <2>3. Cardinality(Existing') = Cardinality(Existing) + 1
    BY <2>2, ExistingFinite, FS_AddElement
  <2>4. QED
    BY <1>1, <2>1, <2>3 DEF create_task, Counted, Existing
<1>2. ASSUME NEW t \in Closed, NEW ok \in BOOLEAN, FirstSend(t, ok) \/ Tick(t, ok) PROVE CountInv'
  <2>a. hc[t].repeat \in 1 .. Repeat
    BY <1>2, <1>0 DEF FirstSend, Tick, HalfClose, HasPackets
  <2>b. /\ hc' \in [Closed -> HalfClose]
        /\ hc'[t].pc \in {"first", "check", "run"} => hc'[t].repeat > 0
        /\ \A u \in Closed : u # t => hc'[u] = hc[u]
    BY <1>2, <1>0, <2>a DEF FirstSend, Tick, send, HalfClose, Live
  <2>1. TypeOK' /\ HasPackets'
    <3>1. hc'[t].pc # "none"
      BY <1>2, <1>0 DEF FirstSend, Tick, send, HalfClose
    <3>2. HasPackets'
      BY <2>b, <3>1 DEF HasPackets
    <3>3. QED
      BY <1>2, <2>b, <3>2 DEF FirstSend, Tick, send, TypeOK
  <2>2. Existing' = Existing
    BY <1>2, <1>0 DEF FirstSend, Tick, send, Existing, Live, HalfClose
  <2>3. QED
    BY <1>2, <1>a, <2>1, <2>2 DEF FirstSend, Tick, send
<1>3. ASSUME NEW t \in Closed, Spawn(t) \/ RunCancelled(t) PROVE CountInv'
  <2>1. TypeOK' /\ HasPackets'
    BY <1>3, <1>0 DEF Spawn, RunCancelled, TypeOK, HalfClose, Live, HasPackets
  <2>2. Existing' = Existing
    BY <1>3, <1>0 DEF Spawn, RunCancelled, Existing, Live, HalfClose
  <2>3. QED
    BY <1>3, <1>a, <2>1, <2>2 DEF Spawn, RunCancelled
<1>4. ASSUME NEW t \in Closed, FetchSub(t) PROVE CountInv'
  <2>1. Existing' = Existing \ {t} /\ t \in Existing
    BY <1>4, <1>0 DEF FetchSub, Existing, Live, HalfClose
  <2>2. Cardinality(Existing') = Cardinality(Existing) - 1 /\ Cardinality(Existing') \in Nat
    BY <2>1, ExistingFinite, FS_RemoveElement, FS_CardinalityType
  <2>3. Counted' /\ task_count' \in Nat
    BY <1>4, <2>2 DEF FetchSub, Counted, Existing
  <2>4. TypeOK' /\ HasPackets'
    <3>1. hc' \in [Closed -> HalfClose] /\ HasPackets'
      BY <1>4, <1>0 DEF FetchSub, HalfClose, HasPackets
    <3>2. QED
      BY <1>4, <2>3, <3>1 DEF FetchSub, TypeOK
  <2>5. QED
    BY <2>3, <2>4
<1>5. ASSUME NEW t \in Closed, notify_one(t) PROVE CountInv'
  <2>1. waiting' \in Seq(Callers) /\ sh' \in [Callers -> {"idle", "load", "await", "wait", "done"}]
    <3>1. waiting \in Seq(Callers)
      BY DEF TypeOK
    <3>2. CASE waiting = <<>>
      BY <1>5, <1>0, <3>1, <3>2 DEF notify_one
    <3>3. CASE waiting # <<>>
      <4>1. Head(waiting) \in Callers /\ Tail(waiting) \in Seq(Callers)
        BY <3>1, <3>3
      <4>2. sh' = [sh EXCEPT ![Head(waiting)] = "load"] /\ waiting' = Tail(waiting)
        BY <1>5, <3>3 DEF notify_one
      <4>3. QED
        BY <1>0, <4>1, <4>2
    <3>4. QED
      BY <3>2, <3>3
  <2>2. TypeOK' /\ HasPackets'
    <3>1. hc' \in [Closed -> HalfClose] /\ HasPackets'
      BY <1>5, <1>0 DEF notify_one, HalfClose, HasPackets
    <3>2. permit' \in BOOLEAN
      BY <1>5 DEF notify_one, TypeOK
    <3>3. QED
      BY <1>5, <2>1, <3>1, <3>2 DEF notify_one, TypeOK
  <2>3. Existing' = Existing
    BY <1>5, <1>0 DEF notify_one, Existing, Live, HalfClose
  <2>4. QED
    BY <1>5, <1>a, <2>2, <2>3 DEF notify_one
<1>6. ASSUME NEW c \in Callers, shutdown(c) \/ LoadCount(c) \/ notified(c) PROVE CountInv'
  <2>1. TypeOK' /\ HasPackets'
    <3>1. waiting' \in Seq(Callers)
      BY <1>6 DEF shutdown, LoadCount, notified, TypeOK
    <3>2. sh' \in [Callers -> {"idle", "load", "await", "wait", "done"}]
      BY <1>6, <1>0 DEF shutdown, LoadCount, notified
    <3>3. token' \in BOOLEAN /\ permit' \in BOOLEAN
      BY <1>6 DEF shutdown, LoadCount, notified, TypeOK
    <3>4. task_count' = task_count /\ hc' = hc
      BY <1>6 DEF shutdown, LoadCount, notified
    <3>5. QED
      BY <3>1, <3>2, <3>3, <3>4 DEF TypeOK, HasPackets
  <2>2. Existing' = Existing /\ task_count' = task_count
    BY <1>6 DEF shutdown, LoadCount, notified, Existing
  <2>3. QED
    BY <1>a, <2>1, <2>2
<1>7. CASE UNCHANGED vars
  BY <1>7 DEF vars, TypeOK, HasPackets, Counted
<1>8. QED
  BY <1>1, <1>2, <1>3, <1>4, <1>5, <1>6, <1>7 DEF Next, Drops

-----------------------------------------------------------------------------
(***************************************************************************)
(* One caller: what it waits for is to come.  The queue of the Notify and   *)
(* the permit decide what notify_one does, so both are part of it.          *)
(***************************************************************************)
LEMMA WakeupInit == Init => WaiterQueued /\ NoLostWakeup
  BY DEF Init, WaiterQueued, NoLostWakeup

LEMMA CountedExists == CountInv /\ task_count > 0 => ToNotify
<1> SUFFICES ASSUME CountInv, task_count > 0 PROVE ToNotify
  OBVIOUS
<1>1. Existing # {}
  BY FS_EmptySet DEF CountInv, Counted, Existing
<1>2. QED
  BY <1>1 DEF Existing, ToNotify

LEMMA WakeupStep ==
    ASSUME OneCaller, CountInv, WaiterQueued, NoLostWakeup, [Next]_vars
    PROVE  (WaiterQueued /\ NoLostWakeup)'
<1>0. hc \in [Closed -> HalfClose] /\ sh \in [Callers -> {"idle", "load", "await", "wait", "done"}]
  BY DEF CountInv, TypeOK
<1>a. ASSUME UNCHANGED <<permit, waiting, sh>>, ToNotify => ToNotify'
      PROVE  (WaiterQueued /\ NoLostWakeup)'
  BY <1>a DEF WaiterQueued, NoLostWakeup
<1>1. ASSUME NEW t \in Closed, create_task(t) PROVE (WaiterQueued /\ NoLostWakeup)'
  <2>1. ToNotify => ToNotify'
    BY <1>1, <1>0 DEF create_task, ToNotify, Live, HalfClose
  <2>2. QED
    BY <1>1, <1>a, <2>1 DEF create_task
<1>2. ASSUME NEW t \in Closed, NEW ok \in BOOLEAN, FirstSend(t, ok) \/ Tick(t, ok)
      PROVE  (WaiterQueued /\ NoLostWakeup)'
  <2>1. ToNotify => ToNotify'
    BY <1>2, <1>0 DEF FirstSend, Tick, send, ToNotify, Live, HalfClose
  <2>2. QED
    BY <1>2, <1>a, <2>1 DEF FirstSend, Tick, send
<1>3. ASSUME NEW t \in Closed, Spawn(t) \/ RunCancelled(t) \/ FetchSub(t)
      PROVE  (WaiterQueued /\ NoLostWakeup)'
  <2>1. ToNotify => ToNotify'
    BY <1>3, <1>0 DEF Spawn, RunCancelled, FetchSub, ToNotify, Live, HalfClose
  <2>2. QED
    BY <1>3, <1>a, <2>1 DEF Spawn, RunCancelled, FetchSub
<1>4. ASSUME NEW t \in Closed, notify_one(t) PROVE (WaiterQueued /\ NoLostWakeup)'
  <2>1. CASE waiting # <<>>
    <3>1. PICK c \in Callers : waiting = <<c>> /\ sh[c] = "wait"
      <4>1. waiting \in Seq(Callers) /\ Head(waiting) \in Callers
        BY <2>1 DEF CountInv, TypeOK
      <4>2. QED
        BY <2>1, <4>1 DEF WaiterQueued
    <3>2. waiting' = <<>> /\ sh' = [sh EXCEPT ![c] = "load"]
      BY <1>4, <2>1, <3>1 DEF notify_one
    <3>3. \A d \in Callers : sh'[d] = "load"
      BY <3>2, <1>0 DEF OneCaller
    <3>4. QED
      BY <3>2, <3>3 DEF WaiterQueued, NoLostWakeup
  <2>2. CASE waiting = <<>>
    <3>1. permit' = TRUE /\ waiting' = <<>> /\ sh' = sh
      BY <1>4, <2>2 DEF notify_one
    <3>2. \A c \in Callers : sh[c] # "wait"
      BY <2>2 DEF WaiterQueued
    <3>3. QED
      BY <3>1, <3>2 DEF WaiterQueued, NoLostWakeup
  <2>3. QED
    BY <2>1, <2>2
<1>5. ASSUME NEW c \in Callers, shutdown(c) PROVE (WaiterQueued /\ NoLostWakeup)'
  <2>1. \A d \in Callers : sh'[d] = "load" /\ sh[d] = "idle"
    BY <1>5, <1>0 DEF shutdown, OneCaller
  <2>2. QED
    BY <1>5, <2>1 DEF shutdown, WaiterQueued, NoLostWakeup
<1>6. ASSUME NEW c \in Callers, LoadCount(c) PROVE (WaiterQueued /\ NoLostWakeup)'
  <2>1. \A d \in Callers : /\ sh'[d] = IF task_count > 0 THEN "await" ELSE "done"
                           /\ sh[d] = "load"
    BY <1>6, <1>0 DEF LoadCount, OneCaller
  <2>2. ToNotify' = ToNotify /\ UNCHANGED <<permit, waiting>>
    BY <1>6 DEF LoadCount, ToNotify
  <2>3. QED
    BY <2>1, <2>2, CountedExists DEF WaiterQueued, NoLostWakeup
<1>7. ASSUME NEW c \in Callers, notified(c) PROVE (WaiterQueued /\ NoLostWakeup)'
  <2>1. ToNotify' = ToNotify /\ waiting = <<>> /\ \A d \in Callers : d = c
    BY <1>7 DEF notified, ToNotify, WaiterQueued, OneCaller
  <2>2. CASE permit
    BY <1>7, <2>1, <2>2, <1>0 DEF notified, WaiterQueued, NoLostWakeup
  <2>3. CASE ~permit
    <3>1. waiting' = <<c>> /\ sh'[c] = "wait"
      BY <1>7, <2>1, <2>3, <1>0 DEF notified
    <3>2. ToNotify
      BY <1>7, <2>3 DEF notified, WaiterQueued
    <3>3. QED
      BY <2>1, <3>1, <3>2 DEF WaiterQueued, NoLostWakeup
  <2>4. QED
    BY <2>2, <2>3
<1>8. CASE UNCHANGED vars
  BY <1>8, <1>a DEF vars, ToNotify
<1>9. QED
  BY <1>1, <1>2, <1>3, <1>4, <1>5, <1>6, <1>7, <1>8 DEF Next, Drops

(***************************************************************************)
(* The counter is exact and, with one caller of shutdown, no wakeup is      *)
(* lost, for any number of streams.                                         *)
(***************************************************************************)
THEOREM PoolInvariant ==
    ASSUME OneCaller
    PROVE  Spec => []PoolInv
<1>1. Init => PoolInv
  BY CountInit, WakeupInit DEF PoolInv, CountInv
<1>2. PoolInv /\ [Next]_vars => PoolInv'
  BY CountStep, WakeupStep DEF PoolInv, CountInv
<1>3. QED
  BY <1>1, <1>2, PTL DEF Spec

(***************************************************************************)
(* shutdown returns only when no HalfClose exists, for any number of        *)
(* callers.                                                                 *)
(***************************************************************************)
THEOREM DrainedReturn == Spec => ReturnsDrained
<1> DEFINE Drained == \A c \in Callers :
        sh[c] # "done" /\ sh'[c] = "done" => \A t \in Closed : hc[t].pc \notin Live
<1>1. CountInv /\ [Next]_vars => [Drained]_vars
  <2> SUFFICES ASSUME CountInv, Next, NEW c \in Callers, sh[c] # "done", sh'[c] = "done"
               PROVE  \A t \in Closed : hc[t].pc \notin Live
    BY DEF Drained
  <2>0. sh \in [Callers -> {"idle", "load", "await", "wait", "done"}] /\ waiting \in Seq(Callers)
    BY DEF CountInv, TypeOK
  <2>1. \A t \in Closed : ~notify_one(t)
    BY <2>0 DEF notify_one
  <2>2. sh' # sh
    BY <2>0
  <2>3. PICK d \in Callers : shutdown(d) \/ LoadCount(d) \/ notified(d)
    BY <2>1, <2>2 DEF Next, Drops, create_task, FirstSend, Tick, send, Spawn, RunCancelled, FetchSub
  <2>4. task_count = 0
    BY <2>0, <2>3 DEF shutdown, LoadCount, notified, CountInv, TypeOK
  <2>5. Existing = {}
    BY <2>4, ExistingFinite, FS_EmptySet DEF CountInv, Counted, Existing
  <2>6. QED
    BY <2>5 DEF Existing
<1>2. QED
  BY <1>1, CountInit, CountStep, PTL DEF Spec, ReturnsDrained
=============================================================================
