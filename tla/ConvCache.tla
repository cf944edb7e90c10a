----------------------------- MODULE ConvCache -----------------------------
(***************************************************************************)
(* The ConvCache of src/conv.rs: the conversation numbers of sessions that  *)
(* were killed less than `timeout` ago, which must not be drawn again while *)
(* packets of the old session may be about.  It is a LinkedHashMap in the   *)
(* order of insertion, shared by the listeners that hold a clone of it, and *)
(* every operation runs under its mutex.                                    *)
(***************************************************************************)
EXTENDS Integers, Sequences, Functions

CONSTANTS
    Conv,      \* conversation numbers
    Invalid,   \* those that is_valid_conv refuses: 0, SYN_CONV and above
    Listener,  \* the owners of a clone
    Timeout,   \* Inner::timeout
    MaxTime    \* bound: the clock

ASSUME CacheAssumption ==
    /\ Invalid \subseteq Conv
    /\ Timeout \in Nat /\ MaxTime \in Nat

VARIABLES
    now,     \* Instant::now()
    map,     \* Inner::map, oldest first
    in_use,  \* the convs in the conv_map of each listener
    died     \* history: when a conv was last added

vars == <<now, map, in_use, died>>

Never == MaxTime + Timeout + 1   \* no time that the clock shows

Entry == [conv : Conv, time : Nat]

TypeOK ==
    /\ now \in Nat
    /\ map \in Seq(Entry) /\ IsInjective([i \in 1 .. Len(map) |-> map[i].conv])
    /\ in_use \in [Listener -> SUBSET Conv]
    /\ died \in [Conv -> Nat]

Keys(m) == {m[i].conv : i \in 1 .. Len(m)}

\* A key has at most one entry.
Without(m, conv) ==
    LET i == CHOOSE i \in 1 .. Len(m) : m[i].conv = conv
    IN  IF conv \in Keys(m) THEN SubSeq(m, 1, i - 1) \o SubSeq(m, i + 1, Len(m)) ELSE m

\* Mutant: an entry that exists keeps its place.
InsertInPlace(m, conv, t) ==
    IF conv \in Keys(m)
    THEN [i \in 1 .. Len(m) |-> IF m[i].conv = conv THEN [conv |-> conv, time |-> t] ELSE m[i]]
    ELSE Append(m, [conv |-> conv, time |-> t])

\* LinkedHashMap::insert moves a key that exists to the back.
insert(m, conv, t) == Append(Without(m, conv), [conv |-> conv, time |-> t])

Expired(x, t) == t - x.time >= Timeout

\* From the front, up to the first entry that has not expired at time t.
update(m, t) ==
    LET n == CHOOSE k \in 0 .. Len(m) :
                /\ \A i \in 1 .. k : Expired(m[i], t)
                /\ k < Len(m) => ~Expired(m[k + 1], t)
    IN  SubSeq(m, n + 1, Len(m))

-----------------------------------------------------------------------------
Init ==
    /\ now = 0
    /\ map = <<>>
    /\ in_use = [l \in Listener |-> {}]
    /\ died = [c \in Conv |-> Never]

\* Mutant: only the convs in use are looked at.
AllocateCached(l, conv) ==
    /\ conv \notin Invalid
    /\ conv \notin in_use[l]
    /\ map' = update(map, now)
    /\ in_use' = [in_use EXCEPT ![l] = @ \cup {conv}]
    /\ UNCHANGED <<now, died>>

\* rand_conv draws valid numbers only; exists looks at the caller's own map.
allocate(l, conv) ==
    /\ conv \notin Invalid
    /\ conv \notin in_use[l] /\ conv \notin Keys(update(map, now))
    /\ map' = update(map, now)
    /\ in_use' = [in_use EXCEPT ![l] = @ \cup {conv}]
    /\ UNCHANGED <<now, died>>

\* kill_session: the session has left conv_map.
add(l, conv) ==
    /\ conv \in in_use[l]
    /\ map' = insert(update(map, now), conv, now)
    /\ died' = [died EXCEPT ![conv] = now]
    /\ in_use' = [in_use EXCEPT ![l] = @ \ {conv}]
    /\ UNCHANGED now

\* One number of the iterator of fill, which the owner may give at any time.
fill(conv) ==
    /\ map' = IF conv \in Invalid THEN update(map, now) ELSE insert(update(map, now), conv, now)
    /\ died' = IF conv \in Invalid THEN died ELSE [died EXCEPT ![conv] = now]
    /\ UNCHANGED <<now, in_use>>

(***************************************************************************)
(* An owner that has closed its listeners keeps the numbers of dump over a  *)
(* restart and gives them to fill of a new cache, in the same order.        *)
(***************************************************************************)
dump == [i \in 1 .. Len(update(map, now)) |-> update(map, now)[i].conv]

Restart ==
    /\ \A l \in Listener : in_use[l] = {}
    /\ map' = [i \in 1 .. Len(dump) |-> [conv |-> dump[i], time |-> now]]
    /\ died' = [c \in Conv |-> IF c \in Keys(update(map, now)) THEN now ELSE died[c]]
    /\ UNCHANGED <<now, in_use>>

Tick ==
    /\ now < MaxTime
    /\ now' = now + 1
    /\ UNCHANGED <<map, in_use, died>>

Next ==
    \/ \E l \in Listener, conv \in Conv : allocate(l, conv) \/ add(l, conv)
    \/ \E conv \in Conv : fill(conv)
    \/ Restart
    \/ Tick

Spec == Init /\ [][Next]_vars

-----------------------------------------------------------------------------
\* A conv that died less than Timeout ago.
Quarantined(c) == died[c] # Never /\ now - died[c] < Timeout

(***************************************************************************)
(* update stops at the first entry that has not expired, and still what it  *)
(* leaves is exactly what died less than Timeout ago: no entry that has     *)
(* expired hides behind a younger one, although a conv may be added again   *)
(* by a second listener or by fill, and none is thrown out early.           *)
(***************************************************************************)
CacheExact == Keys(update(map, now)) = {c \in Conv : Quarantined(c)}

\* The entries are in the order of their times, which are those of died.
OldestFirst ==
    /\ now <= MaxTime
    /\ \A i \in 1 .. Len(map) : map[i].time = died[map[i].conv] /\ map[i].time <= now
    /\ \A i, j \in 1 .. Len(map) : i < j => map[i].time <= map[j].time

(***************************************************************************)
(* The types, the order of the map and CacheExact (insert and update of     *)
(* conv.rs): an inductive invariant.                                        *)
(***************************************************************************)
CacheInv == TypeOK /\ OldestFirst /\ CacheExact

(***************************************************************************)
(* No listener draws a conv before its quarantine is over, whoever put it   *)
(* there, also across a restart with dump and fill.                         *)
(***************************************************************************)
NotDrawnEarly ==
    [][\A l \in Listener, c \in Conv :
          c \in in_use'[l] \ in_use[l] => c \notin Invalid /\ ~Quarantined(c)]_vars
=============================================================================
