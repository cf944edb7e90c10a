--------------------------- MODULE HalfClosePool ---------------------------
(***************************************************************************)
(* The half-close pool of src/halfclose.rs: for each stream that is over a  *)
(* HalfClose sends RESET packets, first in the task of the stream itself    *)
(* (create_task) and then in a task of its own; shutdown cancels all of     *)
(* them and waits until the counter of HalfClose values is 0.  Each atomic  *)
(* operation on the counter, the token and the Notify is a step.            *)
(***************************************************************************)
EXTENDS Naturals, Sequences, FiniteSets

CONSTANTS
    Closed,   \* the streams that close
    Callers,  \* the tasks that call shutdown
    Repeat    \* RESET packets of one stream: half_close_timeout in seconds, at least 1

ASSUME PoolAssumption ==
    /\ IsFiniteSet(Closed)
    /\ Repeat \in Nat \ {0}

VARIABLES
    token,       \* the token is cancelled
    task_count,
    permit,      \* the Notify holds the permit of a notify_one that found nobody
    waiting,     \* the callers that wait in notified(), in their order
    hc,          \* the HalfClose of each stream
    sh           \* where each caller of shutdown is

vars == <<token, task_count, permit, waiting, hc, sh>>

\* A HalfClose that exists, counted by task_count: in its first send, before
\* the test of the token, in run, about to be dropped.
Live == {"first", "check", "run", "drop"}

HalfClose == [pc : {"none", "notify", "gone"} \cup Live, repeat : 0 .. Repeat]

TypeOK ==
    /\ token \in BOOLEAN /\ permit \in BOOLEAN
    /\ task_count \in Nat
    /\ waiting \in Seq(Callers)
    /\ hc \in [Closed -> HalfClose]
    /\ sh \in [Callers -> {"idle", "load", "await", "wait", "done"}]

Init ==
    /\ token = FALSE /\ permit = FALSE
    /\ task_count = 0
    /\ waiting = <<>>
    /\ hc = [t \in Closed |-> [pc |-> "none", repeat |-> Repeat]]
    /\ sh = [c \in Callers |-> "idle"]

-----------------------------------------------------------------------------
\* Mutant: the HalfClose is not counted.
CreateUncounted(t) ==
    /\ hc[t].pc = "none"
    /\ hc' = [hc EXCEPT ![t].pc = "first"]
    /\ UNCHANGED <<token, task_count, permit, waiting, sh>>

create_task(t) ==
    /\ hc[t].pc = "none"
    /\ hc' = [hc EXCEPT ![t].pc = "first"]
    /\ task_count' = task_count + 1
    /\ UNCHANGED <<token, permit, waiting, sh>>

(***************************************************************************)
(* A send of the RESET packet ends when the transport has taken it or       *)
(* failed, or when the token is cancelled: a transport that never gets      *)
(* ready holds it up until then.                                            *)
(***************************************************************************)
send(t, ok) ==
    /\ ok \in BOOLEAN
    /\ hc' = [hc EXCEPT ![t].repeat = @ - 1,
                        ![t].pc = IF ~ok \/ hc[t].repeat = 1 THEN "drop"
                                  ELSE IF @ = "first" THEN "check" ELSE @]
    /\ UNCHANGED <<token, task_count, permit, waiting, sh>>

FirstSend(t, ok) == hc[t].pc = "first" /\ send(t, ok)

\* The HalfClose is spawned, unless the pool has been shut down.
Spawn(t) ==
    /\ hc[t].pc = "check"
    /\ hc' = [hc EXCEPT ![t].pc = IF token THEN "drop" ELSE "run"]
    /\ UNCHANGED <<token, task_count, permit, waiting, sh>>

\* run: a tick sends a packet, the token ends it.
Tick(t, ok) == hc[t].pc = "run" /\ ~token /\ send(t, ok)

RunCancelled(t) ==
    /\ hc[t].pc = "run" /\ token
    /\ hc' = [hc EXCEPT ![t].pc = "drop"]
    /\ UNCHANGED <<token, task_count, permit, waiting, sh>>

-----------------------------------------------------------------------------
\* Drop for HalfClose: fetch_sub, then notify_one.
FetchSub(t) ==
    /\ hc[t].pc = "drop"
    /\ hc' = [hc EXCEPT ![t].pc = "notify"]
    /\ task_count' = task_count - 1
    /\ UNCHANGED <<token, permit, waiting, sh>>

\* Mutant: only callers that wait already are told.
NotifyNoPermit(t) ==
    /\ hc[t].pc = "notify"
    /\ hc' = [hc EXCEPT ![t].pc = "gone"]
    /\ waiting' = <<>>
    /\ sh' = [c \in Callers |-> IF sh[c] = "wait" THEN "load" ELSE sh[c]]
    /\ UNCHANGED <<token, task_count, permit>>

notify_one(t) ==
    /\ hc[t].pc = "notify"
    /\ hc' = [hc EXCEPT ![t].pc = "gone"]
    /\ \/ /\ waiting # <<>>
          /\ sh' = [sh EXCEPT ![Head(waiting)] = "load"]
          /\ waiting' = Tail(waiting)
          /\ UNCHANGED permit
       \/ /\ waiting = <<>>
          /\ permit' = TRUE
          /\ UNCHANGED <<waiting, sh>>
    /\ UNCHANGED <<token, task_count>>

-----------------------------------------------------------------------------
shutdown(c) ==
    /\ sh[c] = "idle"
    /\ token' = TRUE
    /\ sh' = [sh EXCEPT ![c] = "load"]
    /\ UNCHANGED <<task_count, permit, waiting, hc>>

\* The condition of its loop.
LoadCount(c) ==
    /\ sh[c] = "load"
    /\ sh' = [sh EXCEPT ![c] = IF task_count > 0 THEN "await" ELSE "done"]
    /\ UNCHANGED <<token, task_count, permit, waiting, hc>>

notified(c) ==
    /\ sh[c] = "await"
    /\ \/ /\ permit
          /\ permit' = FALSE
          /\ sh' = [sh EXCEPT ![c] = "load"]
          /\ UNCHANGED waiting
       \/ /\ ~permit
          /\ waiting' = Append(waiting, c)
          /\ sh' = [sh EXCEPT ![c] = "wait"]
          /\ UNCHANGED permit
    /\ UNCHANGED <<token, task_count, hc>>

Drops(t) == FetchSub(t) \/ notify_one(t)

Next ==
    \/ \E t \in Closed :
          \/ create_task(t)
          \/ \E ok \in BOOLEAN : FirstSend(t, ok) \/ Tick(t, ok)
          \/ Spawn(t)
          \/ RunCancelled(t)
          \/ Drops(t)
    \/ \E c \in Callers : shutdown(c) \/ LoadCount(c) \/ notified(c)

Spec == Init /\ [][Next]_vars

(***************************************************************************)
(* Fairness: tasks that are ready run; a send ends once the token is        *)
(* cancelled, while before that a transport may block for ever.             *)
(***************************************************************************)
Fairness ==
    /\ \A t \in Closed :
          /\ WF_vars(token /\ \E ok \in BOOLEAN : FirstSend(t, ok))
          /\ WF_vars(Spawn(t)) /\ WF_vars(RunCancelled(t)) /\ WF_vars(Drops(t))
    /\ \A c \in Callers : WF_vars(LoadCount(c)) /\ WF_vars(notified(c))

FairSpec == Spec /\ Fairness

-----------------------------------------------------------------------------
(***************************************************************************)
(* A single caller of shutdown that waits will be told: some HalfClose has  *)
(* yet to call notify_one, although the counter is read before the caller   *)
(* waits and may have reached 0 in between.                                 *)
(***************************************************************************)
ToNotify == \E t \in Closed : hc[t].pc \in Live \cup {"notify"}

NoLostWakeup == \A c \in Callers : sh[c] = "wait" => ToNotify

\* task_count is the number of HalfClose values that exist.
Counted == task_count = Cardinality({t \in Closed : hc[t].pc \in Live})

\* A HalfClose that goes on has a packet to send.
HasPackets == \A t \in Closed : hc[t].pc \in {"none", "first", "check", "run"} => hc[t].repeat > 0

(***************************************************************************)
(* The queue of the Notify holds just the caller that waits; one that has   *)
(* read the counter and does not wait yet finds a permit, or will be told.  *)
(***************************************************************************)
WaiterQueued ==
    \A c \in Callers : /\ waiting = IF sh[c] = "wait" THEN <<c>> ELSE <<>>
                       /\ sh[c] = "await" => permit \/ ToNotify

\* The types, and NoLostWakeup with what it rests on (shutdown, halfclose.rs).
PoolInv == TypeOK /\ HasPackets /\ Counted /\ WaiterQueued /\ NoLostWakeup

\* kcp_sys_shutdown is called once: with two callers NoLostWakeup fails.
OneCaller == \A c, d \in Callers : c = d

(***************************************************************************)
(* shutdown returns only when no HalfClose exists, not even one that is     *)
(* still in create_task: no RESET packet is cut off by the end of the       *)
(* process.                                                                 *)
(***************************************************************************)
ReturnsDrained ==
    [][\A c \in Callers :
          sh[c] # "done" /\ sh'[c] = "done" => \A t \in Closed : hc[t].pc \notin Live]_vars

(***************************************************************************)
(* shutdown returns, although transports may block and streams close while  *)
(* it waits (kcp_sys_shutdown, lib.rs).                                     *)
(***************************************************************************)
ShutdownReturns == \A c \in Callers : sh[c] = "load" ~> sh[c] = "done"
=============================================================================
