------------------------------ MODULE KcpPipe ------------------------------
(***************************************************************************)
(* What one direction of a KCP conversation promises to its two owners: a   *)
(* pipe of numbered segments that loses, repeats and reorders nothing.      *)
(* KcpArq implements it over an unreliable network; the tasks of KcpStream  *)
(* build a connection on two of them.                                       *)
(***************************************************************************)
EXTENDS Naturals

VARIABLES
    wr,     \* segments given to ikcp_send: snd_nxt + nsnd_que
    nxt,    \* segments that have a sequence number: snd_nxt
    una,    \* the sender knows that the receiver holds all segments below una
    got,    \* the receiver holds all segments below got
    taken   \* segments the receiver's owner has read

pipe == <<wr, nxt, una, got, taken>>

\* The sender may have written and numbered its first segments.
Init ==
    /\ wr >= nxt /\ nxt >= 0
    /\ una = 0 /\ got = 0 /\ taken = 0

\* The sending end: it queues, numbers, and learns only what is stored.
SenderStep ==
    /\ wr' >= wr
    /\ nxt' >= nxt /\ nxt' <= wr'
    /\ una' >= una /\ una' <= got
    /\ UNCHANGED <<got, taken>>

\* The receiving end: it stores only what has a number, and hands over what
\* it has stored.
ReceiverStep ==
    /\ got' >= got /\ got' <= nxt
    /\ taken' >= taken /\ taken' <= got'
    /\ UNCHANGED <<wr, nxt, una>>

Next == SenderStep \/ ReceiverStep

Spec == Init /\ [][Next]_pipe
=============================================================================
