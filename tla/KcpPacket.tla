----------------------------- MODULE KcpPacket -----------------------------
(***************************************************************************)
(* One packet on its way from kcp_output of a task to kcp_input of its peer *)
(* (src/stream.rs), with the access to packet headers of src/protocol.rs.   *)
(* The FIN and RESET of a stream are bits in the cmd of the first segment   *)
(* of a packet, which ikcp_input does not know: it refuses such a packet,   *)
(* and kcp_input has to see why and to input it again.                      *)
(***************************************************************************)
EXTENDS Integers, Sequences

CONSTANTS
    Handshake,  \* the states of the sender's handshake
    MaxAcks,    \* bound: acknowledgements in a packet
    MaxPushes,  \* bound: data segments in a packet
    Lens        \* payload lengths

PUSH == 81
ACK == 82
WASK == 83
WINS == 84
Commands == {PUSH, ACK, WASK, WINS}

KCP_FIN == 32
KCP_RESET == 8

\* The bit b of a byte: test, set, flip.
Bit(cmd, b) == (cmd \div b) % 2 = 1

Or(cmd, b) == IF Bit(cmd, b) THEN cmd ELSE cmd + b

Xor(cmd, b) == IF Bit(cmd, b) THEN cmd - b ELSE cmd + b

\* n segments without data of a kind.
Heads(cmd, n) == [i \in 1 .. n |-> [cmd |-> cmd, len |-> 0]]

\* What there is for a packet: the lengths of its data segments, and how many
\* segments of each other kind.
Contents ==
    [acks : 0 .. MaxAcks, wask : 0 .. 1, wins : 0 .. 1,
     lens : UNION {[1 .. n -> Lens] : n \in 0 .. MaxPushes}]

\* ikcp_flush: acknowledgements, then the probes, then data.
ikcp_flush(c) ==
    Heads(ACK, c.acks) \o Heads(WASK, c.wask) \o Heads(WINS, c.wins)
        \o [i \in DOMAIN c.lens |-> [cmd |-> PUSH, len |-> c.lens[i]]]

Flushed == {ikcp_flush(c) : c \in Contents} \ {<<>>}

\* The RESET packet at the end of run.
write_ack_head == <<[cmd |-> Or(ACK, KCP_RESET), len |-> 0]>>

-----------------------------------------------------------------------------
\* Whether a payload is found: segments without data are passed over.
read_payload_data(p) == \E i \in DOMAIN p : p[i].len > 0 /\ \A j \in 1 .. i - 1 : p[j].len = 0

read_cmd(p) == p[1].cmd

\* Mutant: the cmd of the segment with the data is written.
WriteCmdOfData(p, cmd) == [p EXCEPT ![Len(p)].cmd = cmd]

write_cmd(p, cmd) == [p EXCEPT ![1].cmd = cmd]

\* What goes out for a packet of the queue when the handshake is in hs.
kcp_output(p, hs) ==
    IF hs = "FinSent" /\ read_payload_data(p)
    THEN write_cmd(p, Or(read_cmd(p), KCP_FIN)) ELSE p

\* ikcp_input: the segments up to the first with a cmd that it does not know.
Accepted(p) ==
    LET n == CHOOSE k \in 0 .. Len(p) :
                /\ \A i \in 1 .. k : p[i].cmd \in Commands
                /\ k < Len(p) => p[k + 1].cmd \notin Commands
    IN  SubSeq(p, 1, n)

IsErr(p) == Accepted(p) # p

\* What the peer makes of a packet.  After a FIN it is input again.
kcp_input(p) ==
    LET cmd == read_cmd(p)
        reset == IsErr(p) /\ Bit(cmd, KCP_RESET)
        fin == IsErr(p) /\ ~reset /\ Bit(cmd, KCP_FIN)
    IN  [disconnected |-> reset,
         fin_recved |-> fin,
         applied |-> Accepted(p) \o
                       (IF fin THEN Accepted(write_cmd(p, Xor(cmd, KCP_FIN))) ELSE <<>>)]

-----------------------------------------------------------------------------
(***************************************************************************)
(* The handshakes in which every segment of a packet is processed once, as  *)
(* the sender put it there, although a FIN packet goes through ikcp_input   *)
(* twice, which applies what precedes the segment that it refuses.          *)
(***************************************************************************)
AppliedOnce ==
    {hs \in Handshake : \A p \in Flushed : kcp_input(kcp_output(p, hs)).applied = p}

(***************************************************************************)
(* The handshakes in which a packet is taken for a FIN packet just when it  *)
(* was sent in FinSent and carries the FIN frame, also behind               *)
(* acknowledgements and probes, and never for a RESET, unless it is one.    *)
(***************************************************************************)
FlagsExact ==
    {hs \in Handshake :
        /\ \A p \in Flushed :
              LET r == kcp_input(kcp_output(p, hs))
              IN  /\ r.fin_recved = (hs = "FinSent" /\ \E i \in DOMAIN p : p[i].cmd = PUSH)
                  /\ ~r.disconnected
        /\ kcp_input(write_ack_head).disconnected}
=============================================================================
