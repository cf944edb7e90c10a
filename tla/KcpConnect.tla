----------------------------- MODULE KcpConnect -----------------------------
(***************************************************************************)
(* Connections over UDP that come one after the other: clients of           *)
(* src/stream.rs on UdpStream (src/transport/udp.rs), and the sessions that *)
(* the listeners of src/udp.rs make for them.  A client knows the conv of   *)
(* its session only from the packets of the server, and a listener knows a  *)
(* client only by address, conv and session id; so packets of connections   *)
(* that are gone, or whose other end does not know it yet, must not be      *)
(* taken for those of a new one.  Datagrams are lost, repeated and delayed, *)
(* and the number of a session is in quarantine for a time after it; with   *)
(* Outlasted that time is longer than any datagram with the number, and the *)
(* client that uses it, can last.  Each stream writes at most one frame     *)
(* after its SYN; how a connection ends in order is in module KcpStream.    *)
(***************************************************************************)
EXTENDS Naturals, Sequences

CONSTANTS
    MaxClients,  \* bound: how often KcpStream::connect is called
    Addr,        \* local addresses of the clients
    Server,      \* listeners, each at an address of its own
    Conv,        \* conversation numbers
    Outlasted    \* the timeout of the ConvCache is long enough (see Expire)

ASSUME ConnectAssumption ==
    /\ MaxClients \in Nat /\ Outlasted \in BOOLEAN
    /\ Conv \cap {"SYN_CONV"} = {} /\ Addr \cap Server = {}

VARIABLES
    cl,     \* the clients, in the order of their calls
    sess,   \* the conv_map of each listener
    cache,  \* the convs in the ConvCache of each listener
    net,    \* the packets that were sent and may still come, any number of times
    owner,  \* history: for which session id each listener drew a conv, until it expires
    answered  \* history: the clients that a session has answered

vars == <<cl, sess, cache, net, owner, answered>>

Client == 1 .. MaxClients   \* also their session ids, which are random

None == 0

Syn == "SYN_CONV"

Packet ==
    [src : Addr \cup Server, dst : Addr \cup Server, conv : Conv \cup {Syn},
     kind : {"syn", "data", "ack", "reset"}, sid : Client]

\* syn and frame are what the Kcp has stored as the segments 0 and 1: the
\* session id of those who sent them.
ClientState ==
    [hs : {"Syn", "Connected", "Disconnected", "done"}, pc : {"select", "batch"},
     addr : Addr, server : Server, conv : Conv \cup {Syn},
     syn : Client \cup {None}, frame : Client \cup {None}, seen : SUBSET Client]

Session ==
    [sid : Client, addr : Addr, hs : {"Syn", "Connected"}, seen : SUBSET Client,
     past : SUBSET Client]   \* history: the clients that had ended before

TypeOK ==
    /\ cl \in Seq(ClientState) /\ Len(cl) <= MaxClients
    /\ net \subseteq Packet /\ answered \subseteq Client
    /\ DOMAIN sess = Server /\ cache \in [Server -> SUBSET Conv] /\ DOMAIN owner = Server
    /\ \A s \in Server : /\ DOMAIN sess[s] \subseteq Conv \ cache[s]
                         /\ \A c \in DOMAIN sess[s] : sess[s][c] \in Session

Init ==
    /\ cl = << >> /\ net = {} /\ answered = {}
    /\ sess = [s \in Server |-> << >>]
    /\ cache = [s \in Server |-> {}]
    /\ owner = [s \in Server |-> << >>]

\* The map f with the value v at x.
With(f, x, v) == [y \in DOMAIN f \cup {x} |-> IF y = x THEN v ELSE f[y]]

Live(k) == k \in DOMAIN cl /\ cl[k].hs # "done"

-----------------------------------------------------------------------------
(***************************************************************************)
(* The client.                                                              *)
(***************************************************************************)
FromClient(k, conv, kind) ==
    [src |-> cl[k].addr, dst |-> cl[k].server, conv |-> conv, kind |-> kind, sid |-> k]

\* connect: the first SYN packet goes out before the loop.
connect(k, addr, server) ==
    /\ k = Len(cl) + 1
    /\ \A j \in DOMAIN cl : cl[j].addr = addr => ~Live(j)
    /\ cl' = Append(cl, [hs |-> "Syn", pc |-> "select", addr |-> addr, server |-> server,
                         conv |-> Syn, syn |-> None, frame |-> None, seen |-> {}])
    /\ net' = net \cup {[src |-> addr, dst |-> server, conv |-> Syn, kind |-> "syn", sid |-> k]}
    /\ UNCHANGED <<sess, cache, owner, answered>>

\* Mutant: packets of any address are taken.
PollAny(k, p) == p.dst = cl[k].addr

\* UdpStream: packets of the peer only.
poll_next(k, p) == p.dst = cl[k].addr /\ p.src = cl[k].server

\* Kcp::input with the conv of the packet: the first segment with a number is kept.
input(t, p) ==
    [t EXCEPT !.syn = IF p.kind = "syn" /\ @ = None THEN p.sid ELSE @,
              !.frame = IF p.kind = "data" /\ @ = None THEN p.sid ELSE @]

(***************************************************************************)
(* A packet with another conv, while the SYN handshake lasts, is input with *)
(* that conv, which is kept.  Every packet of a session acknowledges the    *)
(* SYN of its client, so that get_waitsnd is 0; only a RESET is an error,   *)
(* which restores the conv.                                                 *)
(***************************************************************************)
syn_handshake_input(t, p) ==
    CASE t.hs # "Syn"       -> t
      [] t.hs = "Syn" /\ p.kind = "reset" -> [t EXCEPT !.conv = Syn]
      [] OTHER              -> input([t EXCEPT !.conv = p.conv], p)

kcp_input(t, p) ==
    CASE p.conv # t.conv -> syn_handshake_input(t, p)
      [] p.conv = t.conv /\ p.kind = "reset" -> [t EXCEPT !.hs = "Disconnected"]
      [] OTHER -> input(t, p)

\* One packet of those that are received in a row.
ClientReceives(k, p) ==
    /\ Live(k) /\ cl[k].hs # "Disconnected" /\ poll_next(k, p)
    /\ cl' = [cl EXCEPT ![k] = [kcp_input(@, p) EXCEPT !.pc = "batch"]]
    /\ UNCHANGED <<sess, cache, net, owner, answered>>

\* Mutant: the session id of the SYN frame is not looked at.
SynUnverified(k, t) == IF t.syn = None THEN t ELSE [t EXCEPT !.hs = "Connected"]

\* The SYN frame must hold the client's own session id.
syn_handshake_recv(k, t) ==
    IF t.syn = None THEN t
    ELSE [t EXCEPT !.hs = IF t.syn = k THEN "Connected" ELSE "Disconnected"]

\* The rest of the branch: the handshake, and the frame that can be read now.
AfterPackets(k) ==
    LET t == IF cl[k].hs = "Syn" THEN syn_handshake_recv(k, cl[k]) ELSE cl[k]
    IN  /\ k \in DOMAIN cl /\ cl[k].pc = "batch"
        /\ cl' = [cl EXCEPT ![k] =
                    [t EXCEPT !.pc = "select",
                              !.seen = IF t.hs = "Connected" THEN @ \cup ({t.frame} \ {None}) ELSE @]]
        /\ UNCHANGED <<sess, cache, net, owner, answered>>

ClientWrites(k) ==
    /\ Live(k) /\ cl[k].hs = "Connected" /\ cl[k].pc = "select"
    /\ net' = net \cup {FromClient(k, cl[k].conv, "data")}
    /\ UNCHANGED <<cl, sess, cache, owner, answered>>

\* The stream is over, with a RESET packet if it has a conv, or its process
\* has crashed, which is as if that packet were lost.
ClientEnds(k) ==
    /\ Live(k) /\ cl[k].pc = "select"
    /\ cl' = [cl EXCEPT ![k].hs = "done"]
    /\ net' = net \cup (IF cl[k].conv = Syn THEN {} ELSE {FromClient(k, cl[k].conv, "reset")})
    /\ UNCHANGED <<sess, cache, owner, answered>>

-----------------------------------------------------------------------------
(***************************************************************************)
(* The listener and the tasks of its sessions.                              *)
(***************************************************************************)
FromSession(s, c, kind) ==
    [src |-> s, dst |-> sess[s][c].addr, conv |-> c, kind |-> kind, sid |-> sess[s][c].sid]

\* The session id in a packet: only SYN frames begin with the session key.
HasSessionId(p) == p.kind = "syn"

Find(s, sid) == {c \in DOMAIN sess[s] : sess[s][c].sid = sid}

\* get_session: the sessions, at most one, that a packet belongs to.
SessionOf(s, p) ==
    {c \in DOMAIN sess[s] :
        /\ sess[s][c].addr = p.src
        /\ c = p.conv \/ (p.conv = Syn /\ HasSessionId(p) /\ c \in Find(s, p.sid))}

\* Mutant: numbers of sessions that were killed are drawn again at once.
AllocateAny(s, conv) == conv \notin DOMAIN sess[s]

allocate(s, conv) == conv \notin DOMAIN sess[s] /\ conv \notin cache[s]

\* get_session: a new session for a SYN packet that has none.
NewSession(s, p, conv) ==
    /\ p.dst = s /\ p.conv = Syn /\ HasSessionId(p) /\ Find(s, p.sid) = {}
    /\ allocate(s, conv)
    /\ sess' = [sess EXCEPT ![s] =
                  With(@, conv, [sid |-> p.sid, addr |-> p.src, hs |-> "Syn", seen |-> {},
                                 past |-> {k \in DOMAIN cl : ~Live(k)}])]
    /\ owner' = [owner EXCEPT ![s] = With(@, conv, p.sid)]
    /\ UNCHANGED <<cl, cache, net, answered>>

kill_session(s, c) ==
    /\ sess' = [sess EXCEPT ![s] = [x \in DOMAIN @ \ {c} |-> @[x]]]
    /\ cache' = [cache EXCEPT ![s] = @ \cup {c}]

\* The loop of a session's task ends, and kill_session forgets it.
EndSession(s, c) ==
    /\ kill_session(s, c)
    /\ net' = net \cup {FromSession(s, c, "reset")}
    /\ UNCHANGED <<cl, owner, answered>>

SessionEnds(s, c) == c \in DOMAIN sess[s] /\ EndSession(s, c)

\* A session gets its packet.
SessionReceives(s, p) ==
    \E c \in SessionOf(s, p) :
        /\ p.dst = s
        /\ CASE p.kind = "reset" -> EndSession(s, c)
             [] p.kind = "syn" ->
                   /\ sess' = [sess EXCEPT ![s][c].hs = "Connected"]
                   /\ net' = net \cup {FromSession(s, c, "syn"), FromSession(s, c, "ack")}
                   /\ answered' = answered \cup {sess[s][c].sid}
                   /\ UNCHANGED <<cl, cache, owner>>
             [] OTHER ->
                   /\ sess' = [sess EXCEPT ![s][c].seen = IF @ = {} THEN {p.sid} ELSE @]
                   /\ UNCHANGED <<cl, cache, net, owner, answered>>

SessionWrites(s, c) ==
    /\ c \in DOMAIN sess[s] /\ sess[s][c].hs = "Connected"
    /\ net' = net \cup {FromSession(s, c, "data")}
    /\ UNCHANGED <<cl, sess, cache, owner, answered>>

(***************************************************************************)
(* ConvCache::update: the number of a session that is over may be drawn     *)
(* again, once its time in the cache is over.  That time (120 s, or what    *)
(* the caller of listen has chosen) is Outlasted if no client still holds   *)
(* the number, and no packet with it is on its way any more.                *)
(***************************************************************************)
Expire(s, c) ==
    /\ c \in cache[s]
    /\ Outlasted => \A k \in DOMAIN cl : ~ (Live(k) /\ cl[k].server = s /\ cl[k].conv = c)
    /\ cache' = [cache EXCEPT ![s] = @ \ {c}]
    /\ owner' = [owner EXCEPT ![s] = [x \in DOMAIN @ \ {c} |-> @[x]]]
    /\ net' = {p \in net : Outlasted => ~ (p.conv = c /\ s \in {p.src, p.dst})}
    /\ UNCHANGED <<cl, sess, answered>>

Next ==
    \/ \E k \in Client :
          \/ \E addr \in Addr, s \in Server : connect(k, addr, s)
          \/ \E p \in net : ClientReceives(k, p)
          \/ AfterPackets(k) \/ ClientWrites(k) \/ ClientEnds(k)
    \/ \E s \in Server :
          \/ \E p \in net : SessionReceives(s, p) \/ \E conv \in Conv : NewSession(s, p, conv)
          \/ \E c \in Conv : SessionEnds(s, c) \/ SessionWrites(s, c) \/ Expire(s, c)

Spec == Init /\ [][Next]_vars

-----------------------------------------------------------------------------
(***************************************************************************)
(* A session never hands over a frame of a client that had ended before it  *)
(* was made, though its packets may still come, from the same address, as   *)
(* long as the quarantine of the numbers outlasts them (get_session, and    *)
(* the ConvCache).                                                          *)
(***************************************************************************)
NoPastFrames ==
    Outlasted =>
        \A s \in Server : \A c \in DOMAIN sess[s] : sess[s][c].seen \cap sess[s][c].past = {}

(***************************************************************************)
(* A client is connected only when a session was made for it and has        *)
(* answered, whatever the sessions of earlier clients with its address      *)
(* still send (syn_handshake_recv verifies the session id).                 *)
(***************************************************************************)
ConnectedAfterReply == \A k \in DOMAIN cl : cl[k].hs = "Connected" => k \in answered

(***************************************************************************)
(* A client hands over frames of its own sessions, or of those that another *)
(* client had with the same listener at the same address before: none that  *)
(* another listener has sent (UdpStream, syn_handshake_input).              *)
(***************************************************************************)
ClientFrames ==
    \A k \in DOMAIN cl : \A j \in cl[k].seen :
        cl[j].addr = cl[k].addr /\ cl[j].server = cl[k].server

(***************************************************************************)
(* Why these hold.  No number is drawn twice until it expires, and owner    *)
(* tells for whom.                                                          *)
(***************************************************************************)
DrawnOnce ==
    \A s \in Server :
        /\ DOMAIN owner[s] = DOMAIN sess[s] \cup cache[s]
        /\ \A c \in DOMAIN sess[s] :
              LET x == sess[s][c]
              IN  /\ x.sid = owner[s][c]
                  /\ x.sid \in DOMAIN cl /\ x.addr = cl[x.sid].addr /\ s = cl[x.sid].server

\* A packet goes between a client and its listener, in either direction, with
\* a number that is drawn, for that client if the listener's end has sent it.
Genuine(p) ==
    /\ p.sid \in DOMAIN cl
    /\ \/ /\ p.src = cl[p.sid].server /\ p.dst = cl[p.sid].addr
          /\ p.kind = "syn" => p.sid \in answered
          /\ Outlasted => p.conv \in DOMAIN owner[p.src] /\ owner[p.src][p.conv] = p.sid
       \/ /\ p.src = cl[p.sid].addr /\ p.dst = cl[p.sid].server
          /\ Outlasted => p.conv = Syn \/ p.conv \in DOMAIN owner[p.dst]

\* What client k has taken in comes from its listener.
FromItsListener(k) ==
    LET t == cl[k]
    IN  /\ Outlasted /\ t.hs # "done" => t.conv = Syn \/ t.conv \in DOMAIN owner[t.server]
        /\ t.syn # None => t.syn \in answered
        /\ t.hs = "Connected" => t.syn = k
        /\ \A j \in t.seen \cup ({t.frame} \ {None}) :
              j \in DOMAIN cl /\ cl[j].addr = t.addr /\ cl[j].server = t.server

\* No packet of a client that had ended carries the number of a later session.
PastIsOver ==
    \A s \in Server : \A c \in DOMAIN sess[s] :
        /\ \A k \in sess[s][c].past : k \in DOMAIN cl /\ ~Live(k)
        /\ Outlasted => \A p \in net : p.dst = s /\ p.conv = c => p.sid \notin sess[s][c].past

(***************************************************************************)
(* The types, NoPastFrames and what it rests on: an inductive invariant     *)
(* (get_session and kill_session of udp.rs, kcp_input of stream.rs).        *)
(***************************************************************************)
ConnectInv ==
    /\ TypeOK /\ DrawnOnce /\ PastIsOver /\ NoPastFrames
    /\ \A p \in net : Genuine(p)
    /\ \A k \in DOMAIN cl : FromItsListener(k)

(***************************************************************************)
(* A client that is connected hands over frames of its own sessions only,   *)
(* "Verify the session ID for the client endpoint" (syn_handshake_recv).    *)
(***************************************************************************)
OwnFramesOnly == \A k \in DOMAIN cl : cl[k].seen \subseteq {k}

\* The session that a connected client sends to, if it has a conv.
SendsTo(k) ==
    IF cl[k].conv \in DOMAIN owner[cl[k].server] THEN owner[cl[k].server][cl[k].conv] ELSE None

(***************************************************************************)
(* A client that is connected has the conv of a session that was made for   *)
(* it: a packet with another conv that is not accepted does not change it,  *)
(* "Restore conv if failed" (syn_handshake_input, stream.rs).               *)
(***************************************************************************)
ConnectedToOwn == \A k \in DOMAIN cl : cl[k].hs = "Connected" => SendsTo(k) = k
=============================================================================
