-------------------------- MODULE KcpConnectProofs --------------------------
(***************************************************************************)
(* Proofs about KcpConnect, for any number of clients, addresses, listeners *)
(* and conversation numbers.                                                *)
(***************************************************************************)
EXTENDS KcpConnect, TLAPS

-----------------------------------------------------------------------------
(***************************************************************************)
(* What the types say of a client, a packet and a session.                  *)
(***************************************************************************)
LEMMA ClientFacts ==
    ASSUME TypeOK, NEW k \in DOMAIN cl
    PROVE  /\ k \in Client /\ k # None /\ cl[k] \in ClientState
           /\ cl[k].addr \in Addr /\ cl[k].server \in Server /\ cl[k].conv \in Conv \cup {Syn}
           /\ cl[k].syn \in Client \cup {None} /\ cl[k].frame \in Client \cup {None}
           /\ cl[k].seen \subseteq Client
<1>1. cl \in Seq(ClientState) /\ Len(cl) \in Nat /\ Len(cl) <= MaxClients
  BY DEF TypeOK
<1>2. cl[k] \in ClientState /\ k \in 1 .. Len(cl)
  BY <1>1
<1>3. k \in Client /\ k # None
  BY <1>1, <1>2, ConnectAssumption DEF Client, None
<1>4. QED
  BY <1>2, <1>3 DEF ClientState

LEMMA PacketFacts ==
    ASSUME TypeOK, NEW p \in net
    PROVE  /\ p \in Packet /\ p.src \in Addr \cup Server /\ p.dst \in Addr \cup Server
           /\ p.conv \in Conv \cup {Syn} /\ p.sid \in Client
           /\ p.kind \in {"syn", "data", "ack", "reset"}
  BY DEF TypeOK, Packet

LEMMA SessionFacts ==
    ASSUME TypeOK, NEW s \in Server, NEW c \in DOMAIN sess[s]
    PROVE  /\ c \in Conv /\ c # Syn /\ c \notin cache[s] /\ sess[s][c] \in Session
           /\ sess[s][c].sid \in Client /\ sess[s][c].addr \in Addr
           /\ sess[s][c].seen \subseteq Client /\ sess[s][c].past \subseteq Client
<1>1. c \in Conv /\ c \notin cache[s] /\ sess[s][c] \in Session
  BY DEF TypeOK
<1>2. c # Syn
  BY <1>1, ConnectAssumption DEF Syn
<1>3. QED
  BY <1>1, <1>2 DEF Session

LEMMA InvInit == Init => ConnectInv
<1> SUFFICES ASSUME Init PROVE ConnectInv
  OBVIOUS
<1>1. /\ cl = << >> /\ net = {} /\ sess = [s \in Server |-> << >>]
      /\ cache = [s \in Server |-> {}] /\ owner = [s \in Server |-> << >>] /\ answered = {}
  BY DEF Init
<1>2. cl \in Seq(ClientState) /\ Len(cl) = 0 /\ DOMAIN cl = {}
  BY <1>1
<1>3. \A s \in Server : DOMAIN sess[s] = {} /\ DOMAIN owner[s] = {} /\ cache[s] = {}
  BY <1>1
<1>4. TypeOK
  BY <1>1, <1>2, <1>3, ConnectAssumption DEF TypeOK
<1>5. DrawnOnce /\ PastIsOver /\ NoPastFrames
  BY <1>3 DEF DrawnOnce, PastIsOver, NoPastFrames
<1>6. QED
  BY <1>1, <1>2, <1>4, <1>5 DEF ConnectInv

-----------------------------------------------------------------------------
(***************************************************************************)
(* What every step but Expire keeps: clients stay where they are and stay   *)
(* over, what was drawn stays drawn, what was answered stays answered.      *)
(***************************************************************************)
Extends ==
    /\ DOMAIN cl \subseteq DOMAIN cl'
    /\ \A k \in DOMAIN cl : /\ cl'[k].addr = cl[k].addr /\ cl'[k].server = cl[k].server
                            /\ cl[k].hs = "done" => cl'[k].hs = "done"
    /\ \A s \in Server : /\ DOMAIN owner[s] \subseteq DOMAIN owner'[s]
                         /\ \A c \in DOMAIN owner[s] : owner'[s][c] = owner[s][c]
    /\ answered \subseteq answered'

LEMMA StillGenuine ==
    ASSUME TypeOK, Extends, NEW p, Genuine(p)
    PROVE  Genuine(p)'
<1>1. p.sid \in DOMAIN cl /\ cl[p.sid].server \in Server /\ cl[p.sid].addr \in Addr
  BY ClientFacts DEF Genuine
<1>2. /\ p.sid \in DOMAIN cl' /\ cl'[p.sid].server = cl[p.sid].server
      /\ cl'[p.sid].addr = cl[p.sid].addr
  BY <1>1 DEF Extends
<1>3. CASE /\ p.src = cl[p.sid].server /\ p.dst = cl[p.sid].addr
           /\ p.kind = "syn" => p.sid \in answered
           /\ Outlasted => p.conv \in DOMAIN owner[p.src] /\ owner[p.src][p.conv] = p.sid
  <2>1. /\ p.kind = "syn" => p.sid \in answered'
        /\ Outlasted => p.conv \in DOMAIN owner'[p.src] /\ owner'[p.src][p.conv] = p.sid
    BY <1>1, <1>3 DEF Extends
  <2>2. QED
    BY <1>2, <1>3, <2>1 DEF Genuine
<1>4. CASE /\ p.src = cl[p.sid].addr /\ p.dst = cl[p.sid].server
           /\ Outlasted => p.conv = Syn \/ p.conv \in DOMAIN owner[p.dst]
  <2>1. Outlasted => p.conv = Syn \/ p.conv \in DOMAIN owner'[p.dst]
    BY <1>1, <1>4 DEF Extends
  <2>2. QED
    BY <1>2, <1>4, <2>1 DEF Genuine
<1>5. QED
  BY <1>3, <1>4 DEF Genuine

\* A client that a step does not touch.
LEMMA StillFromItsListener ==
    ASSUME TypeOK, Extends, NEW k \in DOMAIN cl, FromItsListener(k), cl'[k] = cl[k]
    PROVE  FromItsListener(k)'
<1> DEFINE t == cl[k]
<1>1. Outlasted /\ t.hs # "done" => t.conv = Syn \/ t.conv \in DOMAIN owner'[t.server]
  BY ClientFacts DEF FromItsListener, Extends
<1>2. t.syn # None => t.syn \in answered'
  BY DEF FromItsListener, Extends
<1>3. t.hs = "Connected" => t.syn = k
  BY DEF FromItsListener
<1>4. \A j \in t.seen \cup ({t.frame} \ {None}) :
        j \in DOMAIN cl' /\ cl'[j].addr = t.addr /\ cl'[j].server = t.server
  <2> TAKE j \in t.seen \cup ({t.frame} \ {None})
  <2>1. j \in DOMAIN cl /\ cl[j].addr = t.addr /\ cl[j].server = t.server
    BY DEF FromItsListener
  <2>2. QED
    BY <2>1 DEF Extends
<1>5. QED
  BY <1>1, <1>2, <1>3, <1>4 DEF FromItsListener

\* The sessions, when a step leaves them alone: a new packet with the number
\* of a session comes from a client that had not ended before it.
LEMMA SessionsKept ==
    ASSUME ConnectInv, Extends, UNCHANGED <<sess, cache, owner>>,
           \A p \in net' \ net : \A s \in Server : \A c \in DOMAIN sess[s] :
               Outlasted /\ p.dst = s /\ p.conv = c => p.sid \notin sess[s][c].past
    PROVE  DrawnOnce' /\ PastIsOver' /\ NoPastFrames'
<1>1. DrawnOnce'
  <2> SUFFICES ASSUME NEW s \in Server
               PROVE  /\ DOMAIN owner[s] = DOMAIN sess[s] \cup cache[s]
                      /\ \A c \in DOMAIN sess[s] :
                            LET x == sess[s][c]
                            IN  /\ x.sid = owner[s][c] /\ x.sid \in DOMAIN cl'
                                /\ x.addr = cl'[x.sid].addr /\ s = cl'[x.sid].server
    BY DEF DrawnOnce
  <2>1. DOMAIN owner[s] = DOMAIN sess[s] \cup cache[s]
    BY DEF ConnectInv, DrawnOnce
  <2>2. ASSUME NEW c \in DOMAIN sess[s]
        PROVE  /\ sess[s][c].sid = owner[s][c] /\ sess[s][c].sid \in DOMAIN cl'
               /\ sess[s][c].addr = cl'[sess[s][c].sid].addr /\ s = cl'[sess[s][c].sid].server
    <3>1. /\ sess[s][c].sid = owner[s][c] /\ sess[s][c].sid \in DOMAIN cl
          /\ sess[s][c].addr = cl[sess[s][c].sid].addr /\ s = cl[sess[s][c].sid].server
      BY DEF ConnectInv, DrawnOnce
    <3>2. QED
      BY <3>1 DEF Extends
  <2>3. QED
    BY <2>1, <2>2
<1>2. PastIsOver'
  <2> SUFFICES ASSUME NEW s \in Server, NEW c \in DOMAIN sess[s]
               PROVE  /\ \A k \in sess[s][c].past : k \in DOMAIN cl' /\ ~Live(k)'
                      /\ Outlasted => \A p \in net' : p.dst = s /\ p.conv = c =>
                                           p.sid \notin sess[s][c].past
    BY DEF PastIsOver
  <2>1. ASSUME NEW k \in sess[s][c].past PROVE k \in DOMAIN cl' /\ ~Live(k)'
    <3>1. k \in DOMAIN cl /\ cl[k].hs = "done"
      BY DEF ConnectInv, PastIsOver, Live
    <3>2. QED
      BY <3>1 DEF Extends, Live
  <2>2. ASSUME Outlasted, NEW p \in net', p.dst = s, p.conv = c
        PROVE  p.sid \notin sess[s][c].past
    <3>1. CASE p \in net
      BY <2>2, <3>1 DEF ConnectInv, PastIsOver
    <3>2. CASE p \notin net
      BY <2>2, <3>2
    <3>3. QED
      BY <3>1, <3>2
  <2>3. QED
    BY <2>1, <2>2
<1>3. NoPastFrames'
  BY DEF ConnectInv, NoPastFrames
<1>4. QED
  BY <1>1, <1>2, <1>3

-----------------------------------------------------------------------------
(***************************************************************************)
(* The client.                                                              *)
(***************************************************************************)
\* A step of client k to state t, which may send packets of k while it lives.
LEMMA ClientStep ==
    ASSUME ConnectInv, NEW k \in DOMAIN cl, NEW t \in ClientState,
           cl' = [cl EXCEPT ![k] = t], UNCHANGED <<sess, cache, owner, answered>>,
           t.addr = cl[k].addr, t.server = cl[k].server, cl[k].hs = "done" => t.hs = "done",
           NEW P \in SUBSET Packet, net' = net \cup P,
           \A p \in P : Genuine(p) /\ p.sid = k /\ Live(k),
           Outlasted /\ t.hs # "done" => t.conv = Syn \/ t.conv \in DOMAIN owner[t.server],
           t.syn # None => t.syn \in answered,
           t.hs = "Connected" => t.syn = k,
           \A j \in t.seen \cup ({t.frame} \ {None}) :
              j \in DOMAIN cl /\ cl[j].addr = t.addr /\ cl[j].server = t.server
    PROVE  ConnectInv'
<1>0. TypeOK
  BY DEF ConnectInv
<1>1. cl \in Seq(ClientState) /\ Len(cl) \in Nat /\ Len(cl) <= MaxClients
  BY <1>0 DEF TypeOK
<1>2. /\ cl' \in Seq(ClientState) /\ Len(cl') = Len(cl) /\ DOMAIN cl' = DOMAIN cl
      /\ cl'[k] = t /\ \A j \in DOMAIN cl : j # k => cl'[j] = cl[j]
  BY <1>1
<1>3. TypeOK'
  BY <1>0, <1>1, <1>2 DEF TypeOK
<1>4. Extends
  BY <1>2 DEF Extends
<1>5. \A p \in net' : Genuine(p)'
  BY <1>0, <1>4, StillGenuine DEF ConnectInv
<1>6. \A j \in DOMAIN cl' : FromItsListener(j)'
  <2>1. ASSUME NEW j \in DOMAIN cl, j # k PROVE FromItsListener(j)'
    BY <1>0, <1>2, <1>4, <2>1, StillFromItsListener DEF ConnectInv
  <2>2. FromItsListener(k)'
    <3>1. t.syn # None => t.syn \in answered'
      OBVIOUS
    <3>2. \A j \in t.seen \cup ({t.frame} \ {None}) :
            j \in DOMAIN cl' /\ cl'[j].addr = t.addr /\ cl'[j].server = t.server
      BY <1>4 DEF Extends
    <3>3. QED
      BY <1>2, <3>1, <3>2 DEF FromItsListener
  <2>3. QED
    BY <1>2, <2>1, <2>2
<1>7. \A p \in net' \ net : \A s \in Server : \A c \in DOMAIN sess[s] :
        Outlasted /\ p.dst = s /\ p.conv = c => p.sid \notin sess[s][c].past
  BY DEF ConnectInv, PastIsOver
<1>8. DrawnOnce' /\ PastIsOver' /\ NoPastFrames'
  BY <1>4, <1>7, SessionsKept
<1>9. QED
  BY <1>3, <1>5, <1>6, <1>8 DEF ConnectInv

\* The packets of a client are genuine.
LEMMA FromClientGenuine ==
    ASSUME ConnectInv, NEW k \in DOMAIN cl, Live(k), NEW kind \in {"syn", "data", "ack", "reset"}
    PROVE  LET p == FromClient(k, cl[k].conv, kind) IN p \in Packet /\ p.sid = k /\ Genuine(p)
<1> DEFINE p == FromClient(k, cl[k].conv, kind)
<1>1. /\ k \in Client /\ cl[k].addr \in Addr /\ cl[k].server \in Server
      /\ cl[k].conv \in Conv \cup {Syn}
  BY ClientFacts DEF ConnectInv
<1>2. /\ p.src = cl[k].addr /\ p.dst = cl[k].server /\ p.conv = cl[k].conv /\ p.kind = kind
      /\ p.sid = k
  BY DEF FromClient
<1>3. p \in Packet
  BY <1>1 DEF FromClient, Packet
<1>4. Outlasted => cl[k].conv = Syn \/ cl[k].conv \in DOMAIN owner[cl[k].server]
  BY DEF ConnectInv, FromItsListener, Live
<1> HIDE DEF p
<1>5. Genuine(p)
  BY <1>2, <1>4 DEF Genuine
<1>6. QED
  BY <1>2, <1>3, <1>5 DEF p

LEMMA WritesStep == ASSUME ConnectInv, NEW k \in Client, ClientWrites(k) PROVE ConnectInv'
<1> DEFINE P == {FromClient(k, cl[k].conv, "data")}
<1>1. Live(k) /\ k \in DOMAIN cl /\ net' = net \cup P /\ UNCHANGED <<cl, sess, cache, owner, answered>>
  BY DEF ClientWrites, Live
<1>2. P \in SUBSET Packet /\ \A p \in P : Genuine(p) /\ p.sid = k /\ Live(k)
  BY <1>1, FromClientGenuine
<1>3. cl[k] \in ClientState /\ FromItsListener(k) /\ cl \in Seq(ClientState)
  BY <1>1, ClientFacts DEF ConnectInv, TypeOK
<1>4. cl' = [cl EXCEPT ![k] = cl[k]]
  BY <1>1, <1>3
<1> HIDE DEF P
<1>5. QED
  BY <1>1, <1>2, <1>3, <1>4, ClientStep DEF FromItsListener

LEMMA EndsStep == ASSUME ConnectInv, NEW k \in Client, ClientEnds(k) PROVE ConnectInv'
<1> DEFINE P == IF cl[k].conv = Syn THEN {} ELSE {FromClient(k, cl[k].conv, "reset")}
           t == [cl[k] EXCEPT !.hs = "done"]
<1>1. /\ Live(k) /\ k \in DOMAIN cl /\ net' = net \cup P
      /\ UNCHANGED <<sess, cache, owner, answered>> /\ cl' = [cl EXCEPT ![k] = t]
  BY DEF ClientEnds, Live
<1>2. P \in SUBSET Packet /\ \A p \in P : Genuine(p) /\ p.sid = k /\ Live(k)
  BY <1>1, FromClientGenuine
<1>3. cl[k] \in ClientState /\ FromItsListener(k)
  BY <1>1, ClientFacts DEF ConnectInv
<1>4. /\ t \in ClientState /\ t.hs = "done" /\ t.addr = cl[k].addr /\ t.server = cl[k].server
      /\ t.conv = cl[k].conv /\ t.syn = cl[k].syn /\ t.seen = cl[k].seen /\ t.frame = cl[k].frame
  BY <1>3 DEF ClientState
<1> HIDE DEF P, t
<1>5. QED
  BY <1>1, <1>2, <1>3, <1>4, ClientStep DEF FromItsListener

LEMMA AfterPacketsStep == ASSUME ConnectInv, NEW k \in Client, AfterPackets(k) PROVE ConnectInv'
<1> DEFINE u == IF cl[k].hs = "Syn" THEN syn_handshake_recv(k, cl[k]) ELSE cl[k]
           t == [u EXCEPT !.pc = "select",
                          !.seen = IF u.hs = "Connected" THEN @ \cup ({u.frame} \ {None}) ELSE @]
<1>1. /\ k \in DOMAIN cl /\ cl' = [cl EXCEPT ![k] = t] /\ net' = net \cup {}
      /\ UNCHANGED <<sess, cache, owner, answered>>
  BY DEF AfterPackets
<1>2. cl[k] \in ClientState /\ FromItsListener(k)
  BY <1>1, ClientFacts DEF ConnectInv
<1>3. /\ u \in ClientState /\ u.addr = cl[k].addr /\ u.server = cl[k].server
      /\ u.conv = cl[k].conv /\ u.syn = cl[k].syn /\ u.seen = cl[k].seen /\ u.frame = cl[k].frame
      /\ cl[k].hs = "done" => u.hs = "done"
      /\ u.hs = "Connected" => u.syn = k
  BY <1>2 DEF ClientState, syn_handshake_recv, FromItsListener
<1> HIDE DEF u
<1>4. /\ t \in ClientState /\ t.addr = u.addr /\ t.server = u.server /\ t.hs = u.hs
      /\ t.conv = u.conv /\ t.syn = u.syn /\ t.frame = u.frame
      /\ t.seen \subseteq u.seen \cup ({u.frame} \ {None})
  BY <1>3 DEF ClientState
<1> HIDE DEF t
<1>5. \A j \in t.seen \cup ({t.frame} \ {None}) :
              j \in DOMAIN cl /\ cl[j].addr = t.addr /\ cl[j].server = t.server
  BY <1>2, <1>3, <1>4 DEF FromItsListener
<1>6. /\ Outlasted /\ t.hs # "done" => t.conv = Syn \/ t.conv \in DOMAIN owner[t.server]
      /\ t.syn # None => t.syn \in answered
      /\ t.hs = "Connected" => t.syn = k
      /\ t.addr = cl[k].addr /\ t.server = cl[k].server
      /\ cl[k].hs = "done" => t.hs = "done"
  BY <1>2, <1>3, <1>4 DEF FromItsListener
<1>7. {} \in SUBSET Packet
  OBVIOUS
<1>8. QED
  BY <1>1, <1>4, <1>5, <1>6, <1>7, ClientStep

LEMMA ReceivesStep ==
    ASSUME ConnectInv, NEW k \in Client, NEW p \in net, ClientReceives(k, p)
    PROVE  ConnectInv'
<1> DEFINE u == kcp_input(cl[k], p)
           t == [u EXCEPT !.pc = "batch"]
<1>1. /\ k \in DOMAIN cl /\ cl[k].hs # "done" /\ cl' = [cl EXCEPT ![k] = t] /\ net' = net \cup {}
      /\ UNCHANGED <<sess, cache, owner, answered>> /\ p.dst = cl[k].addr /\ p.src = cl[k].server
  BY DEF ClientReceives, Live, poll_next
<1>2. /\ cl[k] \in ClientState /\ FromItsListener(k) /\ k # None
      /\ cl[k].addr \in Addr /\ cl[k].server \in Server
  BY <1>1, ClientFacts DEF ConnectInv
<1>3. /\ p.sid \in Client /\ p.sid # None /\ p.conv \in Conv \cup {Syn}
      /\ p.sid \in DOMAIN cl /\ cl[p.sid].addr = cl[k].addr /\ cl[p.sid].server = cl[k].server
      /\ p.kind = "syn" => p.sid \in answered
      /\ Outlasted => p.conv \in DOMAIN owner[cl[k].server]
  <2>1. Genuine(p) /\ p.sid \in DOMAIN cl
    BY DEF ConnectInv, Genuine
  <2>2. p.sid \in Client /\ p.sid # None /\ cl[p.sid].server \in Server
    BY <2>1, ClientFacts DEF ConnectInv
  <2>3. p.dst # cl[p.sid].server
    BY <1>1, <1>2, <2>2, ConnectAssumption
  <2>4. p.conv \in Conv \cup {Syn}
    BY PacketFacts DEF ConnectInv
  <2>5. QED
    BY <1>1, <2>1, <2>2, <2>3, <2>4 DEF Genuine
<1>4. /\ u \in ClientState /\ u.addr = cl[k].addr /\ u.server = cl[k].server
      /\ u.conv \in {cl[k].conv, Syn, p.conv} /\ u.seen = cl[k].seen
      /\ u.hs \in {cl[k].hs, "Disconnected"}
      /\ u.syn = cl[k].syn \/ (cl[k].syn = None /\ p.kind = "syn" /\ u.syn = p.sid)
      /\ u.frame \in {cl[k].frame, p.sid}
  BY <1>2, <1>3 DEF ClientState, kcp_input, syn_handshake_input, input
<1> HIDE DEF u
<1>5. /\ t \in ClientState /\ t.addr = u.addr /\ t.server = u.server /\ t.hs = u.hs
      /\ t.conv = u.conv /\ t.syn = u.syn /\ t.frame = u.frame /\ t.seen = u.seen
  BY <1>4 DEF ClientState
<1> HIDE DEF t
<1>6. \A j \in t.seen \cup ({t.frame} \ {None}) :
        j \in DOMAIN cl /\ cl[j].addr = t.addr /\ cl[j].server = t.server
  BY <1>2, <1>3, <1>4, <1>5 DEF FromItsListener
<1>7. Outlasted /\ t.hs # "done" => t.conv = Syn \/ t.conv \in DOMAIN owner[t.server]
  BY <1>1, <1>2, <1>3, <1>4, <1>5 DEF FromItsListener
<1>8. t.syn # None => t.syn \in answered
  BY <1>2, <1>3, <1>4, <1>5 DEF FromItsListener
<1>9. t.hs = "Connected" => t.syn = k
  BY <1>2, <1>4, <1>5 DEF FromItsListener
<1>10. {} \in SUBSET Packet /\ t.addr = cl[k].addr /\ t.server = cl[k].server
  BY <1>4, <1>5
<1>11. QED
  BY <1>1, <1>5, <1>6, <1>7, <1>8, <1>9, <1>10, ClientStep

LEMMA ConnectStep ==
    ASSUME ConnectInv, NEW k \in Client, NEW addr \in Addr, NEW server \in Server,
           connect(k, addr, server)
    PROVE  ConnectInv'
<1> DEFINE t == [hs |-> "Syn", pc |-> "select", addr |-> addr, server |-> server,
                 conv |-> Syn, syn |-> None, frame |-> None, seen |-> {}]
           q == [src |-> addr, dst |-> server, conv |-> Syn, kind |-> "syn", sid |-> k]
<1>1. /\ k = Len(cl) + 1 /\ cl' = Append(cl, t) /\ net' = net \cup {q}
      /\ UNCHANGED <<sess, cache, owner, answered>>
  BY DEF connect
<1>2. t \in ClientState /\ q \in Packet
  BY DEF ClientState, Packet
<1>3. /\ t.hs = "Syn" /\ t.addr = addr /\ t.server = server /\ t.conv = Syn
      /\ t.syn = None /\ t.frame = None /\ t.seen = {}
      /\ q.src = addr /\ q.dst = server /\ q.conv = Syn /\ q.sid = k
  OBVIOUS
<1> HIDE DEF t, q
<1>4. TypeOK /\ cl \in Seq(ClientState) /\ Len(cl) \in Nat /\ Len(cl) <= MaxClients
  BY DEF ConnectInv, TypeOK
<1>5. /\ cl' \in Seq(ClientState) /\ Len(cl') = Len(cl) + 1 /\ cl'[k] = t
      /\ \A j \in DOMAIN cl : j \in DOMAIN cl' /\ cl'[j] = cl[j]
      /\ \A j \in DOMAIN cl' : j \in DOMAIN cl \/ j = k
      /\ k \in DOMAIN cl'
  BY <1>1, <1>2, <1>4
<1>6. Len(cl') <= MaxClients
  BY <1>1, <1>5, ConnectAssumption DEF Client
<1>7. TypeOK'
  BY <1>1, <1>2, <1>4, <1>5, <1>6 DEF TypeOK
<1>8. Extends
  BY <1>1, <1>5 DEF Extends
<1>9. \A p \in net' : Genuine(p)'
  <2>1. Genuine(q)'
    BY <1>3, <1>5 DEF Genuine
  <2>2. \A p \in net : Genuine(p)'
    BY <1>4, <1>8, StillGenuine DEF ConnectInv
  <2>3. QED
    BY <1>1, <2>1, <2>2
<1>10. \A j \in DOMAIN cl' : FromItsListener(j)'
  <2>1. ASSUME NEW j \in DOMAIN cl PROVE FromItsListener(j)'
    BY <1>4, <1>5, <1>8, StillFromItsListener DEF ConnectInv
  <2>2. FromItsListener(k)'
    BY <1>3, <1>5 DEF FromItsListener
  <2>3. QED
    BY <1>5, <2>1, <2>2
<1>11. \A p \in net' \ net : \A s \in Server : \A c \in DOMAIN sess[s] :
        Outlasted /\ p.dst = s /\ p.conv = c => p.sid \notin sess[s][c].past
  BY <1>1, <1>3, <1>4, SessionFacts
<1>12. DrawnOnce' /\ PastIsOver' /\ NoPastFrames'
  BY <1>1, <1>8, <1>11, SessionsKept
<1>13. QED
  BY <1>7, <1>9, <1>10, <1>12 DEF ConnectInv

-----------------------------------------------------------------------------
(***************************************************************************)
(* The listener.                                                            *)
(***************************************************************************)
\* The packets of a session are genuine, and go to no listener.
LEMMA FromSessionGenuine ==
    ASSUME ConnectInv, NEW s \in Server, NEW c \in DOMAIN sess[s],
           NEW kind \in {"syn", "data", "ack", "reset"}, NEW p, p = FromSession(s, c, kind),
           UNCHANGED <<cl, owner>>, kind = "syn" => sess[s][c].sid \in answered'
    PROVE  p \in Packet /\ p.dst \notin Server /\ Genuine(p)'
<1> DEFINE x == sess[s][c]
<1>1. c \in Conv /\ x.sid \in Client /\ x.addr \in Addr
  BY SessionFacts DEF ConnectInv
<1>2. /\ p.src = s /\ p.dst = x.addr /\ p.conv = c /\ p.kind = kind /\ p.sid = x.sid
  BY DEF FromSession
<1>3. p \in Packet
  BY <1>1 DEF FromSession, Packet
<1>4. /\ x.sid = owner[s][c] /\ c \in DOMAIN owner[s]
      /\ x.sid \in DOMAIN cl /\ x.addr = cl[x.sid].addr /\ s = cl[x.sid].server
  BY DEF ConnectInv, DrawnOnce
<1>5. Genuine(p)'
  BY <1>2, <1>4 DEF Genuine
<1>6. p.dst \notin Server
  BY <1>1, <1>2, ConnectAssumption
<1>7. QED
  BY <1>3, <1>5, <1>6

\* A step of the listeners: clients do not change, and new packets are genuine.
LEMMA ServerStep ==
    ASSUME ConnectInv, Extends, cl' = cl, TypeOK', DrawnOnce', PastIsOver', NoPastFrames',
           \A p \in net' \ net : Genuine(p)'
    PROVE  ConnectInv'
<1>1. TypeOK
  BY DEF ConnectInv
<1>2. \A p \in net' : Genuine(p)'
  BY <1>1, StillGenuine DEF ConnectInv
<1>3. \A k \in DOMAIN cl' : FromItsListener(k)'
  BY <1>1, StillFromItsListener DEF ConnectInv
<1>4. QED
  BY <1>2, <1>3 DEF ConnectInv

LEMMA SessionWritesStep ==
    ASSUME ConnectInv, NEW s \in Server, NEW c \in Conv, SessionWrites(s, c)
    PROVE  ConnectInv'
<1> DEFINE P == {FromSession(s, c, "data")}
<1>1. c \in DOMAIN sess[s] /\ net' = net \cup P /\ UNCHANGED <<cl, sess, cache, owner, answered>>
  BY DEF SessionWrites
<1>2. \A q \in P : q \in Packet /\ q.dst \notin Server /\ Genuine(q)'
  BY <1>1, FromSessionGenuine
<1> HIDE DEF P
<1>3. Extends
  BY <1>1 DEF Extends
<1>4. TypeOK'
  BY <1>1, <1>2 DEF ConnectInv, TypeOK
<1>5. DrawnOnce' /\ PastIsOver' /\ NoPastFrames'
  BY <1>1, <1>2, <1>3, SessionsKept
<1>6. QED
  BY <1>1, <1>2, <1>3, <1>4, <1>5, ServerStep

\* One session changes, to x: it keeps its client and its history.
LEMMA OneSession ==
    ASSUME ConnectInv, NEW s \in Server, NEW c \in DOMAIN sess[s], NEW x \in Session,
           sess' = [sess EXCEPT ![s] = [sess[s] EXCEPT ![c] = x]],
           UNCHANGED <<cl, cache, owner>>, answered' \in SUBSET Client, answered \subseteq answered',
           x.sid = sess[s][c].sid, x.addr = sess[s][c].addr, x.past = sess[s][c].past,
           Outlasted => x.seen \cap x.past = {},
           NEW P \in SUBSET Packet, net' = net \cup P,
           \A p \in P : p.dst \notin Server /\ Genuine(p)'
    PROVE  ConnectInv'
<1>0. TypeOK
  BY DEF ConnectInv
<1>1. /\ DOMAIN sess' = Server /\ DOMAIN sess'[s] = DOMAIN sess[s] /\ sess'[s][c] = x
      /\ \A z \in Server : DOMAIN sess'[z] = DOMAIN sess[z]
      /\ \A z \in Server : \A y \in DOMAIN sess[z] :
            sess'[z][y] = sess[z][y] \/ (z = s /\ y = c /\ sess'[z][y] = x)
  BY <1>0 DEF TypeOK
<1>2. \A z \in Server : \A y \in DOMAIN sess[z] :
        /\ sess'[z][y].sid = sess[z][y].sid /\ sess'[z][y].addr = sess[z][y].addr
        /\ sess'[z][y].past = sess[z][y].past
        /\ sess'[z][y] \in Session
        /\ Outlasted => sess'[z][y].seen \cap sess'[z][y].past = {}
  <2> TAKE z \in Server
  <2> TAKE y \in DOMAIN sess[z]
  <2>1. sess[z][y] \in Session /\ (Outlasted => sess[z][y].seen \cap sess[z][y].past = {})
    BY <1>0, SessionFacts DEF ConnectInv, NoPastFrames
  <2>2. QED
    BY <1>1, <2>1
<1>3. TypeOK'
  BY <1>0, <1>1, <1>2 DEF TypeOK
<1>4. Extends
  BY DEF Extends
<1>5. DrawnOnce'
  BY <1>1, <1>2 DEF ConnectInv, DrawnOnce
<1>6. PastIsOver'
  <2> SUFFICES ASSUME NEW z \in Server, NEW y \in DOMAIN sess[z]
               PROVE  /\ \A k \in sess[z][y].past : k \in DOMAIN cl /\ ~Live(k)'
                      /\ Outlasted => \A p \in net' : p.dst = z /\ p.conv = y =>
                                           p.sid \notin sess[z][y].past
    BY <1>1, <1>2 DEF PastIsOver
  <2>1. \A k \in sess[z][y].past : k \in DOMAIN cl /\ ~Live(k)'
    BY DEF ConnectInv, PastIsOver, Live
  <2>2. Outlasted => \A p \in net' : p.dst = z /\ p.conv = y => p.sid \notin sess[z][y].past
    BY DEF ConnectInv, PastIsOver
  <2>3. QED
    BY <2>1, <2>2
<1>7. NoPastFrames'
  BY <1>1, <1>2 DEF NoPastFrames
<1>8. QED
  BY <1>3, <1>4, <1>5, <1>6, <1>7, ServerStep

\* The end of a session: the number goes to the cache.
LEMMA EndSessionStep ==
    ASSUME ConnectInv, NEW s \in Server, NEW c \in DOMAIN sess[s], EndSession(s, c)
    PROVE  ConnectInv'
<1> DEFINE P == {FromSession(s, c, "reset")}
           f == [x \in DOMAIN sess[s] \ {c} |-> sess[s][x]]
<1>0. TypeOK
  BY DEF ConnectInv
<1>1. /\ sess' = [sess EXCEPT ![s] = f] /\ cache' = [cache EXCEPT ![s] = cache[s] \cup {c}]
      /\ net' = net \cup P /\ UNCHANGED <<cl, owner, answered>>
  BY DEF EndSession, kill_session
<1>2. \A q \in P : q \in Packet /\ q.dst \notin Server /\ Genuine(q)'
  BY <1>1, FromSessionGenuine
<1>3. DOMAIN f = DOMAIN sess[s] \ {c} /\ \A y \in DOMAIN f : f[y] = sess[s][y]
  OBVIOUS
<1> HIDE DEF P, f
<1>4. /\ DOMAIN sess' = Server /\ sess'[s] = f
      /\ \A z \in Server : z # s => sess'[z] = sess[z] /\ cache'[z] = cache[z]
      /\ cache'[s] = cache[s] \cup {c} /\ cache' \in [Server -> SUBSET Conv]
  BY <1>0, <1>1, SessionFacts DEF TypeOK
<1>5. \A z \in Server : /\ DOMAIN sess'[z] \subseteq DOMAIN sess[z]
                        /\ DOMAIN sess'[z] \cup cache'[z] = DOMAIN sess[z] \cup cache[z]
                        /\ DOMAIN sess'[z] \cap cache'[z] = {}
                        /\ \A y \in DOMAIN sess'[z] : sess'[z][y] = sess[z][y]
  <2> TAKE z \in Server
  <2>1. DOMAIN sess[z] \cap cache[z] = {}
    BY <1>0, SessionFacts
  <2>2. CASE z = s
    BY <1>3, <1>4, <2>1, <2>2
  <2>3. CASE z # s
    BY <1>4, <2>1, <2>3
  <2>4. QED
    BY <2>2, <2>3
<1>6. TypeOK'
  <2>1. \A z \in Server : /\ DOMAIN sess'[z] \subseteq Conv \ cache'[z]
                          /\ \A y \in DOMAIN sess'[z] : sess'[z][y] \in Session
    BY <1>0, <1>5, SessionFacts
  <2>2. QED
    BY <1>0, <1>1, <1>2, <1>4, <2>1 DEF TypeOK
<1>7. Extends
  BY <1>1 DEF Extends
<1>8. DrawnOnce'
  BY <1>1, <1>5 DEF ConnectInv, DrawnOnce
<1>9. PastIsOver'
  <2> SUFFICES ASSUME NEW z \in Server, NEW y \in DOMAIN sess[z]
               PROVE  /\ \A k \in sess[z][y].past : k \in DOMAIN cl /\ ~Live(k)'
                      /\ Outlasted => \A p \in net' : p.dst = z /\ p.conv = y =>
                                           p.sid \notin sess[z][y].past
    BY <1>1, <1>5 DEF PastIsOver
  <2>1. \A k \in sess[z][y].past : k \in DOMAIN cl /\ ~Live(k)'
    BY <1>1 DEF ConnectInv, PastIsOver, Live
  <2>2. Outlasted => \A p \in net' : p.dst = z /\ p.conv = y => p.sid \notin sess[z][y].past
    BY <1>1, <1>2 DEF ConnectInv, PastIsOver
  <2>3. QED
    BY <2>1, <2>2
<1>10. NoPastFrames'
  BY <1>5 DEF ConnectInv, NoPastFrames
<1>11. QED
  BY <1>1, <1>2, <1>6, <1>7, <1>8, <1>9, <1>10, ServerStep

LEMMA SessionReceivesStep ==
    ASSUME ConnectInv, NEW s \in Server, NEW p \in net, SessionReceives(s, p)
    PROVE  ConnectInv'
<1>0. PICK c \in SessionOf(s, p) :
        /\ p.dst = s
        /\ CASE p.kind = "reset" -> EndSession(s, c)
             [] p.kind = "syn" ->
                   /\ sess' = [sess EXCEPT ![s][c].hs = "Connected"]
                   /\ net' = net \cup {FromSession(s, c, "syn"), FromSession(s, c, "ack")}
                   /\ answered' = answered \cup {sess[s][c].sid}
                   /\ UNCHANGED <<cl, cache, owner>>
             [] OTHER ->
                   /\ sess' = [sess EXCEPT ![s][c].seen = IF @ = {} THEN {p.sid} ELSE @]
                   /\ UNCHANGED <<cl, cache, net, owner, answered>>
  BY DEF SessionReceives
<1>1. c \in DOMAIN sess[s] /\ (c = p.conv \/ p.kind = "syn")
  BY DEF SessionOf, HasSessionId
<1>2. /\ TypeOK /\ sess[s][c] \in Session /\ p.sid \in Client
      /\ sess[s][c].sid \in Client /\ answered \subseteq Client
  BY <1>1, SessionFacts, PacketFacts DEF ConnectInv, TypeOK
<1>3. Outlasted => sess[s][c].seen \cap sess[s][c].past = {}
  BY <1>1 DEF ConnectInv, NoPastFrames
<1>4. CASE p.kind = "reset"
  BY <1>0, <1>1, <1>4, EndSessionStep
<1>5. CASE p.kind = "syn"
  <2> DEFINE x == [sess[s][c] EXCEPT !.hs = "Connected"]
             P == {FromSession(s, c, "syn"), FromSession(s, c, "ack")}
  <2>1. /\ sess' = [sess EXCEPT ![s] = [sess[s] EXCEPT ![c] = x]] /\ net' = net \cup P
        /\ answered' = answered \cup {sess[s][c].sid} /\ UNCHANGED <<cl, cache, owner>>
    BY <1>0, <1>5
  <2>2. /\ x \in Session /\ x.sid = sess[s][c].sid /\ x.addr = sess[s][c].addr
        /\ x.past = sess[s][c].past /\ x.seen = sess[s][c].seen
    BY <1>2 DEF Session
  <2>3. P \in SUBSET Packet /\ \A q \in P : q.dst \notin Server /\ Genuine(q)'
    BY <1>1, <2>1, FromSessionGenuine
  <2> HIDE DEF x, P
  <2>4. QED
    BY <1>1, <1>2, <1>3, <2>1, <2>2, <2>3, OneSession
<1>6. CASE p.kind \notin {"reset", "syn"}
  <2> DEFINE x == [sess[s][c] EXCEPT !.seen = IF @ = {} THEN {p.sid} ELSE @]
  <2>1. /\ sess' = [sess EXCEPT ![s] = [sess[s] EXCEPT ![c] = x]] /\ net' = net \cup {}
        /\ UNCHANGED <<cl, cache, owner, answered>>
    BY <1>0, <1>6
  <2>2. /\ x \in Session /\ x.sid = sess[s][c].sid /\ x.addr = sess[s][c].addr
        /\ x.past = sess[s][c].past /\ x.seen \in {sess[s][c].seen, {p.sid}}
    BY <1>2 DEF Session
  <2> HIDE DEF x
  <2>3. Outlasted => p.sid \notin sess[s][c].past
    BY <1>0, <1>1, <1>6 DEF ConnectInv, PastIsOver
  <2>4. (Outlasted => x.seen \cap x.past = {}) /\ {} \in SUBSET Packet
    BY <1>3, <2>2, <2>3
  <2>5. QED
    BY <1>1, <1>2, <2>1, <2>2, <2>4, OneSession
<1>7. QED
  BY <1>4, <1>5, <1>6

\* A number that was not drawn is in no packet to the listener: the packets of
\* clients that have ended are not for the new session.
LEMMA NewSessionStep ==
    ASSUME ConnectInv, NEW s \in Server, NEW p \in net, NEW conv \in Conv, NewSession(s, p, conv)
    PROVE  ConnectInv'
<1> DEFINE x == [sid |-> p.sid, addr |-> p.src, hs |-> "Syn", seen |-> {},
                 past |-> {k \in DOMAIN cl : ~Live(k)}]
           f == With(sess[s], conv, x)
           g == With(owner[s], conv, p.sid)
<1>0. TypeOK
  BY DEF ConnectInv
<1>1. /\ p.dst = s /\ conv \notin DOMAIN sess[s] /\ conv \notin cache[s]
      /\ sess' = [sess EXCEPT ![s] = f] /\ owner' = [owner EXCEPT ![s] = g]
      /\ UNCHANGED <<cl, cache, net, answered>>
  BY DEF NewSession, allocate
<1>2. conv \notin DOMAIN owner[s] /\ conv # Syn
  BY <1>1, ConnectAssumption DEF ConnectInv, DrawnOnce, Syn
<1>3. /\ p.sid \in DOMAIN cl /\ p.sid \in Client
      /\ p.src \in Addr /\ p.src = cl[p.sid].addr /\ s = cl[p.sid].server
  <2>1. Genuine(p) /\ p.sid \in DOMAIN cl
    BY DEF ConnectInv, Genuine
  <2>2. p.sid \in Client /\ cl[p.sid].addr \in Addr
    BY <1>0, <2>1, ClientFacts
  <2>3. p.dst # cl[p.sid].addr
    BY <1>1, <2>2, ConnectAssumption
  <2>4. QED
    BY <1>1, <2>1, <2>2, <2>3 DEF Genuine
<1>4. /\ x \in Session /\ x.sid = p.sid /\ x.addr = p.src /\ x.seen = {}
      /\ x.past = {k \in DOMAIN cl : ~Live(k)}
  <2>1. {k \in DOMAIN cl : ~Live(k)} \subseteq Client
    BY <1>0, ClientFacts
  <2>2. QED
    BY <1>3, <2>1 DEF Session
<1> HIDE DEF x
<1>5. /\ DOMAIN f = DOMAIN sess[s] \cup {conv} /\ f[conv] = x
      /\ \A y \in DOMAIN sess[s] : f[y] = sess[s][y]
  BY <1>1 DEF With
<1>6. /\ DOMAIN g = DOMAIN owner[s] \cup {conv} /\ g[conv] = p.sid
      /\ \A y \in DOMAIN owner[s] : g[y] = owner[s][y]
  BY <1>2 DEF With
<1> HIDE DEF f, g
<1>7. /\ DOMAIN sess' = Server /\ sess'[s] = f /\ DOMAIN owner' = Server /\ owner'[s] = g
      /\ \A z \in Server : z # s => sess'[z] = sess[z] /\ owner'[z] = owner[z]
  BY <1>0, <1>1 DEF TypeOK
<1>8. \A z \in Server : \A y \in DOMAIN sess'[z] :
        \/ z = s /\ y = conv /\ sess'[z][y] = x
        \/ y \in DOMAIN sess[z] /\ sess'[z][y] = sess[z][y]
  BY <1>5, <1>7
<1>9. TypeOK'
  <2>1. \A z \in Server : /\ DOMAIN sess'[z] \subseteq Conv \ cache'[z]
                          /\ \A y \in DOMAIN sess'[z] : sess'[z][y] \in Session
    BY <1>0, <1>1, <1>4, <1>8, SessionFacts
  <2>2. QED
    BY <1>0, <1>1, <1>7, <2>1 DEF TypeOK
<1>10. Extends
  BY <1>1, <1>6, <1>7 DEF Extends
<1>11. DrawnOnce'
  <2> SUFFICES ASSUME NEW z \in Server
               PROVE  /\ DOMAIN owner'[z] = DOMAIN sess'[z] \cup cache[z]
                      /\ \A c \in DOMAIN sess'[z] :
                            LET w == sess'[z][c]
                            IN  /\ w.sid = owner'[z][c] /\ w.sid \in DOMAIN cl
                                /\ w.addr = cl[w.sid].addr /\ z = cl[w.sid].server
    BY <1>1 DEF DrawnOnce
  <2>1. DOMAIN owner'[z] = DOMAIN sess'[z] \cup cache[z]
    <3>1. DOMAIN owner[z] = DOMAIN sess[z] \cup cache[z]
      BY DEF ConnectInv, DrawnOnce
    <3>2. QED
      BY <1>5, <1>6, <1>7, <3>1
  <2>2. ASSUME NEW c \in DOMAIN sess'[z]
        PROVE  LET w == sess'[z][c]
               IN  /\ w.sid = owner'[z][c] /\ w.sid \in DOMAIN cl
                   /\ w.addr = cl[w.sid].addr /\ z = cl[w.sid].server
    <3>1. CASE z = s /\ c = conv /\ sess'[z][c] = x
      BY <1>3, <1>4, <1>6, <1>7, <3>1
    <3>2. CASE c \in DOMAIN sess[z] /\ sess'[z][c] = sess[z][c]
      <4>1. /\ sess[z][c].sid = owner[z][c] /\ sess[z][c].sid \in DOMAIN cl
            /\ sess[z][c].addr = cl[sess[z][c].sid].addr /\ z = cl[sess[z][c].sid].server
            /\ c \in DOMAIN owner[z]
        BY <3>2 DEF ConnectInv, DrawnOnce
      <4>2. owner'[z][c] = owner[z][c]
        BY <1>10, <4>1 DEF Extends
      <4>3. QED
        BY <3>2, <4>1, <4>2
    <3>3. QED
      BY <1>8, <3>1, <3>2
  <2>3. QED
    BY <2>1, <2>2
<1>12. PastIsOver'
  <2> SUFFICES ASSUME NEW z \in Server, NEW c \in DOMAIN sess'[z]
               PROVE  /\ \A k \in sess'[z][c].past : k \in DOMAIN cl /\ ~Live(k)
                      /\ Outlasted => \A q \in net : q.dst = z /\ q.conv = c =>
                                           q.sid \notin sess'[z][c].past
    BY <1>1 DEF PastIsOver, Live
  <2>1. CASE z = s /\ c = conv /\ sess'[z][c] = x
    <3>1. Outlasted => \A q \in net : ~ (q.dst = s /\ q.conv = conv)
      <4> SUFFICES ASSUME Outlasted, NEW q \in net, q.dst = s, q.conv = conv PROVE FALSE
        OBVIOUS
      <4>1. Genuine(q) /\ q.sid \in DOMAIN cl /\ cl[q.sid].addr \in Addr
        BY <1>0, ClientFacts DEF ConnectInv, Genuine
      <4>2. q.dst # cl[q.sid].addr
        BY <4>1, ConnectAssumption
      <4>3. QED
        BY <1>2, <4>1, <4>2 DEF Genuine
    <3>2. QED
      BY <1>4, <2>1, <3>1
  <2>2. CASE c \in DOMAIN sess[z] /\ sess'[z][c] = sess[z][c]
    BY <2>2 DEF ConnectInv, PastIsOver
  <2>3. QED
    BY <1>8, <2>1, <2>2
<1>13. NoPastFrames'
  BY <1>4, <1>8 DEF ConnectInv, NoPastFrames
<1>14. QED
  BY <1>1, <1>9, <1>10, <1>11, <1>12, <1>13, ServerStep

\* A number that is free again is in no packet and no client uses it.
LEMMA ExpireStep ==
    ASSUME ConnectInv, NEW s \in Server, NEW c \in Conv, Expire(s, c)
    PROVE  ConnectInv'
<1> DEFINE g == [x \in DOMAIN owner[s] \ {c} |-> owner[s][x]]
<1>0. TypeOK
  BY DEF ConnectInv
<1>1. /\ c \in cache[s] /\ cache' = [cache EXCEPT ![s] = cache[s] \ {c}]
      /\ owner' = [owner EXCEPT ![s] = g] /\ net' \subseteq net
      /\ UNCHANGED <<cl, sess, answered>>
      /\ Outlasted => /\ \A p \in net' : p.conv = c => p.src # s /\ p.dst # s
                      /\ \A k \in DOMAIN cl :
                            cl[k].hs # "done" /\ cl[k].conv = c => cl[k].server # s
  BY DEF Expire, Live
<1>2. DOMAIN g = DOMAIN owner[s] \ {c} /\ \A y \in DOMAIN g : g[y] = owner[s][y]
  OBVIOUS
<1> HIDE DEF g
<1>3. /\ DOMAIN owner' = Server /\ cache' \in [Server -> SUBSET Conv]
      /\ \A z \in Server : /\ DOMAIN owner'[z] = IF z = s THEN DOMAIN owner[z] \ {c}
                                                          ELSE DOMAIN owner[z]
                           /\ \A y \in DOMAIN owner'[z] : owner'[z][y] = owner[z][y]
                           /\ cache'[z] = IF z = s THEN cache[z] \ {c} ELSE cache[z]
  BY <1>0, <1>1, <1>2 DEF TypeOK
<1>4. TypeOK'
  BY <1>0, <1>1, <1>3 DEF TypeOK
<1>5. DrawnOnce'
  <2> SUFFICES ASSUME NEW z \in Server
               PROVE  /\ DOMAIN owner'[z] = DOMAIN sess[z] \cup cache'[z]
                      /\ \A y \in DOMAIN sess[z] :
                            LET x == sess[z][y]
                            IN  /\ x.sid = owner'[z][y]
                                /\ x.sid \in DOMAIN cl /\ x.addr = cl[x.sid].addr
                                /\ z = cl[x.sid].server
    BY <1>1 DEF DrawnOnce
  <2>1. DOMAIN owner[z] = DOMAIN sess[z] \cup cache[z]
    BY DEF ConnectInv, DrawnOnce
  <2>2. z = s => c \notin DOMAIN sess[z]
    BY <1>0, <1>1 DEF TypeOK
  <2>3. DOMAIN owner'[z] = DOMAIN sess[z] \cup cache'[z]
    BY <1>3, <2>1, <2>2
  <2>4. \A y \in DOMAIN sess[z] : owner'[z][y] = owner[z][y]
    BY <1>3, <2>3
  <2>5. QED
    BY <2>3, <2>4 DEF ConnectInv, DrawnOnce
<1>6. PastIsOver' /\ NoPastFrames'
  BY <1>1 DEF ConnectInv, PastIsOver, NoPastFrames, Live
<1>7. \A z \in Server : \A y \in DOMAIN owner[z] :
        ~ (z = s /\ y = c) => y \in DOMAIN owner'[z] /\ owner'[z][y] = owner[z][y]
  BY <1>3
<1>8. ASSUME NEW p \in net' PROVE Genuine(p)'
  <2>1. Genuine(p)
    BY <1>1 DEF ConnectInv
  <2>2. p.sid \in DOMAIN cl /\ cl[p.sid].server \in Server
    BY <1>0, <2>1, ClientFacts DEF Genuine
  <2>3. ASSUME Outlasted, NEW z \in {p.src, p.dst}, z \in Server, p.conv \in DOMAIN owner[z]
        PROVE  p.conv \in DOMAIN owner'[z] /\ owner'[z][p.conv] = owner[z][p.conv]
    <3>1. ~ (z = s /\ p.conv = c)
      BY <1>1, <2>3
    <3>2. QED
      BY <1>7, <2>3, <3>1
  <2>4. CASE p.src = cl[p.sid].server /\ p.dst = cl[p.sid].addr
             /\ (p.kind = "syn" => p.sid \in answered)
             /\ (Outlasted => p.conv \in DOMAIN owner[p.src] /\ owner[p.src][p.conv] = p.sid)
    <3>1. Outlasted => p.conv \in DOMAIN owner'[p.src] /\ owner'[p.src][p.conv] = p.sid
      BY <2>2, <2>3, <2>4
    <3>2. QED
      BY <1>1, <2>2, <2>4, <3>1 DEF Genuine
  <2>5. CASE p.src = cl[p.sid].addr /\ p.dst = cl[p.sid].server
             /\ (Outlasted => p.conv = Syn \/ p.conv \in DOMAIN owner[p.dst])
    <3>1. Outlasted => p.conv = Syn \/ p.conv \in DOMAIN owner'[p.dst]
      BY <2>2, <2>3, <2>5
    <3>2. QED
      BY <1>1, <2>2, <2>5, <3>1 DEF Genuine
  <2>6. QED
    BY <2>1, <2>4, <2>5 DEF Genuine
<1>9. ASSUME NEW k \in DOMAIN cl PROVE FromItsListener(k)'
  <2>1. FromItsListener(k) /\ cl[k].server \in Server
    BY <1>0, ClientFacts DEF ConnectInv
  <2>2. Outlasted /\ cl[k].hs # "done" =>
            cl[k].conv = Syn \/ cl[k].conv \in DOMAIN owner'[cl[k].server]
    BY <1>1, <1>7, <2>1 DEF FromItsListener
  <2>3. QED
    BY <1>1, <2>1, <2>2 DEF FromItsListener
<1>10. QED
  BY <1>1, <1>4, <1>5, <1>6, <1>8, <1>9 DEF ConnectInv

LEMMA InvNext == ConnectInv /\ [Next]_vars => ConnectInv'
<1> SUFFICES ASSUME ConnectInv, [Next]_vars PROVE ConnectInv'
  OBVIOUS
<1>1. ASSUME NEW k \in Client,
             \/ \E addr \in Addr, s \in Server : connect(k, addr, s)
             \/ \E p \in net : ClientReceives(k, p)
             \/ AfterPackets(k) \/ ClientWrites(k) \/ ClientEnds(k)
      PROVE  ConnectInv'
  BY <1>1, ConnectStep, ReceivesStep, AfterPacketsStep, WritesStep, EndsStep
<1>2. ASSUME NEW s \in Server, NEW p \in net, SessionReceives(s, p) PROVE ConnectInv'
  BY <1>2, SessionReceivesStep
<1>3. ASSUME NEW s \in Server, NEW p \in net, NEW conv \in Conv, NewSession(s, p, conv)
      PROVE  ConnectInv'
  BY <1>3, NewSessionStep
<1>4. ASSUME NEW s \in Server, NEW c \in Conv,
             SessionEnds(s, c) \/ SessionWrites(s, c) \/ Expire(s, c)
      PROVE  ConnectInv'
  BY <1>4, EndSessionStep, SessionWritesStep, ExpireStep DEF SessionEnds
<1>5. CASE UNCHANGED vars
  <2>1. Extends /\ cl' = cl /\ net' = net /\ UNCHANGED <<sess, cache, owner, answered>>
    BY <1>5 DEF Extends, vars
  <2>2. TypeOK'
    BY <2>1 DEF ConnectInv, TypeOK
  <2>3. DrawnOnce' /\ PastIsOver' /\ NoPastFrames'
    BY <2>1, SessionsKept
  <2>4. QED
    BY <2>1, <2>2, <2>3, ServerStep
<1>6. QED
  BY <1>1, <1>2, <1>3, <1>4, <1>5 DEF Next

-----------------------------------------------------------------------------
(***************************************************************************)
(* Every packet goes between a client and its listener; and if the numbers  *)
(* are kept back until no packet and no client has them any more            *)
(* (Outlasted), no number is drawn while one does, and a session hands over *)
(* no frame of a client that had ended before it was made (get_session and  *)
(* kill_session of udp.rs, ConvCache::update), for any number of clients,   *)
(* addresses, listeners and numbers.                                        *)
(***************************************************************************)
THEOREM SessionsTakeNoPastFrames == Spec => []ConnectInv
  BY InvInit, InvNext, PTL DEF Spec

(***************************************************************************)
(* A client is connected only after a session made for it has answered      *)
(* (syn_handshake_recv of stream.rs verifies the session id), however soon  *)
(* the numbers are drawn again.                                             *)
(***************************************************************************)
THEOREM ConnectedByOwnReply == Spec => []ConnectedAfterReply
<1>1. ConnectInv => ConnectedAfterReply
  <2> SUFFICES ASSUME ConnectInv, NEW k \in DOMAIN cl, cl[k].hs = "Connected"
               PROVE  k \in answered
    BY DEF ConnectedAfterReply
  <2>1. k # None /\ FromItsListener(k)
    BY ClientFacts DEF ConnectInv
  <2>2. QED
    BY <2>1 DEF FromItsListener
<1>2. QED
  BY <1>1, SessionsTakeNoPastFrames, PTL

(***************************************************************************)
(* A client hands over no frame of another listener, nor one of a client    *)
(* with another address (UdpStream and syn_handshake_input), however soon   *)
(* the numbers are drawn again.                                             *)
(***************************************************************************)
THEOREM FramesOfOwnListener == Spec => []ClientFrames
<1>1. ConnectInv => ClientFrames
  BY DEF ConnectInv, FromItsListener, ClientFrames
<1>2. QED
  BY <1>1, SessionsTakeNoPastFrames, PTL
=============================================================================
