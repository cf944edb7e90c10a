------------------------- MODULE UdpListenerProofs -------------------------
(***************************************************************************)
(* Proofs about UdpListener for any number of clients, conversation numbers *)
(* and sessions.                                                            *)
(***************************************************************************)
EXTENDS UdpListener, TLAPS

IInv == ListenerInv /\ MessagesMatch /\ DroppedIsOver

-----------------------------------------------------------------------------
(***************************************************************************)
(* The types.                                                               *)
(***************************************************************************)
MapsTyped ==
    /\ DOMAIN conv_map \subseteq Conv
    /\ \A c \in DOMAIN conv_map : conv_map[c] \in Session
    /\ DOMAIN sid_map \subseteq Sid
    /\ \A s \in DOMAIN sid_map : sid_map[s] \in Conv
    /\ cache \subseteq Conv

LoopTyped ==
    /\ lp \in {"top", "select", "batch", "blocked", "done"} /\ dst \in 0 .. MaxStreams
    /\ pkt \in Nat

FlagsTyped == is_closing \in BOOLEAN /\ cancelled \in BOOLEAN /\ rx_closed \in BOOLEAN

LEMMA TypeParts ==
    TypeOK <=> /\ LoopTyped /\ FlagsTyped /\ MapsTyped
               /\ msg \in Seq(Message) /\ str \in [Streams -> StreamState]
  BY DEF TypeOK, MapsTyped, FlagsTyped, LoopTyped

\* What is known of the members of the maps and of the queue.
LEMMA TypeFacts ==
    ASSUME TypeOK
    PROVE  /\ \A c \in DOMAIN conv_map :
                 /\ c \in Conv /\ conv_map[c].i \in Streams /\ conv_map[c].sid \in Sid
                 /\ conv_map[c].task \in BOOLEAN /\ conv_map[c].stream_permit \in BOOLEAN
           /\ \A k \in DOMAIN msg : /\ msg[k] \in Message
                                    /\ msg[k].i \in Streams /\ msg[k].conv \in Conv
                                    /\ msg[k].type \in {"Connect", "Disconnect"}
<1>1. MapsTyped /\ msg \in Seq(Message)
  BY TypeParts
<1>2. \A k \in DOMAIN msg : msg[k] \in Message
  BY <1>1
<1>3. QED
  BY <1>1, <1>2 DEF MapsTyped, Session, Message

LEMMA WithoutFacts ==
    ASSUME NEW f, NEW x
    PROVE  /\ DOMAIN Without(f, x) = DOMAIN f \ {x}
           /\ \A y \in DOMAIN f \ {x} : Without(f, x)[y] = f[y]
  BY DEF Without

LEMMA TypeInit == Init => TypeOK
<1> SUFFICES ASSUME Init PROVE TypeOK
  OBVIOUS
<1>0. FlagsTyped
  BY DEF Init, FlagsTyped
<1>1. LoopTyped
  BY ListenerAssumption DEF Init, LoopTyped
<1>2. MapsTyped
  BY DEF Init, MapsTyped
<1>3. msg \in Seq(Message)
  BY DEF Init
<1>4. str \in [Streams -> StreamState]
  BY ListenerAssumption DEF Init, StreamState
<1>5. QED
  BY <1>0, <1>1, <1>2, <1>3, <1>4, TypeParts

-----------------------------------------------------------------------------
(***************************************************************************)
(* Steps that leave the maps, the messages and the stages of all streams    *)
(* alone, but for the phases in which a stream has not reported its end.    *)
(***************************************************************************)
Busy == {"run", "drain", "reset"}

SameStages(j) ==
    /\ str'[j].conv = str[j].conv
    /\ str'[j].accept = str[j].accept
    /\ str'[j].handle = str[j].handle
    /\ str'[j].phase = str[j].phase \/ {str[j].phase, str'[j].phase} \subseteq Busy

LEMMA QuietStep ==
    ASSUME IInv, TypeOK', UNCHANGED <<conv_map, sid_map, cache, msg>>,
           \A j \in Streams : SameStages(j), lp' = "done" => lp = "done"
    PROVE  IInv'
<1> USE DEF IInv, ListenerInv
<1>0. /\ \A c \in DOMAIN conv_map : conv_map[c].i \in Streams
      /\ \A k \in DOMAIN msg : msg[k].i \in Streams
  BY TypeFacts
<1>1. MapsAgree' /\ MessagesMatch' /\ ConnectsOnce' /\ CacheApart' /\ DoneIsEmpty'
  BY DEF MapsAgree, MessagesMatch, ConnectsOnce, CacheApart, DoneIsEmpty, NoSession
<1>2. ActiveHasSession'
  BY DEF ActiveHasSession, Active, SameStages, Busy
<1>3. SessionOwned'
  BY <1>0 DEF SessionOwned, SameStages, Busy
<1>4. StagesInOrder'
  BY DEF StagesInOrder, SameStages, Busy
<1>5. MessagesTrue'
  BY <1>0 DEF MessagesTrue, SameStages, Busy
<1>6. DroppedIsOver'
  BY DEF DroppedIsOver, SameStages, Busy
<1>7. QED
  BY <1>1, <1>2, <1>3, <1>4, <1>5, <1>6

\* A stream after a step of its own that keeps its stages.
LEMMA OneStream ==
    ASSUME str \in [Streams -> StreamState], NEW i \in Streams, NEW r \in StreamState,
           str' = [str EXCEPT ![i] = r],
           r.conv = str[i].conv, r.accept = str[i].accept, r.handle = str[i].handle,
           r.phase = str[i].phase \/ {str[i].phase, r.phase} \subseteq Busy
    PROVE  str' \in [Streams -> StreamState] /\ \A j \in Streams : SameStages(j)
  BY DEF SameStages

(***************************************************************************)
(* The steps of the listener that take no message and make no session.      *)
(***************************************************************************)
LEMMA QuietListener ==
    ASSUME IInv, \/ Top /\ ~process_msg /\ lp' # "done"
                 \/ OtherPacket \/ EndBatch \/ SendPackets \/ SeeCancelled
    PROVE  IInv'
<1>0. TypeOK /\ LoopTyped /\ FlagsTyped /\ MapsTyped /\ msg \in Seq(Message) /\ str \in [Streams -> StreamState]
  BY TypeParts DEF IInv, ListenerInv
<1>1. UNCHANGED <<conv_map, sid_map, cache, msg, str>> /\ lp' # "done"
  BY DEF Top, OtherPacket, EndBatch, SendPackets, SeeCancelled
<1>2. LoopTyped'
  BY <1>0 DEF Top, OtherPacket, EndBatch, SendPackets, SeeCancelled, LoopTyped
<1>3. FlagsTyped'
  BY <1>0 DEF Top, OtherPacket, EndBatch, SendPackets, SeeCancelled, FlagsTyped
<1>4. TypeOK'
  BY <1>0, <1>1, <1>2, <1>3, TypeParts DEF TypeOK, LoopTyped, FlagsTyped
<1>5. \A j \in Streams : SameStages(j)
  BY <1>1 DEF SameStages
<1>6. QED
  BY <1>1, <1>4, <1>5, QuietStep

LEMMA CloseStep == ASSUME IInv, close PROVE IInv'
<1>0. TypeOK /\ LoopTyped /\ FlagsTyped /\ MapsTyped /\ msg \in Seq(Message) /\ str \in [Streams -> StreamState]
  BY TypeParts DEF IInv, ListenerInv
<1>1. UNCHANGED <<lp, dst, conv_map, sid_map, cache, msg, pkt, str>>
  BY DEF close
<1>2. FlagsTyped'
  BY <1>0 DEF close, FlagsTyped
<1>3. TypeOK'
  BY <1>0, <1>1, <1>2 DEF TypeOK, LoopTyped, FlagsTyped
<1>4. \A j \in Streams : SameStages(j)
  BY <1>1 DEF SameStages
<1>5. QED
  BY <1>1, <1>3, <1>4, QuietStep

\* A packet is put into the channel of the stream i.
LEMMA DeliverKeeps ==
    ASSUME str \in [Streams -> StreamState], NEW i \in Streams, HasRoom(i), Deliver(i)
    PROVE  str' \in [Streams -> StreamState] /\ \A j \in Streams : SameStages(j)
<1> DEFINE r == [str[i] EXCEPT !.chan = IF ReceiverGone(i) THEN @ ELSE @ + 1]
<1>1. str[i] \in StreamState /\ str[i].chan \in 0 .. SndWnd
  BY DEF StreamState
<1>2. (IF ReceiverGone(i) THEN str[i].chan ELSE str[i].chan + 1) \in 0 .. SndWnd
  BY <1>1, ListenerAssumption DEF HasRoom
<1>3. r \in StreamState
  BY <1>1, <1>2 DEF StreamState
<1>4. /\ r.conv = str[i].conv /\ r.accept = str[i].accept /\ r.handle = str[i].handle
      /\ r.phase = str[i].phase
  BY <1>1 DEF StreamState
<1>5. str' = [str EXCEPT ![i] = r]
  BY DEF Deliver
<1>6. QED
  BY <1>3, <1>4, <1>5, OneStream

LEMMA PacketStep ==
    ASSUME IInv, Unblock \/ \E conv \in DOMAIN conv_map : KnownPacket(conv)
    PROVE  IInv'
<1>0. TypeOK /\ LoopTyped /\ FlagsTyped /\ MapsTyped /\ msg \in Seq(Message) /\ str \in [Streams -> StreamState]
  BY TypeParts DEF IInv, ListenerInv
<1>1. UNCHANGED <<is_closing, cancelled, rx_closed, conv_map, sid_map, cache, msg, pkt>>
  BY DEF Unblock, KnownPacket
<1>2. ASSUME NEW i \in 0 .. MaxStreams, HasRoom(i), Deliver(i) PROVE IInv'
  <2>1. LoopTyped' /\ lp' # "done"
    BY <1>0, <1>1, <1>2, ListenerAssumption DEF LoopTyped, Deliver
  <2>2. str' \in [Streams -> StreamState] /\ \A j \in Streams : SameStages(j)
    <3>1. CASE i \in Streams
      BY <1>0, <1>2, <3>1, DeliverKeeps
    <3>2. CASE i \notin Streams
      <4>1. str' = str
        BY <1>0, <1>2, <3>2 DEF Deliver
      <4>2. QED
        BY <1>0, <4>1 DEF SameStages
    <3>3. QED
      BY <3>1, <3>2
  <2>3. TypeOK'
    BY <1>0, <1>1, <2>1, <2>2 DEF TypeOK, LoopTyped
  <2>4. QED
    BY <1>1, <2>1, <2>2, <2>3, QuietStep
<1>3. CASE Unblock
  <2>1. dst \in 0 .. MaxStreams
    BY <1>0 DEF LoopTyped
  <2>2. HasRoom(dst) /\ Deliver(dst)
    BY <1>3 DEF Unblock
  <2>3. QED
    BY <1>2, <2>1, <2>2 DEF Deliver, HasRoom, ReceiverGone
<1>4. ASSUME NEW conv \in DOMAIN conv_map, KnownPacket(conv) PROVE IInv'
  <2> DEFINE i == conv_map[conv].i
  <2>1. i \in Streams /\ i \in 0 .. MaxStreams
    BY <1>0, TypeFacts, ListenerAssumption DEF Streams
  <2>2. CASE HasRoom(i) /\ Deliver(i)
    BY <1>2, <2>1, <2>2 DEF Deliver, HasRoom, ReceiverGone
  <2>3. CASE lp' = "blocked" /\ dst' = i /\ UNCHANGED str
    <3>1. LoopTyped' /\ lp' # "done"
      BY <1>0, <1>1, <2>1, <2>3 DEF LoopTyped
    <3>2. str' \in [Streams -> StreamState] /\ \A j \in Streams : SameStages(j)
      BY <1>0, <2>3 DEF SameStages
    <3>3. TypeOK'
      BY <1>0, <1>1, <3>1, <3>2 DEF TypeOK, LoopTyped
    <3>4. QED
      BY <1>1, <3>1, <3>2, <3>3, QuietStep
  <2>4. QED
    BY <1>4, <2>2, <2>3 DEF KnownPacket
<1>5. QED
  BY <1>3, <1>4

(***************************************************************************)
(* The steps of the tasks and of the application that keep the stages.      *)
(***************************************************************************)
LEMMA QuietStream ==
    ASSUME IInv, NEW i \in Streams,
           \/ StreamConnects(i) \/ StreamSends(i) \/ StreamReads(i)
           \/ StreamEnds(i) \/ StreamDrained(i) \/ Tick(i)
           \/ Reserve(i) \/ Release(i)
    PROVE  IInv'
<1>0. TypeOK /\ LoopTyped /\ FlagsTyped /\ MapsTyped /\ msg \in Seq(Message) /\ str \in [Streams -> StreamState]
  BY TypeParts DEF IInv, ListenerInv
<1>1. UNCHANGED <<lp, dst, is_closing, cancelled, rx_closed, conv_map, sid_map, cache, msg>>
  BY DEF StreamConnects, StreamSends, StreamReads, StreamEnds, StreamDrained, SendReset, Tick,
         Reserve, Release
<1>2. pkt' \in Nat
  BY <1>0 DEF StreamConnects, StreamSends, StreamReads, StreamEnds, StreamDrained, SendReset, Tick,
         Reserve, Release, LoopTyped
<1>3. PICK r \in StreamState :
          /\ str' = [str EXCEPT ![i] = r]
          /\ r.conv = str[i].conv /\ r.accept = str[i].accept /\ r.handle = str[i].handle
          /\ r.phase = str[i].phase \/ {str[i].phase, r.phase} \subseteq Busy
  <2>0. /\ str[i] \in StreamState /\ str[i].repeat \in 0 .. Repeat
        /\ SndWnd \in Nat \ {0} /\ Repeat \in Nat \ {0}
    BY <1>0, ListenerAssumption DEF StreamState
  <2>1. CASE StreamConnects(i)
    <3>1. [str[i] EXCEPT !.connected = TRUE] \in StreamState
      BY <2>0 DEF StreamState
    <3> WITNESS [str[i] EXCEPT !.connected = TRUE] \in StreamState
    <3> QED
      BY <2>0, <2>1 DEF StreamConnects, StreamState
  <2>2. CASE StreamSends(i)
    <3>1. str[i] \in StreamState
      BY <2>0 DEF StreamState
    <3> WITNESS str[i] \in StreamState
    <3> QED
      BY <1>0, <2>2 DEF StreamSends
  <2>3. CASE StreamReads(i)
    <3>1. [str[i] EXCEPT !.chan = 0] \in StreamState
      BY <2>0 DEF StreamState
    <3> WITNESS [str[i] EXCEPT !.chan = 0] \in StreamState
    <3> QED
      BY <2>0, <2>3 DEF StreamReads, StreamState
  <2>4. CASE (StreamEnds(i) \/ StreamDrained(i)) /\ SendReset(i)
    <3>1. Repeat - 1 \in 0 .. Repeat /\ str[i].phase \in Busy
      BY <2>0, <2>4 DEF StreamEnds, StreamDrained, Busy
    <3>2. [str[i] EXCEPT !.phase = "reset", !.repeat = HalfClose] \in StreamState
      BY <2>0, <3>1 DEF StreamState, HalfClose
    <3> WITNESS [str[i] EXCEPT !.phase = "reset", !.repeat = HalfClose] \in StreamState
    <3> QED
      BY <2>0, <2>4, <3>1 DEF SendReset, StreamState, Busy
  <2>5. CASE StreamEnds(i) /\ str' = [str EXCEPT ![i].phase = "drain"]
    <3>1. [str[i] EXCEPT !.phase = "drain"] \in StreamState
      BY <2>0 DEF StreamState
    <3> WITNESS [str[i] EXCEPT !.phase = "drain"] \in StreamState
    <3> QED
      BY <2>0, <2>5 DEF StreamEnds, StreamState, Busy
  <2>6. CASE Tick(i)
    <3>1. [str[i] EXCEPT !.repeat = @ - 1] \in StreamState
      BY <2>0, <2>6 DEF Tick, Ticks, StreamState
    <3> WITNESS [str[i] EXCEPT !.repeat = @ - 1] \in StreamState
    <3> QED
      BY <2>0, <2>6 DEF Tick, StreamState
  <2>7. CASE Reserve(i)
    <3>1. [str[i] EXCEPT !.slot = TRUE] \in StreamState
      BY <2>0 DEF StreamState
    <3> WITNESS [str[i] EXCEPT !.slot = TRUE] \in StreamState
    <3> QED
      BY <2>0, <2>7 DEF Reserve, StreamState
  <2>8. CASE Release(i)
    <3>1. [str[i] EXCEPT !.slot = FALSE] \in StreamState
      BY <2>0 DEF StreamState
    <3> WITNESS [str[i] EXCEPT !.slot = FALSE] \in StreamState
    <3> QED
      BY <2>0, <2>8 DEF Release, StreamState
  <2>9. QED
    BY <2>1, <2>2, <2>3, <2>4, <2>5, <2>6, <2>7, <2>8 DEF StreamEnds, StreamDrained
<1>4. str' \in [Streams -> StreamState] /\ \A j \in Streams : SameStages(j)
  BY <1>0, <1>3, OneStream
<1>5. TypeOK'
  BY <1>0, <1>1, <1>2, <1>4 DEF TypeOK
<1>6. QED
  BY <1>1, <1>4, <1>5, QuietStep

-----------------------------------------------------------------------------
(***************************************************************************)
(* Steps that move a stream on.                                             *)
(***************************************************************************)
LEMMA Appended ==
    ASSUME msg \in Seq(Message), NEW m \in Message, msg' = Append(msg, m)
    PROVE  /\ msg' \in Seq(Message)
           /\ Len(msg) \in Nat /\ DOMAIN msg = 1 .. Len(msg)
           /\ DOMAIN msg' = 1 .. Len(msg) + 1
           /\ \A k \in DOMAIN msg : k \in DOMAIN msg' /\ msg'[k] = msg[k]
           /\ \A k \in DOMAIN msg' : k \in DOMAIN msg \/ k = Len(msg) + 1
           /\ msg'[Len(msg) + 1] = m
           /\ Len(msg) + 1 \notin DOMAIN msg
  OBVIOUS

LEMMA ReportStep == ASSUME IInv, NEW i \in Streams, StreamReports(i) PROVE IInv'
<1> USE DEF IInv, ListenerInv
<1>0. TypeOK /\ LoopTyped /\ FlagsTyped /\ MapsTyped /\ msg \in Seq(Message) /\ str \in [Streams -> StreamState]
  BY TypeParts
<1> DEFINE m == [type |-> "Disconnect", conv |-> str[i].conv, i |-> i]
<1>1. /\ str[i].phase = "reset" /\ msg' = Append(msg, m)
      /\ UNCHANGED <<lp, dst, is_closing, cancelled, rx_closed, conv_map, sid_map, cache, pkt>>
  BY DEF StreamReports, Post
<1>2. /\ str' \in [Streams -> StreamState]
      /\ str'[i].phase = "ended" /\ str'[i].conv = str[i].conv
      /\ str'[i].accept = str[i].accept /\ str'[i].handle = str[i].handle
      /\ \A j \in Streams : j # i => str'[j] = str[j]
  BY <1>0 DEF StreamReports, StreamState
<1>3. str[i].conv \in Conv /\ str[i].conv \in DOMAIN conv_map /\ conv_map[str[i].conv].i = i
  BY <1>1 DEF StagesInOrder, ActiveHasSession, Active
<1>4. m \in Message
  BY <1>3 DEF Message
<1>5. TypeOK'
  BY <1>0, <1>1, <1>2, <1>4, Appended DEF TypeOK
<1>6. MapsAgree' /\ CacheApart'
  BY <1>1 DEF MapsAgree, CacheApart
<1>7. DoneIsEmpty'
  BY <1>1, <1>3 DEF DoneIsEmpty, NoSession
<1>8. ActiveHasSession'
  BY <1>1, <1>2 DEF ActiveHasSession, Active
<1>9. SessionOwned'
  BY <1>0, <1>1, <1>2, TypeFacts DEF SessionOwned
<1>10. StagesInOrder' /\ DroppedIsOver'
  BY <1>1, <1>2 DEF StagesInOrder, DroppedIsOver
<1> HIDE DEF m
<1>11. MessagesTrue' /\ MessagesMatch'
  <2> SUFFICES ASSUME NEW k \in DOMAIN msg'
               PROVE  /\ msg'[k].conv = str'[msg'[k].i].conv
                      /\ msg'[k].conv \in DOMAIN conv_map \cup cache
                      /\ msg'[k].type = "Disconnect" => str'[msg'[k].i].phase = "ended"
                      /\ msg'[k].type = "Connect" => /\ str'[msg'[k].i].accept = "ended"
                                                     /\ str'[msg'[k].i].handle = "msg"
                      /\ msg'[k].conv \in DOMAIN conv_map => conv_map[msg'[k].conv].i = msg'[k].i
    BY <1>1 DEF MessagesTrue, MessagesMatch
  <2>1. CASE k \in DOMAIN msg
    <3>1. msg'[k] = msg[k] /\ msg[k].i \in Streams
      BY <1>0, <1>1, <1>4, <2>1, Appended, TypeFacts
    <3>2. QED
      BY <1>2, <2>1, <3>1 DEF MessagesTrue, MessagesMatch
  <2>2. CASE k = Len(msg) + 1
    <3>1. msg'[k] = m
      BY <1>0, <1>1, <1>4, <2>2, Appended
    <3>2. QED
      BY <1>2, <1>3, <3>1 DEF m
  <2>3. QED
    BY <1>0, <1>1, <1>4, <2>1, <2>2, Appended
<1>12. ConnectsOnce'
  <2>1. \A k \in DOMAIN msg' : msg'[k].type = "Connect" => k \in DOMAIN msg /\ msg'[k] = msg[k]
    BY <1>0, <1>1, <1>4, Appended DEF m
  <2>2. QED
    BY <2>1 DEF ConnectsOnce
<1>13. QED
  BY <1>5, <1>6, <1>7, <1>8, <1>9, <1>10, <1>11, <1>12

LEMMA AcceptTaskStep == ASSUME IInv, NEW i \in Streams, accept_stream(i) PROVE IInv'
<1> USE DEF IInv, ListenerInv
<1>0. TypeOK /\ LoopTyped /\ FlagsTyped /\ MapsTyped /\ msg \in Seq(Message) /\ str \in [Streams -> StreamState]
  BY TypeParts
<1> DEFINE m == [type |-> "Connect", conv |-> str[i].conv, i |-> i]
<1>1. /\ str[i].accept = "wait"
      /\ UNCHANGED <<lp, dst, is_closing, cancelled, rx_closed, conv_map, sid_map, cache, pkt>>
  BY DEF accept_stream
<1>2. str[i].phase # "none" /\ str[i].handle = "none"
  BY <1>1 DEF StagesInOrder
<1>3. str[i].conv \in Conv /\ str[i].conv \in DOMAIN conv_map /\ conv_map[str[i].conv].i = i
  BY <1>1, <1>2 DEF StagesInOrder, ActiveHasSession, Active
<1>4. m \in Message
  BY <1>3 DEF Message
<1>5. MapsAgree' /\ CacheApart'
  BY <1>1 DEF MapsAgree, CacheApart
<1>6. DoneIsEmpty'
  BY <1>1, <1>3 DEF DoneIsEmpty, NoSession
<1>7. CASE str[i].connected /\ msg' = Append(msg, m)
              /\ str' = [str EXCEPT ![i].accept = "ended", ![i].handle = "msg"]
  <2>1. /\ str' \in [Streams -> StreamState]
        /\ str'[i].phase = str[i].phase /\ str'[i].conv = str[i].conv
        /\ str'[i].accept = "ended" /\ str'[i].handle = "msg"
        /\ \A j \in Streams : j # i => str'[j] = str[j]
    <3> DEFINE r == [str[i] EXCEPT !.accept = "ended", !.handle = "msg"]
    <3>1. str[i] \in StreamState
      BY <1>0
    <3>2. /\ r \in StreamState /\ r.phase = str[i].phase /\ r.conv = str[i].conv
          /\ r.accept = "ended" /\ r.handle = "msg"
      BY <3>1 DEF StreamState
    <3>3. str' = [str EXCEPT ![i] = r]
      BY <1>7
    <3> HIDE DEF r
    <3>4. QED
      BY <1>0, <3>2, <3>3
  <2>2. TypeOK'
    BY <1>0, <1>1, <1>4, <1>7, <2>1, Appended DEF TypeOK
  <2>3. ActiveHasSession'
    BY <1>1, <1>3, <2>1 DEF ActiveHasSession, Active
  <2>4. SessionOwned'
    <3>1. ASSUME NEW c \in DOMAIN conv_map, conv_map[c].i = i
          PROVE  conv_map[c].task /\ conv_map[c].stream_permit
      BY <1>0, <1>1, <1>2, <3>1, TypeFacts DEF SessionOwned
    <3>2. QED
      BY <1>0, <1>1, <2>1, <3>1, TypeFacts DEF SessionOwned
  <2>5. StagesInOrder' /\ DroppedIsOver'
    BY <1>1, <1>2, <2>1 DEF StagesInOrder, DroppedIsOver
  <2> HIDE DEF m
  <2>6. MessagesTrue' /\ MessagesMatch'
    <3> SUFFICES ASSUME NEW k \in DOMAIN msg'
                 PROVE  /\ msg'[k].conv = str'[msg'[k].i].conv
                        /\ msg'[k].conv \in DOMAIN conv_map \cup cache
                        /\ msg'[k].type = "Disconnect" => str'[msg'[k].i].phase = "ended"
                        /\ msg'[k].type = "Connect" => /\ str'[msg'[k].i].accept = "ended"
                                                       /\ str'[msg'[k].i].handle = "msg"
                        /\ msg'[k].conv \in DOMAIN conv_map => conv_map[msg'[k].conv].i = msg'[k].i
      BY <1>1 DEF MessagesTrue, MessagesMatch
    <3>1. CASE k \in DOMAIN msg
      <4>1. msg'[k] = msg[k] /\ msg[k].i \in Streams
        BY <1>0, <1>4, <1>7, <3>1, Appended, TypeFacts
      <4>2. QED
        BY <2>1, <3>1, <4>1 DEF MessagesTrue, MessagesMatch
    <3>2. CASE k = Len(msg) + 1
      <4>1. msg'[k] = m
        BY <1>0, <1>4, <1>7, <3>2, Appended
      <4>2. QED
        BY <2>1, <1>3, <4>1 DEF m
    <3>3. QED
      BY <1>0, <1>4, <1>7, <3>1, <3>2, Appended
  <2>7. ConnectsOnce'
    <3>1. \A k \in DOMAIN msg : msg[k].type = "Connect" => msg[k].i # i
      BY <1>1 DEF MessagesTrue
    <3>2. \A k \in DOMAIN msg' : (k \in DOMAIN msg /\ msg'[k] = msg[k]) \/ (k = Len(msg) + 1 /\ msg'[k].i = i)
      BY <1>0, <1>4, <1>7, Appended DEF m
    <3>3. QED
      BY <3>1, <3>2 DEF ConnectsOnce
  <2>8. QED
    BY <1>5, <1>6, <2>2, <2>3, <2>4, <2>5, <2>6, <2>7
<1>8. CASE msg' = msg /\ str[i].phase = "ended" /\ str' = [str EXCEPT ![i].accept = "ended"]
  <2>1. /\ str' \in [Streams -> StreamState]
        /\ str'[i].phase = str[i].phase /\ str'[i].conv = str[i].conv
        /\ str'[i].accept = "ended" /\ str'[i].handle = "none"
        /\ \A j \in Streams : j # i => str'[j] = str[j]
    BY <1>0, <1>2, <1>8 DEF StreamState
  <2>2. TypeOK'
    BY <1>0, <1>1, <1>8, <2>1 DEF TypeOK
  <2>3. ActiveHasSession'
    BY <1>1, <1>3, <2>1 DEF ActiveHasSession, Active
  <2>4. SessionOwned'
    BY <1>0, <1>1, <1>2, <2>1, TypeFacts DEF SessionOwned
  <2>5. StagesInOrder' /\ DroppedIsOver'
    BY <1>1, <1>2, <2>1 DEF StagesInOrder, DroppedIsOver
  <2>6. MessagesTrue' /\ MessagesMatch' /\ ConnectsOnce'
    BY <1>0, <1>1, <1>8, <2>1, TypeFacts DEF MessagesTrue, MessagesMatch, ConnectsOnce
  <2>7. QED
    BY <1>5, <1>6, <2>2, <2>3, <2>4, <2>5, <2>6
<1>9. QED
  BY <1>7, <1>8 DEF accept_stream, Post

\* The application takes the stream from the queue.
LEMMA AcceptStep == ASSUME IInv, NEW i \in Streams, accept(i) PROVE IInv'
<1> USE DEF IInv, ListenerInv
<1>0. TypeOK /\ LoopTyped /\ FlagsTyped /\ MapsTyped /\ msg \in Seq(Message) /\ str \in [Streams -> StreamState]
  BY TypeParts
<1>1. /\ str[i].handle = "queue" /\ str[i].accept = "ended"
      /\ UNCHANGED <<lp, dst, is_closing, cancelled, rx_closed, conv_map, sid_map, cache, msg, pkt>>
  BY DEF accept, StagesInOrder
<1>2. /\ str' \in [Streams -> StreamState]
      /\ str'[i].phase = str[i].phase /\ str'[i].conv = str[i].conv
      /\ str'[i].accept = str[i].accept /\ str'[i].handle = "app"
      /\ \A j \in Streams : j # i => str'[j] = str[j]
  BY <1>0 DEF accept, StreamState
<1>3. TypeOK'
  BY <1>0, <1>1, <1>2 DEF TypeOK
<1>4. MapsAgree' /\ MessagesMatch' /\ ConnectsOnce' /\ CacheApart' /\ DoneIsEmpty'
  BY <1>1 DEF MapsAgree, MessagesMatch, ConnectsOnce, CacheApart, DoneIsEmpty, NoSession
<1>5. ActiveHasSession' /\ StagesInOrder' /\ DroppedIsOver'
  BY <1>1, <1>2 DEF ActiveHasSession, Active, StagesInOrder, DroppedIsOver
<1>6. SessionOwned'
  BY <1>0, <1>1, <1>2, TypeFacts DEF SessionOwned
<1>7. MessagesTrue'
  BY <1>0, <1>1, <1>2, TypeFacts DEF MessagesTrue
<1>8. QED
  BY <1>3, <1>4, <1>5, <1>6, <1>7

\* A conv that no message names leaves the cache.
LEMMA ExpireStep == ASSUME Outlasted, IInv, NEW conv \in Conv, Expire(conv) PROVE IInv'
<1> USE DEF IInv, ListenerInv
<1>0. TypeOK /\ LoopTyped /\ FlagsTyped /\ MapsTyped /\ msg \in Seq(Message) /\ str \in [Streams -> StreamState]
  BY TypeParts
<1>1. /\ UNCHANGED <<lp, dst, is_closing, cancelled, rx_closed, conv_map, sid_map, msg, pkt, str>>
      /\ cache' = cache \ {conv} /\ \A k \in DOMAIN msg : msg[k].conv # conv
  BY DEF Expire
<1>2. TypeOK'
  BY <1>0, <1>1 DEF TypeOK
<1>3. MapsAgree' /\ MessagesMatch' /\ ConnectsOnce' /\ CacheApart' /\ DoneIsEmpty'
  BY <1>1 DEF MapsAgree, MessagesMatch, ConnectsOnce, CacheApart, DoneIsEmpty, NoSession
<1>4. ActiveHasSession' /\ StagesInOrder' /\ DroppedIsOver' /\ SessionOwned'
  BY <1>1 DEF ActiveHasSession, Active, StagesInOrder, DroppedIsOver, SessionOwned
<1>5. MessagesTrue'
  BY <1>1 DEF MessagesTrue
<1>6. QED
  BY <1>2, <1>3, <1>4, <1>5

-----------------------------------------------------------------------------
(***************************************************************************)
(* get_session: the conv that is drawn is no session's and no message's, so *)
(* nothing that is under way can be taken for the new stream.               *)
(***************************************************************************)
LEMMA SessionStep ==
    ASSUME IInv, NEW sid \in Sid, NEW conv \in Conv, NEW i \in Streams, get_session(sid, conv, i)
    PROVE  IInv'
<1> USE DEF IInv, ListenerInv
<1>0. TypeOK /\ LoopTyped /\ FlagsTyped /\ MapsTyped /\ msg \in Seq(Message) /\ str \in [Streams -> StreamState]
  BY TypeParts
<1> DEFINE s == NewSession(sid, i)
<1>1. /\ sid \notin DOMAIN sid_map /\ conv \notin DOMAIN conv_map /\ conv \notin cache
      /\ str[i].phase = "none" /\ lp' = "batch"
      /\ sid_map' = With(sid_map, sid, conv) /\ conv_map' = With(conv_map, conv, s)
      /\ UNCHANGED <<dst, is_closing, cancelled, rx_closed, cache, msg, pkt>>
  BY DEF get_session
<1>2. s \in Session /\ s.i = i /\ s.sid = sid /\ s.task = TRUE /\ s.stream_permit = TRUE
  BY DEF NewSession, Session
<1>3. /\ DOMAIN sid_map' = DOMAIN sid_map \cup {sid} /\ sid_map'[sid] = conv
      /\ \A t \in DOMAIN sid_map : sid_map'[t] = sid_map[t]
      /\ DOMAIN conv_map' = DOMAIN conv_map \cup {conv} /\ conv_map'[conv] = s
      /\ \A c \in DOMAIN conv_map : conv_map'[c] = conv_map[c]
  <2>1. /\ DOMAIN sid_map' = DOMAIN sid_map \cup {sid} /\ sid_map'[sid] = conv
        /\ \A t \in DOMAIN sid_map : t # sid => sid_map'[t] = sid_map[t]
    BY <1>1 DEF With
  <2>2. /\ DOMAIN conv_map' = DOMAIN conv_map \cup {conv} /\ conv_map'[conv] = s
        /\ \A c \in DOMAIN conv_map : c # conv => conv_map'[c] = conv_map[c]
    BY <1>1 DEF With
  <2>3. QED
    BY <1>1, <2>1, <2>2
<1> HIDE DEF s
<1>4. /\ str' \in [Streams -> StreamState]
      /\ str'[i].phase = "run" /\ str'[i].conv = conv
      /\ str'[i].accept = "wait" /\ str'[i].handle = str[i].handle
      /\ \A j \in Streams : j # i => str'[j] = str[j]
  <2> DEFINE r == [str[i] EXCEPT !.phase = "run", !.conv = conv, !.accept = "wait",
                                 !.chan = IF i \in Traffic THEN 1 ELSE 0]
  <2>1. str[i] \in StreamState /\ (IF i \in Traffic THEN 1 ELSE 0) \in 0 .. SndWnd
    BY <1>0, ListenerAssumption
  <2>2. /\ r \in StreamState /\ r.phase = "run" /\ r.conv = conv
        /\ r.accept = "wait" /\ r.handle = str[i].handle
    BY <2>1 DEF StreamState
  <2>3. str' = [str EXCEPT ![i] = r]
    BY DEF get_session
  <2> HIDE DEF r
  <2>4. QED
    BY <1>0, <2>2, <2>3
<1>5. str[i].accept = "none" /\ str[i].handle = "none"
  BY <1>1 DEF StagesInOrder
<1>6. MapsTyped'
  BY <1>0, <1>1, <1>2, <1>3 DEF MapsTyped
<1>7. TypeOK'
  BY <1>0, <1>1, <1>4, <1>6 DEF TypeOK, LoopTyped, MapsTyped, FlagsTyped
<1>8. MapsAgree'
  BY <1>1, <1>2, <1>3 DEF MapsAgree
<1>9. ActiveHasSession'
  BY <1>1, <1>2, <1>3, <1>4 DEF ActiveHasSession, Active
<1>10. SessionOwned'
  <2>1. \A c \in DOMAIN conv_map : conv_map[c].i \in Streams /\ conv_map[c].i # i
    BY <1>0, <1>1, TypeFacts DEF SessionOwned
  <2>2. QED
    BY <1>2, <1>3, <1>4, <2>1 DEF SessionOwned
<1>11. StagesInOrder' /\ DroppedIsOver'
  BY <1>4, <1>5 DEF StagesInOrder, DroppedIsOver
<1>12. MessagesTrue' /\ MessagesMatch'
  <2>1. \A k \in DOMAIN msg : /\ msg[k].i \in Streams /\ msg[k].conv # conv
                              /\ msg[k].type = "Connect" \/ msg[k].type = "Disconnect"
    BY <1>0, <1>1, TypeFacts DEF MessagesTrue
  <2>2. \A k \in DOMAIN msg : msg[k].i # i
    BY <1>1, <1>5, <2>1 DEF MessagesTrue
  <2>3. QED
    BY <1>1, <1>3, <1>4, <2>1, <2>2 DEF MessagesTrue, MessagesMatch
<1>13. ConnectsOnce' /\ CacheApart' /\ DoneIsEmpty'
  BY <1>1, <1>3 DEF ConnectsOnce, CacheApart, DoneIsEmpty
<1>14. QED
  BY <1>7, <1>8, <1>9, <1>10, <1>11, <1>12, <1>13

-----------------------------------------------------------------------------
(***************************************************************************)
(* process_msg.                                                             *)
(***************************************************************************)
LEMMA Taken ==
    ASSUME msg \in Seq(Message), msg # << >>, msg' = Tail(msg)
    PROVE  /\ msg' \in Seq(Message)
           /\ 1 \in DOMAIN msg /\ msg[1] = Head(msg)
           /\ \A k \in DOMAIN msg' : /\ k \in Nat /\ k + 1 \in DOMAIN msg
                                     /\ k + 1 # 1 /\ msg'[k] = msg[k + 1]
  OBVIOUS

\* The messages that are left are as they were.
LEMMA RestMatches ==
    ASSUME IInv, msg # << >>, msg' = Tail(msg)
    PROVE  /\ ConnectsOnce'
           /\ \A k \in DOMAIN msg' : \E l \in DOMAIN msg : l # 1 /\ msg'[k] = msg[l]
<1>1. msg \in Seq(Message)
  BY TypeParts DEF IInv, ListenerInv
<1>2. \A k \in DOMAIN msg' : k \in Nat /\ k + 1 \in DOMAIN msg /\ k + 1 # 1 /\ msg'[k] = msg[k + 1]
  BY <1>1, Taken
<1>3. \A k \in DOMAIN msg' : \E l \in DOMAIN msg : l # 1 /\ msg'[k] = msg[l]
  BY <1>2
<1>4. ConnectsOnce'
  <2> SUFFICES ASSUME NEW k \in DOMAIN msg', NEW l \in DOMAIN msg',
                      msg'[k].type = "Connect", msg'[l].type = "Connect", msg'[k].i = msg'[l].i
               PROVE  k = l
    BY DEF ConnectsOnce
  <2>1. /\ k \in Nat /\ k + 1 \in DOMAIN msg /\ msg'[k] = msg[k + 1]
        /\ l \in Nat /\ l + 1 \in DOMAIN msg /\ msg'[l] = msg[l + 1]
    BY <1>2
  <2>2. k + 1 = l + 1
    BY <2>1 DEF IInv, ListenerInv, ConnectsOnce
  <2>3. QED
    BY <2>1, <2>2
<1>5. QED
  BY <1>3, <1>4

(***************************************************************************)
(* Connect: the session, if it is there, still has its permit; if it is not *)
(* there, the stream is over.                                               *)
(***************************************************************************)
LEMMA ConnectStep ==
    ASSUME IInv, msg # << >>, msg' = Tail(msg),
           Head(msg).type = "Connect", process_connect(Head(msg)),
           UNCHANGED <<dst, is_closing, cancelled, rx_closed, pkt>>, lp' \in {"top", "select"}
    PROVE  IInv'
<1> USE DEF IInv, ListenerInv
<1>0. TypeOK /\ LoopTyped /\ FlagsTyped /\ MapsTyped /\ msg \in Seq(Message) /\ str \in [Streams -> StreamState]
  BY TypeParts
<1> DEFINE m == Head(msg)
<1> DEFINE i == m.i
<1>1. 1 \in DOMAIN msg /\ m = msg[1] /\ msg' \in Seq(Message)
  BY <1>0, Taken
<1>2. /\ i \in Streams /\ m.conv \in Conv /\ m.conv = str[i].conv
      /\ str[i].accept = "ended" /\ str[i].handle = "msg" /\ str[i].phase # "none"
      /\ m.conv \in DOMAIN conv_map => conv_map[m.conv].i = i
  BY <1>0, <1>1, TypeFacts DEF MessagesTrue, MessagesMatch, StagesInOrder
<1>3. UNCHANGED <<sid_map, cache>>
  BY DEF process_connect
\* The handle of the stream and the session after the step.
<1>4. PICK h \in {"queue", "dropped"} :
         /\ str' = [str EXCEPT ![i].handle = h]
         /\ h = "dropped" => str[i].phase = "ended"
  <2>1. CASE m.conv \in DOMAIN conv_map
    <3>1. conv_map[m.conv].stream_permit = TRUE
      BY <1>0, <1>2, <2>1, TypeFacts DEF SessionOwned
    <3>2. str' = [str EXCEPT ![i].handle = "queue"]
      BY <2>1, <3>1 DEF process_connect
    <3>3. QED
      BY <3>2
  <2>2. CASE m.conv \notin DOMAIN conv_map
    <3>1. str' = [str EXCEPT ![i].handle = "dropped"]
      BY <2>2 DEF process_connect
    <3>2. ~Active(i)
      BY <1>2, <2>2 DEF ActiveHasSession
    <3>3. str[i].phase = "ended"
      BY <1>0, <1>2, <3>2 DEF Active, StreamState
    <3>4. QED
      BY <3>1, <3>3
  <2>3. QED
    BY <2>1, <2>2
<1>5. /\ DOMAIN conv_map' = DOMAIN conv_map
      /\ \A c \in DOMAIN conv_map :
            /\ conv_map'[c] \in Session
            /\ conv_map'[c].i = conv_map[c].i /\ conv_map'[c].sid = conv_map[c].sid
            /\ conv_map'[c] = conv_map[c] \/ conv_map'[c].i = i
  <2>1. CASE m.conv \in DOMAIN conv_map
    <3> DEFINE s == [conv_map[m.conv] EXCEPT !.task = FALSE, !.stream_permit = FALSE]
    <3>1. conv_map[m.conv] \in Session
      BY <1>0, <2>1 DEF MapsTyped
    <3>2. s \in Session /\ s.i = conv_map[m.conv].i /\ s.sid = conv_map[m.conv].sid
      BY <3>1 DEF Session
    <3>3. conv_map' = [conv_map EXCEPT ![m.conv] = s]
      BY <2>1 DEF process_connect
    <3> HIDE DEF s
    <3>4. DOMAIN conv_map' = DOMAIN conv_map
      BY <3>3
    <3>5. \A c \in DOMAIN conv_map : conv_map'[c] = IF c = m.conv THEN s ELSE conv_map[c]
      BY <3>3
    <3>6. QED
      BY <1>0, <1>2, <2>1, <3>2, <3>4, <3>5 DEF MapsTyped
  <2>2. CASE m.conv \notin DOMAIN conv_map
    <3>1. conv_map' = conv_map
      BY <2>2 DEF process_connect
    <3>2. QED
      BY <1>0, <3>1 DEF MapsTyped
  <2>3. QED
    BY <2>1, <2>2
<1>6. /\ str' \in [Streams -> StreamState]
      /\ str'[i].phase = str[i].phase /\ str'[i].conv = str[i].conv
      /\ str'[i].accept = "ended" /\ str'[i].handle = h
      /\ \A j \in Streams : j # i => str'[j] = str[j]
  <2> HIDE DEF m, i
  <2> DEFINE r == [str[i] EXCEPT !.handle = h]
  <2>1. str[i] \in StreamState
    BY <1>0, <1>2
  <2>2. /\ r \in StreamState /\ r.phase = str[i].phase /\ r.conv = str[i].conv
        /\ r.accept = str[i].accept /\ r.handle = h
    BY <2>1 DEF StreamState
  <2>3. str' = [str EXCEPT ![i] = r]
    BY <1>4
  <2> HIDE DEF r
  <2>4. QED
    BY <1>0, <1>2, <2>2, <2>3
<1> HIDE DEF m, i
<1>7. MapsTyped'
  BY <1>0, <1>3, <1>5 DEF MapsTyped
<1>8. LoopTyped' /\ FlagsTyped'
  BY <1>0 DEF LoopTyped, FlagsTyped
<1>9. TypeOK'
  BY <1>1, <1>6, <1>7, <1>8 DEF TypeOK, LoopTyped, MapsTyped, FlagsTyped
<1>10. MapsAgree' /\ CacheApart'
  BY <1>3, <1>5 DEF MapsAgree, CacheApart
<1>11. ActiveHasSession'
  BY <1>2, <1>5, <1>6 DEF ActiveHasSession, Active
<1>12. SessionOwned'
  <2> SUFFICES ASSUME NEW c \in DOMAIN conv_map
               PROVE  LET s == conv_map'[c]
                      IN  /\ str'[s.i].conv = c /\ str'[s.i].phase # "none"
                          /\ ~s.task => str'[s.i].accept = "ended"
                          /\ ~s.stream_permit => str'[s.i].handle \notin {"none", "msg"}
    BY <1>5 DEF SessionOwned
  <2>1. conv_map[c].i \in Streams
    BY <1>0, TypeFacts
  <2>2. CASE conv_map[c].i = i
    BY <1>2, <1>4, <1>5, <1>6, <2>2 DEF SessionOwned
  <2>3. CASE conv_map[c].i # i
    <3>1. conv_map'[c] = conv_map[c] /\ str'[conv_map[c].i] = str[conv_map[c].i]
      BY <1>5, <1>6, <2>1, <2>3
    <3>2. QED
      BY <3>1 DEF SessionOwned
  <2>4. QED
    BY <2>2, <2>3
<1>13. StagesInOrder' /\ DroppedIsOver'
  BY <1>2, <1>4, <1>6 DEF StagesInOrder, DroppedIsOver
<1>14. MessagesTrue' /\ MessagesMatch'
  <2> SUFFICES ASSUME NEW k \in DOMAIN msg'
               PROVE  /\ msg'[k].conv = str'[msg'[k].i].conv
                      /\ msg'[k].conv \in DOMAIN conv_map \cup cache
                      /\ msg'[k].type = "Disconnect" => str'[msg'[k].i].phase = "ended"
                      /\ msg'[k].type = "Connect" => /\ str'[msg'[k].i].accept = "ended"
                                                     /\ str'[msg'[k].i].handle = "msg"
                      /\ msg'[k].conv \in DOMAIN conv_map => conv_map[msg'[k].conv].i = msg'[k].i
    BY <1>3, <1>5 DEF MessagesTrue, MessagesMatch
  <2>1. PICK l \in DOMAIN msg : l # 1 /\ msg'[k] = msg[l]
    BY RestMatches
  <2>2. msg[l].i \in Streams
    BY <1>0, TypeFacts
  <2>3. msg[l].type = "Connect" => msg[l].i # i
    BY <1>1, <2>1 DEF ConnectsOnce, i, m
  <2>4. QED
    BY <1>6, <2>1, <2>2, <2>3 DEF MessagesTrue, MessagesMatch
<1>15. ConnectsOnce' /\ DoneIsEmpty'
  BY RestMatches DEF DoneIsEmpty
<1>16. QED
  BY <1>9, <1>10, <1>11, <1>12, <1>13, <1>14, <1>15

(***************************************************************************)
(* Disconnect: the session that kill_session ends has a stream that can     *)
(* send no message any more.                                                *)
(***************************************************************************)
LEMMA DisconnectStep ==
    ASSUME IInv, msg # << >>, msg' = Tail(msg),
           Head(msg).type = "Disconnect", process_disconnect(Head(msg)),
           UNCHANGED <<dst, is_closing, cancelled, rx_closed, pkt>>, lp' \in {"top", "select"}
    PROVE  IInv'
<1> USE DEF IInv, ListenerInv
<1>0. TypeOK /\ LoopTyped /\ FlagsTyped /\ MapsTyped /\ msg \in Seq(Message) /\ str \in [Streams -> StreamState]
  BY TypeParts
<1> DEFINE m == Head(msg)
<1> DEFINE i == m.i
<1>1. 1 \in DOMAIN msg /\ m = msg[1] /\ msg' \in Seq(Message)
  BY <1>0, Taken
<1>2. /\ i \in Streams /\ m.conv \in Conv /\ m.conv = str[i].conv /\ str[i].phase = "ended"
      /\ m.conv \in DOMAIN conv_map => conv_map[m.conv].i = i
  BY <1>0, <1>1, TypeFacts DEF MessagesTrue, MessagesMatch
<1>3. str' = str
  BY DEF process_disconnect
<1>4. LoopTyped' /\ FlagsTyped'
  BY <1>0 DEF LoopTyped, FlagsTyped
<1>5. ConnectsOnce' /\ DoneIsEmpty' /\ StagesInOrder' /\ DroppedIsOver'
  BY <1>3, RestMatches DEF DoneIsEmpty, StagesInOrder, DroppedIsOver
<1>6. \A k \in DOMAIN msg' : \E l \in DOMAIN msg : msg'[k] = msg[l]
  BY RestMatches
<1>7. CASE m.conv \in DOMAIN conv_map
  <2> DEFINE t == conv_map[m.conv].sid
  <2>1. /\ AcceptEnded(conv_map[m.conv]) /\ cache' = cache \cup {m.conv}
        /\ sid_map' = Without(sid_map, t) /\ conv_map' = Without(conv_map, m.conv)
    BY <1>7 DEF process_disconnect, kill_session
  <2>2. ~Active(i)
    <3>1. str[i].accept = "ended"
      BY <1>0, <1>2, <1>7, <2>1, TypeFacts DEF AcceptEnded, SessionOwned
    <3>2. QED
      BY <1>2, <3>1 DEF Active
  <2>3. /\ DOMAIN sid_map' = DOMAIN sid_map \ {t}
        /\ \A u \in DOMAIN sid_map \ {t} : sid_map'[u] = sid_map[u]
        /\ DOMAIN conv_map' = DOMAIN conv_map \ {m.conv}
        /\ \A c \in DOMAIN conv_map \ {m.conv} : conv_map'[c] = conv_map[c]
    BY <2>1, WithoutFacts
  <2> HIDE DEF m, i
  <2>4. MapsTyped'
    BY <1>0, <1>2, <2>1, <2>3 DEF MapsTyped
  <2>5. TypeOK'
    BY <1>0, <1>1, <1>3, <1>4, <2>4 DEF TypeOK, LoopTyped, MapsTyped, FlagsTyped
  <2>6. MapsAgree'
    BY <1>7, <2>3 DEF MapsAgree
  <2>7. CacheApart' /\ ActiveHasSession' /\ SessionOwned'
    <3>1. \A j \in Streams : Active(j) => str[j].conv # m.conv
      BY <1>2, <1>7, <2>2 DEF ActiveHasSession
    <3>2. ActiveHasSession'
      BY <1>3, <2>3, <3>1 DEF ActiveHasSession, Active
    <3>3. SessionOwned'
      BY <1>3, <2>3 DEF SessionOwned
    <3>4. CacheApart'
      BY <2>1, <2>3 DEF CacheApart
    <3>5. QED
      BY <3>2, <3>3, <3>4
  <2>8. MessagesTrue' /\ MessagesMatch'
    <3>1. MessagesTrue'
      BY <1>3, <1>6, <2>1, <2>3 DEF MessagesTrue
    <3>2. MessagesMatch'
      BY <1>6, <2>3 DEF MessagesMatch
    <3>3. QED
      BY <3>1, <3>2
  <2>9. QED
    BY <1>5, <2>5, <2>6, <2>7, <2>8
<1>8. CASE m.conv \notin DOMAIN conv_map
  <2>1. UNCHANGED <<conv_map, sid_map, cache>>
    BY <1>8 DEF process_disconnect
  <2>2. TypeOK'
    BY <1>0, <1>1, <1>3, <1>4, <2>1 DEF TypeOK, LoopTyped, MapsTyped, FlagsTyped
  <2>3. MapsAgree' /\ CacheApart' /\ ActiveHasSession' /\ SessionOwned'
    BY <1>3, <2>1 DEF MapsAgree, CacheApart, ActiveHasSession, Active, SessionOwned
  <2>4. MessagesTrue' /\ MessagesMatch'
    BY <1>3, <1>6, <2>1 DEF MessagesTrue, MessagesMatch
  <2>5. QED
    BY <1>5, <2>2, <2>3, <2>4
<1>9. QED
  BY <1>7, <1>8

LEMMA MsgStep ==
    ASSUME IInv, process_msg,
           UNCHANGED <<dst, is_closing, cancelled, rx_closed, pkt>>, lp' \in {"top", "select"}
    PROVE  IInv'
  BY ConnectStep, DisconnectStep DEF process_msg

\* A closing listener ends when it has no message and no session.
LEMMA EndStep == ASSUME IInv, Top, lp' = "done" PROVE IInv'
<1> USE DEF IInv, ListenerInv
<1>0. TypeOK /\ LoopTyped /\ FlagsTyped /\ MapsTyped /\ msg \in Seq(Message) /\ str \in [Streams -> StreamState]
  BY TypeParts
<1>1. /\ msg = << >> /\ NoSession
      /\ UNCHANGED <<dst, is_closing, cancelled, rx_closed, pkt, conv_map, sid_map, cache, msg, str>>
  BY DEF Top
<1>2. TypeOK'
  BY <1>0, <1>1 DEF TypeOK
<1>3. MapsAgree' /\ MessagesMatch' /\ ConnectsOnce' /\ CacheApart' /\ DoneIsEmpty'
  BY <1>1 DEF MapsAgree, MessagesMatch, ConnectsOnce, CacheApart, DoneIsEmpty, NoSession
<1>4. ActiveHasSession' /\ SessionOwned' /\ StagesInOrder' /\ MessagesTrue' /\ DroppedIsOver'
  BY <1>1 DEF ActiveHasSession, Active, SessionOwned, StagesInOrder, MessagesTrue, DroppedIsOver
<1>5. QED
  BY <1>2, <1>3, <1>4

-----------------------------------------------------------------------------
LEMMA InvInit == Init => IInv
<1> SUFFICES ASSUME Init PROVE IInv
  OBVIOUS
<1>1. TypeOK
  BY TypeInit
<1>2. MapsAgree /\ MessagesMatch /\ ConnectsOnce /\ CacheApart /\ DoneIsEmpty /\ SessionOwned /\ MessagesTrue
  BY DEF Init, MapsAgree, MessagesMatch, ConnectsOnce, CacheApart, DoneIsEmpty, SessionOwned, MessagesTrue
<1>3. ActiveHasSession /\ StagesInOrder /\ DroppedIsOver
  BY DEF Init, ActiveHasSession, Active, StagesInOrder, DroppedIsOver
<1>4. QED
  BY <1>1, <1>2, <1>3 DEF IInv, ListenerInv

LEMMA InvNext == ASSUME Outlasted, IInv, [Next]_vars PROVE IInv'
<1>1. CASE Top
  <2>1. CASE process_msg /\ lp' = "select"
    BY <1>1, <2>1, MsgStep DEF Top
  <2>2. CASE lp' = "done"
    BY <1>1, <2>2, EndStep
  <2>3. CASE UNCHANGED <<msg, str>> /\ lp' = "select"
    <3>1. msg \in Seq(Message)
      BY TypeParts DEF IInv, ListenerInv
    <3>2. ~process_msg
      BY <2>3, <3>1 DEF process_msg
    <3>3. QED
      BY <1>1, <2>3, <3>2, QuietListener
  <2>4. QED
    BY <1>1, <2>1, <2>2, <2>3 DEF Top
<1>2. ASSUME NEW sid \in Sid, NEW conv \in Conv, NEW i \in Streams, get_session(sid, conv, i)
      PROVE  IInv'
  BY <1>2, SessionStep
<1>3. CASE Unblock \/ \E conv \in DOMAIN conv_map : KnownPacket(conv)
  BY <1>3, PacketStep
<1>4. CASE OtherPacket \/ EndBatch \/ SendPackets \/ SeeCancelled
  BY <1>4, QuietListener
<1>5. CASE ReceiveMsg
  BY <1>5, MsgStep DEF ReceiveMsg
<1>6. ASSUME NEW i \in Streams, StreamTasks(i) \/ accept(i) \/ Reserve(i) \/ Release(i)
      PROVE  IInv'
  BY <1>6, QuietStream, ReportStep, AcceptTaskStep, AcceptStep DEF StreamTasks
<1>7. ASSUME NEW conv \in Conv, Expire(conv) PROVE IInv'
  BY <1>7, ExpireStep
<1>8. CASE close
  BY <1>8, CloseStep
<1>9. CASE UNCHANGED vars
  <2>1. UNCHANGED <<lp, dst, is_closing, cancelled, rx_closed, conv_map, sid_map, cache, msg, pkt, str>>
    BY <1>9 DEF vars
  <2>2. TypeOK /\ TypeOK'
    BY <2>1 DEF IInv, ListenerInv, TypeOK
  <2>3. \A j \in Streams : SameStages(j)
    BY <2>1 DEF SameStages
  <2>4. QED
    BY <2>1, <2>2, <2>3, QuietStep
<1>10. QED
  BY <1>1, <1>2, <1>3, <1>4, <1>5, <1>6, <1>7, <1>8, <1>9 DEF Next, Listener

LEMMA InvAlways ==
    ASSUME Outlasted
    PROVE  Spec => []IInv
<1>1. IInv /\ [Next]_vars => IInv'
  BY InvNext
<1>2. QED
  BY InvInit, <1>1, PTL DEF Spec

(***************************************************************************)
(* If the quarantine of the ConvCache outlasts the messages of a session,   *)
(* then in every reachable state, whatever the number of clients, convs and *)
(* sessions, the maps are inverse to each other and a conv stands for one   *)
(* stream from get_session until the last message with it is taken.         *)
(***************************************************************************)
THEOREM ListenerInvariant ==
    ASSUME Outlasted
    PROVE  Spec => []ListenerInv
<1>1. IInv => ListenerInv
  BY DEF IInv
<1>2. Spec => []IInv
  BY InvAlways
<1>3. QED
  BY <1>1, <1>2, PTL

(***************************************************************************)
(* With that quarantine process_msg never applies a message of one stream   *)
(* to the session of another that was given the same conv.                  *)
(***************************************************************************)
THEOREM MessagesReachTheirSession ==
    ASSUME Outlasted
    PROVE  Spec => []MessagesMatch
<1>1. IInv => MessagesMatch
  BY DEF IInv
<1>2. Spec => []IInv
  BY InvAlways
<1>3. QED
  BY <1>1, <1>2, PTL

(***************************************************************************)
(* The listener drops the KcpStream of a Connect message only when the task *)
(* of the stream is over: the permit of get_session is always still there,  *)
(* with that quarantine.                                                    *)
(***************************************************************************)
THEOREM NoLiveStreamDropped ==
    ASSUME Outlasted
    PROVE  Spec => []DroppedIsOver
<1>1. IInv => DroppedIsOver
  BY DEF IInv
<1>2. Spec => []IInv
  BY InvAlways
<1>3. QED
  BY <1>1, <1>2, PTL

(***************************************************************************)
(* A listener that has ended leaves no stream task behind and no message    *)
(* unread, with that quarantine.                                            *)
(***************************************************************************)
THEOREM ClosedListenerIsOver ==
    ASSUME Outlasted
    PROVE  Spec => []ClosedIsOver
<1>1. IInv => ClosedIsOver
  <2> SUFFICES ASSUME IInv, lp = "done"
               PROVE  msg = << >> /\ \A i \in Streams : str[i].phase \in {"none", "ended"}
    BY DEF ClosedIsOver
  <2>1. str \in [Streams -> StreamState] /\ NoSession /\ msg = << >>
    BY TypeParts DEF IInv, ListenerInv, DoneIsEmpty
  <2>2. \A i \in Streams : ~Active(i)
    BY <2>1 DEF IInv, ListenerInv, ActiveHasSession, NoSession
  <2>3. \A i \in Streams : str[i].phase \in {"none", "run", "drain", "reset", "ended"}
    BY <2>1 DEF StreamState
  <2>4. QED
    BY <2>1, <2>2, <2>3 DEF Active
<1>2. Spec => []IInv
  BY InvAlways
<1>3. QED
  BY <1>1, <1>2, PTL
=============================================================================
