---------------------------- MODULE UdpListener ----------------------------
(***************************************************************************)
(* The listener of src/udp.rs: the Task that owns the UDP socket, conv_map, *)
(* sid_map and the conv cache; for every session it accepts the task of its *)
(* KcpStream, the accept_stream task that waits for the handshake and, when *)
(* the stream is over, the half-close task; and the application that        *)
(* accepts streams and closes the listener.                                 *)
(*                                                                          *)
(* A session id belongs to one client with one address; a packet with its   *)
(* conv or session id from another address is dropped like any other that   *)
(* has no session.                                                          *)
(*                                                                          *)
(* A conv or a session id may be used again, so each KcpStream has a number *)
(* of its own, i: the i-th session that this listener accepted.             *)
(***************************************************************************)
EXTENDS Naturals, Sequences, FiniteSets

CONSTANTS
    Conv,       \* the conversation numbers that rand_conv can draw
    Sid,        \* the session ids of the clients
    Backlog,    \* capacity of stream_tx
    Repeat,     \* RESET packets that half_close_timeout allows, at least one
    SndWnd,     \* config.snd_wnd: capacity of the channel to each session
    Outlasted,  \* the timeout of the ConvCache outlasts the messages of a session
    Holders,    \* the streams whose application reserves a place in advance
    Traffic,    \* bound: the streams whose channel is followed
    MaxStreams, \* bound: sessions accepted
    MaxPkt      \* bound: packets of running streams that wait in pkt_rx

ASSUME ListenerAssumption ==
    /\ Conv \subseteq Nat \ {0}
    /\ Backlog \in Nat \ {0} /\ Outlasted \in BOOLEAN
    /\ Repeat \in Nat \ {0} /\ SndWnd \in Nat \ {0}
    /\ Holders \subseteq 1 .. MaxStreams /\ Traffic \subseteq 1 .. MaxStreams
    /\ MaxStreams \in Nat
    /\ MaxPkt \in Nat

Streams == 1 .. MaxStreams

VARIABLES
    lp,          \* the loop of run: at its top, in select!, after a datagram,
                 \* in sender.send with no room, ended
    dst,         \* the stream whose sender is waited for
    is_closing,
    cancelled,   \* the token of the listener
    rx_closed,   \* stream_rx.close() was called
    conv_map,    \* conv -> Session, with its number
    sid_map,     \* session id -> conv
    cache,       \* the convs of the ConvCache that have not expired
    msg,         \* msg_rx
    pkt,         \* how many packets wait in pkt_rx
    str          \* the tasks and the handle of each stream

vars == <<lp, dst, is_closing, cancelled, rx_closed, conv_map, sid_map, cache, msg, pkt, str>>

Session == [i : Streams, sid : Sid, stream_permit : BOOLEAN, task : BOOLEAN]

Message == [type : {"Connect", "Disconnect"}, conv : Conv, i : Streams]

StreamState ==
    [ \* the task of the stream: running, draining its input, its RESET sent,
      \* its conv reported
      phase : {"none", "run", "drain", "reset", "ended"},
      conv : Conv \cup {0},
      connected : BOOLEAN,               \* Output::Connected was sent
      accept : {"none", "wait", "ended"},  \* the task of accept_stream
      \* the KcpStream: in a message, in stream_rx, accepted, dropped
      handle : {"none", "msg", "queue", "app", "dropped"},
      repeat : 0 .. Repeat,              \* RESET packets still to send
      chan : 0 .. SndWnd,                \* packets for it from the listener
      slot : BOOLEAN ]                   \* its PollSender holds a place

TypeOK ==
    /\ lp \in {"top", "select", "batch", "blocked", "done"} /\ dst \in 0 .. MaxStreams
    /\ is_closing \in BOOLEAN /\ cancelled \in BOOLEAN /\ rx_closed \in BOOLEAN
    /\ DOMAIN conv_map \subseteq Conv
    /\ \A c \in DOMAIN conv_map : conv_map[c] \in Session
    /\ DOMAIN sid_map \subseteq Sid
    /\ \A s \in DOMAIN sid_map : sid_map[s] \in Conv
    /\ cache \subseteq Conv
    /\ msg \in Seq(Message)
    /\ pkt \in Nat
    /\ str \in [Streams -> StreamState]

Without(f, x) == [y \in DOMAIN f \ {x} |-> f[y]]

With(f, x, v) == [y \in DOMAIN f \cup {x} |-> IF y = x THEN v ELSE f[y]]

Init ==
    /\ lp = "top" /\ dst = 0
    /\ is_closing = FALSE /\ cancelled = FALSE /\ rx_closed = FALSE
    /\ conv_map = << >> /\ sid_map = << >>
    /\ cache = {}
    /\ msg = << >> /\ pkt = 0
    /\ str = [i \in Streams |-> [phase |-> "none", conv |-> 0, connected |-> FALSE, accept |-> "none",
                                 handle |-> "none", repeat |-> 0, chan |-> 0, slot |-> FALSE]]

-----------------------------------------------------------------------------
(***************************************************************************)
(* process_msg.  Both messages name a session by its conv only.  Awaiting   *)
(* the accept_stream task of the session blocks the listener.               *)
(***************************************************************************)
AcceptEnded(s) == s.task => str[s.i].accept = "ended"

process_connect(m) ==
    /\ IF m.conv \in DOMAIN conv_map
       THEN LET s == conv_map[m.conv]
            IN  /\ AcceptEnded(s)
                /\ conv_map' = [conv_map EXCEPT ![m.conv].task = FALSE,
                                                ![m.conv].stream_permit = FALSE]
                /\ str' = [str EXCEPT ![m.i].handle = IF s.stream_permit THEN "queue" ELSE "dropped"]
       ELSE /\ str' = [str EXCEPT ![m.i].handle = "dropped"]
            /\ UNCHANGED conv_map
    /\ UNCHANGED <<sid_map, cache>>

\* Mutant: the conv can be drawn again at once.
KillNotCached(s, conv) ==
    /\ AcceptEnded(s)
    /\ sid_map' = Without(sid_map, s.sid)
    /\ UNCHANGED cache

\* Mutant: the session id stays.
KillKeepsSid(s, conv) ==
    /\ AcceptEnded(s)
    /\ cache' = cache \cup {conv}
    /\ UNCHANGED sid_map

kill_session(s, conv) ==
    /\ AcceptEnded(s)
    /\ cache' = cache \cup {conv}
    /\ sid_map' = Without(sid_map, s.sid)

process_disconnect(m) ==
    /\ IF m.conv \in DOMAIN conv_map
       THEN /\ kill_session(conv_map[m.conv], m.conv)
            /\ conv_map' = Without(conv_map, m.conv)
       ELSE UNCHANGED <<conv_map, sid_map, cache>>
    /\ UNCHANGED str

process_msg ==
    /\ msg # << >>
    /\ msg' = Tail(msg)
    /\ \/ Head(msg).type = "Connect" /\ process_connect(Head(msg))
       \/ Head(msg).type = "Disconnect" /\ process_disconnect(Head(msg))

-----------------------------------------------------------------------------
(***************************************************************************)
(* The loop of run.  At its top a closing listener takes one message, and   *)
(* ends when there is none and no session is left.                          *)
(***************************************************************************)
\* Mutant: the sessions that are left are not waited for.
NoSessionNeeded == TRUE

NoSession == DOMAIN conv_map = {}

Top ==
    /\ lp = "top"
    /\ UNCHANGED <<dst, is_closing, cancelled, rx_closed, pkt>>
    /\ \/ is_closing /\ process_msg /\ lp' = "select"
       \/ /\ is_closing /\ msg = << >> /\ NoSession
          /\ lp' = "done" /\ UNCHANGED <<conv_map, sid_map, cache, msg, str>>
       \/ /\ is_closing => msg = << >> /\ ~NoSession
          /\ lp' = "select" /\ UNCHANGED <<conv_map, sid_map, cache, msg, str>>

\* Places of stream_tx that are taken: streams that wait, and permits.
Reserved ==
    Cardinality({i \in Streams : str[i].handle = "queue"})
        + Cardinality({c \in DOMAIN conv_map : conv_map[c].stream_permit})

\* Mutant: no permit is kept for the time of the handshake.
NewSessionNoPermit(sid, i) == [i |-> i, sid |-> sid, stream_permit |-> FALSE, task |-> TRUE]

NewSession(sid, i) == [i |-> i, sid |-> sid, stream_permit |-> TRUE, task |-> TRUE]

\* The branch of transport.next(): datagrams, one after the other.
Receiving == lp \in {"select", "batch"}

(***************************************************************************)
(* A SYN packet of a client: get_session makes a session of it and spawns   *)
(* the two tasks of its stream, when it is new and a permit can be had.     *)
(* The packet is the first one in the channel of the stream.                *)
(***************************************************************************)
get_session(sid, conv, i) ==
    /\ Receiving
    /\ sid \notin DOMAIN sid_map
    /\ ~is_closing
    /\ ~rx_closed /\ Reserved < Backlog
    /\ conv \notin DOMAIN conv_map \cup cache
    /\ str[i].phase = "none" /\ \A j \in 1 .. i - 1 : str[j].phase # "none"
    /\ sid_map' = With(sid_map, sid, conv)
    /\ conv_map' = With(conv_map, conv, NewSession(sid, i))
    /\ str' = [str EXCEPT ![i].phase = "run", ![i].conv = conv, ![i].accept = "wait",
                           ![i].chan = IF i \in Traffic THEN 1 ELSE 0]
    /\ lp' = "batch"
    /\ UNCHANGED <<dst, is_closing, cancelled, rx_closed, cache, msg, pkt>>

\* The transport of a stream, with the receiver, goes to its half-close task.
ReceiverGone(i) == str[i].phase \in {"reset", "ended"} /\ str[i].repeat = 0

HasRoom(i) == ReceiverGone(i) \/ str[i].chan < SndWnd

\* sender.send fails when the receiver is gone.
Deliver(i) ==
    /\ str' = [str EXCEPT ![i].chan = IF ReceiverGone(i) THEN @ ELSE @ + 1]
    /\ lp' = "batch" /\ dst' = 0

\* A packet of a session, found by its conv or, if it is a SYN, its session id.
KnownPacket(conv) ==
    LET i == conv_map[conv].i
    IN  /\ Receiving /\ i \in Traffic
        /\ \/ HasRoom(i) /\ Deliver(i)
           \/ ~HasRoom(i) /\ lp' = "blocked" /\ dst' = i /\ UNCHANGED str
        /\ UNCHANGED <<is_closing, cancelled, rx_closed, conv_map, sid_map, cache, msg, pkt>>

Unblock ==
    /\ lp = "blocked"
    /\ HasRoom(dst) /\ Deliver(dst)
    /\ UNCHANGED <<is_closing, cancelled, rx_closed, conv_map, sid_map, cache, msg, pkt>>

\* A datagram that has no session and makes none.
OtherPacket ==
    /\ Receiving /\ lp' = "batch"
    /\ UNCHANGED <<dst, is_closing, cancelled, rx_closed, conv_map, sid_map, cache, msg, pkt, str>>

\* No further datagram is ready, or it was the last of LISTENER_TASK_LOOP.
EndBatch ==
    /\ lp = "batch" /\ lp' = "top"
    /\ UNCHANGED <<dst, is_closing, cancelled, rx_closed, conv_map, sid_map, cache, msg, pkt, str>>

\* The branch of pkt_rx, with try_send.
SendPackets ==
    /\ lp = "select" /\ pkt > 0
    /\ pkt' = 0 /\ lp' = "top"
    /\ UNCHANGED <<dst, is_closing, cancelled, rx_closed, conv_map, sid_map, cache, msg, str>>

\* The branch of msg_rx.
ReceiveMsg ==
    /\ lp = "select" /\ process_msg /\ lp' = "top"
    /\ UNCHANGED <<dst, is_closing, cancelled, rx_closed, pkt>>

SeeCancelled ==
    /\ lp = "select" /\ cancelled /\ ~is_closing
    /\ is_closing' = TRUE /\ lp' = "top"
    /\ UNCHANGED <<dst, cancelled, rx_closed, conv_map, sid_map, cache, msg, pkt, str>>

-----------------------------------------------------------------------------
(***************************************************************************)
(* The tasks of the i-th stream.                                            *)
(***************************************************************************)
Post(type, i) == msg' = Append(msg, [type |-> type, conv |-> str[i].conv, i |-> i])

StreamConnects(i) ==
    /\ str[i].phase = "run" /\ ~str[i].connected
    /\ str' = [str EXCEPT ![i].connected = TRUE]
    /\ pkt' = pkt + 1
    /\ UNCHANGED <<lp, dst, is_closing, cancelled, rx_closed, conv_map, sid_map, cache, msg>>

StreamSends(i) ==
    /\ str[i].phase = "run" /\ str[i].connected /\ pkt < MaxPkt
    /\ pkt' = pkt + 1
    /\ UNCHANGED <<lp, dst, is_closing, cancelled, rx_closed, conv_map, sid_map, cache, msg, str>>

\* Mutant: a stream that is over is not read.
ReadsWhileRunning(i) == str[i].phase = "run"

\* The stream takes the packets out of its channel, also while nobody reads
\* what it receives; its half-close task throws them away.
Reads(i) == str[i].phase = "run" \/ str[i].repeat > 0

StreamReads(i) ==
    /\ str[i].chan > 0 /\ Reads(i)
    /\ str' = [str EXCEPT ![i].chan = 0]
    /\ UNCHANGED <<lp, dst, is_closing, cancelled, rx_closed, conv_map, sid_map, cache, msg, pkt>>

\* Mutant: no half-close task is spawned.
NoHalfClose == 0

\* What create_task leaves to the half-close task: the pool that runs it is not
\* shut down before the listeners are closed (kcp_sys_shutdown, lib.rs).
HalfClose == Repeat - 1

\* create_task sends the first RESET packet.
SendReset(i) ==
    /\ str' = [str EXCEPT ![i].phase = "reset", ![i].repeat = HalfClose]
    /\ pkt' = pkt + 1

(***************************************************************************)
(* The loop of the stream ends, whatever the reason.  Draining the input    *)
(* lasts as long as a place in it is reserved; nobody reads the transport   *)
(* meanwhile.                                                               *)
(***************************************************************************)
StreamEnds(i) ==
    /\ str[i].phase = "run"
    /\ \/ ~str[i].slot /\ SendReset(i)
       \/ str[i].slot /\ str' = [str EXCEPT ![i].phase = "drain"] /\ UNCHANGED pkt
    /\ UNCHANGED <<lp, dst, is_closing, cancelled, rx_closed, conv_map, sid_map, cache, msg>>

StreamDrained(i) ==
    /\ str[i].phase = "drain" /\ ~str[i].slot
    /\ SendReset(i)
    /\ UNCHANGED <<lp, dst, is_closing, cancelled, rx_closed, conv_map, sid_map, cache, msg>>

StreamReports(i) ==
    /\ str[i].phase = "reset"
    /\ str' = [str EXCEPT ![i].phase = "ended"]
    /\ Post("Disconnect", i)
    /\ UNCHANGED <<lp, dst, is_closing, cancelled, rx_closed, conv_map, sid_map, cache, pkt>>

\* The interval of HalfClose::run ticks at once, and then every second, which
\* is when all that was ready has been done.  A listener that is still blocked
\* then waits for an application.
Ticks(i) ==
    /\ str[i].repeat > 0
    /\ str[i].repeat < Repeat - 1 => /\ str[i].phase = "ended" /\ str[i].accept = "ended"
                                     /\ lp \in {"select", "blocked", "done"}
                                     /\ lp = "select" => msg = << >> /\ pkt = 0
                                     /\ lp = "blocked" => str[dst].phase = "drain"

Tick(i) ==
    /\ Ticks(i)
    /\ str' = [str EXCEPT ![i].repeat = @ - 1]
    /\ pkt' = IF lp = "done" THEN pkt ELSE pkt + 1
    /\ UNCHANGED <<lp, dst, is_closing, cancelled, rx_closed, conv_map, sid_map, cache, msg>>

\* The stream may be over, and its session gone, when Connect is sent.
accept_stream(i) ==
    /\ str[i].accept = "wait"
    /\ \/ /\ str[i].connected
          /\ Post("Connect", i)
          /\ str' = [str EXCEPT ![i].accept = "ended", ![i].handle = "msg"]
       \/ /\ ~str[i].connected /\ str[i].phase = "ended"
          /\ str' = [str EXCEPT ![i].accept = "ended"]
          /\ UNCHANGED msg
    /\ UNCHANGED <<lp, dst, is_closing, cancelled, rx_closed, conv_map, sid_map, cache, pkt>>

-----------------------------------------------------------------------------
(***************************************************************************)
(* ConvCache::update.  The caller of listen chooses the timeout (120 s by   *)
(* default); it is Outlasted if no message still waits that has the conv.   *)
(***************************************************************************)
Expire(conv) ==
    /\ conv \in cache
    /\ Outlasted => \A k \in DOMAIN msg : msg[k].conv # conv
    /\ cache' = cache \ {conv}
    /\ UNCHANGED <<lp, dst, is_closing, cancelled, rx_closed, conv_map, sid_map, msg, pkt, str>>

accept(i) ==
    /\ str[i].handle = "queue"
    /\ str' = [str EXCEPT ![i].handle = "app"]
    /\ UNCHANGED <<lp, dst, is_closing, cancelled, rx_closed, conv_map, sid_map, cache, msg, pkt>>

\* The application reserves a place in the input of its stream, as poll_ready
\* does, and uses it or gives it up.
Reserve(i) ==
    /\ i \in Holders /\ str[i].handle = "app" /\ str[i].phase = "run" /\ ~str[i].slot
    /\ str' = [str EXCEPT ![i].slot = TRUE]
    /\ UNCHANGED <<lp, dst, is_closing, cancelled, rx_closed, conv_map, sid_map, cache, msg, pkt>>

Release(i) ==
    /\ str[i].slot
    /\ str' = [str EXCEPT ![i].slot = FALSE]
    /\ UNCHANGED <<lp, dst, is_closing, cancelled, rx_closed, conv_map, sid_map, cache, msg, pkt>>

\* close and drop cancel the token, then close stream_rx.
close ==
    /\ \/ ~cancelled /\ cancelled' = TRUE /\ UNCHANGED rx_closed
       \/ cancelled /\ ~rx_closed /\ rx_closed' = TRUE /\ UNCHANGED cancelled
    /\ UNCHANGED <<lp, dst, is_closing, conv_map, sid_map, cache, msg, pkt, str>>

Listener ==
    \/ Top
    \/ \E sid \in Sid, conv \in Conv, i \in Streams : get_session(sid, conv, i)
    \/ \E conv \in DOMAIN conv_map : KnownPacket(conv)
    \/ OtherPacket \/ EndBatch \/ Unblock
    \/ SendPackets
    \/ ReceiveMsg
    \/ SeeCancelled

StreamTasks(i) ==
    \/ StreamConnects(i)
    \/ StreamSends(i) \/ StreamReads(i)
    \/ StreamEnds(i) \/ StreamDrained(i)
    \/ StreamReports(i)
    \/ Tick(i)
    \/ accept_stream(i)

Next ==
    \/ Listener
    \/ \E i \in Streams : StreamTasks(i) \/ accept(i) \/ Reserve(i) \/ Release(i)
    \/ \E conv \in Conv : Expire(conv)
    \/ close

Spec == Init /\ [][Next]_vars

(***************************************************************************)
(* Fairness: select! picks at random among the branches that are ready, so  *)
(* none waits for ever, and a batch of datagrams has an end; a stream whose *)
(* token is cancelled (the tokens of the sessions are children of the       *)
(* listener's) leaves its loop; the other steps are those of tasks that are *)
(* ready to run.  No datagram need come, no stream need connect, nobody     *)
(* need accept it or close the listener.                                    *)
(***************************************************************************)
Fairness ==
    /\ WF_vars(Top) /\ SF_vars(EndBatch) /\ WF_vars(Unblock)
    /\ SF_vars(SendPackets) /\ SF_vars(ReceiveMsg) /\ SF_vars(SeeCancelled)
    /\ \A i \in Streams :
          /\ WF_vars((cancelled \/ str[i].handle = "dropped") /\ StreamEnds(i))
          /\ WF_vars(StreamReads(i)) /\ WF_vars(StreamDrained(i)) /\ WF_vars(StreamReports(i))
          /\ WF_vars(accept_stream(i))
          /\ SF_vars(Tick(i))

FairSpec == Spec /\ Fairness

-----------------------------------------------------------------------------
(***************************************************************************)
(* conv_map and sid_map are inverse to each other: a SYN packet that comes  *)
(* again finds the session of its client, and never makes a second one.     *)
(***************************************************************************)
MapsAgree ==
    /\ \A s \in DOMAIN sid_map :
          sid_map[s] \in DOMAIN conv_map /\ conv_map[sid_map[s]].sid = s
    /\ \A c \in DOMAIN conv_map :
          conv_map[c].sid \in DOMAIN sid_map /\ sid_map[conv_map[c].sid] = c

(***************************************************************************)
(* Messages carry a conv, not a session, and convs are drawn again: no      *)
(* message of a stream that is gone ever finds the session of another one   *)
(* (the conv cache, as long as it keeps the conv while a message has it,    *)
(* and kill_session awaiting the accept_stream task).                       *)
(***************************************************************************)
MessagesMatch ==
    \A k \in DOMAIN msg :
        msg[k].conv \in DOMAIN conv_map => conv_map[msg[k].conv].i = msg[k].i

(***************************************************************************)
(* A stream that has connected reaches the application, backlog or not: the *)
(* listener drops one only when its task is over (get_session takes the     *)
(* permit before the handshake).                                            *)
(***************************************************************************)
DroppedIsOver ==
    \A i \in Streams : str[i].handle = "dropped" => str[i].phase = "ended"

(***************************************************************************)
(* When the listener is closed every session it accepted is over: no stream *)
(* task is left with a channel to it.                                       *)
(***************************************************************************)
ClosedIsOver ==
    lp = "done" => /\ \A i \in Streams : str[i].phase \in {"none", "ended"}
                   /\ msg = << >>

(***************************************************************************)
(* The inductive invariant behind MapsAgree and the three above.            *)
(***************************************************************************)
\* The stream may still send a message to the listener.
Active(i) == str[i].phase \in {"run", "drain", "reset"} \/ str[i].accept = "wait"

\* A stream has a session as long as it may send messages.
ActiveHasSession ==
    \A i \in Streams :
        Active(i) => str[i].conv \in DOMAIN conv_map /\ conv_map[str[i].conv].i = i

\* What a session knows of its stream.
SessionOwned ==
    \A c \in DOMAIN conv_map :
        LET s == conv_map[c]
        IN  /\ str[s.i].conv = c /\ str[s.i].phase # "none"
            /\ ~s.task => str[s.i].accept = "ended"
            /\ ~s.stream_permit => str[s.i].handle \notin {"none", "msg"}

\* The stages of a stream follow each other.
StagesInOrder ==
    \A i \in Streams :
        /\ str[i].phase = "none" => str[i].accept = "none"
        /\ str[i].phase # "none" => str[i].conv \in Conv
        /\ str[i].accept # "ended" => str[i].handle = "none"

\* What a message says is so, and its conv has not been drawn again.
MessagesTrue ==
    \A k \in DOMAIN msg :
        LET m == msg[k]
        IN  /\ m.conv = str[m.i].conv /\ m.conv \in DOMAIN conv_map \cup cache
            /\ m.type = "Disconnect" => str[m.i].phase = "ended"
            /\ m.type = "Connect" => str[m.i].accept = "ended" /\ str[m.i].handle = "msg"

ConnectsOnce ==
    \A k, l \in DOMAIN msg :
        msg[k].type = "Connect" /\ msg[l].type = "Connect" /\ msg[k].i = msg[l].i => k = l

CacheApart == cache \cap DOMAIN conv_map = {}

DoneIsEmpty == lp = "done" => NoSession /\ msg = << >>

(***************************************************************************)
(* The types, MapsAgree (get_session and kill_session, udp.rs), and that a  *)
(* conv stands for one stream from the time it is drawn until the last      *)
(* message with it is taken.                                                *)
(***************************************************************************)
ListenerInv ==
    /\ TypeOK
    /\ MapsAgree
    /\ ActiveHasSession /\ SessionOwned /\ StagesInOrder
    /\ MessagesTrue /\ ConnectsOnce
    /\ CacheApart
    /\ DoneIsEmpty

-----------------------------------------------------------------------------
\* The applications do not keep a place that they have reserved for ever.
Released == \A i \in Holders : []<>~str[i].slot

(***************************************************************************)
(* The listener awaits room in the channel of one session while all others  *)
(* wait for it: it gets on, whatever that session does, in its handshake,   *)
(* with an application that does not read, or half closed.                  *)
(***************************************************************************)
GetsUnblocked == Released => []<>(lp # "blocked")

(***************************************************************************)
(* A listener that is told to close ends: close().await of the application  *)
(* returns.                                                                 *)
(***************************************************************************)
CloseReturns == Released => <>[](cancelled => lp = "done")
=============================================================================
