# A TLA+ model of kcp-rs

kcp-rs is the KCP automatic-repeat-request engine in C (`kcp/ikcp.c`), a Rust
wrapper of it (`src/protocol.rs`), an asynchronous stream with handshakes on top
(`src/stream.rs`) and a UDP listener that accepts such streams (`src/udp.rs`).
This directory specifies these parts in TLA+, checks them with TLC on small
instances and proves the safety properties of every module with TLAPS for all
sizes, seven of them under hypotheses that section 5 names.

## 1. The system

| component | state | operations | talks to |
|---|---|---|---|
| ARQ engine, `kcp/ikcp.c` | `IKCPCB`: send and receive queues and buffers, `snd_una`, `snd_nxt`, `rcv_nxt`, remote window, acknowledgements, probe and retransmission timers | `ikcp_send`, `ikcp_recv`, `ikcp_input`, `ikcp_flush`, `ikcp_update`, `ikcp_check` | its owner, by calls and an output callback |
| wrapper, `src/protocol.rs` | an `IKCPCB` and a queue of output packets | `Kcp::send`, `input`, `recv_bytes`, `flush`, header access | engine and task |
| stream task, `src/stream.rs` (`Task`) | handshake state, four flags, one frame that waits (`tx_frame`), its `Kcp` | one `select!` loop: input channel, output channel, transport, timer, cancellation | the stream by two bounded channels and a token; the peer by packets; the listener by `disconnect` |
| stream, `src/stream.rs` (`KcpStream`) | channel ends, token, rest of a frame | connect, accept, send, receive, shut down, close, drop | its task |
| listener, `src/udp.rs` (`Task`) | `conv_map`, `sid_map`, message and packet queues, `is_closing` | `get_session`, `process_msg`, `kill_session` in one `select!` loop | socket, stream tasks, `accept_stream` tasks, application |
| conv cache, `src/conv.rs` | map from conv to time of death | `allocate`, `add`, `fill`, `dump`, `update` | listener |
| half-close pool, `src/halfclose.rs` | a token, a counter, one task per closed stream | `create_task`, `shutdown`, repeated RESET packets | transport of a closed stream |
| transports, `src/transport/` | none of their own but the peer's address | `Sink` and `Stream` over a socket or a channel; `UdpStream` drops packets of other addresses | stream task, listener |
| configuration, FFI | none of their own | | |

What is hard here: datagrams are lost, repeated and reordered while both
directions share headers (`una`, window) with data; a window can close and the
message that reopens it be lost; a stream task chooses at random among ready
branches, so handshake packets, a full output channel and a closing application
interleave in every order; closing has four independent causes (FIN, RESET,
timeouts, cancellation); the listener gets messages that name a session only by
a number that is used again; a client learns the number of its session only
from packets, which may be those of an earlier session; times are 32-bit and
wrap; and everything must end.

What makes each part correct:

- engine: only what is stored is acknowledged; bytes are read in order, once;
  frames keep their limits in message mode; windows are respected and never
  deadlock; under fair loss everything is read and acknowledged;
- stream task: exactly the data frames reach the reader; a FIN follows all data
  and is recognised in its packet; no frame is left behind in a waiting task; no
  timeout is early or slept through; a task without a peer ends; a complete FIN
  handshake loses nothing (this one does not hold, see 4);
- stream handle: bytes are written and read once and in order, whichever traits
  are mixed; `close` returns;
- connecting: a client connects only to a session that answered it, and neither
  side takes frames of connections that are gone (for the client this holds only
  in part, see 4);
- listener: its two maps agree; messages reach only their own session; a
  connected stream is never dropped alive; one session cannot hold it up for
  ever; a close ends and leaves nothing;
- conv cache: it holds exactly the convs in quarantine, also when it is filled from
  the `dump` of another;
- half-close pool: `shutdown` returns, and not before the last RESET task.

## 2. Modules

| module | models | notes |
|---|---|---|
| `Ikcp` | `kcp/ikcp.c` as operators on a control block | no state |
| `KcpArq` | two control blocks and the network between them | actions `Send`, `Flush`, `Input`, `Recv` are the calls of `Kcp` |
| `KcpPipe` | what one direction promises its users | abstract |
| `KcpStream` | both tasks and both streams of a connection | over two pipes |
| `KcpPacket` | the FIN and RESET bits in packets, `kcp_output` to `kcp_input` | operators; `KcpStream` instantiates it |
| `KcpTimer` | the clocks of one task: `ikcp_update`, `ikcp_check`, timeouts | |
| `KcpStreamIo` | the `KcpStream` handle: four I/O traits and `close` | |
| `KcpConnect` | clients and listeners whose addresses and convs are used again | with `UdpStream` |
| `UdpListener` | listener, the tasks and channels of each session | |
| `ConvCache` | `src/conv.rs`, shared by two listeners | |
| `HalfClosePool` | `src/halfclose.rs` and the callers of `shutdown` | |
| `MCKcpArq`, `MCKcpStream`, `MCKcpConnect` | constants and symmetry of the runs | |
| `KcpArqProofs`, `KcpStreamProofs`, `KcpTimerProofs`, `KcpStreamIoProofs`, `KcpConnectProofs`, `UdpListenerProofs`, `ConvCacheProofs`, `HalfClosePoolProofs` | theorems about the module each is named after | TLAPS, see 5 |

`KcpPipe` stands between the engine and the stream. `KcpArq` implements it
(property `ImplementsPipe`), and `KcpStream` moves its two directions only by
steps that it allows (property `UsesPipes`); both are checked and proved. Together
they say that the two modules agree on what a direction can do, not that `KcpArq`
may be put in the place of the pipes of `KcpStream`: that would need the converse,
that every step of a pipe is also one of `KcpStream`. The other modules look at one
part of the same task or listener in more detail and leave the rest to free choices:
`KcpTimer` decides when the timers of `KcpStream` may fire, `KcpStreamIo` is its
application, `KcpConnect` the routing that `UdpListener` takes as given, and
`ConvCache` and `HalfClosePool` the services that `UdpListener` uses.

**Ikcp, KcpArq.** Payload bytes are numbered; a segment's data is an interval of
numbers with its fragment count. Lists sorted by sequence number are functions.
Whether a timer has expired, whether fast resend applies, and the congestion
window (at least 1, as after the first `ikcp_update`) are free arguments of
`ikcp_flush`, so every retransmission policy of the code is included. A datagram
is handled segment by segment in the code, so the wire carries segments; the
network is a set from which a message may be delivered any number of times or
never. `sent`, `log`, `dlv` and `reads` are history. The window is written in 16
bits, as in the header. Sequence numbers are naturals: the 32-bit wrap is not
modelled.

**KcpStream.** Frames are numbered from 1, the SYN. `pc = "batch"` is the receive
loop inside one turn of `select!`, so that several packets are applied before
`fin_transit_state` and `kcp_recv` run, as in the code. `told` is the highest
`una` the end has put on the wire. A frame of the `Sink` may be too big, and is
refused, or empty, and is passed over (`process_input`); `sent` counts those that
were neither, and `EventuallyDelivered` and `FinAfterAllStored` are about them. A
frame that `ikcp_send` accepts is one number here, whatever its segments; what a
refused one leaves behind in stream mode is finding 4 of section 4. A `una` may arrive without
the FIN of the same flush (`DataPacket`), though the code puts both into one
datagram; with one more `update` of the peer they come apart in the code, too.
Packets that change nothing are left out. The
peer's packets may arrive after it has ended. Dead link, session expiry and a
failing transport end the loop in the same way and are one action.

**KcpPacket.** A packet is a sequence of segments with `cmd` and length. FIN and
RESET are bits of the `cmd` of the first one, so that `ikcp_input` refuses the
packet; `kcp_input` then clears the bit and inputs it again. Each handshake state
is checked with all packets that `ikcp_flush` can make of two acknowledgements,
both probes and two data segments.

**KcpTimer.** The clock is a number modulo `Modulus`, 2^32 in the code; what the
code computes with it (`itimediff`, `wrapping_sub`, the cast to `i32`) is kept.
`real` holds the true distances, which the properties are about. Time passes in
the sleep of `select!`, while the transport is not ready for what a flush has to
send (the segment, acknowledgements or probes), and while the loop spins. One
segment in flight is enough: `ikcp_check` takes the minimum.

**KcpStreamIo.** Bytes are numbered in both directions; `queued` is what has ever
entered the input channel. The `PollSender` has its
states (idle, acquiring, ready, closed), because the slot it reserves counts as a
sender for `recv`. Each chunk of `poll_write` is a step, for the task runs on
another thread. Of the task there are only the ends of the channels. `poll_close`
may be called at any time, also with a slot that is reserved and not used, in which
case it does not return (finding 6); `CloseReturns` is about all the others.

**KcpConnect.** A packet that was sent may come any number of times, or never. Clients
are numbered in the order of their `connect`; a client has an
address and a server, a session has an address, a conv and the session id of its
client; `syn` and `frame` are what the `Kcp` has stored as segments 0 and 1, so
that a stale segment that arrives first keeps its place, as in `ikcp_parse_data`.
`Expire` takes a conv out of the cache, so that it can be drawn again. What is then
left of it is the caller's choice: `listen` accepts a `ConvCache` with any timeout
(`udp.rs:41`). The constant `Outlasted` says that the timeout was long enough: no
client still has the conv and no packet with it is in the network. By
default a conv stays in the cache for 120 seconds, and a client that hears nothing
more from its session ends with a RESET, with the dead link or after the 90 seconds
of `session_expire`; that this leaves its datagrams enough time is an assumption.
`NoPastFrames` needs it and says so; the other two properties of
the module do not.

**UdpListener.** `i` numbers the streams, because convs and session ids are used
again. `Top` is the head of the loop, the other listener actions the branches of
`select!`; awaiting an `accept_stream` task is a guard; `lp = "blocked"` is
`sender.send` with no room. The channel is followed for the streams in `Traffic`.
The first tick of a half-close task comes at once, the later ones a second apart,
when all that was ready has run. A conv leaves the cache at any time, unless
`Outlasted`: then not while a message with it is queued, which the default timeout
of 120 seconds stands for; `listen` accepts any (`udp.rs:41`, `udp.rs:180`), and
with one that is shorter than the queue of messages is long `ListenerInv` is violated
(`UdpListener.cfg` with `Outlasted = FALSE`). The pool that sends the RESET packets is
in use while the listener closes, as `lib.rs:27` asks for; one that was shut down
before sends one packet and no more (`halfclose.rs:67`), which is the case of
`Repeat = 1` and of finding 2. A datagram that is refused changes
nothing but wakes the listener up (`OtherPacket`); the end of the transport
(`udp.rs:217`) never comes, for `UdpFramed` has none.

**ConvCache.** The map is the sequence of its entries, oldest first; each
operation runs under the mutex and is a step. `Restart` is an owner that gives
`dump` of the old cache to `fill` of a new one; nothing is kept by the code itself.
`died` is history.

**HalfClosePool.** Each atomic operation on the counter, the token and the
`Notify` is a step; `permit` is the one permit that `notify_one` leaves behind
when nobody waits.

## 3. Runs

| run | bounds | shows |
|---|---|---|
| `KcpArqMessage` | frames of 1, 2 and 4 segments (4 is refused), windows 2 and 3, up to 2 segments in flight one way | types, `AckedIsStored`, `InOrderDelivery`, `FramesPreserved`, `FullQueueReadable`, `BuffersBounded` |
| `KcpArqStream` | segments of 2 bytes filled by writes of 1 and 2, 3 bytes, 2 acknowledgements that overtake each other | `WriterInv`, the inductive invariant `ArqInv`, `ProgressKept`, `ImplementsPipe` |
| `KcpArqLive` | 3 segments through a window of 2 | `EventuallyRead`, `EventuallyAcked` |
| `KcpStream` | 2 frames, each of which may be refused or empty, and both handshakes, channels of 1, all ways to end, packets of up to 2 acknowledgements, both probes and 2 data segments | `StreamInv` (`OnlyDataDelivered` and what it rests on), `FinAfterAllStored`, `NoStrandedFrame`, `PacketsUnderstood`, `UsesPipes`, `EventuallyDelivered`, `ClosingEnds` |
| `KcpStreamLoss` | 3 frames, no abrupt end | violation, see 4 |
| `UdpListener` | `Outlasted`, 2 streams over 1 conv and 2 clients, backlog 1, channel of 1, 3 RESET packets, an application that reserves a slot | `ListenerInv` (`MapsAgree`, and that a conv stands for one stream), `MessagesMatch`, `DroppedIsOver`, `ClosedIsOver`, `GetsUnblocked`, `CloseReturns` |
| `UdpListenerHang` | 1 stream, 1 RESET packet | violation, see 4 |
| `HalfClosePool` | 3 streams with 2 RESET packets each, 1 caller | `PoolInv` (`NoLostWakeup`, and that the counter is exact), `ReturnsDrained`, `ShutdownReturns` |
| `ConvCache` | 3 convs, one of them invalid, 2 listeners, timeout 2, 4 ticks | `CacheInv` (`CacheExact` and the order of the map), `NotDrawnEarly` |
| `KcpTimer` | a clock that wraps after 28 ticks, interval 2, resend after 3, timeouts 4, expiry 5, a transport that blocks for 3 | `TimerInv` (`TimeoutNotSlept`, `ExpiresInTime` and the clocks), `RetransmitsInTime`, `NothingEarly`, `OrphanEnds` |
| `KcpStreamIo` | 5 bytes out in frames of 2, 3 bytes in, channels of 2 | `IoInv` (`WrittenOnce`, and that a reserved slot is free), `ReadOnce`, `CloseReturns` |
| `KcpConnect` | 2 clients at one address, 2 listeners, 2 convs, `Outlasted`, 9 packets in the network | `ConnectInv` (`NoPastFrames` and what it rests on), `ConnectedAfterReply`, `ClientFrames` |

The invariants whose names end in `Inv` are the inductive ones of section 5, so
each run also checks on a small instance what the proof goes by; each contains
the types of its module.

Why the bounds suffice: the engine's cases are a segment in order, early, late or
repeated, a full queue and a closed window, and all occur with windows of 2 and 3
segments; out-of-order arrival needs two segments in flight, which the safety
runs have. In the connection, a channel of one place and two data frames give a
full channel with a frame waiting and another behind it. Two sessions over one
conv give a conv that is drawn again while a message of its former owner waits.
The clock of `KcpTimer` wraps several times in every behaviour that lasts, and
the constants keep the order that the defaults have (interval below resend below
timeouts below half the range). Five bytes give `poll_write` three chunks for a
channel of two. Two clients at one address are one that restarts. Nine packets
(`FewPackets`) are all that one connection sends and half of those of the next.

`KcpStream`, `UdpListener`, `HalfClosePool` and `KcpConnect` really stop, so their
runs do not check deadlock; the others do. In `KcpConnect` the convs and the
listeners are symmetric; no liveness is checked there.

Fairness. `KcpArq`: the owner keeps calling `Kcp::update` and reads what is
there; a message in flight arrives; and what an end keeps sending is not lost for
ever (strong fairness for each segment, probe, acknowledgement and window
message). `KcpStream`: tokio runs ready branches; what a running peer repeats
arrives, a FIN until it is acknowledged; timers expire; a link without a peer
dies; the reader reads. No RESET need arrive and nobody need write or close.
Behaviours are finite there, so weak fairness of the disjunction is enough, and
`<>[]` says what `~>` would.
`UdpListener`: strong fairness of each branch, because `select!` picks at random;
weak fairness of task steps; no datagram need ever come. Both of its liveness
properties assume `Released`: an application that reserves a slot of its stream
(`poll_ready`) uses or drops it. One that never does keeps the ending task from
draining its input, and if the channel of that session is full it holds up the
listener and with it all sessions. `HalfClosePool`: ready tasks run; a send ends
once the token is cancelled, and before that a transport may block for ever.
`KcpTimer`: the loop runs, time passes and a transport is ready in the end.
`KcpStreamIo`: the task sees the token and drains; nobody need read or write.
`CloseReturns` has no assumption there but the one in it, that no slot is reserved.

## 4. What the checks found

1. **A graceful close can lose a received frame** (`KcpStreamLoss`). The test
   that ends the FIN handshake (`stream.rs:693`) does not count `tx_frame`, which
   is dropped at `stream.rs:540`. An end in `FinWaitPeer` that has taken a frame for
   its reader gets the FIN of its peer, which is still in `FinSent`, before it has
   passed the frame on. The output channel need not be full: `select!` only has to
   pick the branch of the transport before that of the output.
2. **`close` of a listener can hang** (`UdpListenerHang`). The last `Disconnect`
   taken by `try_recv` (`udp.rs:200`) leaves `select!` with nothing to wait for.
   With a half-close timeout of less than 3 seconds no RESET packet need come
   later to wake it; with the default of 5 it returns up to a second late.

The following have a configuration too, beside those of the runs, in which TLC
shows in at most a few seconds that the one property it names does not hold
(`tlc -config KcpTimerSpin.cfg KcpTimer`, and likewise for the others):

| configuration | module | property |
|---|---|---|
| `KcpStreamFin.cfg` | `MCKcpStream` | `OnlyFinDropped` |
| `KcpArqRefused.cfg` | `MCKcpArq` | `InOrderDelivery` |
| `KcpTimerSpin.cfg` | `KcpTimer` | `NoSpin` |
| `KcpStreamIoReserved.cfg` | `KcpStreamIo` | `AlwaysCloses` |
| `KcpConnectStale.cfg` | `MCKcpConnect` | `OwnFramesOnly` |
| `KcpConnectReset.cfg` | `MCKcpConnect` | `ConnectedToOwn` |
| `HalfClosePoolTwice.cfg` | `HalfClosePool` | `ShutdownReturns` |

3. **A data frame can be taken for the FIN frame** (`KcpStreamFin`). The flag of a FIN
   packet is seen (`stream.rs:790`) also when its segment is beyond the receive window
   and `ikcp_input` drops it. `kcp_recv` then takes the last data frame, alone in the
   queue, for the FIN frame (`stream.rs:746`) and discards it. It takes a reader that
   is a whole window behind and a sender that goes by old window advertisements.
4. **A refused frame is partly sent** (`KcpArqRefused`). In stream mode
   `ikcp_send` fills up the last queued segment before it refuses the rest
   (`ikcp.c:478-510`). `poll_write` never offers such a frame, the `Sink` can.
5. **The loop of a task can spin** (`KcpTimerSpin`). `ikcp_check` returns the
   current time for a segment whose resend is due, `ikcp_update` flushes only at
   `ts_flush`, and `run` calls it again without an await (`stream.rs:442`) for up
   to an interval; meanwhile neither packets nor the token are seen.
6. **`close` with a reserved slot waits for itself** (`KcpStreamIoReserved`).
   `poll_close` (`stream.rs:214`) closes the `PollSender` without `abort_send`;
   after a `poll_ready` whose slot was not used, `recv` of the draining task
   (`stream.rs:545`) never returns `None`, and `close` waits for the task.
   `shutdown_immediately` does call `abort_send`.
7. **A stale frame in the SYN handshake** (`KcpConnectStale`). In `Syn` a client
   inputs packets of every conv from its server's address (`stream.rs:623`). If
   the port was used before for the same server, segment 1 of the old session may
   be stored, and once the new session's SYN frame has come the application reads
   it as data of the new connection.
8. **`Restore conv if failed` restores another conv** (`KcpConnectReset`).
   `stream.rs:628` sets `SYN_CONV` and not the conv the `Kcp` had. A RESET of an
   earlier session in the same batch after the server's answer leaves a client
   `Connected` that ignores every packet of its session.
9. **Two callers of `shutdown`** (`HalfClosePoolTwice`). `notify_one` wakes one of
   them, the other waits for ever (`halfclose.rs:78`). One caller is safe.

Also met, without a check: an end that has reached `FinWaitPeer` with the peer's
FIN frame still queued is not looked at again (`stream.rs:646`), so two ends can
wait for `shutdown_timeout`; `half_close_timeout` 0, documented as "0 to disable",
still sends one RESET (`halfclose.rs`, `.max(1)`); `get_system_time() + timeout`
(`stream.rs:394`) is an unchecked addition that panics in debug builds when the
clock is about to wrap; a session key longer than one segment would make a FIN
frame that `kcp_recv` does not recognise.

## 5. Proofs

Each theorem holds for every value of the constants that the assumptions of its
module allow (`IkcpAssumption`, `ArqAssumption`, `StreamAssumption` and so on:
sizes are positive, sets of names do not overlap, times fit into half the range of
the clock). TLC evaluates them in every run.

| module | theorem | states |
|---|---|---|
| `KcpArqProofs` | `TypeCorrect` | `[]TypeOK` |
| | `ArqInvariant`, `NothingAckedIsLost` | `[]ArqInv`, `[]AckedIsStored` |
| | `WriterInvariant`, `DeliveryInOrder` | `[]WriterInv`, `[]InOrderDelivery`, if `FramesFit` |
| | `BuffersWithinWindows`, `FullQueueHasFrame` | `[]BuffersBounded`, `[]FullQueueReadable` |
| | `FramesReadAsWritten` | `[]FramesPreserved` |
| | `NothingTakenBack` | `ProgressKept` |
| | `DirectionsArePipes` | `ImplementsPipe` |
| `KcpStreamProofs` | `FramesInOrder` | `[]StreamInv` |
| | `NothingStranded`, `StoredBeforeFin` | `[]NoStrandedFrame`, `[]FinAfterAllStored` |
| | `TasksUsePipes` | `UsesPipes` |
| | `PacketsAreUnderstood` | `[]PacketsUnderstood` |
| `KcpTimerProofs` | `TimerInvariant` | `[]TimerInv` |
| | `RetransmissionNotSlept`, `NothingBeforeItsTime` | `[]RetransmitsInTime`, `NothingEarly` |
| `KcpStreamIoProofs` | `BytesWrittenOnce`, `BytesReadOnce` | `[]IoInv`, `[]ReadOnce` |
| `KcpConnectProofs` | `SessionsTakeNoPastFrames` | `[]ConnectInv` |
| | `ConnectedByOwnReply`, `FramesOfOwnListener` | `[]ConnectedAfterReply`, `[]ClientFrames` |
| `UdpListenerProofs` | `ListenerInvariant`, `MessagesReachTheirSession` | `[]ListenerInv`, `[]MessagesMatch`, if `Outlasted` |
| | `NoLiveStreamDropped`, `ClosedListenerIsOver` | `[]DroppedIsOver`, `[]ClosedIsOver`, if `Outlasted` |
| `ConvCacheProofs` | `CacheInvariant`, `QuarantineKept` | `[]CacheInv`, `NotDrawnEarly` |
| `HalfClosePoolProofs` | `PoolInvariant` | `[]PoolInv`, if `OneCaller` |
| | `DrainedReturn` | `ReturnsDrained` |

Seven theorems have a hypothesis beside the assumptions, and TLC shows that each is
needed: `FramesFit`, that no offered frame is one that finding 4 is about
(`KcpArqRefused.cfg`); `OneCaller`, that `shutdown` has one caller
(`HalfClosePoolTwice.cfg`); and `Outlasted`, that the quarantine of a conv is longer
than the messages of the listener that name it are queued (`UdpListener.cfg` with
`FALSE`). In `KcpConnect` `Outlasted` is part of the invariant: only what depends on
it is under it.

The inductive invariants, and why the properties need them:

- **KcpArq.** `AckedIsStored` is not inductive: an acknowledgement in flight or
  about to be sent may free a segment later, and a segment in flight may be stored
  later. `ArqInv` adds, for each direction, that `log`, the payload given to each
  number, agrees with the sender's buffer (`SenderInv`), with what is in flight
  (`PushInv`), with the receiver's buffer (`ReceiverInv`) and with what was read
  followed by what is queued (`DeliveredInv`), and that whatever is or will be
  acknowledged is held (`AckInv`). Each action touches one end, as a sender of one
  direction and a receiver of the other; one lemma for each role says what it
  keeps. `WriterInv` says that numbered and queued segments are consecutive
  intervals ending at the last accepted byte; with `DeliveredInv` it gives
  `InOrderDelivery`. `BuffersBounded` is inductive with the types alone.
  `ProgressKept` and the refinement are shown call by call: each operation of
  `ikcp.c` only advances the numbers of its control block (`Advance`), and that
  advance is a step of `KcpPipe`, whose acknowledged numbers are bounded by the
  stored ones because of `ArqInv`.
  The two properties about frames each need to know how `frg` numbers the segments
  on the writer's side, because `DeliveredInv` makes what is queued at the receiver
  a part of what was written. `SizesInv` says that no segment is empty and that none
  has a `frg` of `WndRcv` or more: so a queue as long as the smallest window holds
  all the segments of its first frame, and the size that `ikcp_peeksize` adds up is
  not 0. `FramesInv` says that `frg` counts down to 0 at the end of each accepted
  frame and is 0 nowhere else, and that what was read ends with a frame: the
  segments that `ikcp_recv` merges, up to the next `frg` of 0, are then the next
  frame (lemma `NextFrame`).
- **KcpStream.** That the reader gets exactly the data frames needs the numbering
  of all frames: the SYN is the first (`SynFirst`), the FIN the last and written
  only when all before it are acknowledged (`FinLast`), the five counters of a
  direction are ordered (`PipeOrdered`), a FIN is only seen when it was sent
  (`FinKnown`), and the frame handed over next follows the last one (`NextFrame`).
  Since the peer waits until its data is acknowledged and only what is stored is,
  `FinAfterAllStored` follows. `PacketsUnderstood` needs of the state only that the
  handshake is in one of its states; the rest is about packets: segments without
  data come first (`FlushedShape`), so the data is found; FIN and RESET are free
  bits of every command, so a packet with one of them is refused at its first
  segment, before anything is applied (`AcceptedNone`, `Bits`), and without the FIN
  it is taken as a whole (`AcceptedAll`).
- **KcpTimer.** A distance of two times is folded into half the range of the
  clock; it is the true one only as long as it stays there. `TimerInv` bounds all
  five: the time since the last update and until the next flush (`FlushClock`),
  until the end of the handshake (`HandshakeClock`), since the retransmission was
  due (`ResendClock`), and since the last I/O (`IdleClock`). The bounds come from
  `ikcp_update` leaving at most an interval until the next flush, from the sleep
  that `ikcp_check` limits to it, and from `MaxBlock` for a transport that is not
  ready.
- **KcpStreamIo.** `WrittenOnce` needs that a call writes no more than it was given
  (`CallBounded`) and that a slot that the `PollSender` holds is free in the
  channel, so that `start_send` never finds it full (`SlotFree`). `ReadOnce` is
  inductive as a chain: what was read, the rest of a frame, the frames of the
  channel and those to come follow each other without a gap.
- **KcpConnect.** A session takes no frames of a client that had ended before it,
  because a number is drawn once until it expires (`DrawnOnce`), every packet in the
  network goes between a client and its listener (`Genuine`), with a number that was
  drawn and has not expired if `Outlasted`, and none of an ended client carries the
  number of a later session (`PastIsOver`). That frames come from the listener of the
  client (`FromItsListener`) follows from addresses alone, so it holds however soon a
  number is drawn again.
- **UdpListener.** Messages name a stream by its conv. `ListenerInv` follows a conv
  from `get_session` to the last message with it: a running stream has its session,
  a session its owner, a stream goes through its stages in order, a queued message
  says what its stream did, there is one `Connect` for each, and a conv in the
  cache is not in use. From it `MessagesMatch` and `DroppedIsOver` are inductive.
- **ConvCache.** `update` drops entries from the front until one is not expired,
  which is right only because `insert` moves an entry to the back and so keeps the
  times in order (`OldestFirst`).
- **HalfClosePool.** `NoLostWakeup` needs the counter to be the number of live
  values (`Counted`), and that a caller which has read it and does not wait yet
  finds a permit or will be told (`WaiterQueued`).

The provers have no induction over data. Where a proof needs it (that the ends of
consecutive segments increase, that `frg` has counted down to 0 after `frg` steps,
that the sum that `ikcp_peeksize` folds exists and is positive), it takes a least
counterexample instead, which exists because `<` is well founded on the naturals
(`NatLessWF`, `MinNat`).

Only model-checked: what needs fairness (`EventuallyRead`, `EventuallyAcked`,
`EventuallyDelivered`, `ClosingEnds`, `OrphanEnds`, `CloseReturns`, `GetsUnblocked`,
`ShutdownReturns`), which is beyond the prover. Every invariant, action property and
refinement that a passing run checks is also proved, seven of them under the
hypotheses `FramesFit`, `OneCaller` and `Outlasted` above.

## 6. Not modelled

- round-trip estimation, fast resend and congestion control: they decide when and
  how much is sent, which is a free choice in `KcpArq`;
- the 32-bit wrap of sequence numbers (that of the clock is in `KcpTimer`);
- byte layouts, apart from the bits of `cmd`; setters and logging of `Kcp`;
- `DuplexStream` and the channel adapters of `src/transport/`, which delegate every
  call, and the errors of a UDP socket, which are logged and passed over;
- values and defaults of the configuration, which are constants here;
- generated bindings, the crate root and the build script.
