# fxnet in TLA+

fxnet is a C++ network library: I/O threads that serve TCP and UDP sockets
through epoll, sessions that live on the application's main thread, and a
reliable, ordered transport over UDP (`common/buff_contral.h`). The modules here
model its Linux build. The transport comes first: it is the
part whose correctness depends on every order of loss, duplication and delay, and
the repository has no tests. Its congestion control and timers, the listener that
accepts UDP clients, the posted events, the ends of connections, the TCP
connection and the web socket session follow, each in a module of its own.

## 1. Inventory

| Component | State | Operations | Correct when |
|---|---|---|---|
| Sliding windows, `common/sliding_window.h` | begin and end bytes, slot -> buffer id, list of free buffers, sizes and times per slot | `IsValidIndex`, `ClearBuffer`, `Add2SendWindow` | a byte names one packet; a buffer is in one place |
| `BufferContral`, `common/buff_contral.h` | both windows, connection status, `m_bConnected`, `m_bSendAck` | `Init`, `Send`, `SendMessages`, `ReceiveMessages` | chunks arrive once, in order, after the connected event; acked means delivered; no buffer leaks |
| Timing of the same class | congestion window and threshold, quick retry, RTT estimate, retry times, keep-alive back-off, ack time-out | in `SendMessages`, `ReceiveMessages` | the congestion window keeps its bounds, no buffer is lost; dead peers are noticed, live ones are not dropped |
| `CUdpConnector` | socket, error, readable and writable flags, session | `Connect`, `Update`, read/write/error operations, `Close`, `SendMessage`, `OnClose` | after an error nothing is called any more; deleted once, after the last use |
| `CUdpListener`, `common/pool.h` | pending accepts by address hash, pool | `Listen`, read operation, `OnClientConnected` | every client gets a connector; the pool never hands out an element twice |
| TCP connector and listener | socket, flags, session buffers | connect, accept, partial reads and writes, close | messages arrive once, whole, in order; nothing waits for an event that never comes; closed once |
| `FxIoModule`, `message_queue.h`, `cas_lock.cpp` | map of sockets, epoll, posted events with their eventfd, queue of message events | `PostEvent`, `RegisterIO`, `DeregisterIO`, `DealData`, `DealFunction` | no posted event is forgotten; events run in order |
| Sessions (`text`, `binary`, `ws`) | socket pointer, send and receive streams, WebSocket handshake state | `Send`, `Close`, `OnConnected`, `OnRecv`, `OnError`, `OnClose` | session and connector outlive the events that name them |
| Interface, `fxnet_interface.cpp` | none | post listening and connecting to a module | |
| Streams and packages | byte buffers | framing, push, pop | framing inverts itself |
| Log module, threads | log lines under a lock, thread handles | `PushLog`, `ThrdFunc` | |
| Vendored: gperftools, sha1, base64 | | | not fxnet's logic |

**How they interact.** The main thread posts events to an I/O module
(`PostEvent`: vector, lock, eventfd). The module's thread runs them, runs the
read and write operations of the sockets epoll reports, and every
`UDP_SEND_FREQUENCY` (5 ms) calls `Update` of each socket, which for UDP is
`SendMessages`. A connector hands connected, receive, send, error and close
events to the main thread through one locked message queue per module. When an
operation reports an error, the module deregisters the socket and runs the error
operation; the session's `OnClose` posts the connector's deletion back.

**What is hard.** Everything a network does to datagrams, numbers of one byte,
buffers that are accounted for in three places (free list, slots, the buffer
being read into), a handshake in which each side needs the other's second
packet, two threads that hold pointers to the same connector, a descriptor
number that is reused, one notification for many posted events. The list, with
lines and the properties aimed at each, is `hazards` in `PROJECT.json`.

## 2. Modules

| Module | What it is |
|---|---|
| `SlidingWindow` | the unsigned char arithmetic of the windows: `Byte`, `SlotOf`, `Offset`, `IsValidIndex` |
| `UdpTransport` | two `BufferContral`s, the listener's acceptance of one client, and the network |
| `ReliableStream` | what the connection promises: two streams that open, take chunks and give them out in order |
| `MCUdpTransport` | the small instances |
| `UdpTransportProofs` | the byte arithmetic is exact within a window's reach; the invariants and the refinement, for all constants |
| `IoModule` | how an event gets from any thread to an I/O module's: `CCasLock`, the vector, the eventfd, the loop |
| `EventQueue` | what that promises: one first-in first-out queue |
| `MCIoModule`, `IoModuleProofs` | the small instances; the invariant and the refinement |
| `ConnectionLifecycle` | session, connector and descriptor of UDP connections, from connecting to deletion, across both threads |
| `MCConnectionLifecycle`, `ConnectionLifecycleProofs` | the small instances; the inductive invariant and what follows from it |
| `SendControl` | when a `BufferContral` transmits: congestion window, quick retry, retry timers, keep-alive, ack time-out |
| `MCSendControl`, `SendControlProofs` | the small instances; the congestion window, the buffers, what the ack time-out promises of silent and of answering peers |
| `UdpListener` | how `CUdpListener` accepts clients, with its table and its pool |
| `MCUdpListener`, `UdpListenerProofs` | the small instance; types, the pool and the table |
| `TcpStream` | one TCP connection: both connectors, both I/O modules, the buffers, the listener |
| `TcpStreamProofs`, `TcpDeliveryProofs` | the invariants of data and control; the streams and the refinement |
| `WsHandshake` | the server's web socket session on top of such a connection |
| `WsHandshakeProofs` | frames arrive whole, answers come in order, the response first |
| `MCTcpStream`, `MCWsHandshake` | the small instances |

How they meet. `UdpTransport` is what happens inside the operations of
`CUdpConnector` while they succeed; its `Fail` is any operation of
`ConnectionLifecycle` that fails. What `UdpTransport` leaves to choice, which
packets are due and when the window is closed, is what `SendControl` decides; what
`SendControl` leaves to choice, which acks arrive, is what `UdpTransport` does.
`UdpListener` ends where `UdpTransport`'s `Accept` and `ConnectionLifecycle`'s
`ListenerAccepts` begin. `ConnectionLifecycle`'s `posted` and `running`, and those of
`TcpStream`, are the queue that `IoModule` implements. `TcpStream` and `UdpTransport`
implement the same `ReliableStream`: to a session they are the same.
`WsHandshake` takes the loops of `TcpStream` as single steps.

### UdpTransport and the code

Variables carry the fields' meaning, one entry per end of the connection:

| Variable | Field |
|---|---|
| `status`, `connected`, `sendAck` | `m_dwStatus`, `m_bConnected`, `m_bSendAck` |
| `sendBegin`, `sendEnd`, `sendSlot` | send window's `m_btBegin`, `m_btEnd`, and the buffers its slots refer to |
| `recvBegin`, `recvSlot`, `recvFree` | receive window's `m_btBegin` (`m_btEnd` is always one window further), `m_btarrSeqBufferId`, the length of its free list |
| `received` | the local `bPacketReceived`; FALSE once the operation has ended |
| `error` | the connector's `m_oError` |
| `pc` | where `SendMessages` or `ReceiveMessages` stands |
| `net` | datagrams in flight; delivery leaves a datagram there, so it can arrive again, at any time and in any order |
| `chunks`, `delivered` | history: how many chunks each side's packets carry, what the other session got |

Actions: `Accept` (the listener's read operation with a first SYN, and the
`Init` of the connector it makes), `Send` (`ReadStream` and `Send`), `SendEmpty`
(SYN and keep-alive), `Transmit` (the sending loop and the pure ack),
`RecvPacket` (one turn of the reading loop), `RecvNoBuffer`, `RecvAgain`
(`EAGAIN`), `Deliver` and `DeliverDone` (the loop that hands packets to the
session), `Fail` (the error operation, for any cause), `Lose`. Between the turns
of the reading loop other datagrams may arrive and the other side may run.

*Numbers.* The code stores packet numbers as unsigned chars. In the model a
packet has an unbounded number, `Byte(n)` is what the code stores, and everything
the code decides is computed from bytes; the numbers serve the properties, and
say which bytes a pointer increment (`m_btBegin++`) leads to. A datagram records
in `seq` and `ackSeq` what its bytes stood for when it was sent; no decision reads
them but `Fresh`. `Fresh` is an assumption about the network: no datagram
arrives after its receiver has moved on by `SeqMod - WindowSize` (224 of 256)
packets. Without it no protocol with one-byte numbers is correct, and the
instances with a wrap would show it at once.

*Data.* A payload is the position of its chunk in the sender's stream; whatever
bytes one `Send` copies into one buffer are one chunk. A packet without data
(SYN, keep-alive, pure ack) has payload 0. Slots hold the payload of the buffer
whose id the code stores, `Empty` for an id >= window size, and `Stale` for an id
below it that nobody stored: `Init` calls `ClearBuffer`, which does not touch the
receive slots, so until the connected packet arrives they hold what the memory
of `new CUdpConnector` held. `SlotGarbage` is the set of such contents: `Zeroed`
memory fresh from the system (reads as buffer 0 everywhere), `Recycled` memory
of a closed connector (window size everywhere), `Mixed` any memory.

*Time.* Left out in this module: which packets are due, where the congestion
window ends, when a keep-alive is made and when the connection times out are
choices. Everything the timing can do is included; nothing that depends on its
being right is claimed.

*Edges.* epoll reports a UDP socket once per change, and the reading loop ends
when it takes the last buffer, so that datagrams may stay in the kernel until the
next one arrives. The model lets a read start at any time: what it shows does
not depend on when the rest is read, and `transport_live` only asks for the
datagrams that change their receiver, which are sent again.

*One client, one acceptance.* Duplicate SYNs are in `UdpListener`.

### IoModule and the code

`lock` is `m_lLock`, `vec` and `vecTmp` are the two vectors, `counter` the
eventfd's. `pc` says where a thread stands in `PostEvent` or `DealData`. A
`push_back` is a read and a store, a swap is a copy and a clear, so that two
threads inside the lock would lose an event (`LockAnyway` is the mutant that lets
them). The eventfd is written after the lock is released and read before it is
taken, which is the order `NoLostWakeup` depends on (`RunDoneThenRead` reads it
last). The module's own thread posts as well, since listeners do, but only
between two events epoll reports. What sockets do is left out.

### ConnectionLifecycle and the code

| Variable | Code |
|---|---|
| `session`, `connector` | whether the object exists |
| `bound`, `attached` | the session's `m_opSock`, the connector's `m_pSession` |
| `failed`, `handle` | the connector's `m_oError`, `m_hNativeHandle` |
| `owner`, `epoll` | kernel: whose socket a descriptor is, what epoll holds for it |
| `sockets` | `m_mapSockets` |
| `ready` | sockets that `epoll_wait` reported and `DealData` has not served |
| `posted`, `running` | `m_vecIOEvent`, `vecTmp` |
| `messages` | the `MessageEventQueue` to the main thread |

The main thread connects, sends, closes, closes everything, and handles one
message at a time. The I/O thread's actions are `RunEvent`, with one
disjunct for each kind of event, `Update`, `Wait`, `Dispatch` and `TakeEvents`;
`Fail` is "deregister, then run the error operation", which the code repeats at
every place that calls an operation. `CloseAllSockets` goes through the map one
descriptor at a time. A closed descriptor may be given to the next socket that
is opened, on this thread or on a listener's. There is one module: connectors of
different modules share nothing but descriptor numbers.

Left out: TCP, the traffic of a connection (an operation works, and may give the
session a message, or it fails), listeners as sockets, `Init` of `BufferContral`,
which cannot fail. The application connects a session once, as `main.cpp` does. A
second `UdpConnect` of a session that has a socket would fail that socket without
deregistering it (`fxnet_interface.cpp:57`), and the map would keep the connector
beyond its deletion.

### SendControl and the code

`packets` are those between `m_btBegin` and `m_btEnd`, each with its buffer, how
often it was sent (none, once, more) and the ticks until it is due; `cong` holds
the congestion window and threshold, the count of equal acks and the flag of quick
retry; `silence` and `ackRetry` are the ack time-out. A tick is the period of
`Update`. The congestion window is a double in the code and a multiple of
`1/Scale` here. What is longer than it needs to be to fire is cut off: the count
of equal acks, the number of sends.

Actions: `SendTimesOut`, `SendTooSoon` and `SendNow` are the three ways through
`SendMessages`; `SendNow` is congestion control (`Controlled`), new packets from the
stream or a keep-alive (`Fill`, `KeepAlive`) and the sending loop (`Transmit`), with the
socket full from some packet on. `RecvPacket(k)` is one turn of the reading loop
with an ack for `k` packets, `RecvEnd` the end of `ReceiveMessages`, `RecvFails` an
error. `responsive` marks a peer that answers within `PeerLag` ticks over a socket
that is never full: the properties about live peers are about it.

The code is modelled as it is where it reads oddly, and these places are no
properties' subject beyond what the list says:

- The windows are measured as `i - m_btBegin` in ints (`buff_contral.h:660`, `485`):
  once the last byte has wrapped and the first has not, the difference is negative
  and the congestion window does not limit anything, though the comment before the
  loop says that it stops there. No property relies on its stopping.
- Equal acks are not counted at byte 0 (`:904`: -1 is compared with 255).
- Round trips are measured of packets whose *buffer* is 1 (`:861`).
- The keep-alive factor is replaced by `1 << factor` (`:639`). After four
  keep-alives the shift count is 65536, which is undefined; `Shifted` takes 0 or 1
  then, what a machine makes of it.
- A peer that was never heard is given up after one interval, not three (`:394`).

### UdpListener and the code

`pool` is `m_oAcceptPool` with its free list, `table` and `chain` the buckets of
`m_arroAcceptQueue` and the `m_pNext` of their entries, `inbox` what the kernel holds
for the listening socket, `sockets` the clients' sockets. The kernel prefers
a socket that is connected to the sender, then one bound to the address the datagram
was sent to, then the listener's. The listener is bound to any address, the
clients' sockets to one (`GetLocalAddr`), so what a client sends to another address of
the host, as 127.0.0.1, always reaches the listener: `Elsewhere` are the clients that
do so. Malformed datagrams may be sent to any address. Actions: `Listen`, `ReadBegins`, `ReadSkips`, `Refuse` and `Accept`
(turns of the reading loop), `ReadEnds`, `Emptied` (the loop that gives back the
table's entries), and what the accepted connectors do with their sockets.

`CQueue`'s `Init` links every element to itself (`pool.h:50`). The pool works
nevertheless, because it never holds more than one element: the reading loop ends
after it has accepted one client and the table is emptied after each read
operation. That is `UsedOnce` and `ReadyToAccept`. It also means that the table never
recognises anybody: a second SYN of a client that is already waiting in the
listener's queue when the first is accepted makes a second connector, though
`udp_listener.h:62` and `:68` say that it is there for that (`duplicate_accept`).
`RemoveAcceptReq` is never called, and left out.

### TcpStream and the code

| Variables | Code |
|---|---|
| `link`, `backlog`, `side`, `unsent`, `unread`, `fin`, `reset` | kernels and network |
| `registered`, `edge`, `nospace` | epoll, and whether `send` has said `EAGAIN` |
| `made`, `connected`, `writable`, `failed`, `handle`, `closes` | the connector: `m_bConnecting`, `m_bWritable`, `m_oError`, `m_hNativeHandle` |
| `pc`, `posted`, `running`, `reported` | the I/O module: where `DealData` stands, its queues, what `epoll_wait` said |
| `sendBuff`, `recvBuff`, `dataLen` | the session's streams and the length of the receive buffer |
| `messages`, `opened`, `output` | the message queue, and what the session made of it |

Each call of `send` and `recv` is a step; between two of them segments arrive and
sessions send and close. `pc` is `"read"` as long as `m_bReadable`. A message is a
header that holds the length, and a body; the receive buffer grows by the rule of
`net_work_stream.cpp:55`. Connecting and accepting fail in all the ways
the code distinguishes, among them connect() refused at once, where the descriptor
is closed and then closed again (`tcp_connector.cpp:328`). An error of `accept`
closes the listener for good (`tcp_listener.cpp:109`), which is `AcceptFails`.

The error message, which a session only logs, is one with the close message that
follows it. A non-blocking `recv` is never interrupted; `SIGPIPE` is blocked
(`thread.cpp:162`). A session sends nothing after its `Close`. Left out:
`CloseAllSockets` (in `ConnectionLifecycle`), keep-alive probes, the completion ports
of the Windows build.

### WsHandshake and the code

`state` is `m_eSocketHandShakeState`, which the main thread writes and the I/O thread
reads: `CheckPackage`, `PopData` and `PushData` each ask it whether the connection
carries frames. The client is external and well-behaved: request, wait for the
response, frames. `KeyUnit` is the line of the request with the key; a response
holds the digest of the key found, or of none. Base64, SHA-1 and masking are left
out, and so is the limit of the request's length.

Frames may arrive before the main thread has handled the message that the
response is out, and are then cut as if they were the request. `early` remembers
that `CheckPackage` has accepted such units. From then on `PopData` may cut
more than there is (an assert, `net_work_stream.cpp:25`, compiled out by the
Makefile's `-DNDEBUG`), as `ws_early` shows, and frames may be torn. The client can
cause that by answering faster than the server's main thread runs. `FramesWhole` and
`AnswersInOrder` say that this is the only cause, and that the response has gone
out as it should even then. Looking at a frame's beginning that is too short for
`CheckPackage` does no harm, since a whole frame of a client is never that short
(`WsAssumption`). A request split over two
segments is closed, since `ws_session.cpp:181` takes whatever the first read brought
for the whole of it.

## 3. Runs

### The transport

All use a window of 2 and 4 byte values, so that numbers wrap after two
windows, slots are reused, and a full window is two packets: out-of-order arrival, a
full window, a full set of receive buffers and a wrapped comparison all occur.
Proofs cover 32 and 256. `NetCapacity` bounds distinct datagrams in flight; duplicates
need no room, as a delivered datagram stays.

| Run | Instance | Checks |
|---|---|---|
| `transport` | the client sends a SYN and three more packets, one past the wrap; the server one; two datagrams in flight; any memory in the slots that `SoundMemory` allows: packets can be stored before the connected packet | type, the inductive invariant `SafetyInv` (with `InOrderDelivery` and `WindowAgreement`), `AckedIsDelivered`, `ConnectedBeforeData`, `UnackedKept`, refinement of `ReliableStream` |
| `transport_live` | both sides two packets, one datagram in flight, zeroed slots, fairness | `BufferInv` (no buffer lost, none missing), `HandshakeCompletes`, `ChunksArrive` |
| `recycled_leak` | recycled slots | finds that `NoAllocFailure` is violated |

Deadlock is not checked: with the bounded numbers used up, or after a failure, a
connection stops.

*Findings.* `recycled_leak`: a packet that arrives before the connected packet is
stored in a slot that reads as empty; the connected packet, later in the same
reading loop, sets all slots to empty without freeing the buffer. After as many
leaks as there are spare buffers, a packet that arrives out of order takes the
last buffer, delivery cannot free any because the first packet of the window is
missing, and the next reading loop closes the connection. Retransmission does
recover the forgotten packet itself: `transport` passes, order is not
violated by it.

*What `transport` assumes.* If a new connector's memory reads as empty in the
receive slot of packet 1 and as a buffer id in the slot of packet 2, the memory of a
connector that was closed with packets waiting out of order, or of something else,
then packet 1 is stored and the delivery loop goes on to the next slot: the session
gets a buffer that holds no packet. `SoundMemory` excludes exactly these connections,
for each end: slot 1 reads as a buffer, or slot 2 does not. `SoundSpec` is `Spec` from
such states on; under `Spec` TLC finds `InOrderDelivery` violated by what is excluded.
Everything else is harmless: before the connected packet empties the slots, a peer
that has not been answered sends packet 1 and no other, so what the slots behind the
second hold is never looked at.

*Fairness* (`FairSpec`). The I/O thread calls `SendMessages` at least every 5 ms,
and an unacked packet becomes due again after at most 0.2 s; the congestion window
never falls below two packets. So a connection that has not failed transmits
each of the first two packets of its window again and again, and makes a
keep-alive or SYN when the window is empty. `SF(TransmitNews)` and
`SF(RecvNews)` say that the network lets through some copy of a packet which is sent
again and again and would change its receiver; nothing is assumed of
others. Strong fairness is needed because loss, or other traffic, disables the
steps in between. `ReceiveMessages` ends what it began (weak fairness). All
liveness is up to `Failed`: the ack time-out may close a connection.

### The transport's timing

| Run | Instance | Checks |
|---|---|---|
| `send_control` | a window of two, a peer that may be responsive, any acks, fairness | type, `SendBuffersConserved`, `TimeoutInTime` (`SilenceNoticed` and `NotTimedOutEarly`), `ResponsiveKept`, `HeadRetried`, `KeptAlive` |

A retry takes two ticks and a round trip one, so
that packets are retried, answered in time and answered too late. Time needs no
bound: the ack time-out ends a silent connection, and what is far away is cut off.
Two packets leave the congestion window one value, two: what equal acks, growth and
time-outs make of a wider one is proved (`CongestionBounded`), for every
window and fraction, and not checked by this run. `ClockSkew` is 0; what clocks
that are apart do to a time-out is in `AnsweringPeerKept` only.

*Fairness.* `SF(Tick)` and `SF(SendMessages)`: time passes and `Update` is called,
however often packets arrive in between; the reading loop is bounded by its
buffers. `SF(SendNow(WindowSize + 1))`: now and then the socket takes a whole
burst. `WF(RecvEnd)`: reading ends. Nothing is assumed of acks.

### The UDP listener

| Run | Instance | Checks |
|---|---|---|
| `udp_listener` | two clients in one bucket of two, one of them sends elsewhere; a pool of three, three datagrams waiting, three copies of a client's SYN or socket | type, `PoolInv` (`UsedOnce` and `ReadyToAccept`), `Served` |
| `duplicate_accept` | the same, both clients send to the connectors' address | finds that `OneConnector` is violated |

Two clients in the same bucket and more than one waiting datagram are what a chain
and a second element would need. The bounds on datagrams and copies only keep
the state space finite. *Fairness*: the loops of the I/O threads go on (weak), and a
client's datagrams arrive, its socket can be opened and connected, now and
then (strong): the client repeats its SYN, a socket that fails is made anew.
`Served` has an exception: as long as sockets are made again and again for clients
that send elsewhere, each of them may get, before it is connected, all that another
client sends to the connectors' address.

*Finding.* `duplicate_accept`: a client's SYN is repeated before it is accepted, both
copies wait for the listener. The read operation that accepts the first empties
the table before it ends; the next one does not know the client and makes a second
socket, session and connector for it, which the table's comments say it prevents.

### Posted events

| Run | Instance | Checks |
|---|---|---|
| `io_queue` | two posting threads and the module's own; the main thread and the module post twice, fairness | type, `QueueInv` (mutual exclusion, no lost wake-up, exact copies), refinement of `EventQueue`, `EventsRun` |

Two events let a thread post again while its first event is being taken or run; a
third one meets no new place. Fairness is weak fairness of each
thread: the scheduler runs all of them. A thread that spins on the lock can be
overtaken, but only as often as others post, which is bounded here; in the
program a thread overtaken for ever is not excluded by `CCasLock`.

### Connections

| Run | Instance | Checks |
|---|---|---|
| `lifecycle` | two connections, two descriptors, one event of the application at a time, data messages while fewer than three messages wait, fairness | type, `ReferencesAlive`, `EndsOnce` (`CloseIsLast` and `DeletedLast`), `DescriptorsInv` (`DescriptorsOwned` and `TablesAgree`), `EndCompletes` (`FailedAreDeleted` and `CloseCompletes`) |
| `fd_reuse` | two events of the application | finds that `LiveIsMapped` is violated |

Two connections and a descriptor for each are what it takes for one connection's
descriptor to become the other's. `EventCapacity` bounds what the
application and the listener post; what messages post is not bounded by it. The
safety properties are proved for any number of connections, descriptors and events.
Deadlock is not checked, as every connection may have been made and deleted.

*Finding.* `fd_reuse`: the application closes a session whose connection has
just failed. The error operation has closed the descriptor, the number has been
given to a second connection, and `Close` deregisters it. The second connection
is alive, but epoll and the map have lost it: it reads nothing and retransmits
nothing unless its session sends, and not even `CloseAllSockets` reaches it.

*Fairness.* Weak fairness of `HandleMessage` (the main loop), `Wait` (the I/O
loop comes back to `epoll_wait`, which reports a posted event's eventfd at once)
and `Serve` (it serves what was reported). Nothing is assumed of `Update`,
`Dispatch` of a particular socket, or the application.

### TCP and web sockets

| Run | Instance | Checks |
|---|---|---|
| `tcp_stream` | one message from the client, two from the server, of one and two units; the kernel takes one unit and keeps two; a receive buffer of two | type, `OperationsInv` (`SessionWhileServed`, `RoomToRead`, `ConnectedIsUp`), `EndsOnce` (`CloseIsLast`, `ClosedOnce`), refinement of `ReliableStream`, `Delivered`, `EndNoticed` |
| `ws_handshake` | a request of four units, two frames with payloads of one and two | type, `FramesWhole`, `AnswersInOrder`, `Answered` |
| `ws_early` | the same | finds that `CutsWithin` is violated |

In `tcp_stream` a message is larger than what the kernel takes at once, so that
partial sends and `EAGAIN` happen, two messages can arrive with one segment, a
message fills the receive buffer to the last unit, and both ends may close at any
time. In `ws_handshake` one payload is shorter and one is longer than what
`CheckPackage` waits for before there are frames. *Fairness* is one weak fairness
condition on everything that goes on by itself (threads and network): no part of it
goes on for ever without the others, so each of them has to take its turn. Of the
application and the client nothing is assumed. Deadlock is not checked: connections
end.

*Finding.* `ws_early`: the client has the response and sends a frame at once. The I/O
thread reads the beginning of a frame; `CheckPackage` asks for the state, there are
no frames yet, and four bytes are enough. Now the main thread handles the message that
the response is out. `PopData` asks again, reads the frame's length and cuts more than
there is, against its assertion.

## 4. Proofs

Every invariant and every action property that a passing run checks is also
stated by a theorem, and so are both refinements. What is left to TLC alone is
liveness.

`UdpTransportProofs`, from `WindowAssumption` (the window size divides the byte
range and is smaller) and `BoundAssumption` alone unless noted:

- `DecodeExact` and `ValidIndexExact`, about the arithmetic of `SlidingWindow`. For
  packet numbers within a byte range of the window, the byte difference is the
  difference of the numbers, and `IsValidIndex` accepts exactly the window's packets.
- `TypeCorrect`: `TypeOK`, for any memory contents.
- `SafetyInvariant`: `SoundSpec => []SafetyInv`, that is for every connection but
  those that `SoundMemory` excludes (see the runs); `DeliveryInOrder`,
  `AckMeansDelivered`, `WindowsAgree`, `DataAfterConnected` and `StreamRefinement` have
  the same condition. The invariant has six parts. In-order delivery is not inductive: to deliver the right
  chunk, a slot must hold the packet whose number belongs there (`RecvInv`), so
  datagrams must carry what their number was created with (`NetInv`), so the
  sender's buffers must (`SendInv`), and no byte may be decoded as the wrong number,
  which needs both windows within a window of each other (`WindowAgreement`) and
  `Fresh`. That an ack frees only what was delivered is
  `sendBegin <= recvBegin` with `DeliveryInv`.
- `DeliveryInOrder`, `AckMeansDelivered`, `WindowsAgree`, `DataAfterConnected`,
  `UnackedPacketsKept`: consequences.
- `StreamRefinement`: every step of the connection is a step of
  `ReliableStream` or a stutter, under the mapping connected events, chunks taken
  by `Send`, chunks delivered.
- `BufferInvariant`, `NoBufferLeak`, `BufferAvailable`, for zeroed memory
  (`recycled_leak` shows why). The reading loop finds a buffer because when it
  starts the first slot of the window is vacant, so at most all slots but one hold
  a buffer, and inside the loop it stops when it takes the last.

`IoModuleProofs`, from `PostAssumption` alone, so for any set of threads and any
number of events:

- `TypeCorrect`: `TypeOK`.
- `QueueInvariant`: `Spec => []QueueInv`. No lost wake-up needs mutual exclusion:
  the vector a thread stores must be the one it read, or storing would bring back
  events without a notification.
- `QueueRefinement`: storing is `EventQueue`'s `Post`, a turn of the loop is its
  `Run`, and every other step, the two steps of the swap included, leaves the
  abstract queue as it is.

`ConnectionLifecycleProofs`, from `LifecycleAssumption` alone, so for any
connections, descriptors and queues of any length. `LifecycleInvariant` is the
inductive invariant. None of the properties is inductive: that an object is alive
while something names it depends on what may still wait for it and in which
order. So every waiting event says something of its connection (`EventState`: a
"connect" means that there is no connector yet, an "accepted" that the descriptor
is the connector's and not registered, an "onclose" that the session has let go),
and two events of one connection may only wait in certain orders (`Ordered`:
"connect" alone, "accepted" first, "onclose" last). Messages are for bound sessions,
a close message means that the connector has let go and is the last (`CloseIsLast`),
and what `epoll_wait` has reported is still there when it is served, because events
are only taken, and so deletions only run, in between in an order `ReadyInv` states.
The proof has a lemma for each action, over lemmas for what posting, running and
taking do to the queues. From it: `TypeCorrect`, `NoDeletedUse`, `DeletionIsLast`,
`ToldOnce`, `NoStrayDescriptor`, `RegistrationAgrees`, and the two that the run's
properties name, `OneEndEach` and `DescriptorsKept`.

`SendControlProofs`, from `SizeAssumption` and `TimeAssumption` alone unless noted, so
for all windows, byte ranges, intervals and delays:

- `TypeCorrect`, `CongestionBounded` and `NoBufferLost` from one invariant
  (`SendInv`): the fields of a packet and of the congestion window are in their
  ranges, and the buffers of the packets and the free list together are each buffer
  once. Growth is by `1/window` for each packet acknowledged, a recursive function
  (`Grown`); that it never leaves the window's bounds is an induction over the number
  of packets (see below).
- `TimeoutCounts` (`TimeoutInv`), and from it `SilentPeerNoticed` and
  `TimeoutNotEarly`, together `TimeoutComesInTime`. The invariant adds the counters'
  types; the arithmetic has one product per counted interval.
- `AnsweringPeerKept`, from `ResponsiveTimes`, a condition on the times that
  `TimeAssumption` leaves open: a packet's wait for the pace and for clocks that are
  apart, and the peer's delay, fit into one interval of the ack time-out, and the
  longest pause of the keep-alives with the same delays into three. The code's
  values (5 s for an interval, pauses of up to 1 s, a pace of 5 ms) satisfy it with
  room for a peer that takes seconds, and so do the constants of `send_control` (2 of 2
  ticks, 4 of 6); with an interval shorter by one tick TLC finds a peer given up. The invariant (`KeptInv`) says
  for every state how much of the interval is used up: by the wait
  for the next keep-alive, then by the wait of the unsent packet, then by the answer
  owed; a live peer is silent for no longer than that.

`UdpListenerProofs`, from `ListenerAssumption`: `ElementsUsedOnce` and
`AlwaysReady`, together `PoolSuffices`. What makes a pool whose list is a loop safe is that at most one
element is out of it, in the table between an acceptance and the end of the read
operation; the invariant says which, and that the next is never asked for then.
With it `TypeCorrect`. That clients are served is left to TLC.

`TcpStreamProofs` and `TcpDeliveryProofs`, from `TcpAssumption` alone, so for any
messages, any buffers and whatever a kernel takes at once. The inductive invariant
has three layers, each proved with the ones before it:

- *Data* (`DataInvariant`): every buffer between two sessions holds units of messages
  that were accepted, in the bounds of the buffer, and the receive buffer has room
  left; messages in events, in the send buffer and beyond are no more than were sent.
- *Control* (`ControlInvariant`): the event that gives an end its socket waits
  before all others (`Queue`), and an end it still waits for has nothing open and no
  error (`Fresh` implies `Blank`); an end has failed when it closed, and is told so once
  and last (`EndInv`); what an end believes of the connection is true (`LinkInv`).
- *Streams* (`StreamInvariant`): the units of an end that have not been delivered, from
  its send buffer through both kernels to the peer's receive buffer, are one sequence
  (`Outstanding`), and it begins with the first unit of the next message to be
  delivered, goes on without a gap, and ends with the last unit of the last message
  accepted. An end that fails drops what comes last or what is to come to it, so the
  claim gets shorter from behind: all of it while both ends work, what both kernels hold
  while the receiver's side is open, what the receive buffer holds while its
  connector works. `InOrder` says where every unit ahead within a message is,
  not only the next one, so that a whole message is recognised in the receive buffer
  without an induction over its units.

From the first two: `TypeCorrect`, `OperationsCorrect` and `OneEndEach`. From the
third: `StreamRefinement`, that a TCP connection implements `ReliableStream`, as the UDP
connection does.

`WsHandshakeProofs`, from `WsAssumption` alone, so for requests, responses and payloads
of every length and any number of frames: `TypeCorrect`, `FramesArriveWhole` and
`AnswersComeInOrder`, from `WsInductive` and, for the response, `ResponseFirst` (there
are frames only once the client has the response). None of them is inductive, for the session's
packages are made by one thread and handled by another. The invariant follows the
units instead, and has one part for each time of a session's life:

- *Until the request is answered, or when it is refused* (`UnansweredInv`): nothing was
  sent, all units are of the request, and a package that ends as the request does is
  the last of it, with nothing behind it in any buffer (`Drained`); the first package
  starts with the first unit, so that a package which is first and ends it has the
  key. Once the session is refused, a close is posted before anything that could be
  sent (`ClosesFirst`): the rest of the request may still reach OnRecv and be answered,
  but the answer is never sent.
- *Afterwards, as long as `CheckPackage` has accepted no frame early* (`AnsweredInv`): what the
  client has sent is what was popped (`Popped` frames, in `output` and in messages), and what
  the receive buffer and the kernel hold; so the receive buffer starts with a frame's head, and
  what `Whole` sees is the next payload. What it has received, with the send buffer,
  is the first `Run` replies, and the posted ones are the next. Whether `PushData` frames
  a reply is decided by what the client has received: nothing before the response is
  out, and `OnRecv` gets no frame before the session is connected, because
  `CheckPackage` then looks at an empty buffer or one that is too short for it.
- *Deleted* (`DeletedInv`): what was true stays so.

`ws_handshake` and two instances with other payloads (none, and two in a row) were
checked against the same invariant before it was proved.

*Induction over data.* The library's induction rules take an operator as a
parameter, which the installed provers cannot instantiate. Where a proof needs one
(`Grown`, counting, `FlattenSeq` of frames and echoes), it uses the set form of it:
`AllNumbers` says that a set which has 0, and with every number the next, has all of
them. It follows from `LeastNumber`, that a set of numbers has a least one, which
follows from the well-foundedness of inclusion between finite sets
(`FS_StrictSubsetOrderingWellFounded`, `WFMin`).

Only model-checked: the liveness properties (`HandshakeCompletes`, `ChunksArrive`,
`EventsRun`, `EndCompletes`, `HeadRetried`, `KeptAlive`, `Served`, `Delivered`,
`EndNoticed`, `Answered`), which with fairness and ENABLED are out of the prover's
reach.

## 5. Not modelled, and the plan

Not modelled:

- the log and the threads' start (`log_utility.cpp`, `thread.cpp`): nothing of
  the library depends on them;
- `Init`, `Stop` and `Uninit` of an I/O module beyond the registration of its
  eventfd: the last two are never called, `main` loops for ever;
- `CCasLockQueue`, which `tcp_listener.h` includes and nothing uses, and `CBinarySession`, which has
  nothing but a constructor;
- typed reads and writes of `CNetStreamPackage`, base64, SHA-1: sequential
  conversions without state;
- socket options, address formatting, the Windows build, vendored code.

What would come next: edge-triggered UDP reads in `UdpTransport`, with the datagrams
that stay behind when the last buffer is taken (`buff_contral.h:928`).
