# Verification of HbZeroAsioNet

TLA+ models of the network library in `src/HbZeroAsioNet` and of the packet loop in
`src/TestConsoleServer` that drives it, checked with TLC on small instances, and theorems about
them proved with TLAPS for all sizes. Source files are named here by short names:
SN `SFServerNet.h`, SM `SFServerSessionMgr.h`, SS `SFServerSession.h`, TS `SFTCPSocket.h`,
SB `SFTCPSendBuffer.h`, RB `SFRingBuffer.h`, PH `SFDefaultPacketHandler.h`,
MR `SFMultiRingBuffer.h`, UM `SFUDPMgr.h`, US `SFUDPSocket.h`, UG `SFUDPSessionMgr.h`,
UB `SFUDPSendBuffer.h`, HA `HandlerAllocator.h`.

## 1. Inventory

The library is header only and built on boost.asio. An application makes one `ServerNet`, which
runs an `io_service` on several IO threads. The application's own thread (here: Main) polls one
queue of packets that the IO threads fill.

| component | state | operations | correct when |
|---|---|---|---|
| `ServerNet` | acceptor, IO threads, `m_IsShutDown` | `Start`, `OnAccept`, `ReUseSession`, `Connect`, `Release`; forwards to sessions | a closed session is accepted on again, once; `Release` returns |
| `ServerSessionMgr` | accept pool, connect pool | `FindServerSession`, `UnUseConnectSession`, `DisconnectAll` | an id names one session |
| `ServerSession` | `m_IsUsed`, id, peer address | `SetUsed`, `SetUnUsed`, `Reset`, `AcceptProcessing` | `PostAccept` never finds a session in use |
| `TCPSocket`, life and receive | `m_nSocketState`, `m_Lock`, the socket, a `RingBuffer` | `Connect`, `Close`, `PostRecv`, `OnRecv`, `OnProecssRecvData` | one receive at a time; each connection's end is reported once, and last |
| `TCPSocket`, send, and `BasicTCPSendBuffer` | buffer, mark, `m_nRemainPacketLength`, `m_bIsSending`, `m_SendPackets` | `PostSend`, `Send`, `OnSend`, `GetPostBuffer`, `GetNextPostBuffer` | one `async_write` at a time; the wire is what was posted; nothing is left behind |
| `RingBuffer` | two blocks, read and write offset | `WriteBuffer`, `IncreaseReadOffset`, rotation, `Clear` | unread bytes stay in order, no space is wasted |
| `BasicPacketHandler` and `MultiRingBuffer` | `m_Packets`, rows of packet data | `Notify*`, `ProcessRecvDataTCP`, `FrontPacket`, `PopPacket`, `Clear` | queued data stays intact while it is needed |
| packet loop (`main.cpp`, `ServerNetwork.cpp`) | none of its own | `ProcessSystemMsg` | every CLOSE of a session that was closed leads to `ReUseSession`, and no other does |
| `SFLock` | a mutex | lock, unlock | mutual exclusion |
| `UDPMgr`, `UDPSocket` | a socket per IP version, its threads, one receive buffer and sender | `Create`, receive chain, `SendTo`, `StopProcessRecvData` | one receive at a time that never ends; a datagram meets a complete manager |
| `BasicUDPSendBuffer` | rows, a mark per row | `GetPostBuffer` | a datagram keeps its bytes until the writer laps it |
| `UDPSessionMgr` | a pool, a container with two unique indices | add, find, remove, set key | address and id determine each other; no object is lost or used twice |
| `HandlerAllocator` | one block, `in_use_` | `allocate`, `deallocate` | one handler at a time lies in the block |
| logging, helpers, definitions, unit test | - | formatting, I/O | not modelled |

How they interact. An accept handler on an IO thread (SN:367) makes its session connected, queues
ACCEPT and posts the first receive. A receive handler (TS:304) copies what came into the session's
ring, cuts packets out of it, queues them and posts the next receive; if it fails it runs `Close`,
which closes the socket and queues CLOSE. Main takes CLOSE from the queue and calls `ReUseSession`,
which resets the session and posts an accept on it. Main also disconnects sessions, connects
sessions of the connect pool, and releases the server. Several threads post packets to a connection
while `OnSend` handlers take the next ones out.

The packets of the library and those of peers share one queue and one space of ids. A packet is told
from another by the `nID` in its header alone: Main dispatches on it (`main.cpp:65-82`,
`ServerNetwork.cpp:84-113`), and for a received packet it is what the peer wrote (PH:118-143). So a
peer may queue an ACCEPT, a CLOSE or a REQ_CLOSE of its own session.

UDP stands apart. `CreateUDP` makes a manager whose socket has its own `io_service` and threads. The
receive handler (US:219) looks the sender's id up in `UDPSessionMgr`, gives the datagram to the packet
handler and posts the next receive; sends copy into a row of the send buffer and forget about it. The
handlers of a socket share one block of memory.

What is hard to test. `m_nSocketState` and `m_IsUsed` are shared by all threads without a lock.
`Close` sets the state again after it has handed the session on. Resetting one session clears the
queue of all. The queue silently drops its oldest packet when full. `FrontPacket` and `PopPacket`
are two critical sections. Exceptions of asio leave the threads. The shutdown flag is tested before
the state is set. Buffers wrap with only some of the tests one would expect.
Packets do not tell who queued them. An empty packet may be sent, and a packet may be larger than
the INT16 that its size is kept in.
A thread in `PostSend`, or the handler of a write that `Close` cancelled, may act when its session
already belongs to the next connection. UDP threads run before their manager is complete and are never
joined; the handler memory is tested and set without a lock. `PROJECT.json`
(`hazards`) lists each at its line with the properties that watch it.

## 2. Modules

| module | models | state and actions |
|---|---|---|
| `ServerNet` | life of all TCP sessions: SN, SM, SS, life and receive chain of TS, the queue of PH, the loop of Main | per session state, use, socket, lock, operations in asio; the queue; where each thread is. A thread's step ends where another thread can see or change what follows: at each asynchronous call, lock, and between two accesses to the unlocked members |
| `SessionPool` | abstract: what the accept pool promises | per session new, waiting, connected, closed or lost; or disturbed, of which nothing is promised but that it moves no other session |
| `ServerNetPool` | refinement mapping | the phase of a session is read off what owns it, unless the session was disturbed |
| `ServerNetClaims` | statements of comments that the code does not keep | - |
| `RingBuffer` | RB, all of it | one action per operation; bytes are their numbers in the stream |
| `RecvBuffer` | `PostRecv`, `OnRecv`, `OnProecssRecvData` on that ring | extends `RingBuffer`; a header is one byte, a byte that is no header may be read as any size; the size is compared in full width and used as an INT16, and the model stops (`narrowed`) once a complete packet was larger than that |
| `SendBuffer` | SB and the send side of TS, one connection | one action per critical section and asynchronous call |
| `PacketStore` | PH with MR: where queued packets lie | which packet each byte of the rows belongs to |
| `ReceivePath` | composition: the receive handler between the ring and the store | extends `RecvBuffer` and `PacketStore`; one action per turn of the loop, which may be refused by the store and then asks to close the session; other sessions and Main use the store as well |
| `SessionSend` | composition: `PostSend`, `Send`, `OnSend` and the send buffer's counters with `Close`, `Reset` and accept | threads and handlers carry the use of the session they belong to; one action per critical section, state test and asynchronous call. Where packets lie is left to `SendBuffer` |
| `PacketStream` | abstract: what sending on a connection promises | packets pending, what the wire has carried, and whether the connection is closed, open or broken |
| `SendBufferStream`, `SessionSendStream` | refinement mappings | the pending packets are the one that a thread, handler or write has, and `m_SendPackets`; in `SendBufferStream` with the bytes that the buffer holds for them now |
| `UdpRegistry` | abstract: address to id and key | register, set key, unregister |
| `UdpSessions` | UG | pool, container, what the objects hold; the operations hold the manager's lock and are one action each |
| `HandlerMemory` | HA | `allocate` is two steps, the test and the setting of `in_use_` |
| `UdpSendBuffer` | UB | which datagram each byte of the rows belongs to |
| `UdpNet` | composition: SN's `CreateUDP`, UM and US with the three above | start in two steps (threads run, function set), the receive chain as counts of what is posted, completed and in a handler, sends from any thread; what ends the process is a value of `crash` |
| `MCServerNet`, `MCRecvBuffer`, `MCReceivePath`, `MCSessionSend`, `MCUdpNet` | values of constants for TLC | - |
| `ServerNetProofs`, `RingBufferProofs`, `RecvBufferProofs`, `SendBufferProofs`, `PacketStoreProofs`, `ReceivePathProofs`, `SessionSendProofs`, `UdpNetProofs` | theorems (section 5) | - |

Mapping of `ServerNet`. `ops[s][k]` counts what asio holds for session `s`: operations in progress
(`accept`, `recv`) and handlers that are ready (`acceptOk`, `acceptErr`, `recvOk`, `recvErr`).
`at[t]` is the program point, session and close case of thread `t`. `CloseBegin`, `CloseNotify` and
`CloseEnd` are the three visible parts of `TCPSocket::Close`: test and close under `m_Lock`, queue
CLOSE, set the state once more and unlock. `ReUseSession`, `ResetSession` and `AsyncAccept` are the
parts of `ServerNet::ReUseSession`. A packet is its kind and the session's id; both pools number
their sessions from 0 as SM:30-61 does, so the CLOSE of a connect session names an accept session.
`m_nSocketState` starts with any value, since no constructor sets it. An exception that leaves a
thread sets `crashed`, which ends the process; so does `ConnectThrows`, the socket option that
`Connect` sets outside of its `try` (TS:103), and the destruction of a bound UDP socket in `Join`
(SN:113), whose threads nobody joins.

What a receive brings (`ProcessRecvData`) is no complete packet, one packet with an id of the
application, one that the store refuses, or one with any inner id (`Imitates`). A peer's REQ_CLOSE
does what a refused packet does. Of its ACCEPT and CLOSE `imitated` keeps count, at most
`MaxImitations` per id. A session is `Undisturbed` while nobody else has queued an ACCEPT or a CLOSE
with its id: no peer, and no connection of the server's own that has ended. The properties about who
has a session speak of the undisturbed ones; the disturbed ones go on in the model, with every step
of the code, and `SharedIdsHarmless` and `ImplementsPool` say that they harm nobody but themselves.

Mapping of `SessionSend`. `use` counts the resets of the session. A poster and a handler hold the
use they began in; when one changes the session's state in a later use, `mixed` is set, and the
properties say what holds until then. `Close` is one action here, as its steps matter in `ServerNet`
only. A write that `Close` cancelled is a handler with the outcome `aborted`. A receive that fails
with some bytes posts no other, so its session gets no CLOSE and is never reset (`recvEnded`).
A disconnect is requested for an error, or for a received packet (`RequestReceived`: the store refused
it, TS:353-357, or a peer sent a REQ_CLOSE). A packet may be empty, as `SendTCP` tests no length:
the handler of its write has the outcome `no bytes`, returns at TS:289-291 and leaves `m_bIsSending` set.
`GetPostBuffer` refuses nothing here and the bytes of a packet stay what they were: that is what
`SendBuffer` shows for a backlog below the buffer by a packet (`NoneRefused`, `WireInOrder`), and what
is said of the wire holds for such a backlog only.

Mapping of `UdpNet`. The configuration has one IP version; the dual one has two such sockets that
share the sessions. `CreateUDP` either binds the socket, then a receive is posted and threads start,
or does not, and returns NONE all the same (UM:103-113). `CreateReturns` sets `GetUDPIDFunc`, for
IPv4 only. Nothing in the library calls `UDPSessionMgr::Init`; `FillSessionPool` stands for a manager
derived from `UDPMgr` that does. `GetPostBuffer` and the first step of `allocate` are one step of
`SendTo`, as they share nothing. The application calls the manager after `CreateUDP` has returned,
with addresses of the socket's version and datagrams that fit a row (a longer one would be logged
through a logger that UB never sets). The accesses to `in_use_` are taken to be sequentially
consistent. `DestroyUDP` is one step: that the manager's sessions and buffers are freed before the
destructor of a thread ends the process (SN:394-397) is not told apart.

`Faults` turns on what the platform may do: an accept that fails (`acceptError`), `remote_endpoint()`,
`set_option()` or `shutdown()` that throw since the peer has left (`remoteGone`), a receive that
fails with some bytes (`readBytes`).

Definitions whose comment begins with "Mutant of" (`LockFreeAlways`, `PushGrows`, ...) are plausible
bugs: put in place of the definition they vary, each breaks the property it is listed with in
`PROJECT.json`. They are no part of any specification.

## 3. Runs

| run | bounds | question | result |
|---|---|---|---|
| `session_safety` | 2 accept sessions, one connected to once, whose peer may imitate an ACCEPT or a CLOSE once, and one connected to twice; 2 IO threads, queue of 2, all faults, Release | is an undisturbed session ever in two hands, its reuse refused, the story of its connection told out of order; does the server implement `SessionPool`; does a disturbed session harm the other | holds |
| `session_live` | 1 accept and 1 connect session, 1 IO thread, 1 connection each, queue of 2, failing accepts, calls that throw, Release with and without a UDP socket, fairness and peers that leave | is Close exclusive; has a connection of the server's own one receive chain, and is its session used once; is the id it shares with an accept session harmless until it ends; unless an exception ends the process: is each end reported, does Main get back, does Release return | holds |
| `session_lost` | 2 accept sessions, 2 IO threads, 2 connections each, queue of 3, no faults | does a closed session always come back | violated: finding 1 |
| `close_clobbers` | the same | does Close leave the socket closed | violated: finding 2 |
| `peer_ids` | 1 session, 2 connections, 1 imitation | is a session that Main reuses disconnected | violated: finding 3 |
| `release_hangs` | 1 session, 1 connection, peers need not leave | does Release return | violated: finding 4 |
| `ring` | 5 + 4 bytes, writes of 1 to 3, 14 bytes in all | are unread bytes kept, is space lost | holds |
| `receive_path` | ring of 4 + 4 bytes, 5 bytes from the peer, packets of 1 and 3 (3 is too big for the store), headers misread as 1, 4 or 8 (in an INT16 of at most 3 these are 1, -4 and 0); store of 2 rows of 3, packets up to 2, queue of 2, 6 packets in all | does reading stay behind writing, does a handler end, is a queued packet intact until the writer comes round; each until a complete packet is larger than an INT16 | holds |
| `recv_place` | 7 + 4 bytes | does a receive stay in the allocated memory | violated: finding 5 |
| `send` | buffer of 7, packets of 0 to 3, backlog of 5, 14 bytes, 2 posters, writes that fail | one write at a time, order, no stall, all sent; is `PacketStream` implemented | holds |
| `session_send` | 2 posters, 3 packets, 2 uses of the session, every outcome of a write, that of an empty packet included, refused packets | on each connection: one write at a time, order, counters, all sent; is `PacketStream` implemented | holds |
| `udp` | 2 sessions, 2 addresses, 2 ids, 1 key; 2 rows of 3, datagrams of 1 and 2; 2 datagrams received, any number of errors; 3 sends or 5 session calls or a mixture | does the receive chain go on, singly and with what belongs together; sends, handler memory, sessions; is `UdpRegistry` implemented | holds |

Why the bounds suffice. Two sessions are needed for one session's reset to clear another's CLOSE,
two IO threads for one to be in `Close` while another accepts on the same session, two connections
for a session to be used, closed and used again; with two sessions a queue of two overflows. For one
session to harm another through a CLOSE that is not its own, one such CLOSE is enough: the accept
that Main posts a second time, the handler that fails and the second thread in `Close` all follow in
the run. There the disturbed session is connected to once and the other twice, so that the other is
closed and used again beside it. `session_live` has no imitation: with one its graph is five times
as large and takes too long for a routine run; it was checked once, and the same properties hold.
The ring wraps with every length of unread bytes between the writes, and 14 bytes are almost three
times the configured size, so the blocks are swapped again and again. In the send buffer 7, 3 and 5
are the tight case of the backlog that is safe (5 = 7 - 3 + 1); one more byte of backlog breaks
`WireInOrder`. In `receive_path` 6 packets take the store's writer round its two rows, and the queue
of two overflows; every size class of a header occurs: one that fits, one the store refuses, one
negative and one zero as an INT16, complete or not. In `session_send` two posters are needed for one
to find the other's write in progress, a third packet for the queue to keep an order, and two uses
for a thread or handler to act too late; what a third use would add is the same handler acting one
use later. In `udp` each session call takes 2 units of `MaxWork` and each send 3, so that 10 units
allow five session calls (a session is registered, keyed, removed and its object used again, where a
key could be inherited) or three sends (which lap the two rows), or some of both beside a receive.
Two IO threads would let two handlers of one socket run at once, which `OneReceive` excludes. No
liveness is checked there.

`MaxConnections`, `MaxImitations`, `MaxBytes`, `MaxReceived`, `MaxPosts`, `MaxUses`, `MaxDatagrams`,
`MaxSends` and `MaxWork` only bound the runs; the code has no such limit. IO threads are symmetric
where safety is checked.

Deadlock is not checked where the system may rightly stop: the process ends (`Join`, an exception),
Main polls an empty queue while no peer comes (polling is no step of the model), the receive chain
of a session has ended, or a bound is reached. The run `ring` does check it.

## 4. Fairness

- A thread goes on with the handler or `Close` it is in (weak fairness of `HandlerStep(t)` and
  `CloseStep(t)`), and Main with its loop (`MainStep`): the scheduler runs every thread, nothing in
  these steps waits but for `m_Lock`.
- A ready handler of a session is run by some IO thread (strong fairness over all threads): the
  `io_service` queues ready handlers in order and threads return to it again and again, so that a
  handler is enabled infinitely often, though not for one thread continuously.
- Peers and the application owe nothing: `PeerConnects`, `PeerSends`, `PeerCloses`, `Connect`, `Stop`
  have no fairness. `FairPeersSpec`, used for `session_live` only, adds that a connected peer leaves
  in the end; the run `release_hangs` shows that `Release` depends on it.
- `SendBuffer`: posters and `OnSend` go on and a write in progress completes, well or with an error.
- `SessionSend`: the same for the threads in `PostSend`, the writes in progress (one of them completes)
  and the handlers that are ready. Accept, disconnect, reset and the calls of `PostSend` are the
  peers' and the application's and have no fairness.
- `ReceivePath`: a handler that has begun goes on (`HandlePacket`, `RecvAgain`). Peers, other sessions
  and Main owe nothing.
- `UdpNet` states none. That the receive chain of a UDP socket does not die is the safety property
  `OneReceive`: in every state exactly one receive is posted, completed or being handled.

## 5. Proofs

All with TLAPS, for every value of the constants that the modules' assumptions allow: positive sizes,
a connect pool not larger than the accept pool (otherwise SM:101-106 indexes outside of the pools),
a Main that is no IO thread.

| theorem | says | argument |
|---|---|---|
| `ServerNetProofs!TypesAlways` | `ServerNet!TypeOK` | with `HasSession`: a thread at a point that works on a session has one, as each action indexes by `at[t].s` |
| `ServerNetProofs!CloseExclusiveAlways` | `CloseExclusive` | with `LockHeld`: between `CloseBegin` and `CloseEnd` a thread holds the lock of its session; a free lock is nobody's, the lock released is one's own |
| `ServerNetProofs!OneReceiveChainAlways`, `!ConnectSessionSpentAlways` | `OneReceiveChain`, `ConnectSessionSpent` | from the invariant `ConnectsInv`, below |
| `ServerNetProofs!SingleOwnerAlways`, `!ReuseNeverRefusedAlways`, `!NotificationOrderAlways`, `!SharedIdsHarmlessAlways` | what `session_safety` and `session_live` check of who has a session | from the invariant `WholeInv`, below |
| `ServerNetProofs!ImplementsPoolAlways` | `ImplementsPool` | the phase of an undisturbed session is what its owner says (`Phases`), and there is one owner at most; below |
| `SendBufferProofs!OneWriteAlways` | `OneWrite` | inductive as it stands, for posters indexed as a function |
| `SendBufferProofs!TypesAlways`, `!WireInOrderAlways`, `!SendingMeansWritingAlways` | the invariants of `send` | below |
| `SendBufferProofs!NoneRefused` | with a backlog below the buffer by a packet `GetPostBuffer` refuses nothing | the test at SB:59-67 fails only for a packet that the unsent bytes leave no room for; so the logger that SB:15 never sets is not reached |
| `SendBufferProofs!ImplementsStreamAlways` | `ImplementsStream` of `send`, with such a backlog | what is pending is read off the buffer; below |
| `RingBufferProofs!RingTypesAlways`, `!ContentsAlways`, `!RefusalsAlways` | all properties of `ring` | `Contents` with types is inductive once the write offset is bounded by the sizes; refusal from what rotation leaves |
| `RecvBufferProofs!ReadBehindWriteAlways` | `ReadBehindWrite`, for rings of any size | offsets only: the place a receive fills does not matter; until `narrowed` a size that was compared is the size that is used |
| `RecvBufferProofs!SmallRingsHandleSizes` | `SizeIsHandled`, assuming that an INT16 counts the ring's block (`RingIsSmall`) | a complete packet lies in the block |
| `PacketStoreProofs!TypesAlways`, `!IntactAlways` | `StoreTypeOK`, `IntactUntilOvertaken` of the store by itself | with `WriterPast`: the writer's row is the packet's row plus the rows begun since, modulo the number of rows, and in the packet's own row it is behind the packet; so a write hits a packet only when it overtakes it |
| `ReceivePathProofs!PathIntactAlways`, `!PathReadBehindWriteAlways` | the safety properties of `receive_path` | every step of the composition is a step of the store or leaves it alone, and likewise of the offsets of the ring; the lemmas of the two modules before are cited. The ring's needs that a packet that is refused is consumed like any other |
| `SessionSendProofs!InvAlways` | the inductive invariant of `SessionSend` | `UseInv`, `ChainInv`, `StreamInv`, `ErrorInv`, below |
| `SessionSendProofs!OneWriteInUseAlways`, `!WireOfThisUseAlways`, `!RemainIsUnsentAlways`, `!ErrorsBorneAlways` | all safety properties of `session_send` | each from one part of that invariant |
| `SessionSendProofs!ImplementsStreamAlways` | `ImplementsStream` of `session_send`, until `mixed` | what is pending is what was accepted and is not on the wire; below |
| `UdpNetProofs!NetInvAlways` | the inductive invariant of `UdpNet` | `ChainInv`, `BlockInv`, below |
| `UdpNetProofs!OneReceiveAlways`, `!HandedTogetherAlways`, `!OneHolderAlways`, `!NothingPendingAlways` | the properties of `udp` about the receive chain, handler memory and replacement | each from one part of that invariant |
| `UdpNetProofs!WholeUntilLappedAlways` | `WholeUntilLapped` | with where a datagram in flight lies and how far the writer is from its row (`BufferInv`), below |
| `UdpNetProofs!EverySessionOnceAlways` | `EverySessionOnce` | what leaves the pool is registered or counted as refused (`SessionsInv`), by cardinalities |
| `UdpNetProofs!ImplementsRegistryAlways` | `ImplementsRegistry` | `SessionsInv` makes the registry a function of what the registered objects hold, below |

Who has an accept session depends on the packets that Main finds, and Main does not know who queued
them. A CLOSE that a peer sent (finding 3), or that the end of a connection of the server's own
queued under the id of an accept session (section 6), makes Main reuse a session that may be
accepting or connected, and from then on `SingleOwner` is false of it. The condition
`Undisturbed(s)` is about that one session, and weaker than "no imitation" or "no connections": such
connections may be attempted, fail, be made, receive, and ask to be closed, which disconnects the
accept session as any request does, and every other session may be disturbed. So the theorems have
no hypothesis, and say what becomes of the sessions beside a disturbed one. Two invariants lead
there.

- `ConnectsInv`, about the connect sessions, inductive with the types and without any condition. One
  thing at a time has such a session, a receive or the handler of one (`Chain`); then the session is
  used, and it is open unless it was closed (`ConnectSocket`, `ConnectHandler`). Main closes one but
  never reuses it (`ConnectMain`), as `FindServerSession` returns accept sessions. From it,
  `SpentStays`: a connection that has ended is never forgotten.
- `WholeInv`: `ConnectsInv` and `LifeInv`, which says of each session in `Calm`, the undisturbed
  ones, what follows. A count of imitations only grows and an ended connection stays ended, so
  `Calm` only shrinks (`CalmShrinks`), and what holds of a calm session after a step can be had from
  its being calm before.

`SingleOwner` is not inductive: an accept may be posted only because nothing else has the session, and
that nothing else will follow has to be known from its state. `LifeInv` adds to the types

- `Roles`: at which points a thread may be, and what it closes a session for. IO threads never close a
  session for BIND_FAILED, and Main closes none for it and queues no CLOSE but of a session that is
  not calm;
- per calm session `Exclusive`, `SingleOwner` one kind of owner after the other;
- per calm session `SocketInv`, what the owner may rely on: while an accept waits the session is not
  connected; while a receive, a handler or a CLOSE packet has it, `m_IsUsed` is cleared; with a CLOSE
  packet it is no longer connected either, so `PostAccept` will take it;
- per calm session `PacketInv`: none of its packets waits while an accept is in progress, and a
  CLOSE is its last packet. Where there are connect sessions, data and requests may be theirs, so
  that only ACCEPT and CLOSE tell of the session (`Told`).

Every step moves one calm session on at most. For the others `Untouched` says that operations and
threads stay and packets only move up in the queue or are lost with it, and one lemma shows that
such a session keeps its part of the invariant. There is one lemma per action for a step on a calm
session, which shows `LifeInv'` and which sessions are `Untouched`, and one for the same action on
any other session (`...Elsewhere`): it leaves all calm sessions untouched (`CalmUntouched`),
whatever it does to its own, because every handler, lock and operation names its session and only
the queue is shared. The refinement uses both. A session that is untouched keeps its phase, or is
lost with its CLOSE; the one that is touched makes the step of `SessionPool` that its owners before
and after the step tell; and a step that takes a session out of `Calm` takes one only
(`OneDisturbed`) and is the step `Disturb` of the pool. At the start all are calm (`StartsCalm`), as
`Start` makes all of them wait at once. That `Release` may find the server already stopped needs no
invariant: it is then a step that changes no phase. These invariants were checked with TLC first, on
the instances of the runs.

The invariant `NetInv` of `UdpNet` has two parts, and each is proved with one step per action. `ChainInv`
says that the receive chain of a bound socket has one of three shapes: posted, completed, or in the one
handler, which at the call of the packet handler has looked up the sender of the datagram it hands on.
`BlockInv` says that, as long as no two threads were in `allocate` at once, one operation at most tests
or holds the block, and `in_use_` says which. Neither needs the other but for one fact: a socket
that was never bound has nothing pending.

Two further invariants of `UdpNet` concern one component each. `BufferInv`: a datagram in flight
lies behind the mark of its row until that row is begun anew, and the row in use is the datagram's
row plus the datagrams posted since, modulo the number of rows, so its row is not begun anew before
as many as there are rows were posted after it. `SessionsInv`: the pool holds distinct objects that
are not registered, and among the registered ones neither an address nor an id occurs twice.
`Registry` picks the object that has an address with a `CHOOSE`; uniqueness makes it the only one
(`RegistryIs`), so to know the registry after a step it is enough to give a function that agrees
with every registered object (`RegistryAfter`).

The invariant of `SessionSend` has four parts. `UseInv` says what belongs to the present use: before
its accept nothing does, and a handler with an error other than a cancelled write, or of an empty
packet, has marked the use `stopped`. `ChainInv` says that one packet at a time is on its way, from
the thread or handler that is about to send it through the write to its handler, and that
`m_bIsSending` is set meanwhile. `StreamInv` says which packet that is: what is on the wire, the one
on its way and those that wait are what was accepted, in this order. `ErrorInv` bounds the errors
that are counted or still to be counted. The last three hold until `mixed`.

`SessionSend` implements `PacketStream` connection by connection: a session that is not in CONNECT
is a closed stream, and a write that fails or is empty makes it broken. By `StreamInv` the pending
packets of an open one are those of `accepted` beyond `wire`, so every step that changes neither of
these stutters, whoever it hands the packet to; only `GetPostBuffer`, `Complete`, the accept and the
ends of a connection are steps of the stream. The property says nothing of a step in which a thread
or handler acts in a later use.

The other theorems of `SendBufferProofs` than `OneWriteAlways` assume `BacklogFits`:
`MaxBacklog <= BufferSize - MaxLength + 1`. The code does not enforce it; the comment at SB:51 leaves
it to the user, and without it `WireInOrder` is false. `WireInOrder` alone is not inductive: that the
next region holds the next bytes depends on no post having overwritten it. The invariant `IInv` adds

- `Layout`: the unsent bytes lie in two runs, one that ends at the mark and one from the mark to the
  place of the last wrap, so a post at the mark can only overwrite bytes that are already sent;
- `Waiting`: the packets of `m_SendPackets` follow one another in the stream and lie intact;
- `Writes`: the region that is or will be written is the next one, directly before them;
- `Stalled`: after a write that failed or was empty nothing is sent any more.

`RecvBuffer` has no assumption about the size of a ring. Its theorems hold until `narrowed`, and that a
ring of a size that an INT16 counts never comes to that is `SmallRingsHandleSizes`; the rings and
packets of `main.cpp:22-25` are such.

For the refinement the mapping reads the bytes of the pending packets off the buffer as it is, so that a
post must leave those of all others alone: they are unsent, and `PostKeepsLive` says that no unsent
byte is overwritten (`BytesKept`). A completion takes the first packet off (`BytesBehind`), and the steps
that hand a region on stutter.

The invariant was checked with TLC as an invariant of the run's instance before it was proved.

Only model-checked: liveness (`CloseReported`, `MainReturns`, `ReleaseReturns`, `AllSent`,
`AllSentInUse`, `HandlerEnds`; liveness under fairness is out of the prover's reach).

## 6. Findings

1. `session_lost`: `TCPSocket::Init` (TS:45) clears the packet handler that all sessions share. Two
   CLOSE packets wait, Main reuses the first session, the second CLOSE is gone, and that session is
   never accepted on again.
2. `close_clobbers`: `Close` sets CLOSE again after it notified (TS:157). Main may have reused the
   session and a peer been accepted on it before; the next `Close` then finds no connection and
   leaves the socket open.
3. `peer_ids`: a packet of a peer whose `nID` is that of CLOSE is taken for the library's own (PH:118,
   `main.cpp:65-82`). Main reuses the session while it is connected: `PostAccept` refuses with
   FAIL_ACCEPT_SESSION_OPEN, Main disconnects the peer as BIND_FAILED and queues a CLOSE, and the
   receive that this cancels queues a second one. Only that session is affected (`SharedIdsHarmless`,
   proved).
4. `release_hangs`: `OnAccept` tests the shutdown flag before it sets CONNECT; `DisconnectAll` passes
   in between, and the sleep of SN:93 comes too late. `Release` waits as long as the peer stays.
5. `recv_place`: `PostRecv` (TS:187) adds the write offset twice.

Two more have no run of their own, and are the reason for a condition in what is checked and proved.

- Sessions of the connect pool have ids from 0 (SM:53) and not from `START_SERVER_CONNECT_ID`
  (`SFNetwork_Def.h:22`); the CLOSE of one reuses the accept session of that id, and disconnects its
  peer. The run `peer_ids` with a connect session in place of the imitation (`MaxConnect = 1`,
  `MaxImitations <- NoImitation`) finds it. `Undisturbed` excludes sessions after that.
- The size of a packet is compared in full width and kept in an INT16 (PH:122). In a ring of 32768
  bytes or more, which the INT32 sizes of the configuration allow, a complete packet of more than
  32767 bytes gets a negative size, or 0. `narrowed` marks it (in `receive_path` too, where a header
  misread as 4 may be complete). The rings that `main.cpp` configures are too small for it
  (`SmallRingsHandleSizes`).

Seen on the way, and part of the models without a run of their own: `PopPacket` (PH:229) may remove
a packet that nobody handled, when `Reset` cleared the queue between `FrontPacket` and it (this is
another way to finding 1); sessions of the connect pool are never given back (SN:205,
`ConnectSessionSpent`); a bearable error of a write leaves `m_bIsSending` set, and so does a packet
of no bytes, which `SendTCP` accepts and whose write ends without an error at TS:289-291: in either
case the connection sends nothing more (the reason for `stopped` in the properties of `SendBuffer`
and `SessionSend`); `remote_endpoint()` in `AcceptProcessing` races `Release` (SS:69-71); `Connect`
lets an exception of `SetSocketOption` out (TS:103), and `Release` with a bound UDP socket ends the
process by the threads it destroys (SN:113).

In `SessionSend`: the handler of a write that `Close` cancelled may run after the next peer was
accepted; it passes the state test of TS:269, takes its error for one of the new connection and
requests its disconnect, which the comment at TS:138 means to rule out. A thread between the state
test and `GetPostBuffer` (TS:161-171) may leave `m_bIsSending` set in a session that was reset since:
the next connection then queues its packets behind a write that does not exist. `mixed` marks both.
The error limits of TS:373-408 are never reached, since either chain ends with its first error.

In `HandlerMemory`: a send and a receive that are in `allocate` at once both get the block (HA:24),
and the handler of one overwrites the other's; `overlapped` marks it, and `OneHolder` says what
holds otherwise. In `UdpNet`: when there is one IP version, a socket that cannot be bound is not
reported (UM:103-113), and `SendTo` uses a socket that is not there; `GetUDPIDFunc` is set for IPv4
only (UM:77), so the first datagram of an IPv6 socket ends the process; a second `CreateUDP` with a
socket that was bound ends it as well, since its threads are destroyed without a join (UM:24). Each
is a value of `crash`. In `UdpSessions`: `AddSession` on an empty pool dereferences null, and an
insert that is refused loses the object (UG:165-176). Nothing in the library fills that pool or
calls `AddSession`, `UDPMgr::SetUDPPacketCryptKey` names a member that does not exist, and
`ReleaseUDP` has no caller.

What holds in spite of them is worth knowing. As long as neither its peers nor a connection of the
server's own has queued a CLOSE or an ACCEPT under its id, a session is never accepted on twice, no
connection of it is reported closed twice, and lost it stays lost rather than being mixed up with
another (`SingleOwner`, `ImplementsPool`), whatever becomes of the sessions beside it
(`SharedIdsHarmless`); and the server's own connections are never disturbed by what happens to the
accept session of the same id (`OneReceiveChain`).

## 7. Not modelled

- The bodies of packets, addresses, option calls that do not throw, logging, statistics: no control
  depends on them. The ids of packets do matter and are modelled: the inner ones, and one for all others.
- `TCPSocket`'s crypt key: it sets one member that nothing reads.
- In `ServerNet` a receive holds at most one packet, and the send side is left out: it never changes
  a session's life but through `Disconnect`, which `REQ_CLOSE_SESSION` stands for.
- In `RecvBuffer` what the program does after a complete packet that an INT16 does not hold: as a
  negative size it is copied with undefined behaviour, as 0 it is met for ever. The model stops there.
- In `SendBuffer` a refusal of `GetPostBuffer` and an overwriting of unsent bytes: the checked backlog
  excludes both (`NoneRefused`); nothing in the code does.
- In `RecvBuffer` a receive that would leave the ring's block is not carried on, as what it overwrites
  is not known.
- The UDP manager with both IP versions: two sockets like the one of `UdpNet` that share the
  sessions; a `SendTo` with an address of the other version; `ReleaseUDP` and the close of a UDP
  socket, which are never called.
- In `UdpNet` a datagram longer than a row, which UB would log through a logger it is never given.
- Logging, date and string helpers, the unit test project: formatting and I/O.

## 8. Plan

Done: `ServerNet` with its pool, claims, theorems and the proof of the refinement, with connections
of the server's own and peers that use inner ids; `RingBuffer`, `RecvBuffer`, `SendBuffer`,
`PacketStore` and their theorems; `ReceivePath` with the width of the packet size; `SessionSend` and
its theorems; `PacketStream`, which both send modules implement; `UdpRegistry`, `UdpSessions`,
`UdpSendBuffer`, `HandlerMemory` and their composition `UdpNet`.

Next, in this order:

1. The UDP manager with both IP versions, as two sockets over one `UdpSessions`.
2. An abstract queue that `PacketStore` and `RecvBuffer` implement together in `ReceivePath`.
