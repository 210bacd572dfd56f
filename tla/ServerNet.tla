------------------------------ MODULE ServerNet ------------------------------
(***************************************************************************)
(* The life of the TCP sessions of HbZeroAsioNet: ServerNet and            *)
(* ServerSessionMgr (accept, reuse, connect, shutdown), ServerSession and  *)
(* TCPSocket (accept processing, receive chain, Close), the queue of       *)
(* BasicPacketHandler that the IO threads fill, and the one thread that    *)
(* empties it and calls ServerNetwork::ProcessSystemMsg.                   *)
(*                                                                         *)
(* A step ends where another thread can see or change what follows: at     *)
(* every asynchronous operation, at every lock, and between two accesses   *)
(* to the unlocked members m_nSocketState and m_IsUsed.                    *)
(***************************************************************************)
EXTENDS Integers, Sequences

CONSTANTS
    MaxAccept,      \* m_MaxAcceptSessionCount: accept pool and spare sessions
    MaxConnect,     \* m_MaxConnectSessioncount: sessions for outgoing connections
    IOThreads,      \* the threads that run the io_service
    Main,           \* the thread that handles packets and owns the server
    MaxPackets,     \* MAX_PACKET_COUNT, the capacity of m_Packets
    MaxConnections, \* bound: connections that are made to each session
    MaxImitations,  \* bound: packets of its peers with an inner id, for each session
    MayStop,        \* whether the run calls ServerNet::Stop
    MayBindUDP,     \* whether a UDP socket with its threads may be bound
    Faults          \* the failures of the platform that may occur

(***************************************************************************)
(* Connection sessions get the ids of accept sessions, so every id that    *)
(* reaches FindServerSession names an accept session when the connect pool *)
(* is not the larger one; otherwise line 106 indexes out of the pool.      *)
(***************************************************************************)
ASSUME SizesAssumption ==
    /\ MaxAccept \in Nat \ {0}
    /\ MaxConnect \in 0 .. MaxAccept
    /\ MaxPackets \in Nat \ {0}

ASSUME ThreadsAssumption ==
    /\ Main \notin IOThreads
    /\ MayStop \in BOOLEAN
    /\ MayBindUDP \in BOOLEAN

(***************************************************************************)
(* acceptError: an accept completes with an error while the server runs.   *)
(* remoteGone:  remote_endpoint(), shutdown() or the socket option of      *)
(*              Connect throws, the peer has left.                         *)
(* readBytes:   a receive completes with an error and some bytes.          *)
(***************************************************************************)
ASSUME FaultsAssumption ==
    Faults \subseteq {"acceptError", "remoteGone", "readBytes"}

AcceptSession == 0 .. MaxAccept - 1
ConnectSession == MaxAccept .. MaxAccept + MaxConnect - 1
Session == 0 .. MaxAccept + MaxConnect - 1
NoSession == -1
Thread == IOThreads \cup {Main}
Free == "free"

ASSUME BoundsAssumption ==
    /\ MaxConnections \in [Session -> Nat]
    /\ MaxImitations \in [AcceptSession -> Nat]

ASSUME FreeAssumption == Free \notin Thread

SocketState == {"INIT", "CONNECT", "CLOSE"}
CloseCase == {"SELF_DISCONNECT", "NETWORK_ON_CLOSE", "ACCEPT_FAILED", "BIND_FAILED"}

\* What boost.asio holds for a session: an operation in progress or a handler
\* that is ready to run.
OpKind == {"accept", "acceptOk", "acceptErr", "recv", "recvOk", "recvErr"}

\* INNER_NETWORK_MESSAGE_ID, and one name for all other ids.
PacketID == {"ACCEPT", "CLOSE", "REQ_CLOSE_SESSION", "DATA"}
Packet == [id : PacketID, sid : AcceptSession]

\* m_nSessionID: ServerSessionMgr::Init numbers both pools from 0.
SessionID(s) == IF s \in AcceptSession THEN s ELSE s - MaxAccept

\* Mutant of FindServerSession: the index is one too large.
FindServerSessionPast(id) == id + 1

\* The session FindServerSession returns for an id (SizesAssumption).
FindServerSession(id) == id

VARIABLES
    sockState,  \* m_nSocketState of every session
    used,       \* m_IsUsed of every session
    sockOpen,   \* m_pSocket != nullptr and m_pSocket->is_open()
    lock,       \* the thread that holds TCPSocket::m_Lock of the session
    ops,        \* operations and ready handlers in the io_service
    packets,    \* m_Packets
    headInHand, \* the front of m_Packets is the packet Main is handling
    at,         \* where every thread is: pc, session, close case
    shutdown,   \* m_IsShutDown
    crashed,    \* an exception left a thread: std::terminate
    peers,      \* connections that were made to each session
    imitated    \* history: ACCEPT and CLOSE packets with each session's id
                \* that came from peers

vars == <<sockState, used, sockOpen, lock, ops, packets, headInHand, at,
          shutdown, crashed, peers, imitated>>

socketVars == <<sockState, used, sockOpen>>
queueVars == <<packets, headInHand>>

PC == {"start", "idle", "front", "reuse", "reset", "async", "pop",
       "close", "notify", "closed", "closeAcceptor", "join", "done",
       "acceptOk", "acceptErr", "announce", "process", "postRecv"}

Place == [pc : PC, s : Session \cup {NoSession}, why : CloseCase \cup {"none"}]

Loc(pc, s) == [pc |-> pc, s |-> s, why |-> "none"]
Closing(s, why) == [pc |-> "close", s |-> s, why |-> why]
Idle == Loc("idle", NoSession)

TypeOK ==
    /\ sockState \in [Session -> SocketState]
    /\ used \in [Session -> BOOLEAN]
    /\ sockOpen \in [Session -> BOOLEAN]
    /\ lock \in [Session -> Thread \cup {Free}]
    /\ ops \in [Session -> [OpKind -> Nat]]
    /\ packets \in Seq(Packet)
    /\ Len(packets) <= MaxPackets
    /\ headInHand \in BOOLEAN
    /\ at \in [Thread -> Place]
    /\ shutdown \in BOOLEAN
    /\ crashed \in BOOLEAN
    /\ peers \in [Session -> Nat]
    /\ imitated \in [AcceptSession -> Nat]

-----------------------------------------------------------------------------
(* Operations of asio and of the packet queue that the handlers call.       *)

\* The operation of kind "from" of session s becomes one of kind "to".
Moved(f, from, to) == [f EXCEPT ![from] = @ - 1, ![to] = @ + 1]

\* Closing a socket cancels its receive; the handler gets an error.
Cancelled(f) == [f EXCEPT !["recv"] = 0, !["recvErr"] = @ + f["recv"]]

\* Mutant of Push: a queue that grows beyond its capacity.
PushGrows(id, s) ==
    /\ packets' = Append(packets, [id |-> id, sid |-> SessionID(s)])
    /\ UNCHANGED headInHand

\* circular_buffer::push_back: when it is full the oldest packet is lost.
Push(id, s) ==
    LET p == [id |-> id, sid |-> SessionID(s)]
        full == Len(packets) = MaxPackets
    IN  /\ packets' = Append(IF full THEN Tail(packets) ELSE packets, p)
        /\ headInHand' = (headInHand /\ ~full)

NotifyAccept(s) == Push("ACCEPT", s)

\* Mutant of NotifyDisconnect: nothing is queued.
NotifyDisconnectNot(s) == UNCHANGED queueVars

NotifyDisconnect(s) == Push("CLOSE", s)

NotifyReqCloseSession(s) == Push("REQ_CLOSE_SESSION", s)

\* BasicPacketHandler::Clear, called for any session, empties the one queue.
ClearPackets ==
    /\ packets' = <<>>
    /\ headInHand' = FALSE

\* PostRecv: on a closed socket the receive completes at once with an error.
PostRecv(s) ==
    ops' = [ops EXCEPT ![s][IF sockOpen[s] THEN "recv" ELSE "recvErr"] = @ + 1]

Goto(t, place) == at' = [at EXCEPT ![t] = place]

-----------------------------------------------------------------------------
(* The network outside the server.                                          *)

\* A peer connects; the io_service has the accepted socket ready.
PeerConnects(s) ==
    /\ ops[s]["accept"] > 0
    /\ peers[s] < MaxConnections[s]
    /\ peers' = [peers EXCEPT ![s] = @ + 1]
    /\ ops' = [ops EXCEPT ![s] = Moved(@, "accept", "acceptOk")]
    /\ UNCHANGED <<socketVars, lock, queueVars, at, shutdown, crashed, imitated>>

AcceptFails(s) ==
    /\ "acceptError" \in Faults
    /\ ops[s]["accept"] > 0
    /\ peers[s] < MaxConnections[s]
    /\ peers' = [peers EXCEPT ![s] = @ + 1]
    /\ ops' = [ops EXCEPT ![s] = Moved(@, "accept", "acceptErr")]
    /\ UNCHANGED <<socketVars, lock, queueVars, at, shutdown, crashed, imitated>>

PeerSends(s) ==
    /\ ops[s]["recv"] > 0
    /\ ops' = [ops EXCEPT ![s] = Moved(@, "recv", "recvOk")]
    /\ UNCHANGED <<socketVars, lock, queueVars, at, shutdown, crashed, peers, imitated>>

PeerCloses(s) ==
    /\ ops[s]["recv"] > 0
    /\ ops' = [ops EXCEPT ![s] = Moved(@, "recv", "recvErr")]
    /\ UNCHANGED <<socketVars, lock, queueVars, at, shutdown, crashed, peers, imitated>>

-----------------------------------------------------------------------------
(* TCPSocket::Close, by an IO thread or by Main, under m_Lock.              *)

\* Mutant of LockFree: m_Lock is not waited for.
LockFreeAlways(s) == TRUE

LockFree(s) == lock[s] = Free

\* Mutant of Unlock: m_Lock is kept.
UnlockNot(s) == UNCHANGED lock

Unlock(s) == lock' = [lock EXCEPT ![s] = Free]

\* Mutant of Notifies: disconnecting a session oneself is notified too.
NotifiesAlways(why) == TRUE

Notifies(why) == why # "SELF_DISCONNECT"

CloseBegin(t) ==
    LET s == at[t].s
        why == at[t].why
        closes == sockOpen[s] /\ (sockState[s] = "CONNECT" \/ why = "ACCEPT_FAILED")
    IN  /\ at[t].pc = "close"
        /\ LockFree(s)
        /\ lock' = [lock EXCEPT ![s] = t]
        /\ sockState' = IF closes THEN [sockState EXCEPT ![s] = "CLOSE"] ELSE sockState
        /\ sockOpen' = IF closes THEN [sockOpen EXCEPT ![s] = FALSE] ELSE sockOpen
        /\ ops' = IF closes THEN [ops EXCEPT ![s] = Cancelled(@)] ELSE ops
        /\ Goto(t, [at[t] EXCEPT !.pc = IF Notifies(why) THEN "notify" ELSE "closed"])
        /\ UNCHANGED <<used, queueVars, shutdown, crashed, peers, imitated>>

\* shutdown() of a socket whose peer has gone throws out of Close.
ShutdownThrows(t) ==
    /\ "remoteGone" \in Faults
    /\ at[t].pc = "close"
    /\ at[t].why = "SELF_DISCONNECT"
    /\ LockFree(at[t].s)
    /\ sockOpen[at[t].s] /\ sockState[at[t].s] = "CONNECT"
    /\ crashed' = TRUE
    /\ sockState' = [sockState EXCEPT ![at[t].s] = "CLOSE"]
    /\ UNCHANGED <<used, sockOpen, lock, ops, queueVars, at, shutdown, peers, imitated>>

CloseNotify(t) ==
    /\ at[t].pc = "notify"
    /\ NotifyDisconnect(at[t].s)
    /\ Goto(t, [at[t] EXCEPT !.pc = "closed"])
    /\ UNCHANGED <<socketVars, lock, ops, shutdown, crashed, peers, imitated>>

\* DisconnectAll goes on with the next session of the pools.
AfterClose(t, s) ==
    IF t # Main THEN Idle
    ELSE IF ~shutdown THEN Loc("pop", NoSession)
    ELSE IF s + 1 \in Session THEN Closing(s + 1, "SELF_DISCONNECT")
    ELSE Loc("closeAcceptor", NoSession)

\* Line 157: the state is set once more, after the notification.
CloseEnd(t) ==
    LET s == at[t].s
    IN  /\ at[t].pc = "closed"
        /\ sockState' = [sockState EXCEPT ![s] = "CLOSE"]
        /\ Unlock(s)
        /\ Goto(t, AfterClose(t, s))
        /\ UNCHANGED <<used, sockOpen, ops, queueVars, shutdown, crashed, peers, imitated>>

-----------------------------------------------------------------------------
(* Handlers run by an IO thread.                                            *)

\* Mutant of SetUnUsed: m_IsUsed stays set.
SetUnUsedNot(s) == used

SetUnUsed(s) == [used EXCEPT ![s] = FALSE]

\* OnAccept for an accept that asio completed without an error: the accepted
\* socket is assigned first, and that fails when the session's socket is open.
OnAcceptOk(t, s) ==
    /\ at[t].pc = "idle"
    /\ ops[s]["acceptOk"] > 0
    /\ ops' = [ops EXCEPT ![s]["acceptOk"] = @ - 1]
    /\ sockOpen' = [sockOpen EXCEPT ![s] = TRUE]
    /\ used' = IF shutdown THEN used ELSE SetUnUsed(s)
    /\ Goto(t, IF shutdown THEN Idle
               ELSE Loc(IF sockOpen[s] THEN "acceptErr" ELSE "acceptOk", s))
    /\ UNCHANGED <<sockState, lock, queueVars, shutdown, crashed, peers, imitated>>

OnAcceptErr(t, s) ==
    /\ at[t].pc = "idle"
    /\ ops[s]["acceptErr"] > 0
    /\ ops' = [ops EXCEPT ![s]["acceptErr"] = @ - 1]
    /\ used' = IF shutdown THEN used ELSE SetUnUsed(s)
    /\ Goto(t, IF shutdown THEN Idle ELSE Loc("acceptErr", s))
    /\ UNCHANGED <<sockState, sockOpen, lock, queueVars, shutdown, crashed, peers, imitated>>

\* OnAccept's error branch looks at m_IsShutDown again before it disconnects.
AcceptFailed(t) ==
    /\ at[t].pc = "acceptErr"
    /\ Goto(t, IF shutdown THEN Idle ELSE Closing(at[t].s, "ACCEPT_FAILED"))
    /\ UNCHANGED <<socketVars, lock, ops, queueVars, shutdown, crashed, peers, imitated>>

\* AcceptProcessing: the state first ...
AcceptProcessing(t) ==
    /\ at[t].pc = "acceptOk"
    /\ sockState' = [sockState EXCEPT ![at[t].s] = "CONNECT"]
    /\ Goto(t, Loc("announce", at[t].s))
    /\ UNCHANGED <<used, sockOpen, lock, ops, queueVars, shutdown, crashed, peers, imitated>>

\* ... then the option and the remote address, which throw on a closed socket,
\* and the notification.
Announce(t) ==
    /\ at[t].pc = "announce"
    /\ \/ /\ sockOpen[at[t].s]
          /\ NotifyAccept(at[t].s)
          /\ Goto(t, Loc("postRecv", at[t].s))
          /\ UNCHANGED crashed
       \/ /\ ~sockOpen[at[t].s] \/ "remoteGone" \in Faults
          /\ crashed' = TRUE
          /\ UNCHANGED <<queueVars, at>>
    /\ UNCHANGED <<socketVars, lock, ops, shutdown, peers, imitated>>

ContinueRecv(t) ==
    /\ at[t].pc = "postRecv"
    /\ PostRecv(at[t].s)
    /\ Goto(t, Idle)
    /\ UNCHANGED <<socketVars, lock, queueVars, shutdown, crashed, peers, imitated>>

OnRecvOk(t, s) ==
    /\ at[t].pc = "idle"
    /\ ops[s]["recvOk"] > 0
    /\ ops' = [ops EXCEPT ![s]["recvOk"] = @ - 1]
    /\ Goto(t, Loc("process", s))
    /\ UNCHANGED <<socketVars, lock, queueVars, shutdown, crashed, peers, imitated>>

\* A peer's packet is queued with the id that its header gives it, and that
\* may be an inner one. Asking to close for a peer is what a packet that the
\* store refuses does as well.
Imitates(id, sid) ==
    /\ id \in {"ACCEPT", "CLOSE"}
    /\ imitated[sid] < MaxImitations[sid]
    /\ imitated' = [imitated EXCEPT ![sid] = @ + 1]

\* OnProecssRecvData, with at most one packet in what was received: none is
\* complete, one is queued, or one is refused and a disconnect requested.
ProcessRecvData(t) ==
    LET s == at[t].s
    IN  /\ at[t].pc = "process"
        /\ \/ UNCHANGED <<queueVars, imitated>>
           \/ Push("DATA", s) /\ UNCHANGED imitated
           \/ NotifyReqCloseSession(s) /\ UNCHANGED imitated
           \/ \E id \in PacketID : Push(id, s) /\ Imitates(id, SessionID(s))
        /\ Goto(t, Loc("postRecv", s))
        /\ UNCHANGED <<socketVars, lock, ops, shutdown, crashed, peers>>

\* Mutant of OnRecvErr: PostRecv follows, as after a receive without error.
OnRecvErrGoesOn(t, s) ==
    /\ at[t].pc = "idle"
    /\ ops[s]["recvErr"] > 0
    /\ ops' = [ops EXCEPT ![s] = IF sockOpen[s] THEN Moved(@, "recvErr", "recv") ELSE @]
    /\ Goto(t, Closing(s, "NETWORK_ON_CLOSE"))
    /\ UNCHANGED <<socketVars, lock, queueVars, shutdown, crashed, peers, imitated>>

\* OnRecv with an error and no bytes: Disconnect(NETWORK_ON_CLOSE).
OnRecvErr(t, s) ==
    /\ at[t].pc = "idle"
    /\ ops[s]["recvErr"] > 0
    /\ ops' = [ops EXCEPT ![s]["recvErr"] = @ - 1]
    /\ Goto(t, Closing(s, "NETWORK_ON_CLOSE"))
    /\ UNCHANGED <<socketVars, lock, queueVars, shutdown, crashed, peers, imitated>>

\* OnRecv with an error and bytes: maybe a request to close, and no PostRecv.
OnRecvErrWithBytes(t, s) ==
    /\ "readBytes" \in Faults
    /\ at[t].pc = "idle"
    /\ ops[s]["recvErr"] > 0
    /\ ops' = [ops EXCEPT ![s]["recvErr"] = @ - 1]
    /\ UNCHANGED queueVars \/ NotifyReqCloseSession(s)
    /\ UNCHANGED <<socketVars, lock, at, shutdown, crashed, peers, imitated>>

RunHandler(t, s) ==
    \/ OnAcceptOk(t, s)
    \/ OnAcceptErr(t, s)
    \/ OnRecvOk(t, s)
    \/ OnRecvErr(t, s)
    \/ OnRecvErrWithBytes(t, s)

\* The handler that t runs goes on.
HandlerStep(t) ==
    \/ AcceptFailed(t)
    \/ AcceptProcessing(t)
    \/ Announce(t)
    \/ ContinueRecv(t)
    \/ ProcessRecvData(t)

-----------------------------------------------------------------------------
(* The thread that owns the server and handles the packets.                 *)

MainAt(pc) == at[Main].pc = pc

\* PostAccept of a session that neither is connected nor waits already.
CanPostAccept(s) == sockState[s] # "CONNECT" /\ ~used[s]

\* AllSessionPostAccept; the IO threads start afterwards. Connected is what
\* an m_nSocketState that no constructor sets may be read as.
Start ==
    LET posted == {s \in AcceptSession : \A r \in 0 .. s : sockState[r] # "CONNECT"}
    IN  /\ MainAt("start")
        /\ used' = [s \in Session |-> s \in posted]
        /\ sockState' = [s \in Session |-> IF s \in posted THEN "INIT" ELSE sockState[s]]
        /\ ops' = [s \in Session |->
                     IF s \in posted THEN [ops[s] EXCEPT !["accept"] = 1] ELSE ops[s]]
        /\ Goto(Main, Loc(IF posted = AcceptSession THEN "front" ELSE "done", NoSession))
        /\ UNCHANGED <<sockOpen, lock, queueVars, shutdown, crashed, peers, imitated>>

\* FrontPacket and the switch of ProcessSystemMsg.
FrontPacket ==
    LET p == Head(packets)
        s == FindServerSession(p.sid)
    IN  /\ MainAt("front")
        /\ packets # <<>>
        /\ headInHand' = TRUE
        /\ Goto(Main, CASE p.id = "CLOSE" -> Loc("reuse", s)
                        [] p.id = "REQ_CLOSE_SESSION" -> Closing(s, "SELF_DISCONNECT")
                        [] OTHER -> Loc("pop", NoSession))
        /\ UNCHANGED <<socketVars, lock, ops, packets, shutdown, crashed, peers, imitated>>

\* ReUseSession: the guards of PostAccept and SetUsed, or BIND_FAILED.
ReUseSession ==
    LET s == at[Main].s
    IN  /\ MainAt("reuse")
        /\ used' = [used EXCEPT ![s] = CanPostAccept(s)]
        /\ Goto(Main, IF CanPostAccept(s) THEN Loc("reset", s) ELSE Closing(s, "BIND_FAILED"))
        /\ UNCHANGED <<sockState, sockOpen, lock, ops, queueVars, shutdown, crashed, peers, imitated>>

\* ServerSession::Reset and TCPSocket::Init, which clears the packet handler.
ResetSession ==
    /\ MainAt("reset")
    /\ sockState' = [sockState EXCEPT ![at[Main].s] = "INIT"]
    /\ ClearPackets
    /\ Goto(Main, Loc("async", at[Main].s))
    /\ UNCHANGED <<used, sockOpen, lock, ops, shutdown, crashed, peers, imitated>>

\* async_accept into a socket that is still open fails at once.
AsyncAccept ==
    LET s == at[Main].s
    IN  /\ MainAt("async")
        /\ ops' = [ops EXCEPT ![s][IF sockOpen[s] THEN "acceptErr" ELSE "accept"] = @ + 1]
        /\ Goto(Main, Loc("pop", NoSession))
        /\ UNCHANGED <<socketVars, lock, queueVars, shutdown, crashed, peers, imitated>>

PopPacket ==
    /\ MainAt("pop")
    /\ packets' = IF packets = <<>> THEN packets ELSE Tail(packets)
    /\ headInHand' = FALSE
    /\ Goto(Main, Loc("front", NoSession))
    /\ UNCHANGED <<socketVars, lock, ops, shutdown, crashed, peers, imitated>>

\* UnUseConnectSession: the first session of the connect pool that is free.
UnUseConnectSession(c) ==
    /\ c \in ConnectSession
    /\ CanPostAccept(c)
    /\ \A d \in ConnectSession : d < c => ~CanPostAccept(d)

\* ServerNet::Connect by Main, and TCPSocket::Connect.
Connect(c) ==
    /\ MainAt("front")
    /\ peers[c] < MaxConnections[c]
    /\ UnUseConnectSession(c)
    /\ ~sockOpen[c]
    /\ peers' = [peers EXCEPT ![c] = @ + 1]
    /\ used' = [used EXCEPT ![c] = TRUE]
    /\ sockState' = [sockState EXCEPT ![c] = "CONNECT"]
    /\ sockOpen' = [sockOpen EXCEPT ![c] = TRUE]
    /\ ops' = [ops EXCEPT ![c]["recv"] = @ + 1]
    /\ UNCHANGED <<lock, queueVars, at, shutdown, crashed, imitated>>

\* Setting the socket option is outside Connect's try.
ConnectThrows(c) ==
    /\ "remoteGone" \in Faults
    /\ MainAt("front")
    /\ peers[c] < MaxConnections[c]
    /\ UnUseConnectSession(c)
    /\ ~sockOpen[c]
    /\ peers' = [peers EXCEPT ![c] = @ + 1]
    /\ used' = [used EXCEPT ![c] = TRUE]
    /\ sockState' = [sockState EXCEPT ![c] = "CONNECT"]
    /\ sockOpen' = [sockOpen EXCEPT ![c] = TRUE]
    /\ crashed' = TRUE
    /\ UNCHANGED <<lock, ops, queueVars, at, shutdown, imitated>>

\* The connection is refused, or the socket of an earlier one is still open:
\* SetUnUsed and Reset, which also clears the CLOSE that Close has queued.
ConnectFails(c) ==
    /\ MainAt("front")
    /\ peers[c] < MaxConnections[c]
    /\ UnUseConnectSession(c)
    /\ sockOpen[c] \/ LockFree(c)
    /\ peers' = [peers EXCEPT ![c] = @ + 1]
    /\ sockState' = [sockState EXCEPT ![c] = "INIT"]
    /\ ClearPackets
    /\ UNCHANGED <<used, sockOpen, lock, ops, at, shutdown, crashed, imitated>>

\* ServerNet::Release: the flag, then DisconnectAll from the first session on.
Stop ==
    /\ MayStop
    /\ MainAt("front")
    /\ shutdown' = TRUE
    /\ Goto(Main, Closing(0, "SELF_DISCONNECT"))
    /\ UNCHANGED <<socketVars, lock, ops, queueVars, crashed, peers, imitated>>

\* Mutant of CloseAcceptor: the acceptor stays open.
CloseAcceptorNot ==
    /\ MainAt("closeAcceptor")
    /\ Goto(Main, Loc("join", NoSession))
    /\ UNCHANGED <<socketVars, lock, ops, queueVars, shutdown, crashed, peers, imitated>>

\* Closing the acceptor completes its accepts with an error.
CloseAcceptor ==
    /\ MainAt("closeAcceptor")
    /\ ops' = [s \in Session |-> [ops[s] EXCEPT !["accept"] = 0,
                                                !["acceptErr"] = @ + ops[s]["accept"]]]
    /\ Goto(Main, Loc("join", NoSession))
    /\ UNCHANGED <<socketVars, lock, queueVars, shutdown, crashed, peers, imitated>>

\* Without m_IOWork the threads return when the io_service has no work left.
\* DestroyUDP then destroys the threads of a bound UDP socket, which still run.
Join ==
    /\ MainAt("join")
    /\ \A t \in IOThreads : at[t] = Idle
    /\ \A s \in Session, k \in OpKind : ops[s][k] = 0
    /\ Goto(Main, Loc("done", NoSession))
    /\ crashed' \in IF MayBindUDP THEN BOOLEAN ELSE {FALSE}
    /\ UNCHANGED <<socketVars, lock, ops, queueVars, shutdown, peers, imitated>>

MainStep ==
    \/ Start
    \/ FrontPacket
    \/ ReUseSession
    \/ ResetSession
    \/ AsyncAccept
    \/ PopPacket
    \/ CloseAcceptor
    \/ Join

CloseStep(t) == CloseBegin(t) \/ ShutdownThrows(t) \/ CloseNotify(t) \/ CloseEnd(t)

\* What the application and the peers may do but need not.
Environment ==
    \/ Stop
    \/ \E c \in ConnectSession : Connect(c) \/ ConnectThrows(c) \/ ConnectFails(c)
    \/ \E s \in Session : \/ PeerConnects(s)
                          \/ AcceptFails(s)
                          \/ PeerSends(s)
                          \/ PeerCloses(s)

-----------------------------------------------------------------------------
\* No constructor sets m_nSocketState; a new session is otherwise unused.
Init ==
    /\ sockState \in [Session -> SocketState]
    /\ used = [s \in Session |-> FALSE]
    /\ sockOpen = [s \in Session |-> FALSE]
    /\ lock = [s \in Session |-> Free]
    /\ ops = [s \in Session |-> [k \in OpKind |-> 0]]
    /\ packets = <<>>
    /\ headInHand = FALSE
    /\ at = [t \in Thread |-> IF t = Main THEN Loc("start", NoSession) ELSE Idle]
    /\ shutdown = FALSE
    /\ crashed = FALSE
    /\ peers = [s \in Session |-> 0]
    /\ imitated = [s \in AcceptSession |-> 0]

\* The process ends with main() and with an exception that leaves a thread.
ProcessRuns == ~crashed /\ ~MainAt("done")

Next ==
    /\ ProcessRuns
    /\ \/ Environment
       \/ MainStep
       \/ \E t \in Thread : CloseStep(t)
       \/ \E t \in IOThreads : HandlerStep(t)
       \/ \E t \in IOThreads, s \in Session : RunHandler(t, s)

Spec == Init /\ [][Next]_vars

(***************************************************************************)
(* A thread goes on with the handler it runs, Main with its loop, and the  *)
(* io_service, which queues ready handlers in order, runs each of them on  *)
(* some thread. Nothing is assumed of peers, nor of calls that the         *)
(* application may make.                                                   *)
(***************************************************************************)
Fairness ==
    /\ WF_vars(ProcessRuns /\ MainStep)
    /\ \A t \in Thread : WF_vars(ProcessRuns /\ CloseStep(t))
    /\ \A t \in IOThreads : WF_vars(ProcessRuns /\ HandlerStep(t))
    /\ \A s \in Session :
          SF_vars(ProcessRuns /\ \E t \in IOThreads : RunHandler(t, s))

FairSpec == Spec /\ Fairness

\* Peers that are connected leave in the end.
PeersLeave == \A s \in Session : SF_vars(ProcessRuns /\ PeerCloses(s))

FairPeersSpec == FairSpec /\ PeersLeave

-----------------------------------------------------------------------------
(* What makes the life cycle correct.                                       *)

\* The program points of an IO thread between taking a handler of session s
\* and handing the session on, to the next operation or to a CLOSE packet.
OwningPC == {"acceptOk", "acceptErr", "announce", "process", "postRecv"}

Owns(t, s) ==
    /\ at[t].s = s
    /\ \/ at[t].pc \in OwningPC
       \/ /\ at[t].pc \in {"close", "notify"}
          /\ at[t].why \in {"NETWORK_ON_CLOSE", "ACCEPT_FAILED"}

\* A CLOSE packet of session s that Main has not yet taken in hand.
Awaits(i, s) ==
    /\ packets[i] = [id |-> "CLOSE", sid |-> s]
    /\ ~(i = 1 /\ headInHand)

\* Everything that will give session s its next step: an operation of the
\* io_service, a handler, a CLOSE packet, or Main while it reuses the session.
Owners(s) ==
    {<<"operation", k>> : k \in {k \in OpKind : ops[s][k] > 0}}
      \cup {<<"handler", t>> : t \in {t \in IOThreads : Owns(t, s)}}
      \cup {<<"packet", i>> : i \in {i \in DOMAIN packets : Awaits(i, s)}}
      \cup {<<"main", pc>> : pc \in {pc \in {"reuse", "reset", "async"} :
                                       at[Main] = Loc(pc, s)}}

\* The connections that the server made with the id of session s.
Namesakes(s) == {c \in ConnectSession : SessionID(c) = s}

(***************************************************************************)
(* Packets do not tell who queued them, nor which pool their session is    *)
(* of. Session s is undisturbed while no peer has given a packet of that   *)
(* id the inner id of an ACCEPT or a CLOSE, and no connection of the       *)
(* server's own that has the id has ended and queued its CLOSE. Neither is *)
(* ever undone: connect sessions are not given back.                       *)
(***************************************************************************)
Undisturbed(s) ==
    /\ imitated[s] = 0
    /\ \A c \in Namesakes(s) : ~(used[c] /\ sockState[c] = "CLOSE")

(***************************************************************************)
(* Session objects are shared without a lock and PostAccept is "UnSafe":   *)
(* it is right only when nothing else has the session. Never two           *)
(* operations, handlers, CLOSE packets or reuses have the same session, so *)
(* an accept is never posted on a session with a receive in progress and   *)
(* one connection is never reported closed twice (SFServerNet.h:179-209,   *)
(* SFTCPSocket.h:118-158, 304-337). It is so of every undisturbed session, *)
(* whatever becomes of the disturbed ones.                                 *)
(***************************************************************************)
SingleOwner ==
    \A s \in AcceptSession : Undisturbed(s) =>
       /\ \A k \in OpKind : ops[s][k] <= 1
       /\ \A x, y \in Owners(s) : x = y

(***************************************************************************)
(* When Main reuses the session of a CLOSE packet, PostAccept accepts it:  *)
(* neither FAIL_ACCEPT_SESSION_OPEN nor FAIL_ALREADY_POST_ACCEPT           *)
(* (SFServerNet.h:342-348), although OnAccept and Close write m_IsUsed and *)
(* m_nSocketState on other threads; of every undisturbed session.          *)
(***************************************************************************)
ReuseNeverRefused ==
    MainAt("reuse") /\ Undisturbed(at[Main].s) => CanPostAccept(at[Main].s)

\* The ids that tell of one session alone: data and requests to close of a
\* connection that the server made have the id of an accept session.
Told(s) == IF Namesakes(s) = {} THEN PacketID ELSE {"ACCEPT", "CLOSE"}

(***************************************************************************)
(* The packets of an undisturbed session that wait in the queue belong to  *)
(* one connection: ACCEPT comes before, CLOSE after every other packet of  *)
(* the session (SFDefaultPacketHandler.h:175-195).                         *)
(***************************************************************************)
NotificationOrder ==
    \A i, j \in DOMAIN packets :
       /\ i < j
       /\ packets[i].sid = packets[j].sid
       /\ Undisturbed(packets[i].sid)
       /\ {packets[i].id, packets[j].id} \subseteq Told(packets[i].sid)
       => packets[i].id # "CLOSE" /\ packets[j].id # "ACCEPT"

(***************************************************************************)
(* Sessions of both pools are numbered from 0, and what a connection of    *)
(* the server's own queues has the id of an accept session: its data and   *)
(* its requests make Main act on that one. That does no harm: until such a *)
(* connection ends, or a peer imitates an inner id, the accept session has *)
(* one owner, is reused without a refusal and is told of in order; and     *)
(* what becomes of a disturbed session harms no other, although all have   *)
(* one queue, one io_service and one Main (SFServerSessionMgr.h:53,        *)
(* SFDefaultPacketHandler.h:118, SFServerNet.h:179-209).                   *)
(***************************************************************************)
SharedIdsHarmless == SingleOwner /\ ReuseNeverRefused /\ NotificationOrder

(***************************************************************************)
(* A connection that the server made itself has one receive chain for as   *)
(* long as it lives: nothing that the packets with its id make Main do to  *)
(* the accept session of that id reaches it, and no second receive is      *)
(* posted when it ends (SFServerSessionMgr.h:53, 88-106;                   *)
(* SFTCPSocket.h:96, 304-337).                                             *)
(***************************************************************************)
OneReceiveChain ==
    \A c \in ConnectSession :
       /\ \A k \in OpKind : ops[c][k] <= 1
       /\ \A x, y \in Owners(c) : x = y

(***************************************************************************)
(* A session of the connect pool that a connection has taken is never free *)
(* again: Main hands back accept sessions only, because the CLOSE of a     *)
(* connection carries the id of one, so UnUseConnectSession offers each    *)
(* session of the pool to one connection, and a connection that has been   *)
(* closed stays closed (SFServerNet.h:142-209, SFServerSessionMgr.h:53,    *)
(* 67-86).                                                                 *)
(***************************************************************************)
ConnectSessionSpent ==
    [][\A c \in ConnectSession : used[c] =>
          used'[c] /\ (sockState[c] = "CLOSE" => sockState'[c] = "CLOSE")]_vars

(***************************************************************************)
(* A receive whose socket was closed, here or by the peer, is always       *)
(* reported, unless an exception ends the process: its handler runs, takes *)
(* m_Lock and queues CLOSE (SFTCPSocket.h:304-327, 152-155).               *)
(***************************************************************************)
CloseReported ==
    \A s \in Session :
       ops[s]["recvErr"] > 0 ~>
          \/ \E i \in DOMAIN packets : packets[i] = [id |-> "CLOSE", sid |-> SessionID(s)]
          \/ crashed

(***************************************************************************)
(* Main always gets back to FrontPacket, unless an exception ends the      *)
(* process: no lock of a session is kept from it for ever, while it reuses *)
(* a session or disconnects one (SFTCPSocket.h:120, main.cpp:49-85).       *)
(***************************************************************************)
MainReturns ==
    ~MainAt("front") ~> (MainAt("front") \/ MainAt("done") \/ shutdown \/ crashed)

(***************************************************************************)
(* Close is done by one thread at a time, from the test of the state to    *)
(* the last assignment (SFTCPSocket.h:120, 157), whatever sessions the     *)
(* server connects itself.                                                 *)
(***************************************************************************)
CloseExclusive ==
    \A t, u \in Thread :
       /\ at[t].pc \in {"notify", "closed"}
       /\ at[u].pc \in {"notify", "closed"}
       /\ at[t].s = at[u].s
       => t = u

(***************************************************************************)
(* Release, once begun, returns: Main gets the lock of every session, and  *)
(* the IO threads run out of work and are joined (SFServerNet.h:80-116).   *)
(* It is so when the peers leave in the end (FairPeersSpec). Without that  *)
(* it fails: the pause that is to keep an accept from being processed      *)
(* while the server ends (line 93) comes after DisconnectAll, which has    *)
(* then passed a session whose accept is being processed.                  *)
(***************************************************************************)
ReleaseReturns == shutdown ~> (MainAt("done") \/ crashed)

=============================================================================
