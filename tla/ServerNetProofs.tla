--------------------------- MODULE ServerNetProofs ---------------------------
(***************************************************************************)
(* Proofs about ServerNet for every number of sessions, threads, packets   *)
(* and connections: its types, the lock of Close, what the server's own    *)
(* connections do (ConnectsInv), who has an undisturbed accept session     *)
(* (LifeInv), and that the server implements SessionPool.                  *)
(***************************************************************************)
EXTENDS ServerNetPool, TLAPS

\* The program points at which a thread has no session.
NoSessionPC == {"start", "idle", "front", "pop", "closeAcceptor", "join", "done"}

\* A thread that works on a session knows which.
HasSession == \A t \in Thread : at[t].pc \notin NoSessionPC => at[t].s \in Session

IInv == TypeOK /\ HasSession

-----------------------------------------------------------------------------
(* What the helper operators return.                                        *)

\* The id of a session of either pool is the id of an accept session.
LEMMA SessionIDType ==
    ASSUME NEW s \in Session
    PROVE  SessionID(s) \in AcceptSession
BY SizesAssumption DEF SessionID, Session, AcceptSession

\* Every id that is found in a packet is the id of a session.
LEMMA AcceptSessionIsSession ==
    ASSUME NEW s \in AcceptSession
    PROVE  s \in Session
BY SizesAssumption DEF Session, AcceptSession

\* Sessions of the connect pool are sessions too.
LEMMA ConnectSessionIsSession ==
    ASSUME NEW s \in ConnectSession
    PROVE  s \in Session
BY SizesAssumption DEF Session, ConnectSession

\* A queue with room gets longer by one, a full one loses its front.
LEMMA PushType ==
    ASSUME TypeOK, NEW id \in PacketID, NEW s \in Session, Push(id, s)
    PROVE  packets' \in Seq(Packet) /\ Len(packets') <= MaxPackets /\ headInHand' \in BOOLEAN
<1> DEFINE p == [id |-> id, sid |-> SessionID(s)]
<1>1. p \in Packet
  BY SessionIDType DEF Packet
<1>2. packets \in Seq(Packet) /\ Len(packets) <= MaxPackets /\ MaxPackets \in Nat /\ MaxPackets >= 1
  BY SizesAssumption DEF TypeOK
<1> HIDE DEF p
<1>3. CASE Len(packets) = MaxPackets
  <2>1. packets' = Append(Tail(packets), p)
    BY <1>3 DEF Push, p
  <2>2. Tail(packets) \in Seq(Packet) /\ Len(Tail(packets)) = MaxPackets - 1
    BY <1>2, <1>3
  <2> QED
    BY <1>1, <1>2, <2>1, <2>2 DEF Push
<1>4. CASE Len(packets) # MaxPackets
  <2>1. packets' = Append(packets, p)
    BY <1>4 DEF Push, p
  <2> QED
    BY <1>1, <1>2, <1>4, <2>1 DEF Push
<1> QED
  BY <1>3, <1>4

\* The queue that Clear leaves behind.
LEMMA EmptyQueueType ==
    <<>> \in Seq(Packet) /\ Len(<<>>) <= MaxPackets
<1>1. <<>> \in Seq(Packet)
  OBVIOUS
<1>2. Len(<<>>) = 0
  OBVIOUS
<1>3. MaxPackets \in Nat
  BY SizesAssumption
<1> QED
  BY <1>1, <1>2, <1>3

\* Nothing is lost when an operation becomes ready.
LEMMA MovedType ==
    ASSUME NEW f \in [OpKind -> Nat], NEW from \in OpKind, NEW to \in OpKind,
           f[from] > 0, from # to
    PROVE  Moved(f, from, to) \in [OpKind -> Nat]
BY DEF Moved

\* Cancelling a receive keeps the numbers natural.
LEMMA CancelledType ==
    ASSUME NEW f \in [OpKind -> Nat]
    PROVE  Cancelled(f) \in [OpKind -> Nat]
BY DEF Cancelled, OpKind

\* A place with a session where one is needed.
Arrives(place) ==
    place \in Place /\ (place.pc \notin NoSessionPC => place.s \in Session)

\* The places that threads go to.
LEMMA ArrivesAt ==
    /\ Arrives(Idle)
    /\ \A pc \in NoSessionPC : Arrives(Loc(pc, NoSession))
    /\ \A pc \in PC, s \in Session : Arrives(Loc(pc, s))
    /\ \A s \in Session, why \in CloseCase : Arrives(Closing(s, why))
BY DEF Arrives, Idle, Loc, Closing, Place, PC, NoSession, NoSessionPC

\* A thread that goes to such a place keeps the invariant of the places.
LEMMA GotoKeeps ==
    ASSUME IInv, NEW t \in Thread, NEW place, Arrives(place), Goto(t, place)
    PROVE  at' \in [Thread -> Place] /\ HasSession'
<1>1. at' = [at EXCEPT ![t] = place] /\ at \in [Thread -> Place]
  BY DEF Goto, IInv, TypeOK
<1>2. at' \in [Thread -> Place]
  BY <1>1 DEF Arrives
<1>3. ASSUME NEW u \in Thread, at'[u].pc \notin NoSessionPC
      PROVE  at'[u].s \in Session
  <2>1. CASE u = t
    BY <1>1, <1>3, <2>1 DEF Arrives
  <2>2. CASE u # t
    BY <1>1, <1>3, <2>2 DEF IInv, HasSession
  <2> QED
    BY <2>1, <2>2
<1> QED
  BY <1>2, <1>3 DEF HasSession

\* An operation of a session that begins or that is taken from the io_service.
LEMMA OpsType ==
    ASSUME TypeOK, NEW s \in Session, NEW k \in OpKind
    PROVE  /\ ops[s][k] \in Nat
           /\ [ops EXCEPT ![s][k] = @ + 1] \in [Session -> [OpKind -> Nat]]
           /\ ops[s][k] > 0 => [ops EXCEPT ![s][k] = @ - 1] \in [Session -> [OpKind -> Nat]]
           /\ \A f \in [OpKind -> Nat] : [ops EXCEPT ![s] = f] \in [Session -> [OpKind -> Nat]]
           /\ ops[s] \in [OpKind -> Nat]
BY DEF TypeOK

-----------------------------------------------------------------------------
(* The network outside the server.                                          *)

\* An operation becomes ready; no thread moves.
LEMMA NetworkKeeps ==
    ASSUME IInv, NEW s \in Session,
           PeerConnects(s) \/ AcceptFails(s) \/ PeerSends(s) \/ PeerCloses(s)
    PROVE  IInv'
<1>1. /\ "accept" \in OpKind /\ "acceptOk" \in OpKind /\ "acceptErr" \in OpKind
      /\ "recv" \in OpKind /\ "recvOk" \in OpKind /\ "recvErr" \in OpKind
  BY DEF OpKind
<1>2. PICK from \in OpKind, to \in OpKind :
         /\ from # to /\ ops[s][from] > 0
         /\ ops' = [ops EXCEPT ![s] = Moved(ops[s], from, to)]
  BY <1>1 DEF PeerConnects, AcceptFails, PeerSends, PeerCloses
<1>3. ops' \in [Session -> [OpKind -> Nat]]
  BY <1>2, OpsType, MovedType DEF IInv
<1>4. peers' \in [Session -> Nat]
  <2>1. CASE peers' = peers
    BY <2>1 DEF IInv, TypeOK
  <2>2. CASE peers' = [peers EXCEPT ![s] = @ + 1]
    BY <2>2, SizesAssumption DEF IInv, TypeOK
  <2> QED
    BY <2>1, <2>2 DEF PeerConnects, AcceptFails, PeerSends, PeerCloses
<1>5. UNCHANGED <<socketVars, lock, queueVars, at, shutdown, crashed, imitated>>
  BY DEF PeerConnects, AcceptFails, PeerSends, PeerCloses
<1> QED
  BY <1>3, <1>4, <1>5 DEF IInv, TypeOK, HasSession, socketVars, queueVars

-----------------------------------------------------------------------------
(* TCPSocket::Close.                                                        *)

\* The thread takes the lock and goes on inside Close.
LEMMA CloseBeginKeeps ==
    ASSUME IInv, NEW t \in Thread, CloseBegin(t)
    PROVE  IInv'
<1> DEFINE s == at[t].s
           pc == IF Notifies(at[t].why) THEN "notify" ELSE "closed"
<1>1. s \in Session /\ at[t] \in Place
  BY DEF CloseBegin, IInv, HasSession, NoSessionPC, TypeOK
<1>2. Arrives([at[t] EXCEPT !.pc = pc])
  BY <1>1 DEF Arrives, Place, PC
<1>3. at' \in [Thread -> Place] /\ HasSession'
  <2>1. Goto(t, [at[t] EXCEPT !.pc = pc])
    BY DEF CloseBegin
  <2> QED
    BY <1>2, <2>1, GotoKeeps
<1>4. ops' \in [Session -> [OpKind -> Nat]]
  <2>1. ops' = ops \/ ops' = [ops EXCEPT ![s] = Cancelled(ops[s])]
    BY DEF CloseBegin
  <2>2. Cancelled(ops[s]) \in [OpKind -> Nat]
    <3>1. ops[s] \in [OpKind -> Nat]
      BY <1>1 DEF IInv, TypeOK
    <3> QED
      BY <3>1, CancelledType
  <2> QED
    BY <1>1, <2>1, <2>2 DEF IInv, TypeOK
<1>5. sockState' \in [Session -> SocketState] /\ sockOpen' \in [Session -> BOOLEAN]
  <2>1. sockState' = sockState \/ sockState' = [sockState EXCEPT ![s] = "CLOSE"]
    BY DEF CloseBegin
  <2>2. sockOpen' = sockOpen \/ sockOpen' = [sockOpen EXCEPT ![s] = FALSE]
    BY DEF CloseBegin
  <2> QED
    BY <1>1, <2>1, <2>2 DEF IInv, TypeOK, SocketState
<1>6. lock' \in [Session -> Thread \cup {Free}]
  <2>1. lock' = [lock EXCEPT ![s] = t]
    BY DEF CloseBegin
  <2> QED
    BY <2>1 DEF IInv, TypeOK
<1>7. UNCHANGED <<used, queueVars, shutdown, crashed, peers, imitated>>
  BY DEF CloseBegin
<1> QED
  BY <1>3, <1>4, <1>5, <1>6, <1>7 DEF IInv, TypeOK, queueVars

\* The process ends; only the state was written.
LEMMA ShutdownThrowsKeeps ==
    ASSUME IInv, NEW t \in Thread, ShutdownThrows(t)
    PROVE  IInv'
<1>1. /\ crashed' \in BOOLEAN
      /\ sockState' = [sockState EXCEPT ![at[t].s] = "CLOSE"]
      /\ UNCHANGED <<used, sockOpen, lock, ops, queueVars, at, shutdown, peers, imitated>>
  BY DEF ShutdownThrows
<1>2. sockState' \in [Session -> SocketState]
  BY <1>1 DEF IInv, TypeOK, SocketState
<1> QED
  BY <1>1, <1>2 DEF IInv, TypeOK, HasSession, queueVars

\* The queue gets a CLOSE for an id of the accept sessions.
LEMMA CloseNotifyKeeps ==
    ASSUME IInv, NEW t \in Thread, CloseNotify(t)
    PROVE  IInv'
<1>1. at[t].s \in Session /\ at[t] \in Place
  BY DEF CloseNotify, IInv, HasSession, NoSessionPC, TypeOK
<1>2. packets' \in Seq(Packet) /\ Len(packets') <= MaxPackets /\ headInHand' \in BOOLEAN
  <2>1. Push("CLOSE", at[t].s) /\ "CLOSE" \in PacketID
    BY DEF CloseNotify, NotifyDisconnect, PacketID
  <2> QED
    BY <1>1, <2>1, PushType DEF IInv
<1>3. Arrives([at[t] EXCEPT !.pc = "closed"])
  BY <1>1 DEF Arrives, Place, PC
<1>4. at' \in [Thread -> Place] /\ HasSession'
  BY <1>3, GotoKeeps DEF CloseNotify
<1>5. UNCHANGED <<socketVars, lock, ops, shutdown, crashed, peers, imitated>>
  BY DEF CloseNotify
<1> QED
  BY <1>2, <1>4, <1>5 DEF IInv, TypeOK, socketVars

\* The thread goes back to its work, Main to its packet or the next session.
LEMMA CloseEndKeeps ==
    ASSUME IInv, NEW t \in Thread, CloseEnd(t)
    PROVE  IInv'
<1> DEFINE s == at[t].s
<1>1. s \in Session
  BY DEF CloseEnd, IInv, HasSession, NoSessionPC
<1>2. Arrives(AfterClose(t, s))
  <2>1. "pop" \in NoSessionPC /\ "closeAcceptor" \in NoSessionPC
    BY DEF NoSessionPC
  <2>2. "SELF_DISCONNECT" \in CloseCase
    BY DEF CloseCase
  <2> QED
    BY <2>1, <2>2, ArrivesAt DEF AfterClose
<1>3. at' \in [Thread -> Place] /\ HasSession'
  BY <1>2, GotoKeeps DEF CloseEnd
<1>4. /\ sockState' = [sockState EXCEPT ![s] = "CLOSE"]
      /\ lock' = [lock EXCEPT ![s] = Free]
      /\ UNCHANGED <<used, sockOpen, ops, queueVars, shutdown, crashed, peers, imitated>>
  BY DEF CloseEnd, Unlock
<1> QED
  BY <1>3, <1>4 DEF IInv, TypeOK, SocketState, queueVars

\* Each step of Close, by whatever thread.
LEMMA CloseStepKeeps ==
    ASSUME IInv, NEW t \in Thread, CloseStep(t)
    PROVE  IInv'
BY CloseBeginKeeps, ShutdownThrowsKeeps, CloseNotifyKeeps, CloseEndKeeps DEF CloseStep

-----------------------------------------------------------------------------
(* Handlers.                                                                *)

\* A handler is taken from the io_service.
LEMMA RunHandlerKeeps ==
    ASSUME IInv, NEW t \in Thread, NEW s \in Session, RunHandler(t, s)
    PROVE  IInv'
<1>1. PICK k \in OpKind : ops[s][k] > 0 /\ ops' = [ops EXCEPT ![s][k] = @ - 1]
  BY DEF RunHandler, OnAcceptOk, OnAcceptErr, OnRecvOk, OnRecvErr, OnRecvErrWithBytes, OpKind
<1>2. ops' \in [Session -> [OpKind -> Nat]]
  BY <1>1, OpsType DEF IInv
<1>3. PICK place : (Arrives(place) /\ Goto(t, place)) \/ at' = at
  <2>1. "acceptErr" \in PC /\ "acceptOk" \in PC /\ "process" \in PC
        /\ "NETWORK_ON_CLOSE" \in CloseCase
    BY DEF PC, CloseCase
  <2> QED
    BY <2>1, ArrivesAt
       DEF RunHandler, OnAcceptOk, OnAcceptErr, OnRecvOk, OnRecvErr, OnRecvErrWithBytes
<1>4. at' \in [Thread -> Place] /\ HasSession'
  BY <1>3, GotoKeeps DEF IInv, TypeOK, HasSession
<1>5. used' \in [Session -> BOOLEAN] /\ sockOpen' \in [Session -> BOOLEAN]
  <2>1. used' = used \/ used' = [used EXCEPT ![s] = FALSE]
    BY DEF RunHandler, OnAcceptOk, OnAcceptErr, OnRecvOk, OnRecvErr, OnRecvErrWithBytes,
           SetUnUsed, socketVars
  <2>2. sockOpen' = sockOpen \/ sockOpen' = [sockOpen EXCEPT ![s] = TRUE]
    BY DEF RunHandler, OnAcceptOk, OnAcceptErr, OnRecvOk, OnRecvErr, OnRecvErrWithBytes,
           socketVars
  <2> QED
    BY <2>1, <2>2 DEF IInv, TypeOK
<1>6. packets' \in Seq(Packet) /\ Len(packets') <= MaxPackets /\ headInHand' \in BOOLEAN
  <2>1. CASE UNCHANGED queueVars
    BY <2>1 DEF IInv, TypeOK, queueVars
  <2>2. CASE Push("REQ_CLOSE_SESSION", s)
    BY <2>2, PushType DEF IInv, PacketID
  <2> QED
    BY <2>1, <2>2
       DEF RunHandler, OnAcceptOk, OnAcceptErr, OnRecvOk, OnRecvErr, OnRecvErrWithBytes,
           NotifyReqCloseSession
<1>7. UNCHANGED <<sockState, lock, shutdown, crashed, peers, imitated>>
  BY DEF RunHandler, OnAcceptOk, OnAcceptErr, OnRecvOk, OnRecvErr, OnRecvErrWithBytes,
         socketVars
<1> QED
  BY <1>2, <1>4, <1>5, <1>6, <1>7 DEF IInv, TypeOK

\* A handler that runs goes on with its session.
LEMMA HandlerStepKeeps ==
    ASSUME IInv, NEW t \in Thread, HandlerStep(t)
    PROVE  IInv'
<1> DEFINE s == at[t].s
<1>1. s \in Session
  BY DEF HandlerStep, AcceptFailed, AcceptProcessing, Announce, ContinueRecv,
         ProcessRecvData, IInv, HasSession, NoSessionPC
<1>2. PICK place : (Arrives(place) /\ Goto(t, place)) \/ at' = at
  <2>1. "announce" \in PC /\ "postRecv" \in PC /\ "ACCEPT_FAILED" \in CloseCase
    BY DEF PC, CloseCase
  <2> QED
    BY <1>1, <2>1, ArrivesAt
       DEF HandlerStep, AcceptFailed, AcceptProcessing, Announce, ContinueRecv,
           ProcessRecvData
<1>3. at' \in [Thread -> Place] /\ HasSession'
  BY <1>2, GotoKeeps DEF IInv, TypeOK, HasSession
<1>4. packets' \in Seq(Packet) /\ Len(packets') <= MaxPackets /\ headInHand' \in BOOLEAN
  <2>1. CASE UNCHANGED queueVars
    BY <2>1 DEF IInv, TypeOK, queueVars
  <2>2. ASSUME NEW id \in PacketID, Push(id, s)
        PROVE  /\ packets' \in Seq(Packet) /\ Len(packets') <= MaxPackets
               /\ headInHand' \in BOOLEAN
    BY <1>1, <2>2, PushType DEF IInv
  <2>3. UNCHANGED queueVars \/ \E id \in PacketID : Push(id, s)
    BY DEF HandlerStep, AcceptFailed, AcceptProcessing, Announce, ContinueRecv,
           ProcessRecvData, NotifyAccept, NotifyReqCloseSession, PacketID
  <2> QED
    BY <2>1, <2>2, <2>3
<1>5. ops' \in [Session -> [OpKind -> Nat]]
  <2>1. "recv" \in OpKind /\ "recvErr" \in OpKind
    BY DEF OpKind
  <2>2. \/ ops' = ops
        \/ \E k \in OpKind : ops' = [ops EXCEPT ![s][k] = @ + 1]
    BY <2>1 DEF HandlerStep, AcceptFailed, AcceptProcessing, Announce, ContinueRecv,
           ProcessRecvData, PostRecv
  <2>3. CASE ops' = ops
    BY <2>3 DEF IInv, TypeOK
  <2>4. ASSUME NEW k \in OpKind, ops' = [ops EXCEPT ![s][k] = @ + 1]
        PROVE  ops' \in [Session -> [OpKind -> Nat]]
    <3> HIDE DEF s
    <3> QED
      BY <1>1, <2>4, OpsType DEF IInv
  <2> HIDE DEF s
  <2> QED
    BY <2>2, <2>3, <2>4
<1>6. sockState' \in [Session -> SocketState]
  <2>1. sockState' = sockState \/ sockState' = [sockState EXCEPT ![s] = "CONNECT"]
    BY DEF HandlerStep, AcceptFailed, AcceptProcessing, Announce, ContinueRecv,
           ProcessRecvData, socketVars
  <2> QED
    BY <2>1 DEF IInv, TypeOK, SocketState
<1>7. crashed' \in BOOLEAN
  BY DEF HandlerStep, AcceptFailed, AcceptProcessing, Announce, ContinueRecv,
         ProcessRecvData, IInv, TypeOK
<1>8. UNCHANGED <<used, sockOpen, lock, shutdown, peers>>
  BY DEF HandlerStep, AcceptFailed, AcceptProcessing, Announce, ContinueRecv,
         ProcessRecvData, socketVars
<1>9. imitated' \in [AcceptSession -> Nat]
  <2>1. imitated' = imitated \/ \E id \in PacketID : Imitates(id, SessionID(s))
    BY DEF HandlerStep, AcceptFailed, AcceptProcessing, Announce, ContinueRecv, ProcessRecvData
  <2>2. imitated \in [AcceptSession -> Nat]
    BY DEF IInv, TypeOK
  <2>3. SessionID(s) \in AcceptSession
    BY <1>1, SessionIDType
  <2>4. ASSUME NEW sid \in AcceptSession, imitated' = [imitated EXCEPT ![sid] = @ + 1]
        PROVE  imitated' \in [AcceptSession -> Nat]
    <3>1. imitated[sid] + 1 \in Nat
      BY <2>2
    <3> QED
      BY <2>2, <2>4, <3>1
  <2>5. imitated' = imitated \/ imitated' = [imitated EXCEPT ![SessionID(s)] = @ + 1]
    BY <2>1 DEF Imitates
  <2> HIDE DEF s
  <2> QED
    BY <2>2, <2>3, <2>4, <2>5
<1> QED
  BY <1>3, <1>4, <1>5, <1>6, <1>7, <1>8, <1>9 DEF IInv, TypeOK

-----------------------------------------------------------------------------
(* Main.                                                                    *)

\* Every session that is posted has one accept.
LEMMA StartKeeps ==
    ASSUME IInv, Start
    PROVE  IInv'
<1> DEFINE posted == {s \in AcceptSession : \A r \in 0 .. s : sockState[r] # "CONNECT"}
<1>1. used' \in [Session -> BOOLEAN]
  BY DEF Start
<1>2. sockState' \in [Session -> SocketState]
  BY DEF Start, IInv, TypeOK, SocketState
<1>3. ops' \in [Session -> [OpKind -> Nat]]
  <2>1. ops' = [s \in Session |->
                  IF s \in posted THEN [ops[s] EXCEPT !["accept"] = 1] ELSE ops[s]]
    BY DEF Start
  <2>2. ASSUME NEW s \in Session
        PROVE  (IF s \in posted THEN [ops[s] EXCEPT !["accept"] = 1] ELSE ops[s])
                  \in [OpKind -> Nat]
    <3> HIDE DEF posted
    <3> QED
      BY DEF IInv, TypeOK
  <2> HIDE DEF posted
  <2> QED
    BY <2>1, <2>2
<1>4. at' \in [Thread -> Place] /\ HasSession'
  <2>1. Goto(Main, Loc(IF posted = AcceptSession THEN "front" ELSE "done", NoSession))
    BY DEF Start
  <2>2. Arrives(Loc(IF posted = AcceptSession THEN "front" ELSE "done", NoSession))
    BY ArrivesAt DEF NoSessionPC
  <2>3. Main \in Thread
    BY DEF Thread
  <2> QED
    BY <2>1, <2>2, <2>3, GotoKeeps
<1>5. UNCHANGED <<sockOpen, lock, queueVars, shutdown, crashed, peers, imitated>>
  BY DEF Start
<1> QED
  BY <1>1, <1>2, <1>3, <1>4, <1>5 DEF IInv, TypeOK, queueVars

\* The packet in front names an accept session.
LEMMA FrontPacketKeeps ==
    ASSUME IInv, FrontPacket
    PROVE  IInv'
<1> DEFINE p == Head(packets)
           s == FindServerSession(p.sid)
           place == CASE p.id = "CLOSE" -> Loc("reuse", s)
                      [] p.id = "REQ_CLOSE_SESSION" -> Closing(s, "SELF_DISCONNECT")
                      [] OTHER -> Loc("pop", NoSession)
<1>1. s \in Session
  <2>1. p \in Packet
    BY DEF FrontPacket, IInv, TypeOK
  <2> QED
    BY <2>1, AcceptSessionIsSession DEF Packet, FindServerSession
<1>2. Arrives(place)
  <2>1. "reuse" \in PC /\ "pop" \in NoSessionPC /\ "SELF_DISCONNECT" \in CloseCase
    BY DEF PC, NoSessionPC, CloseCase
  <2> QED
    BY <1>1, <2>1, ArrivesAt
<1>3. Goto(Main, place) /\ headInHand' = TRUE
      /\ UNCHANGED <<socketVars, lock, ops, packets, shutdown, crashed, peers, imitated>>
  BY DEF FrontPacket
<1> HIDE DEF place
<1>4. at' \in [Thread -> Place] /\ HasSession'
  BY <1>2, <1>3, GotoKeeps DEF Thread
<1> QED
  BY <1>3, <1>4 DEF IInv, TypeOK, socketVars

\* Main goes on to reset the session, or to disconnect it.
LEMMA ReUseSessionKeeps ==
    ASSUME IInv, ReUseSession
    PROVE  IInv'
<1> DEFINE s == at[Main].s
<1>1. s \in Session
  BY DEF ReUseSession, MainAt, IInv, HasSession, NoSessionPC, Thread
<1>2. used' = [used EXCEPT ![s] = CanPostAccept(s)] /\ CanPostAccept(s) \in BOOLEAN
  BY DEF ReUseSession, CanPostAccept
<1>3. \/ Goto(Main, Loc("reset", s))
      \/ Goto(Main, Closing(s, "BIND_FAILED"))
  BY DEF ReUseSession
<1>4. at' \in [Thread -> Place] /\ HasSession'
  <2>1. "reset" \in PC /\ "BIND_FAILED" \in CloseCase /\ Main \in Thread
    BY DEF PC, CloseCase, Thread
  <2>2. Arrives(Loc("reset", s)) /\ Arrives(Closing(s, "BIND_FAILED"))
    BY <1>1, <2>1, ArrivesAt
  <2> QED
    BY <1>3, <2>1, <2>2, GotoKeeps
<1>5. UNCHANGED <<sockState, sockOpen, lock, ops, queueVars, shutdown, crashed, peers, imitated>>
  BY DEF ReUseSession
<1> QED
  BY <1>2, <1>4, <1>5 DEF IInv, TypeOK, queueVars

\* The queue is emptied.
LEMMA ResetSessionKeeps ==
    ASSUME IInv, ResetSession
    PROVE  IInv'
<1> DEFINE s == at[Main].s
<1>1. s \in Session
  BY DEF ResetSession, MainAt, IInv, HasSession, NoSessionPC, Thread
<1>2. Arrives(Loc("async", s)) /\ Main \in Thread
  BY <1>1, ArrivesAt DEF PC, Thread
<1>3. at' \in [Thread -> Place] /\ HasSession'
  BY <1>2, GotoKeeps DEF ResetSession
<1>4. /\ sockState' = [sockState EXCEPT ![s] = "INIT"]
      /\ packets' = <<>> /\ headInHand' = FALSE
      /\ UNCHANGED <<used, sockOpen, lock, ops, shutdown, crashed, peers, imitated>>
  BY DEF ResetSession, ClearPackets
<1>5. packets' \in Seq(Packet) /\ Len(packets') <= MaxPackets /\ headInHand' \in BOOLEAN
  BY <1>4, EmptyQueueType
<1> QED
  BY <1>3, <1>4, <1>5 DEF IInv, TypeOK, SocketState

\* One more accept, which may already have failed.
LEMMA AsyncAcceptKeeps ==
    ASSUME IInv, AsyncAccept
    PROVE  IInv'
<1> DEFINE s == at[Main].s
<1>1. s \in Session
  BY DEF AsyncAccept, MainAt, IInv, HasSession, NoSessionPC, Thread
<1>2. ops' \in [Session -> [OpKind -> Nat]]
  <2>1. \E k \in OpKind : ops' = [ops EXCEPT ![s][k] = @ + 1]
    BY DEF AsyncAccept, OpKind
  <2> QED
    BY <1>1, <2>1, OpsType DEF IInv
<1>3. at' \in [Thread -> Place] /\ HasSession'
  BY ArrivesAt, GotoKeeps DEF AsyncAccept, NoSessionPC, Thread
<1>4. UNCHANGED <<socketVars, lock, queueVars, shutdown, crashed, peers, imitated>>
  BY DEF AsyncAccept
<1> QED
  BY <1>2, <1>3, <1>4 DEF IInv, TypeOK, socketVars, queueVars

\* The queue, if it holds something, gets shorter.
LEMMA PopPacketKeeps ==
    ASSUME IInv, PopPacket
    PROVE  IInv'
<1>1. packets' \in Seq(Packet) /\ Len(packets') <= MaxPackets /\ headInHand' \in BOOLEAN
  <2>1. CASE packets = <<>>
    BY <2>1 DEF PopPacket, IInv, TypeOK
  <2>2. CASE packets # <<>>
    <3>1. /\ Tail(packets) \in Seq(Packet) /\ Len(Tail(packets)) = Len(packets) - 1
          /\ Len(packets) \in Nat /\ MaxPackets \in Nat
      BY <2>2, SizesAssumption DEF IInv, TypeOK
    <3>2. packets' = Tail(packets) /\ headInHand' = FALSE
      BY <2>2 DEF PopPacket
    <3>3. Len(packets) <= MaxPackets
      BY DEF IInv, TypeOK
    <3>4. Len(Tail(packets)) <= MaxPackets
      BY <3>1, <3>3
    <3> QED
      BY <3>1, <3>2, <3>4
  <2> QED
    BY <2>1, <2>2
<1>2. at' \in [Thread -> Place] /\ HasSession'
  BY ArrivesAt, GotoKeeps DEF PopPacket, NoSessionPC, Thread
<1>3. UNCHANGED <<socketVars, lock, ops, shutdown, crashed, peers, imitated>>
  BY DEF PopPacket
<1> QED
  BY <1>1, <1>2, <1>3 DEF IInv, TypeOK, socketVars

\* The accepts that are in progress become handlers with an error.
LEMMA CloseAcceptorKeeps ==
    ASSUME IInv, CloseAcceptor
    PROVE  IInv'
<1>1. ops' \in [Session -> [OpKind -> Nat]]
  <2>1. ops' = [s \in Session |-> [ops[s] EXCEPT !["accept"] = 0,
                                                 !["acceptErr"] = @ + ops[s]["accept"]]]
    BY DEF CloseAcceptor
  <2>2. ASSUME NEW s \in Session
        PROVE  [ops[s] EXCEPT !["accept"] = 0, !["acceptErr"] = @ + ops[s]["accept"]]
                  \in [OpKind -> Nat]
    <3>1. ops[s] \in [OpKind -> Nat] /\ "accept" \in OpKind /\ "acceptErr" \in OpKind
      BY DEF IInv, TypeOK, OpKind
    <3> DEFINE f == ops[s]
               n == f["acceptErr"] + f["accept"]
    <3>2. n \in Nat
      BY <3>1
    <3>3. [f EXCEPT !["accept"] = 0, !["acceptErr"] = @ + f["accept"]]
            = [f EXCEPT !["accept"] = 0, !["acceptErr"] = n]
      BY <3>1
    <3>4. [f EXCEPT !["accept"] = 0, !["acceptErr"] = n] \in [OpKind -> Nat]
      <4> HIDE DEF f, n
      <4> QED
        BY <3>1, <3>2 DEF f
    <3> QED
      BY <3>3, <3>4
  <2> QED
    BY <2>1, <2>2
<1>2. at' \in [Thread -> Place] /\ HasSession'
  BY ArrivesAt, GotoKeeps DEF CloseAcceptor, NoSessionPC, Thread
<1>3. UNCHANGED <<socketVars, lock, queueVars, shutdown, crashed, peers, imitated>>
  BY DEF CloseAcceptor
<1> QED
  BY <1>1, <1>2, <1>3 DEF IInv, TypeOK, socketVars, queueVars

\* Only Main moves.
LEMMA JoinKeeps ==
    ASSUME IInv, Join
    PROVE  IInv'
<1>1. at' \in [Thread -> Place] /\ HasSession'
  BY ArrivesAt, GotoKeeps DEF Join, NoSessionPC, Thread
<1>2. /\ UNCHANGED <<socketVars, lock, ops, queueVars, shutdown, peers, imitated>>
      /\ crashed' \in BOOLEAN
  BY DEF Join
<1> QED
  BY <1>1, <1>2 DEF IInv, TypeOK, socketVars, queueVars

-----------------------------------------------------------------------------
(* Calls of the application.                                                *)

\* DisconnectAll begins with a session that exists.
LEMMA StopKeeps ==
    ASSUME IInv, Stop
    PROVE  IInv'
<1>1. 0 \in Session
  BY SizesAssumption DEF Session
<1>2. Arrives(Closing(0, "SELF_DISCONNECT"))
  BY <1>1, ArrivesAt DEF CloseCase
<1>3. at' \in [Thread -> Place] /\ HasSession'
  BY <1>2, GotoKeeps DEF Stop, Thread
<1>4. shutdown' = TRUE /\ UNCHANGED <<socketVars, lock, ops, queueVars, crashed, peers, imitated>>
  BY DEF Stop
<1> QED
  BY <1>3, <1>4 DEF IInv, TypeOK, socketVars, queueVars

\* A session of the connect pool is connected, or reset.
LEMMA ConnectKeeps ==
    ASSUME IInv, NEW c \in ConnectSession, Connect(c) \/ ConnectThrows(c) \/ ConnectFails(c)
    PROVE  IInv'
<1>1. c \in Session
  BY ConnectSessionIsSession
<1>2. peers' \in [Session -> Nat]
  <2>1. peers' = [peers EXCEPT ![c] = @ + 1]
    BY DEF Connect, ConnectThrows, ConnectFails
  <2> QED
    BY <1>1, <2>1, SizesAssumption DEF IInv, TypeOK
<1>3. CASE Connect(c)
  <2>1. ops' \in [Session -> [OpKind -> Nat]]
    BY <1>1, <1>3, OpsType DEF Connect, IInv, OpKind
  <2>2. /\ used' = [used EXCEPT ![c] = TRUE]
        /\ sockState' = [sockState EXCEPT ![c] = "CONNECT"]
        /\ sockOpen' = [sockOpen EXCEPT ![c] = TRUE]
        /\ UNCHANGED <<lock, queueVars, at, shutdown, crashed, imitated>>
    BY <1>3 DEF Connect
  <2> QED
    BY <1>2, <2>1, <2>2 DEF IInv, TypeOK, HasSession, SocketState, queueVars
<1>4. CASE ConnectFails(c)
  <2>1. /\ sockState' = [sockState EXCEPT ![c] = "INIT"]
        /\ packets' = <<>> /\ headInHand' = FALSE
        /\ UNCHANGED <<used, sockOpen, lock, ops, at, shutdown, crashed, imitated>>
    BY <1>4 DEF ConnectFails, ClearPackets
  <2>2. packets' \in Seq(Packet) /\ Len(packets') <= MaxPackets /\ headInHand' \in BOOLEAN
    BY <2>1, EmptyQueueType
  <2> QED
    BY <1>2, <2>1, <2>2 DEF IInv, TypeOK, HasSession, SocketState
<1>5. CASE ConnectThrows(c)
  <2>1. /\ used' = [used EXCEPT ![c] = TRUE]
        /\ sockState' = [sockState EXCEPT ![c] = "CONNECT"]
        /\ sockOpen' = [sockOpen EXCEPT ![c] = TRUE]
        /\ crashed' = TRUE
        /\ UNCHANGED <<lock, ops, queueVars, at, shutdown, imitated>>
    BY <1>5 DEF ConnectThrows
  <2> QED
    BY <1>2, <2>1 DEF IInv, TypeOK, HasSession, SocketState, queueVars
<1> QED
  BY <1>3, <1>4, <1>5

-----------------------------------------------------------------------------
\* Main is about to start the server, the other threads have nothing to do.
LEMMA InitEstablishesIInv == Init => IInv
<1> SUFFICES ASSUME Init
             PROVE  IInv
  OBVIOUS
<1>1. at \in [Thread -> Place] /\ HasSession
  <2>1. Arrives(Idle) /\ Arrives(Loc("start", NoSession))
    BY ArrivesAt DEF NoSessionPC
  <2>2. \A t \in Thread : Arrives(at[t])
    BY <2>1 DEF Init
  <2> QED
    BY <2>2 DEF Arrives, HasSession, Init
<1>2. packets \in Seq(Packet) /\ Len(packets) <= MaxPackets
  BY SizesAssumption DEF Init
<1>3. ops \in [Session -> [OpKind -> Nat]]
  BY DEF Init
<1>4. peers \in [Session -> Nat] /\ imitated \in [AcceptSession -> Nat]
  BY SizesAssumption DEF Init
<1> QED
  BY <1>1, <1>2, <1>3, <1>4 DEF Init, IInv, TypeOK

\* Every step of the server, its application and its peers.
LEMMA NextKeepsIInv ==
    ASSUME IInv, [Next]_vars
    PROVE  IInv'
<1>1. CASE Environment
  BY <1>1, StopKeeps, ConnectKeeps, NetworkKeeps DEF Environment
<1>2. CASE MainStep
  BY <1>2, StartKeeps, FrontPacketKeeps, ReUseSessionKeeps, ResetSessionKeeps,
     AsyncAcceptKeeps, PopPacketKeeps, CloseAcceptorKeeps, JoinKeeps DEF MainStep
<1>3. ASSUME NEW t \in Thread, CloseStep(t)
      PROVE  IInv'
  BY <1>3, CloseStepKeeps
<1>4. ASSUME NEW t \in IOThreads, HandlerStep(t)
      PROVE  IInv'
  BY <1>4, HandlerStepKeeps DEF Thread
<1>5. ASSUME NEW t \in IOThreads, NEW s \in Session, RunHandler(t, s)
      PROVE  IInv'
  BY <1>5, RunHandlerKeeps DEF Thread
<1>6. CASE UNCHANGED vars
  BY <1>6 DEF vars, IInv, TypeOK, HasSession, socketVars, queueVars
<1> QED
  BY <1>1, <1>2, <1>3, <1>4, <1>5, <1>6 DEF Next

(***************************************************************************)
(* The state of the server has its types in every state, for any number of *)
(* sessions, threads and packets: no queue entry and no thread names a     *)
(* session outside of the pools, the queue never exceeds its capacity, and *)
(* no operation is completed that was not begun.                           *)
(***************************************************************************)
THEOREM TypesAlways == Spec => []TypeOK
<1>1. Init => IInv
  BY InitEstablishesIInv
<1>2. IInv /\ [Next]_vars => IInv'
  BY NextKeepsIInv
<1>3. IInv => TypeOK
  BY DEF IInv
<1> QED
  BY <1>1, <1>2, <1>3, PTL DEF Spec

-----------------------------------------------------------------------------
(* One thread at a time closes a session.                                   *)

\* The program points between taking and releasing m_Lock.
LockedPC == {"notify", "closed"}

\* A thread at such a point holds the lock of its session.
LockHeld == \A t \in Thread : at[t].pc \in LockedPC => lock[at[t].s] = t

CloseInv == IInv /\ LockHeld

\* A step that leaves the locks alone and takes no thread to such a point.
LEMMA LockUntouched ==
    ASSUME CloseInv, lock' = lock,
           \A u \in Thread : at'[u] = at[u] \/ at'[u].pc \notin LockedPC
    PROVE  LockHeld'
BY DEF CloseInv, LockHeld

\* One thread goes to a place outside of Close.
LEMMA GotoUnlocked ==
    ASSUME IInv, NEW t \in Thread, NEW place, place.pc \notin LockedPC, Goto(t, place)
    PROVE  \A u \in Thread : at'[u] = at[u] \/ at'[u].pc \notin LockedPC
BY DEF Goto, IInv, TypeOK

\* The places of a thread that is not in Close.
LEMMA OutsideClose ==
    /\ Idle.pc \notin LockedPC
    /\ \A pc, s : pc \notin LockedPC => Loc(pc, s).pc \notin LockedPC
    /\ \A s, why : Closing(s, why).pc \notin LockedPC
BY DEF Idle, Loc, Closing, LockedPC

\* The lock is free when a thread takes it, so no other thread has it.
LEMMA CloseBeginKeepsLock ==
    ASSUME CloseInv, NEW t \in Thread, CloseBegin(t)
    PROVE  LockHeld'
<1> DEFINE s == at[t].s
           place == [at[t] EXCEPT !.pc = IF Notifies(at[t].why) THEN "notify" ELSE "closed"]
<1>1. s \in Session /\ at \in [Thread -> Place] /\ lock \in [Session -> Thread \cup {Free}]
  BY DEF CloseBegin, CloseInv, IInv, HasSession, NoSessionPC, TypeOK
<1>2. lock[s] = Free /\ lock' = [lock EXCEPT ![s] = t] /\ at' = [at EXCEPT ![t] = place]
  BY DEF CloseBegin, LockFree, Goto
<1>3. place.s = s
  BY <1>1 DEF Place
<1> HIDE DEF place
<1> SUFFICES ASSUME NEW u \in Thread, at'[u].pc \in LockedPC
             PROVE  lock'[at'[u].s] = u
  BY DEF LockHeld
<1>4. CASE u = t
  BY <1>1, <1>2, <1>3, <1>4
<1>5. CASE u # t
  <2>1. at'[u] = at[u] /\ lock[at[u].s] = u
    BY <1>1, <1>2, <1>5 DEF CloseInv, LockHeld
  <2>2. at[u].s # s
    BY <1>2, <2>1, FreeAssumption
  <2>3. at[u].s \in Session
    BY <2>1 DEF CloseInv, IInv, HasSession, LockedPC, NoSessionPC
  <2> QED
    BY <1>1, <1>2, <2>1, <2>2, <2>3
<1> QED
  BY <1>4, <1>5

\* The thread that has queued the CLOSE keeps the lock.
LEMMA CloseNotifyKeepsLock ==
    ASSUME CloseInv, NEW t \in Thread, CloseNotify(t)
    PROVE  LockHeld'
<1> DEFINE place == [at[t] EXCEPT !.pc = "closed"]
<1>1. at' = [at EXCEPT ![t] = place] /\ lock' = lock /\ at[t].pc \in LockedPC
  BY DEF CloseNotify, Goto, LockedPC
<1>2. at \in [Thread -> Place]
  BY DEF CloseInv, IInv, TypeOK
<1>3. place.s = at[t].s
  BY <1>2 DEF Place
<1> HIDE DEF place
<1> QED
  BY <1>1, <1>2, <1>3 DEF CloseInv, LockHeld

\* The lock that is released is nobody else's.
LEMMA CloseEndKeepsLock ==
    ASSUME CloseInv, NEW t \in Thread, CloseEnd(t)
    PROVE  LockHeld'
<1> DEFINE s == at[t].s
<1>1. at \in [Thread -> Place] /\ lock \in [Session -> Thread \cup {Free}]
  BY DEF CloseInv, IInv, TypeOK
<1>2. lock[s] = t /\ lock' = [lock EXCEPT ![s] = Free]
  BY DEF CloseEnd, Unlock, CloseInv, LockHeld, LockedPC
<1>3. AfterClose(t, s).pc \notin LockedPC
  BY OutsideClose DEF AfterClose, LockedPC
<1>4. \A u \in Thread : (u # t /\ at'[u] = at[u]) \/ at'[u].pc \notin LockedPC
  <2>1. at' = [at EXCEPT ![t] = AfterClose(t, s)]
    BY DEF CloseEnd, Goto
  <2> QED
    BY <1>1, <1>3, <2>1
<1> SUFFICES ASSUME NEW u \in Thread, at'[u].pc \in LockedPC
             PROVE  lock'[at'[u].s] = u
  BY DEF LockHeld
<1>5. u # t /\ at'[u] = at[u] /\ lock[at[u].s] = u
  BY <1>4 DEF CloseInv, LockHeld
<1>6. at[u].s # s /\ at[u].s \in Session
  BY <1>2, <1>5 DEF CloseInv, IInv, HasSession, LockedPC, NoSessionPC
<1> QED
  BY <1>1, <1>2, <1>5, <1>6

\* Handlers, wherever they go, go outside of Close and lock nothing.
LEMMA HandlersKeepLock ==
    ASSUME CloseInv, NEW t \in Thread,
           HandlerStep(t) \/ \E s \in Session : RunHandler(t, s)
    PROVE  LockHeld'
<1>1. lock' = lock
  BY DEF HandlerStep, AcceptFailed, AcceptProcessing, Announce, ContinueRecv, ProcessRecvData,
         RunHandler, OnAcceptOk, OnAcceptErr, OnRecvOk, OnRecvErr, OnRecvErrWithBytes
<1>2. at' = at \/ \E place : place.pc \notin LockedPC /\ Goto(t, place)
  <2>1. /\ "acceptErr" \notin LockedPC /\ "acceptOk" \notin LockedPC
        /\ "process" \notin LockedPC /\ "announce" \notin LockedPC
        /\ "postRecv" \notin LockedPC
    BY DEF LockedPC
  <2>2. CASE HandlerStep(t)
    BY <2>1, <2>2, OutsideClose
       DEF HandlerStep, AcceptFailed, AcceptProcessing, Announce, ContinueRecv, ProcessRecvData
  <2>3. ASSUME NEW s \in Session, RunHandler(t, s)
        PROVE  at' = at \/ \E place : place.pc \notin LockedPC /\ Goto(t, place)
    BY <2>1, <2>3, OutsideClose
       DEF RunHandler, OnAcceptOk, OnAcceptErr, OnRecvOk, OnRecvErr, OnRecvErrWithBytes
  <2> QED
    BY <2>2, <2>3
<1>3. \A u \in Thread : at'[u] = at[u] \/ at'[u].pc \notin LockedPC
  BY <1>2, GotoUnlocked DEF CloseInv
<1> QED
  BY <1>1, <1>3, LockUntouched

\* Main, wherever it goes, goes outside of Close and locks nothing.
LEMMA MainKeepsLock ==
    ASSUME CloseInv, MainStep
    PROVE  LockHeld'
<1>1. lock' = lock
  BY DEF MainStep, Start, FrontPacket, ReUseSession, ResetSession, AsyncAccept, PopPacket,
         CloseAcceptor, Join
<1>2. \E place : place.pc \notin LockedPC /\ Goto(Main, place)
  <2>1. /\ "front" \notin LockedPC /\ "done" \notin LockedPC /\ "reuse" \notin LockedPC
        /\ "reset" \notin LockedPC /\ "async" \notin LockedPC /\ "pop" \notin LockedPC
        /\ "join" \notin LockedPC
    BY DEF LockedPC
  <2>2. CASE Start
    BY <2>1, <2>2, OutsideClose DEF Start
  <2>3. CASE FrontPacket
    BY <2>1, <2>3, OutsideClose DEF FrontPacket
  <2>4. CASE ReUseSession
    BY <2>1, <2>4, OutsideClose DEF ReUseSession
  <2> QED
    BY <2>1, <2>2, <2>3, <2>4, OutsideClose
       DEF MainStep, ResetSession, AsyncAccept, PopPacket, CloseAcceptor, Join
<1>3. \A u \in Thread : at'[u] = at[u] \/ at'[u].pc \notin LockedPC
  BY <1>2, GotoUnlocked DEF CloseInv, Thread
<1> QED
  BY <1>1, <1>3, LockUntouched

\* Stop sends Main to the first session, which it has yet to lock.
LEMMA EnvironmentKeepsLock ==
    ASSUME CloseInv, Environment
    PROVE  LockHeld'
<1>1. CASE Stop
  <2>1. lock' = lock /\ Goto(Main, Closing(0, "SELF_DISCONNECT"))
    BY <1>1 DEF Stop
  <2>2. Closing(0, "SELF_DISCONNECT").pc \notin LockedPC /\ Main \in Thread
    BY OutsideClose DEF Thread
  <2>3. \A u \in Thread : at'[u] = at[u] \/ at'[u].pc \notin LockedPC
    BY <2>1, <2>2, GotoUnlocked DEF CloseInv
  <2> QED
    BY <2>1, <2>3, LockUntouched
<1>2. CASE ~Stop
  <2>1. lock' = lock /\ at' = at
    BY <1>2 DEF Environment, Connect, ConnectThrows, ConnectFails, PeerConnects, AcceptFails,
                PeerSends, PeerCloses
  <2> QED
    BY <2>1, LockUntouched
<1> QED
  BY <1>1, <1>2

\* Every step keeps the locks with the threads that close.
LEMMA NextKeepsLockHeld ==
    ASSUME CloseInv, [Next]_vars
    PROVE  LockHeld'
<1>1. ASSUME NEW t \in Thread, CloseStep(t)
      PROVE  LockHeld'
  <2>1. CASE ShutdownThrows(t)
    BY <2>1, LockUntouched DEF ShutdownThrows
  <2> QED
    BY <1>1, <2>1, CloseBeginKeepsLock, CloseNotifyKeepsLock, CloseEndKeepsLock DEF CloseStep
<1>2. CASE UNCHANGED vars
  BY <1>2, LockUntouched DEF vars
<1>3. ASSUME NEW t \in IOThreads, HandlerStep(t) \/ \E s \in Session : RunHandler(t, s)
      PROVE  LockHeld'
  BY <1>3, HandlersKeepLock DEF Thread
<1> QED
  BY <1>1, <1>2, <1>3, MainKeepsLock, EnvironmentKeepsLock DEF Next

(***************************************************************************)
(* Close is done by one thread at a time for each session, for any number  *)
(* of sessions and threads and with every failure of the platform: a       *)
(* thread between the test of the state and the last assignment holds the  *)
(* lock, and a lock has one holder (SFTCPSocket.h:120, 157).               *)
(***************************************************************************)
THEOREM CloseExclusiveAlways == Spec => []CloseExclusive
<1>1. Init => CloseInv
  <2>1. Init => LockHeld
    BY DEF Init, LockHeld, LockedPC, Idle, Loc
  <2> QED
    BY <2>1, InitEstablishesIInv DEF CloseInv
<1>2. CloseInv /\ [Next]_vars => CloseInv'
  BY NextKeepsIInv, NextKeepsLockHeld DEF CloseInv
<1>3. CloseInv => CloseExclusive
  BY DEF CloseInv, LockHeld, LockedPC, CloseExclusive
<1> QED
  BY <1>1, <1>2, <1>3, PTL DEF Spec

-----------------------------------------------------------------------------
(***************************************************************************)
(* Who has an accept session that nothing has disturbed. A session that is *)
(* not calm never becomes so, hence Calm' \subseteq Calm of every step.    *)
(***************************************************************************)
Calm == {s \in AcceptSession : Undisturbed(s)}

IOPC == {"idle", "close", "notify", "closed"} \cup OwningPC
MainPC == {"start", "front", "reuse", "reset", "async", "pop", "close", "notify", "closed",
           "closeAcceptor", "join", "done"}
ReusePC == {"reuse", "reset", "async"}

\* Which thread may be where, and what it closes a session for.
Roles ==
    /\ at[Main].pc \in MainPC
    /\ at[Main].pc \in {"close", "notify"} =>
          \/ at[Main].pc = "close" /\ at[Main].why = "SELF_DISCONNECT"
          \/ at[Main].s \in AcceptSession \ Calm
    /\ at[Main].pc \in ReusePC => at[Main].why = "none"
    /\ MainAt("front") => ~headInHand
    /\ headInHand => packets # <<>>
    /\ MainAt("start") => /\ \A s \in Session, k \in OpKind : ops[s][k] = 0
                          /\ packets = <<>>
                          /\ \A t \in IOThreads : at[t] = Idle
    /\ \A t \in IOThreads :
          /\ at[t].pc \in IOPC
          /\ at[t].pc \in {"close", "notify"} => at[t].why \in {"NETWORK_ON_CLOSE", "ACCEPT_FAILED"}
          /\ at[t].pc \in OwningPC => at[t].why = "none"

HasOp(s) == \E k \in OpKind : ops[s][k] > 0
HasHandler(s) == \E t \in IOThreads : Owns(t, s)
HasPacket(s) == \E i \in DOMAIN packets : Awaits(i, s)
MainHas(s) == at[Main].pc \in ReusePC /\ at[Main].s = s

\* SingleOwner, one kind of owner after the other.
Exclusive(s) ==
    /\ \A k \in OpKind : ops[s][k] <= 1
    /\ \A j, k \in OpKind : ops[s][j] > 0 /\ ops[s][k] > 0 => j = k
    /\ \A t, u \in IOThreads : Owns(t, s) /\ Owns(u, s) => t = u
    /\ \A i, j \in DOMAIN packets : Awaits(i, s) /\ Awaits(j, s) => i = j
    /\ HasOp(s) => ~HasHandler(s) /\ ~HasPacket(s) /\ ~MainHas(s)
    /\ HasHandler(s) => ~HasPacket(s) /\ ~MainHas(s)
    /\ HasPacket(s) => ~MainHas(s)

AcceptOp == {"accept", "acceptOk", "acceptErr"}
RecvOp == {"recv", "recvOk", "recvErr"}

\* A handler of an accept that has not connected the session.
Accepting(t) == at[t].pc \in {"acceptOk", "acceptErr"} \/ at[t].why = "ACCEPT_FAILED"

\* What the owner may rely on.
SocketInv(s) ==
    /\ \A k \in AcceptOp : ops[s][k] > 0 => sockState[s] # "CONNECT"
    /\ \A k \in RecvOp : ops[s][k] > 0 => ~used[s]
    /\ \A t \in IOThreads : Owns(t, s) =>
          /\ ~used[s]
          /\ Accepting(t) \/ at[t].pc = "notify" => sockState[s] # "CONNECT"
          /\ at[t].pc = "acceptOk" => sockOpen[s]
    /\ HasPacket(s) => ~used[s] /\ sockState[s] # "CONNECT"
    /\ MainHas(s) /\ MainAt("reuse") => ~used[s] /\ sockState[s] # "CONNECT"
    /\ MainHas(s) /\ MainAt("async") => sockState[s] # "CONNECT"
    /\ ~MainAt("start") /\ ~MainAt("done") /\ sockState[s] = "CONNECT" => sockOpen[s]

Of(i, s) == packets[i].sid = s /\ packets[i].id \in Told(s)
Silent(s) == \A i \in DOMAIN packets : ~Of(i, s)

\* What the packets of the session say of its owner.
PacketInv(s) ==
    /\ (\E k \in AcceptOp : ops[s][k] > 0) => Silent(s)
    /\ \A t \in IOThreads : Owns(t, s) /\ (Accepting(t) \/ at[t].pc = "announce") => Silent(s)
    /\ MainHas(s) /\ MainAt("async") => Silent(s)
    /\ \A i \in DOMAIN packets :
          Of(i, s) /\ packets[i].id = "CLOSE" =>
             Awaits(i, s) \/ (MainHas(s) /\ ~MainAt("async"))
    /\ \A i, j \in DOMAIN packets :
          i < j /\ Of(i, s) /\ Of(j, s) => packets[i].id # "CLOSE" /\ packets[j].id # "ACCEPT"

OwnerInv(s) == s \in Calm => Exclusive(s) /\ SocketInv(s) /\ PacketInv(s)

LifeInv == IInv /\ Roles /\ \A s \in Session : OwnerInv(s)

-----------------------------------------------------------------------------
(* Sessions that a step does not touch.                                     *)

LEMMA ToldIncludes == \A s : {"ACCEPT", "CLOSE"} \subseteq Told(s)
BY DEF Told, PacketID

\* Calm sessions are sessions, before a step and after it.
LEMMA CalmAccepts ==
    /\ Calm \subseteq AcceptSession /\ Calm \subseteq Session
    /\ Calm' \subseteq AcceptSession /\ Calm' \subseteq Session
BY AcceptSessionIsSession DEF Calm

\* The packets of a calm session name it.
LEMMA CalmNamed ==
    ASSUME NEW s \in Calm
    PROVE  SessionID(s) = s
BY CalmAccepts DEF SessionID

\* The packets of session r move in the queue, or are dropped with it.
QueueKeeps(r) ==
    \E d \in {0, 1} : \A i \in DOMAIN packets' :
       Of(i, r)' =>
          /\ i + d \in DOMAIN packets
          /\ packets'[i] = packets[i + d]
          /\ Awaits(i, r)' <=> Awaits(i + d, r)

ThreadsKeep(r) ==
    /\ \A t \in IOThreads : Owns(t, r) \/ Owns(t, r)' => at'[t] = at[t]
    /\ at'[Main] = at[Main] \/ (~MainHas(r) /\ ~MainHas(r)')

SocketKeeps(r) ==
    /\ used'[r] = used[r]
    /\ \/ /\ sockOpen'[r] = sockOpen[r]
          /\ sockState'[r] = sockState[r] \/ sockState'[r] = "CLOSE"
       \/ sockState[r] = "CONNECT" /\ sockState'[r] = "CLOSE"

\* Main has left the start before, and does not come back from the end.
GoesOn ==
    /\ MainAt("start") => MainAt("start")'
    /\ MainAt("done") => MainAt("done")'

Untouched(r) ==
    /\ ops'[r] = ops[r]
    /\ QueueKeeps(r)
    /\ ThreadsKeep(r)

OthersUntouched(s) == \A r \in Session : r # s /\ r \in Calm' => Untouched(r)

LEMMA UntouchedExclusive ==
    ASSUME IInv', NEW r \in Session, Exclusive(r), Untouched(r)
    PROVE  Exclusive(r)'
<1>1. PICK d \in {0, 1} : \A i \in DOMAIN packets' :
         Of(i, r)' =>
            /\ i + d \in DOMAIN packets
            /\ packets'[i] = packets[i + d]
            /\ Awaits(i, r)' <=> Awaits(i + d, r)
  BY DEF Untouched, QueueKeeps
<1>2. \A i \in DOMAIN packets' : Awaits(i, r)' => i + d \in DOMAIN packets /\ Awaits(i + d, r)
  BY <1>1, ToldIncludes DEF Awaits, Of
<1>3. HasPacket(r)' => HasPacket(r)
  BY <1>2 DEF HasPacket
<1>4. \A t \in IOThreads : Owns(t, r)' => Owns(t, r)
  BY DEF Untouched, ThreadsKeep, Owns
<1>5. HasHandler(r)' => HasHandler(r)
  BY <1>4 DEF HasHandler
<1>6. MainHas(r)' => MainHas(r)
  BY DEF Untouched, ThreadsKeep, MainHas
<1>7. \A i \in DOMAIN packets' : i \in Int
  BY DEF IInv, TypeOK
<1>8. \A i, j \in DOMAIN packets' : Awaits(i, r)' /\ Awaits(j, r)' => i = j
  <2> SUFFICES ASSUME NEW i \in DOMAIN packets', NEW j \in DOMAIN packets',
                      Awaits(i, r)', Awaits(j, r)'
               PROVE  i = j
    OBVIOUS
  <2>1. i + d = j + d
    BY <1>2 DEF Exclusive
  <2>2. \A m, n, e \in Int : m + e = n + e => m = n
    OBVIOUS
  <2>3. i \in Int /\ j \in Int /\ d \in Int
    BY <1>1, <1>7
  <2> QED
    BY <2>1, <2>2, <2>3
<1>9. HasOp(r)' <=> HasOp(r)
  BY DEF HasOp, Untouched
<1> QED
  BY <1>3, <1>4, <1>5, <1>6, <1>8, <1>9 DEF Exclusive, Untouched

LEMMA UntouchedSocket ==
    ASSUME NEW r \in Session, SocketInv(r), Untouched(r), SocketKeeps(r), GoesOn
    PROVE  SocketInv(r)'
<1>1. ops'[r] = ops[r] /\ used'[r] = used[r] /\ (sockState'[r] = "CONNECT" => sockState[r] = "CONNECT")
  BY DEF Untouched, SocketKeeps
<1>2. \A t \in IOThreads : Owns(t, r)' =>
         Owns(t, r) /\ at'[t] = at[t] /\ (Accepting(t)' <=> Accepting(t))
  BY DEF Untouched, ThreadsKeep, Accepting, Owns
<1>3. HasPacket(r)' => HasPacket(r)
  BY ToldIncludes DEF Untouched, QueueKeeps, HasPacket, Awaits, Of
<1>4. MainHas(r)' => MainHas(r) /\ at'[Main] = at[Main]
  BY DEF Untouched, ThreadsKeep, MainHas
<1>5. sockState'[r] = "CONNECT" => sockOpen'[r] = sockOpen[r]
  BY DEF SocketKeeps
<1>6. ASSUME NEW t \in IOThreads, Owns(t, r)', at'[t].pc = "acceptOk"
      PROVE  sockOpen'[r]
  <2>1. sockOpen[r] /\ sockState[r] # "CONNECT"
    BY <1>2, <1>6 DEF SocketInv, Accepting
  <2> QED
    BY <2>1 DEF SocketKeeps
<1> QED
  BY <1>1, <1>2, <1>3, <1>4, <1>5, <1>6 DEF SocketInv, GoesOn, MainAt

LEMMA UntouchedPackets ==
    ASSUME IInv', NEW r \in Session, PacketInv(r), Untouched(r)
    PROVE  PacketInv(r)'
<1>1. PICK d \in {0, 1} : \A i \in DOMAIN packets' :
         Of(i, r)' =>
            /\ i + d \in DOMAIN packets
            /\ packets'[i] = packets[i + d]
            /\ Awaits(i, r)' <=> Awaits(i + d, r)
  BY DEF Untouched, QueueKeeps
<1>2. Silent(r) => Silent(r)'
  BY <1>1 DEF Silent, Of
<1>3. \A t \in IOThreads : Owns(t, r)' =>
         Owns(t, r) /\ at'[t] = at[t] /\ (Accepting(t)' <=> Accepting(t))
  BY DEF Untouched, ThreadsKeep, Accepting, Owns
<1>4. (MainHas(r)' <=> MainHas(r)) /\ (MainHas(r) => at'[Main] = at[Main])
  BY DEF Untouched, ThreadsKeep, MainHas
<1>5. \A i \in DOMAIN packets' : Of(i, r)' /\ packets'[i].id = "CLOSE" =>
         Awaits(i, r)' \/ (MainHas(r)' /\ ~MainAt("async")')
  BY <1>1, <1>4 DEF PacketInv, Of, MainAt
<1>6. \A i, j \in DOMAIN packets' :
         i < j /\ Of(i, r)' /\ Of(j, r)' => packets'[i].id # "CLOSE" /\ packets'[j].id # "ACCEPT"
  <2> SUFFICES ASSUME NEW i \in DOMAIN packets', NEW j \in DOMAIN packets',
                      i < j, Of(i, r)', Of(j, r)'
               PROVE  packets'[i].id # "CLOSE" /\ packets'[j].id # "ACCEPT"
    OBVIOUS
  <2>1. i + d \in DOMAIN packets /\ j + d \in DOMAIN packets /\ Of(i + d, r) /\ Of(j + d, r)
        /\ packets'[i] = packets[i + d] /\ packets'[j] = packets[j + d]
    BY <1>1 DEF Of
  <2>2. i + d < j + d
    BY <1>1 DEF IInv, TypeOK
  <2> QED
    BY <2>1, <2>2 DEF PacketInv
<1> QED
  BY <1>2, <1>3, <1>4, <1>5, <1>6 DEF PacketInv, Untouched, MainAt

\* A session that a step does not touch stays as it should be.
LEMMA UntouchedOwner ==
    ASSUME IInv', Calm' \subseteq Calm, NEW r \in Session, OwnerInv(r), Untouched(r),
           SocketKeeps(r), GoesOn
    PROVE  OwnerInv(r)'
BY UntouchedExclusive, UntouchedSocket, UntouchedPackets DEF OwnerInv

-----------------------------------------------------------------------------
(* Steps seen from the sessions they do not touch.                          *)

LEMMA QueueStays ==
    ASSUME UNCHANGED queueVars, IInv, NEW r \in Session
    PROVE  QueueKeeps(r)
<1>1. packets' = packets /\ headInHand' = headInHand
  BY DEF queueVars
<1>2. \A i \in DOMAIN packets : i + 0 = i
  BY DEF IInv, TypeOK
<1>3. \A i \in DOMAIN packets : Awaits(i, r)' <=> Awaits(i, r)
  BY <1>1 DEF Awaits
<1> QED
  BY <1>1, <1>2, <1>3 DEF QueueKeeps

LEMMA QueueCleared ==
    ASSUME ClearPackets, NEW r \in Session
    PROVE  QueueKeeps(r) /\ Silent(r)'
<1>1. packets' = <<>> /\ DOMAIN <<>> = {}
  BY DEF ClearPackets
<1> QED
  BY <1>1 DEF QueueKeeps, Silent

\* The queue after Push: what was in it, moved on, and the new packet.
Pushed(id, s, d) ==
    /\ Len(packets') \in DOMAIN packets'
    /\ packets'[Len(packets')] = [id |-> id, sid |-> s]
    /\ \A i \in DOMAIN packets' :
          i # Len(packets') =>
             /\ i < Len(packets')
             /\ i + d \in DOMAIN packets
             /\ packets'[i] = packets[i + d]
             /\ \A r \in Session : Awaits(i, r)' <=> Awaits(i + d, r)
    /\ ~(Len(packets') = 1 /\ headInHand')
    /\ headInHand' => headInHand /\ packets' # <<>>

LEMMA PushMoves ==
    ASSUME IInv, Roles, NEW s \in Session, NEW id \in PacketID, Push(id, s)
    PROVE  \E d \in {0, 1} : Pushed(id, SessionID(s), d)
<1> DEFINE p == [id |-> id, sid |-> SessionID(s)]
<1>1. SessionID(s) \in AcceptSession
  BY SessionIDType
<1>2. p \in Packet
  BY <1>1 DEF Packet
<1>3. packets \in Seq(Packet) /\ Len(packets) \in Nat /\ MaxPackets \in Nat /\ MaxPackets >= 1
  BY SizesAssumption DEF IInv, TypeOK
<1>4. CASE Len(packets) = MaxPackets
  <2>1. packets' = Append(Tail(packets), p) /\ ~headInHand'
    BY <1>1, <1>4 DEF Push
  <2> HIDE DEF p
  <2>2. /\ Tail(packets) \in Seq(Packet)
        /\ Len(Tail(packets)) = Len(packets) - 1
        /\ \A i \in 1 .. Len(packets) - 1 : Tail(packets)[i] = packets[i + 1]
    BY <1>3, <1>4
  <2>3. /\ Len(packets') = Len(packets)
        /\ DOMAIN packets' = 1 .. Len(packets)
        /\ packets'[Len(packets)] = p
        /\ \A i \in 1 .. Len(packets) - 1 : packets'[i] = packets[i + 1]
    BY <1>2, <1>3, <2>1, <2>2
  <2>4. \A i \in DOMAIN packets' : i # Len(packets') =>
           i < Len(packets') /\ i + 1 \in DOMAIN packets /\ packets'[i] = packets[i + 1] /\ i + 1 # 1
    BY <1>3, <2>3
  <2>5. \A i \in DOMAIN packets' : i # Len(packets') =>
           \A r \in Session : Awaits(i, r)' <=> Awaits(i + 1, r)
    BY <2>1, <2>4 DEF Awaits
  <2>6. Len(packets') \in DOMAIN packets'
    BY <1>3, <1>4, <2>3
  <2>7. Pushed(id, SessionID(s), 1)
    BY <2>1, <2>3, <2>4, <2>5, <2>6 DEF Pushed, p
  <2> QED
    BY <2>7
<1>5. CASE Len(packets) # MaxPackets
  <2>1. packets' = Append(packets, p) /\ headInHand' = headInHand
    BY <1>1, <1>5 DEF Push, IInv, TypeOK
  <2> HIDE DEF p
  <2>2. /\ Len(packets') = Len(packets) + 1
        /\ DOMAIN packets' = 1 .. Len(packets) + 1
        /\ packets'[Len(packets) + 1] = p
        /\ \A i \in 1 .. Len(packets) : packets'[i] = packets[i]
    BY <1>2, <1>3, <2>1
  <2>3. \A i \in DOMAIN packets' : i # Len(packets') =>
           i < Len(packets') /\ i + 0 \in DOMAIN packets /\ i + 0 = i /\ packets'[i] = packets[i]
    BY <1>3, <2>2
  <2>4. \A i \in DOMAIN packets' : i # Len(packets') =>
           \A r \in Session : Awaits(i, r)' <=> Awaits(i + 0, r)
    BY <2>1, <2>3 DEF Awaits
  <2>5. Len(packets') \in DOMAIN packets'
    BY <1>3, <2>2
  <2>6. headInHand' => Len(packets) # 0
    BY <1>3, <2>1 DEF Roles
  <2>7. ~(Len(packets') = 1 /\ headInHand')
    BY <1>3, <2>2, <2>6
  <2>8. packets' # <<>>
    <3>1. DOMAIN <<>> = {}
      OBVIOUS
    <3> QED
      BY <2>5, <3>1
  <2>9. Pushed(id, SessionID(s), 0)
    <3>1. \A i \in DOMAIN packets' : i # Len(packets') =>
             /\ i < Len(packets')
             /\ i + 0 \in DOMAIN packets
             /\ packets'[i] = packets[i + 0]
             /\ \A r \in Session : Awaits(i, r)' <=> Awaits(i + 0, r)
      BY <2>3, <2>4
    <3>2. packets'[Len(packets')] = [id |-> id, sid |-> SessionID(s)]
      BY <2>2 DEF p
    <3> QED
      BY <2>1, <2>5, <2>7, <2>8, <3>1, <3>2 DEF Pushed
  <2> QED
    BY <2>9
<1> QED
  BY <1>4, <1>5

LEMMA PushKeepsOthers ==
    ASSUME NEW s, NEW r \in Session, NEW id, r # s \/ id \notin Told(s), NEW d \in {0, 1},
           Pushed(id, s, d)
    PROVE  QueueKeeps(r)
BY DEF Pushed, QueueKeeps, Of

LEMMA HandlerMoves ==
    ASSUME IInv, NEW t \in IOThreads, NEW s \in Session, NEW place, Goto(t, place),
           at[t].s = s \/ at[t].pc = "idle", place.s = s \/ place = Idle,
           NEW r \in Session, r # s
    PROVE  ThreadsKeep(r)
<1>1. t # Main /\ Main \in Thread /\ t \in Thread /\ IOThreads \subseteq Thread
  BY ThreadsAssumption DEF Thread
<1>2. at' = [at EXCEPT ![t] = place] /\ at \in [Thread -> Place]
  BY DEF Goto, IInv, TypeOK
<1>3. at'[Main] = at[Main] /\ at'[t] = place /\ \A u \in IOThreads : u # t => at'[u] = at[u]
  BY <1>1, <1>2
<1>4. ~Owns(t, r)'
  BY <1>3 DEF Owns, Idle, Loc, NoSession, Session
<1>5. ~Owns(t, r)
  BY DEF Owns, OwningPC
<1> QED
  BY <1>3, <1>4, <1>5 DEF ThreadsKeep, Owns

\* Only Main moves, and neither comes from reusing r nor goes to it.
LEMMA MainMoves ==
    ASSUME IInv, NEW place, Goto(Main, place), NEW r \in Session,
           ~MainHas(r), place.pc \notin ReusePC \/ place.s # r
    PROVE  ThreadsKeep(r)
<1>1. Main \notin IOThreads /\ Main \in Thread /\ IOThreads \subseteq Thread
  BY ThreadsAssumption DEF Thread
<1>2. at' = [at EXCEPT ![Main] = place] /\ at \in [Thread -> Place]
  BY DEF Goto, IInv, TypeOK
<1>3. at'[Main] = place /\ \A u \in IOThreads : at'[u] = at[u]
  BY <1>1, <1>2
<1>4. ~MainHas(r)'
  BY <1>3 DEF MainHas
<1> QED
  BY <1>3, <1>4 DEF ThreadsKeep, Owns

LEMMA NobodyMoves ==
    ASSUME at' = at, NEW r \in Session
    PROVE  ThreadsKeep(r) /\ GoesOn
BY DEF ThreadsKeep, Owns, GoesOn, MainAt

-----------------------------------------------------------------------------
(* The one owner of a session, before and after a step.                     *)

NoOps(s) == \A k \in OpKind : ops[s][k] = 0
OneOp(s, k) == \A j \in OpKind : ops[s][j] = IF j = k THEN 1 ELSE 0
OnlyHandler(s, t) == \A u \in IOThreads : Owns(u, s) => u = t

OwnedByOp(s, k) == OneOp(s, k) /\ ~HasHandler(s) /\ ~HasPacket(s) /\ ~MainHas(s)
OwnedByHandler(s, t) == NoOps(s) /\ OnlyHandler(s, t) /\ ~HasPacket(s) /\ ~MainHas(s)
OwnedByPacket(s, i) ==
    /\ NoOps(s) /\ ~HasHandler(s) /\ ~MainHas(s)
    /\ \A j \in DOMAIN packets : Awaits(j, s) => j = i
OwnedByMain(s) == NoOps(s) /\ ~HasHandler(s) /\ ~HasPacket(s)

LEMMA OpIsOwner ==
    ASSUME TypeOK, NEW s \in Session, Exclusive(s), NEW k \in OpKind, ops[s][k] > 0
    PROVE  OwnedByOp(s, k)
<1>1. \A j \in OpKind : ops[s][j] \in Nat
  BY DEF TypeOK
<1>2. HasOp(s)
  BY DEF HasOp
<1>3. \A j \in OpKind : ops[s][j] = IF j = k THEN 1 ELSE 0
  BY <1>1 DEF Exclusive
<1> QED
  BY <1>2, <1>3 DEF OwnedByOp, OneOp, Exclusive

LEMMA NoOpMeans ==
    ASSUME TypeOK, NEW s \in Session, ~HasOp(s)
    PROVE  NoOps(s)
<1>1. \A j \in OpKind : ops[s][j] \in Nat
  BY DEF TypeOK
<1> QED
  BY <1>1 DEF HasOp, NoOps

LEMMA HandlerIsOwner ==
    ASSUME TypeOK, NEW s \in Session, Exclusive(s), NEW t \in IOThreads, Owns(t, s)
    PROVE  OwnedByHandler(s, t)
BY NoOpMeans DEF Exclusive, HasHandler, OwnedByHandler, OnlyHandler

LEMMA PacketIsOwner ==
    ASSUME TypeOK, NEW s \in Session, Exclusive(s), NEW i \in DOMAIN packets, Awaits(i, s)
    PROVE  OwnedByPacket(s, i)
BY NoOpMeans DEF Exclusive, HasPacket, OwnedByPacket

LEMMA MainIsOwner ==
    ASSUME TypeOK, NEW s \in Session, Exclusive(s), MainHas(s)
    PROVE  OwnedByMain(s)
BY NoOpMeans DEF Exclusive, OwnedByMain

\* A session with one owner has no two.
LEMMA OwnedExclusive ==
    ASSUME NEW s \in Session,
           \/ \E k \in OpKind : OwnedByOp(s, k)'
           \/ \E t \in IOThreads : OwnedByHandler(s, t)'
           \/ \E i \in Int : OwnedByPacket(s, i)'
           \/ OwnedByMain(s)'
    PROVE  Exclusive(s)'
<1>1. ASSUME NEW k \in OpKind, OwnedByOp(s, k)'
      PROVE  Exclusive(s)'
  BY <1>1 DEF OwnedByOp, OneOp, Exclusive, HasHandler, HasPacket
<1>2. NoOps(s)' => ~HasOp(s)' /\ \A k \in OpKind : ops'[s][k] <= 1 /\ ~(ops'[s][k] > 0)
  BY DEF NoOps, HasOp
<1>3. ASSUME NEW t \in IOThreads, OwnedByHandler(s, t)'
      PROVE  Exclusive(s)'
  BY <1>2, <1>3 DEF OwnedByHandler, OnlyHandler, Exclusive, HasHandler, HasPacket
<1>4. ASSUME NEW i \in Int, OwnedByPacket(s, i)'
      PROVE  Exclusive(s)'
  BY <1>2, <1>4 DEF OwnedByPacket, Exclusive, HasHandler, HasPacket
<1>5. ASSUME OwnedByMain(s)'
      PROVE  Exclusive(s)'
  BY <1>2, <1>5 DEF OwnedByMain, Exclusive, HasHandler, HasPacket
<1> QED
  BY <1>1, <1>3, <1>4, <1>5

\* None of the session's packets is a CLOSE that still counts.
NoClose(s) == \A i \in DOMAIN packets : Of(i, s) => packets[i].id # "CLOSE"

InOrder(s) ==
    \A i, j \in DOMAIN packets :
       i < j /\ Of(i, s) /\ Of(j, s) => packets[i].id # "CLOSE" /\ packets[j].id # "ACCEPT"

OpenWhenConnected(s) ==
    ~MainAt("start") /\ ~MainAt("done") /\ sockState[s] = "CONNECT" => sockOpen[s]

LEMMA ClosesAwait ==
    ASSUME NEW s \in Session, PacketInv(s), ~HasPacket(s), ~MainHas(s)
    PROVE  NoClose(s)
BY DEF PacketInv, HasPacket, NoClose

LEMMA SilentInOrder ==
    ASSUME NEW s \in Session, Silent(s)'
    PROVE  NoClose(s)' /\ InOrder(s)'
BY DEF Silent, NoClose, InOrder

\* What an operation that owns the session needs.
LEMMA OpOwnerInv ==
    ASSUME NEW s \in Session, NEW k \in OpKind, OwnedByOp(s, k)',
           k \in AcceptOp => sockState'[s] # "CONNECT" /\ Silent(s)',
           k \in RecvOp => ~used'[s],
           NoClose(s)', InOrder(s)', OpenWhenConnected(s)'
    PROVE  OwnerInv(s)'
<1>1. Exclusive(s)'
  BY OwnedExclusive
<1>2. \A j \in OpKind : ops'[s][j] > 0 => j = k
  BY DEF OwnedByOp, OneOp
<1>3. AcceptOp \subseteq OpKind /\ RecvOp \subseteq OpKind
  BY DEF AcceptOp, RecvOp, OpKind
<1>4. SocketInv(s)'
  BY <1>2, <1>3 DEF SocketInv, OwnedByOp, HasHandler, OpenWhenConnected
<1>5. PacketInv(s)'
  BY <1>2, <1>3 DEF PacketInv, OwnedByOp, HasHandler, NoClose, InOrder
<1> QED
  BY <1>1, <1>4, <1>5 DEF OwnerInv

\* What a handler that owns the session needs.
LEMMA HandlerOwnerInv ==
    ASSUME NEW s \in Session, NEW t \in IOThreads, OwnedByHandler(s, t)', ~used'[s],
           Accepting(t)' \/ at'[t].pc = "notify" => sockState'[s] # "CONNECT",
           at'[t].pc = "acceptOk" => sockOpen'[s],
           Accepting(t)' \/ at'[t].pc = "announce" => Silent(s)',
           NoClose(s)', InOrder(s)', OpenWhenConnected(s)'
    PROVE  OwnerInv(s)'
<1>1. Exclusive(s)'
  BY OwnedExclusive
<1>2. \A k \in OpKind : ~(ops'[s][k] > 0)
  BY DEF OwnedByHandler, NoOps
<1>3. AcceptOp \subseteq OpKind /\ RecvOp \subseteq OpKind
  BY DEF AcceptOp, RecvOp, OpKind
<1>4. SocketInv(s)'
  BY <1>2, <1>3 DEF SocketInv, OwnedByHandler, OnlyHandler, OpenWhenConnected
<1>5. PacketInv(s)'
  BY <1>2, <1>3 DEF PacketInv, OwnedByHandler, OnlyHandler, NoClose, InOrder
<1> QED
  BY <1>1, <1>4, <1>5 DEF OwnerInv

\* What Main, or nobody, needs to own the session.
LEMMA MainOwnerInv ==
    ASSUME NEW s \in Session, OwnedByMain(s)',
           MainHas(s)' /\ MainAt("reuse")' => ~used'[s] /\ sockState'[s] # "CONNECT",
           MainHas(s)' /\ MainAt("async")' => sockState'[s] # "CONNECT" /\ Silent(s)',
           NoClose(s)' \/ (MainHas(s)' /\ ~MainAt("async")'),
           InOrder(s)', OpenWhenConnected(s)'
    PROVE  OwnerInv(s)'
<1>1. Exclusive(s)'
  BY OwnedExclusive
<1>2. \A k \in OpKind : ~(ops'[s][k] > 0)
  BY DEF OwnedByMain, NoOps
<1>3. AcceptOp \subseteq OpKind /\ RecvOp \subseteq OpKind
  BY DEF AcceptOp, RecvOp, OpKind
<1>4. SocketInv(s)'
  BY <1>2, <1>3 DEF SocketInv, OwnedByMain, HasHandler, OpenWhenConnected
<1>5. PacketInv(s)'
  BY <1>2, <1>3 DEF PacketInv, OwnedByMain, HasHandler, NoClose, InOrder
<1> QED
  BY <1>1, <1>4, <1>5 DEF OwnerInv

\* What a CLOSE packet that owns the session needs.
LEMMA PacketOwnerInv ==
    ASSUME NEW s \in Session, NEW i \in Int, OwnedByPacket(s, i)',
           ~used'[s], sockState'[s] # "CONNECT",
           \A j \in DOMAIN packets' : Of(j, s)' /\ packets'[j].id = "CLOSE" => Awaits(j, s)',
           InOrder(s)'
    PROVE  OwnerInv(s)'
<1>1. Exclusive(s)'
  BY OwnedExclusive
<1>2. \A k \in OpKind : ~(ops'[s][k] > 0)
  BY DEF OwnedByPacket, NoOps
<1>3. AcceptOp \subseteq OpKind /\ RecvOp \subseteq OpKind
  BY DEF AcceptOp, RecvOp, OpKind
<1>4. SocketInv(s)'
  BY <1>2, <1>3 DEF SocketInv, OwnedByPacket, HasHandler
<1>5. PacketInv(s)'
  BY <1>2, <1>3 DEF PacketInv, OwnedByPacket, HasHandler, InOrder
<1> QED
  BY <1>1, <1>4, <1>5 DEF OwnerInv

LEMMA OwnerInvGives ==
    ASSUME NEW s \in Session, s \in Calm, OwnerInv(s)
    PROVE  Exclusive(s) /\ SocketInv(s) /\ PacketInv(s) /\ InOrder(s) /\ OpenWhenConnected(s)
BY DEF OwnerInv, SocketInv, PacketInv, InOrder, OpenWhenConnected

-----------------------------------------------------------------------------
(* The roles of the threads, kept by every kind of step.                    *)

LEMMA HasStarted ==
    ASSUME Roles,
           \/ \E s \in Session, k \in OpKind : ops[s][k] > 0
           \/ packets # <<>>
           \/ \E t \in IOThreads : at[t].pc # "idle"
    PROVE  ~MainAt("start")
BY DEF Roles, Idle, Loc

LEMMA RolesStay ==
    ASSUME Roles, Calm' \subseteq Calm, ~MainAt("start"), at' = at, headInHand' => headInHand /\ packets' # <<>>
    PROVE  Roles' /\ GoesOn
BY DEF Roles, MainAt, GoesOn

LEMMA RolesOfHandler ==
    ASSUME IInv, Roles, Calm' \subseteq Calm, ~MainAt("start"), NEW t \in IOThreads, NEW place,
           Goto(t, place), place.pc \in IOPC,
           place.pc \in {"close", "notify"} => place.why \in {"NETWORK_ON_CLOSE", "ACCEPT_FAILED"},
           place.pc \in OwningPC => place.why = "none",
           headInHand' => headInHand /\ packets' # <<>>
    PROVE  Roles' /\ GoesOn
<1>1. t # Main /\ Main \in Thread /\ IOThreads \subseteq Thread
  BY ThreadsAssumption DEF Thread
<1>2. at'[Main] = at[Main] /\ at'[t] = place /\ \A u \in IOThreads : u # t => at'[u] = at[u]
  BY <1>1 DEF Goto, IInv, TypeOK
<1>3. ~MainAt("start")' /\ GoesOn
  BY <1>2 DEF MainAt, GoesOn
<1>4. \A u \in IOThreads :
         /\ at'[u].pc \in IOPC
         /\ at'[u].pc \in {"close", "notify"} => at'[u].why \in {"NETWORK_ON_CLOSE", "ACCEPT_FAILED"}
         /\ at'[u].pc \in OwningPC => at'[u].why = "none"
  BY <1>2 DEF Roles
<1> QED
  BY <1>2, <1>3, <1>4 DEF Roles, MainAt

LEMMA RolesOfMain ==
    ASSUME IInv, Roles, ~MainAt("start"), ~MainAt("done"), NEW place, Goto(Main, place),
           place.pc \in MainPC \ {"start"},
           place.pc \in {"close", "notify"} =>
              \/ place.pc = "close" /\ place.why = "SELF_DISCONNECT"
              \/ place.s \in AcceptSession \ Calm',
           place.pc \in ReusePC => place.why = "none",
           place.pc = "front" => ~headInHand',
           headInHand' => packets' # <<>>
    PROVE  Roles' /\ GoesOn
<1>1. Main \notin IOThreads /\ Main \in Thread /\ IOThreads \subseteq Thread
  BY ThreadsAssumption DEF Thread
<1>2. at'[Main] = place /\ \A u \in IOThreads : at'[u] = at[u]
  BY <1>1 DEF Goto, IInv, TypeOK
<1>3. ~MainAt("start")' /\ GoesOn
  BY <1>2 DEF MainAt, GoesOn
<1>4. \A u \in IOThreads :
         /\ at'[u].pc \in IOPC
         /\ at'[u].pc \in {"close", "notify"} => at'[u].why \in {"NETWORK_ON_CLOSE", "ACCEPT_FAILED"}
         /\ at'[u].pc \in OwningPC => at'[u].why = "none"
  BY <1>2 DEF Roles
<1> QED
  BY <1>2, <1>3, <1>4 DEF Roles, MainAt

\* The queue does not change, so neither do the facts about it.
LEMMA QueueFacts ==
    ASSUME UNCHANGED queueVars, NEW s \in Session
    PROVE  /\ Silent(s)' <=> Silent(s)
           /\ NoClose(s)' <=> NoClose(s)
           /\ InOrder(s)' <=> InOrder(s)
           /\ HasPacket(s)' <=> HasPacket(s)
           /\ headInHand' = headInHand /\ packets' = packets
BY DEF queueVars, Silent, NoClose, InOrder, HasPacket, Awaits, Of

LEMMA RolesQueue ==
    ASSUME Roles, UNCHANGED queueVars
    PROVE  headInHand' => headInHand /\ packets' # <<>>
BY DEF queueVars, Roles

-----------------------------------------------------------------------------
(* The steps of the network: one operation of a session becomes another.    *)

LEMMA OpBecomes ==
    ASSUME LifeInv, IInv', Calm' \subseteq Calm,
           NEW s \in Session, NEW from \in OpKind, NEW to \in OpKind,
           from # to, ops[s][from] > 0, from \in AcceptOp <=> to \in AcceptOp,
           ops' = [ops EXCEPT ![s] = Moved(@, from, to)],
           UNCHANGED <<socketVars, lock, queueVars, at>>
    PROVE  LifeInv' /\ OthersUntouched(s)
<1>1. TypeOK /\ Roles /\ OwnerInv(s)
  BY DEF LifeInv, IInv
<1>2. ~MainAt("start") /\ Roles' /\ GoesOn
  BY <1>1, HasStarted, RolesStay, RolesQueue
<1>3. s \in Calm => OwnedByOp(s, from)
  BY <1>1, OpIsOwner DEF OwnerInv
<1>4. \A r \in Session : r # s => ops'[r] = ops[r]
  BY <1>1 DEF TypeOK
<1>5. ops'[s] = Moved(ops[s], from, to) /\ ops[s] \in [OpKind -> Nat]
  BY <1>1 DEF TypeOK
<1>6. ASSUME NEW r \in Session, r # s
      PROVE  OwnerInv(r)' /\ Untouched(r)
  <2>1. Untouched(r)
    BY <1>4, <1>6, QueueStays, NobodyMoves DEF Untouched, LifeInv
  <2>2. SocketKeeps(r)
    BY DEF SocketKeeps, socketVars
  <2> QED
    BY <1>2, <2>1, <2>2, UntouchedOwner DEF LifeInv
<1>7. OwnerInv(s)'
  <2> SUFFICES ASSUME s \in Calm PROVE OwnerInv(s)'
    BY DEF OwnerInv
  <2>1. OneOp(s, to)'
    <3>1. ops'[s][from] = ops[s][from] - 1 /\ ops'[s][to] = ops[s][to] + 1
      BY <1>5 DEF Moved
    <3>2. \A j \in OpKind : j # from /\ j # to => ops'[s][j] = ops[s][j]
      BY <1>5 DEF Moved
    <3>3. \A j \in OpKind : ops[s][j] = IF j = from THEN 1 ELSE 0
      BY <1>3 DEF OneOp, OwnedByOp
    <3> QED
      BY <3>1, <3>2, <3>3 DEF OneOp
  <2>2. OwnedByOp(s, to)'
    BY <1>3, <2>1 DEF OwnedByOp, HasHandler, HasPacket, MainHas, Owns, Awaits, queueVars
  <2>3. from \in AcceptOp => sockState[s] # "CONNECT" /\ Silent(s)
    BY <1>1 DEF OwnerInv, SocketInv, PacketInv, AcceptOp
  <2>4. from \notin AcceptOp => ~used[s] /\ to \notin AcceptOp
    BY <1>1 DEF OwnerInv, SocketInv, AcceptOp, RecvOp, OpKind
  <2>5. to \in AcceptOp => sockState'[s] # "CONNECT" /\ Silent(s)'
    BY <2>3, QueueFacts DEF socketVars
  <2>6. to \in RecvOp => ~used'[s]
    BY <2>4 DEF socketVars, RecvOp, AcceptOp
  <2>7. NoClose(s)' /\ InOrder(s)' /\ OpenWhenConnected(s)'
    <3>1. NoClose(s) /\ InOrder(s) /\ OpenWhenConnected(s)
      BY <1>1, <1>3, ClosesAwait, OwnerInvGives DEF OwnedByOp
    <3>2. OpenWhenConnected(s)'
      BY <3>1 DEF OpenWhenConnected, MainAt, socketVars
    <3> QED
      BY <3>1, <3>2, QueueFacts
  <2> HIDE DEF OwnedByOp, AcceptOp, RecvOp, OwnerInv, NoClose, InOrder, OpenWhenConnected, Silent
  <2> QED
    BY <2>2, <2>5, <2>6, <2>7, OpOwnerInv
<1> QED
  BY <1>2, <1>6, <1>7 DEF LifeInv, OthersUntouched

LEMMA NetworkLives ==
    ASSUME LifeInv, IInv', Calm' \subseteq Calm, NEW s \in Session,
           PeerConnects(s) \/ AcceptFails(s) \/ PeerSends(s) \/ PeerCloses(s)
    PROVE  LifeInv' /\ OthersUntouched(s)
<1>1. {"accept", "acceptOk", "acceptErr", "recv", "recvOk", "recvErr"} = OpKind
  BY DEF OpKind
<1>2. CASE PeerConnects(s)
  BY <1>1, <1>2, OpBecomes DEF PeerConnects, AcceptOp
<1>3. CASE AcceptFails(s)
  BY <1>1, <1>3, OpBecomes DEF AcceptFails, AcceptOp
<1>4. CASE PeerSends(s)
  BY <1>1, <1>4, OpBecomes DEF PeerSends, AcceptOp
<1>5. CASE PeerCloses(s)
  BY <1>1, <1>5, OpBecomes DEF PeerCloses, AcceptOp
<1> QED
  BY <1>2, <1>3, <1>4, <1>5

-----------------------------------------------------------------------------
(* A thread takes a ready handler.                                          *)

LEMMA TakenOps ==
    ASSUME TypeOK, NEW s \in Session, NEW k \in OpKind, OneOp(s, k),
           ops' = [ops EXCEPT ![s][k] = @ - 1]
    PROVE  NoOps(s)' /\ \A r \in Session : r # s => ops'[r] = ops[r]
<1>1. ops \in [Session -> [OpKind -> Nat]]
  BY DEF TypeOK
<1>2. \A r \in Session : r # s => ops'[r] = ops[r]
  BY <1>1
<1>3. ops'[s] = [ops[s] EXCEPT ![k] = @ - 1] /\ ops[s] \in [OpKind -> Nat]
  BY <1>1
<1>4. ops'[s][k] = ops[s][k] - 1 /\ \A j \in OpKind : j # k => ops'[s][j] = ops[s][j]
  BY <1>3
<1>5. \A j \in OpKind : ops[s][j] = IF j = k THEN 1 ELSE 0
  BY DEF OneOp
<1> QED
  BY <1>2, <1>4, <1>5 DEF NoOps

\* An operation begins on a session that has none.
LEMMA AddedOps ==
    ASSUME TypeOK, NEW s \in Session, NEW k \in OpKind, NoOps(s),
           ops' = [ops EXCEPT ![s][k] = @ + 1]
    PROVE  OneOp(s, k)' /\ \A r \in Session : r # s => ops'[r] = ops[r]
<1>1. ops \in [Session -> [OpKind -> Nat]]
  BY DEF TypeOK
<1>2. \A r \in Session : r # s => ops'[r] = ops[r]
  BY <1>1
<1>3. ops'[s] = [ops[s] EXCEPT ![k] = @ + 1] /\ ops[s] \in [OpKind -> Nat]
  BY <1>1
<1>4. ops'[s][k] = ops[s][k] + 1 /\ \A j \in OpKind : j # k => ops'[s][j] = ops[s][j]
  BY <1>3
<1>5. \A j \in OpKind : ops[s][j] = 0
  BY DEF NoOps
<1>6. OneOp(s, k)'
  BY <1>4, <1>5 DEF OneOp
<1> QED
  BY <1>2, <1>6

\* Where everybody is after thread t went on with session s.
LEMMA HandlerAfter ==
    ASSUME IInv, NEW t \in IOThreads, NEW s \in Session, NEW place, Goto(t, place), OnlyHandler(s, t)
    PROVE  /\ at'[t] = place
           /\ at'[Main] = at[Main]
           /\ MainHas(s)' <=> MainHas(s)
           /\ OnlyHandler(s, t)'
           /\ place = Idle \/ place.pc = "closed" => ~HasHandler(s)'
<1>1. t # Main /\ Main \in Thread /\ IOThreads \subseteq Thread
  BY ThreadsAssumption DEF Thread
<1>2. at'[Main] = at[Main] /\ at'[t] = place /\ \A u \in IOThreads : u # t => at'[u] = at[u]
  BY <1>1 DEF Goto, IInv, TypeOK
<1>3. OnlyHandler(s, t)'
  BY <1>2 DEF OnlyHandler, Owns
<1>4. place = Idle \/ place.pc = "closed" => ~Owns(t, s)'
  BY <1>2 DEF Owns, Idle, Loc, OwningPC
<1>5. place = Idle \/ place.pc = "closed" => ~HasHandler(s)'
  BY <1>3, <1>4 DEF OnlyHandler, HasHandler
<1>6. MainHas(s)' <=> MainHas(s)
  BY <1>2 DEF MainHas
<1> QED
  BY <1>2, <1>3, <1>5, <1>6

\* The sessions that a handler of session s has nothing to do with.
LEMMA OthersLive ==
    ASSUME LifeInv, IInv', Calm' \subseteq Calm,
           NEW t \in IOThreads, NEW s \in Session, NEW place, Goto(t, place),
           at[t].s = s \/ at[t].pc = "idle", place.s = s \/ place = Idle, GoesOn,
           \A r \in Session : r # s => ops'[r] = ops[r] /\ QueueKeeps(r) /\ SocketKeeps(r)
    PROVE  (\A r \in Session : r # s => OwnerInv(r)') /\ OthersUntouched(s)
<1> SUFFICES ASSUME NEW r \in Session, r # s
             PROVE  OwnerInv(r)' /\ Untouched(r)
  BY DEF OthersUntouched
<1>1. ThreadsKeep(r)
  BY HandlerMoves DEF LifeInv
<1>2. Untouched(r)
  BY <1>1 DEF Untouched
<1> QED
  BY <1>2, UntouchedOwner DEF LifeInv

LEMMA AcceptTakenLives ==
    ASSUME LifeInv, IInv', Calm' \subseteq Calm,
           NEW t \in IOThreads, NEW s \in Session, s \in Calm,
           OnAcceptOk(t, s) \/ OnAcceptErr(t, s)
    PROVE  LifeInv' /\ OthersUntouched(s)
<1>1. TypeOK /\ Roles /\ OwnerInv(s) /\ IInv
  BY DEF LifeInv, IInv
<1>2. PICK k \in {"acceptOk", "acceptErr"} :
         ops[s][k] > 0 /\ ops' = [ops EXCEPT ![s][k] = @ - 1]
  BY DEF OnAcceptOk, OnAcceptErr
<1>3. k \in OpKind /\ k \in AcceptOp
  BY <1>2 DEF OpKind, AcceptOp
<1>4. PICK place : /\ Goto(t, place)
                   /\ IF shutdown THEN place = Idle
                      ELSE \E pc \in {"acceptOk", "acceptErr"} :
                              /\ place = Loc(pc, s)
                              /\ pc = "acceptOk" => sockOpen'[s]
                              /\ ~used'[s]
  <2>1. s \in DOMAIN sockOpen /\ s \in DOMAIN used
    BY <1>1 DEF TypeOK
  <2>2. CASE OnAcceptOk(t, s)
    BY <2>1, <2>2 DEF OnAcceptOk, SetUnUsed
  <2>3. CASE OnAcceptErr(t, s)
    BY <2>1, <2>3 DEF OnAcceptErr, SetUnUsed
  <2> QED
    BY <2>2, <2>3
<1>5. OwnedByOp(s, k)
  BY <1>1, <1>2, <1>3, OpIsOwner DEF OwnerInv
<1>6. NoOps(s)' /\ \A r \in Session : r # s => ops'[r] = ops[r]
  BY <1>1, <1>2, <1>3, <1>5, TakenOps DEF OwnedByOp
<1>7. sockState[s] # "CONNECT" /\ Silent(s)
  BY <1>1, <1>2, <1>3 DEF OwnerInv, SocketInv, PacketInv
<1>8. /\ UNCHANGED queueVars /\ sockState' = sockState /\ at[t].pc = "idle"
      /\ \A r \in Session : r # s => used'[r] = used[r] /\ sockOpen'[r] = sockOpen[r]
  <2>1. sockOpen \in [Session -> BOOLEAN] /\ used \in [Session -> BOOLEAN]
    BY <1>1 DEF TypeOK
  <2> QED
    BY <2>1 DEF OnAcceptOk, OnAcceptErr, SetUnUsed, socketVars
<1>9. ~MainAt("start")
  BY <1>1, <1>2, <1>3, HasStarted
<1>10. place.pc \in {"idle", "acceptOk", "acceptErr"} /\ (place.s = s \/ place = Idle) /\ place.why = "none"
  BY <1>4 DEF Idle, Loc
<1>11. Roles' /\ GoesOn
  <2>1. place.pc \in IOPC /\ place.pc \notin {"close", "notify"}
    BY <1>10 DEF IOPC, OwningPC
  <2> QED
    BY <1>1, <1>4, <1>8, <1>9, <1>10, <2>1, RolesOfHandler, RolesQueue
<1>12. (\A r \in Session : r # s => OwnerInv(r)') /\ OthersUntouched(s)
  <2>1. \A r \in Session : r # s => QueueKeeps(r) /\ SocketKeeps(r)
    BY <1>1, <1>8, QueueStays DEF SocketKeeps
  <2> QED
    BY <1>4, <1>6, <1>8, <1>10, <1>11, <2>1, OthersLive
<1>13. OwnerInv(s)'
  <2>1. OnlyHandler(s, t)
    BY <1>5 DEF OwnedByOp, HasHandler, OnlyHandler
  <2>2. /\ at'[t] = place /\ ~MainHas(s)' /\ OnlyHandler(s, t)'
        /\ place = Idle => ~HasHandler(s)'
    BY <1>1, <1>4, <1>5, <2>1, HandlerAfter DEF OwnedByOp
  <2>3. ~HasPacket(s)' /\ Silent(s)' /\ sockState'[s] # "CONNECT"
    BY <1>5, <1>7, <1>8, QueueFacts DEF OwnedByOp
  <2>4. NoClose(s)' /\ InOrder(s)' /\ OpenWhenConnected(s)'
    BY <2>3, SilentInOrder DEF OpenWhenConnected
  <2>5. CASE shutdown
    <3>1. OwnedByMain(s)'
      BY <1>4, <1>6, <2>2, <2>3, <2>5 DEF OwnedByMain
    <3> QED
      BY <2>2, <2>4, <3>1, MainOwnerInv
  <2>6. CASE ~shutdown
    <3>1. OwnedByHandler(s, t)'
      BY <1>6, <2>2, <2>3 DEF OwnedByHandler
    <3>2. ~used'[s] /\ (at'[t].pc = "acceptOk" => sockOpen'[s])
      BY <1>4, <2>2, <2>6 DEF Loc
    <3> QED
      BY <2>3, <2>4, <3>1, <3>2, HandlerOwnerInv
  <2> QED
    BY <2>5, <2>6
<1> QED
  BY <1>11, <1>12, <1>13 DEF LifeInv

\* A packet of session s other than CLOSE comes in behind the packets of its
\* connection.
LEMMA PushedInOrder ==
    ASSUME NEW s \in Session, NEW id, NEW d \in {0, 1}, Pushed(id, s, d), IInv, IInv',
           id # "CLOSE", ~HasPacket(s), NoClose(s), InOrder(s), id = "ACCEPT" => Silent(s)
    PROVE  ~HasPacket(s)' /\ NoClose(s)' /\ InOrder(s)'
<1>1. packets'[Len(packets')].id = id /\ id # "CLOSE"
  BY DEF Pushed
<1>2. \A i \in DOMAIN packets' : i # Len(packets') =>
         /\ i < Len(packets') /\ i + d \in DOMAIN packets
         /\ packets'[i] = packets[i + d]
         /\ (Of(i, s)' <=> Of(i + d, s))
  BY DEF Pushed, Of
<1>3. NoClose(s)'
  <2> SUFFICES ASSUME NEW i \in DOMAIN packets', Of(i, s)'
               PROVE  packets'[i].id # "CLOSE"
    BY DEF NoClose
  <2>1. CASE i = Len(packets')
    BY <1>1, <2>1
  <2>2. CASE i # Len(packets')
    BY <1>2, <2>2 DEF NoClose
  <2> QED
    BY <2>1, <2>2
<1>4. ~HasPacket(s)'
  BY <1>3, ToldIncludes DEF HasPacket, NoClose, Awaits, Of
<1>5. InOrder(s)'
  <2> SUFFICES ASSUME NEW i \in DOMAIN packets', NEW j \in DOMAIN packets', i < j,
                      Of(i, s)', Of(j, s)'
               PROVE  packets'[j].id # "ACCEPT"
    BY <1>3 DEF InOrder, NoClose
  <2>1. DOMAIN packets' = 1 .. Len(packets') /\ Len(packets') \in Nat
    BY DEF IInv, TypeOK
  <2>2. i # Len(packets') /\ Of(i + d, s) /\ i + d \in DOMAIN packets
    BY <1>2, <2>1
  <2>3. CASE j = Len(packets')
    BY <1>1, <2>2, <2>3 DEF Silent
  <2>4. CASE j # Len(packets')
    <3>1. Of(j + d, s) /\ j + d \in DOMAIN packets /\ packets'[j] = packets[j + d]
      BY <1>2, <2>4
    <3>2. i + d < j + d
      BY <2>1
    <3> QED
      BY <2>2, <3>1, <3>2 DEF InOrder
  <2> QED
    BY <2>3, <2>4
<1> QED
  BY <1>3, <1>4, <1>5

LEMMA ReceiveTakenLives ==
    ASSUME LifeInv, IInv', Calm' \subseteq Calm,
           NEW t \in IOThreads, NEW s \in Session, s \in Calm,
           OnRecvOk(t, s) \/ OnRecvErr(t, s)
    PROVE  LifeInv' /\ OthersUntouched(s)
<1>1. TypeOK /\ Roles /\ OwnerInv(s) /\ IInv
  BY DEF LifeInv, IInv
<1>2. PICK k \in {"recvOk", "recvErr"} :
         ops[s][k] > 0 /\ ops' = [ops EXCEPT ![s][k] = @ - 1]
  BY DEF OnRecvOk, OnRecvErr
<1>3. k \in OpKind /\ k \in RecvOp
  BY <1>2 DEF OpKind, RecvOp
<1>4. PICK place \in {Loc("process", s), Closing(s, "NETWORK_ON_CLOSE")} : Goto(t, place)
  BY DEF OnRecvOk, OnRecvErr
<1>5. OwnedByOp(s, k)
  BY <1>1, <1>2, <1>3, OpIsOwner DEF OwnerInv
<1>6. NoOps(s)' /\ \A r \in Session : r # s => ops'[r] = ops[r]
  BY <1>1, <1>2, <1>3, <1>5, TakenOps DEF OwnedByOp
<1>7. ~used[s] /\ NoClose(s) /\ InOrder(s) /\ OpenWhenConnected(s)
  BY <1>1, <1>2, <1>3, <1>5, ClosesAwait, OwnerInvGives DEF OwnerInv, SocketInv, OwnedByOp
<1>8. UNCHANGED queueVars /\ UNCHANGED socketVars /\ at[t].pc = "idle"
  BY DEF OnRecvOk, OnRecvErr
<1>9. ~MainAt("start")
  BY <1>1, <1>2, <1>3, HasStarted
<1>10. /\ place.s = s
       /\ \/ place.pc = "process" /\ place.why = "none"
          \/ place.pc = "close" /\ place.why = "NETWORK_ON_CLOSE"
  BY <1>4 DEF Loc, Closing
<1>11. Roles' /\ GoesOn
  <2>1. /\ place.pc \in IOPC
        /\ place.pc \in {"close", "notify"} => place.why \in {"NETWORK_ON_CLOSE", "ACCEPT_FAILED"}
        /\ place.pc \in OwningPC => place.why = "none"
    BY <1>10 DEF IOPC, OwningPC
  <2> QED
    BY <1>1, <1>4, <1>8, <1>9, <1>10, <2>1, RolesOfHandler, RolesQueue
<1>12. (\A r \in Session : r # s => OwnerInv(r)') /\ OthersUntouched(s)
  <2>1. \A r \in Session : r # s => QueueKeeps(r) /\ SocketKeeps(r)
    BY <1>1, <1>8, QueueStays DEF SocketKeeps, socketVars
  <2> QED
    BY <1>4, <1>6, <1>8, <1>10, <1>11, <2>1, OthersLive
<1>13. OwnerInv(s)'
  <2>1. OnlyHandler(s, t)
    BY <1>5 DEF OwnedByOp, HasHandler, OnlyHandler
  <2>2. at'[t] = place /\ ~MainHas(s)' /\ OnlyHandler(s, t)' /\ at'[Main] = at[Main]
    BY <1>1, <1>4, <1>5, <2>1, HandlerAfter DEF OwnedByOp
  <2>3. ~HasPacket(s)' /\ NoClose(s)' /\ InOrder(s)' /\ ~used'[s]
    BY <1>5, <1>7, <1>8, QueueFacts DEF OwnedByOp, socketVars
  <2>4. OpenWhenConnected(s)'
    BY <1>7, <1>8, <2>2 DEF OpenWhenConnected, MainAt, socketVars
  <2>5. ~Accepting(t)' /\ at'[t].pc \notin {"notify", "acceptOk", "announce"}
    BY <1>10, <2>2 DEF Accepting
  <2>6. OwnedByHandler(s, t)'
    BY <1>6, <2>2, <2>3 DEF OwnedByHandler
  <2> QED
    BY <2>3, <2>4, <2>5, <2>6, HandlerOwnerInv
<1> QED
  BY <1>11, <1>12, <1>13 DEF LifeInv

\* A receive that ends with an error and some bytes leaves nobody behind.
LEMMA ReceiveBrokenLives ==
    ASSUME LifeInv, IInv', Calm' \subseteq Calm,
           NEW t \in IOThreads, NEW s \in Session,
           s \in Calm,
           OnRecvErrWithBytes(t, s)
    PROVE  LifeInv' /\ OthersUntouched(s)
<1>1. TypeOK /\ Roles /\ OwnerInv(s) /\ IInv
  BY DEF LifeInv, IInv
<1>2. ops[s]["recvErr"] > 0 /\ ops' = [ops EXCEPT ![s]["recvErr"] = @ - 1] /\ "recvErr" \in OpKind
  BY DEF OnRecvErrWithBytes, OpKind
<1>3. UNCHANGED socketVars /\ at' = at
  BY DEF OnRecvErrWithBytes
<1>4. OwnedByOp(s, "recvErr")
  BY <1>1, <1>2, OpIsOwner DEF OwnerInv
<1>5. NoOps(s)' /\ \A r \in Session : r # s => ops'[r] = ops[r]
  BY <1>1, <1>2, <1>4, TakenOps DEF OwnedByOp
<1>6. ~HasPacket(s) /\ NoClose(s) /\ InOrder(s) /\ OpenWhenConnected(s)
  BY <1>1, <1>4, ClosesAwait, OwnerInvGives DEF OwnedByOp
<1>7. ~MainAt("start")
  BY <1>1, <1>2, HasStarted
<1>8. /\ headInHand' => headInHand /\ packets' # <<>>
      /\ ~HasPacket(s)' /\ NoClose(s)' /\ InOrder(s)'
      /\ \A r \in Session : r # s => QueueKeeps(r)
  <2>1. CASE UNCHANGED queueVars
    BY <1>1, <1>6, <2>1, QueueFacts, QueueStays, RolesQueue
  <2>2. CASE NotifyReqCloseSession(s)
    <3>1. "REQ_CLOSE_SESSION" \in PacketID
      BY DEF PacketID
    <3>2. PICK d \in {0, 1} : Pushed("REQ_CLOSE_SESSION", s, d)
      BY <1>1, <2>2, <3>1, PushMoves, CalmNamed DEF NotifyReqCloseSession
    <3>3. ~HasPacket(s)' /\ NoClose(s)' /\ InOrder(s)'
      BY <1>1, <1>6, <3>2, PushedInOrder
    <3> QED
      BY <3>2, <3>3, PushKeepsOthers DEF Pushed
  <2> QED
    BY <2>1, <2>2 DEF OnRecvErrWithBytes
<1>9. Roles' /\ GoesOn
  BY <1>1, <1>3, <1>7, <1>8, RolesStay
<1>10. ASSUME NEW r \in Session, r # s
       PROVE  OwnerInv(r)' /\ Untouched(r)
  <2>1. Untouched(r)
    BY <1>3, <1>5, <1>8, <1>10, NobodyMoves DEF Untouched
  <2>2. SocketKeeps(r)
    BY <1>3 DEF SocketKeeps, socketVars
  <2> QED
    BY <1>9, <2>1, <2>2, UntouchedOwner DEF LifeInv
<1>11. OwnerInv(s)'
  <2>1. ~HasHandler(s)' /\ ~MainHas(s)'
    BY <1>3, <1>4 DEF OwnedByOp, HasHandler, Owns, MainHas
  <2>2. OwnedByMain(s)'
    BY <1>5, <1>8, <2>1 DEF OwnedByMain
  <2>3. OpenWhenConnected(s)'
    BY <1>3, <1>6 DEF OpenWhenConnected, MainAt, socketVars
  <2> QED
    BY <1>8, <2>1, <2>2, <2>3, MainOwnerInv
<1> QED
  BY <1>9, <1>10, <1>11 DEF LifeInv, OthersUntouched

-----------------------------------------------------------------------------
(* A handler goes on.                                                       *)

\* A handler that owns its session, and what is known of the session then.
LEMMA HandlerOwns ==
    ASSUME LifeInv, NEW t \in IOThreads, at[t].s \in Calm,
           \/ at[t].pc \in OwningPC
           \/ at[t].pc \in {"close", "notify"}
    PROVE  /\ at[t].s \in Session /\ Owns(t, at[t].s) /\ OwnerInv(at[t].s)
           /\ OwnedByHandler(at[t].s, t)
           /\ ~used[at[t].s]
           /\ NoClose(at[t].s) /\ InOrder(at[t].s) /\ OpenWhenConnected(at[t].s)
           /\ ~MainAt("start")
<1>1. at[t].s \in Session
  BY DEF LifeInv, IInv, HasSession, NoSessionPC, OwningPC, Thread
<1>2. Owns(t, at[t].s)
  BY DEF LifeInv, Roles, Owns
<1>3. OwnerInv(at[t].s)
  BY <1>1 DEF LifeInv
<1>4. OwnedByHandler(at[t].s, t)
  BY <1>1, <1>2, <1>3, HandlerIsOwner DEF LifeInv, IInv, OwnerInv
<1>5. ~used[at[t].s]
  BY <1>2, <1>3 DEF OwnerInv, SocketInv
<1>6. NoClose(at[t].s) /\ InOrder(at[t].s) /\ OpenWhenConnected(at[t].s)
  BY <1>1, <1>3, <1>4, ClosesAwait, OwnerInvGives DEF OwnedByHandler
<1>7. ~MainAt("start")
  BY HasStarted DEF LifeInv, OwningPC
<1> QED
  BY <1>1, <1>2, <1>3, <1>4, <1>5, <1>6, <1>7

\* A handler that goes on with its session and leaves the queue alone.
LEMMA HandlerGoesOn ==
    ASSUME LifeInv, IInv', Calm' \subseteq Calm,
           NEW t \in IOThreads, NEW s \in Session, s = at[t].s,
           s \in Calm,
           \/ at[t].pc \in OwningPC
           \/ at[t].pc \in {"close", "notify"},
           NEW place, Goto(t, place), place.s = s,
           \/ place.pc \in OwningPC /\ place.why = "none"
           \/ /\ place.pc \in {"close", "notify"}
              /\ place.why \in {"NETWORK_ON_CLOSE", "ACCEPT_FAILED"},
           UNCHANGED ops, UNCHANGED queueVars, UNCHANGED used,
           \A r \in Session : r # s => SocketKeeps(r),
           sockState'[s] = "CONNECT" => sockOpen'[s],
           Accepting(t)' \/ place.pc = "notify" => sockState'[s] # "CONNECT",
           place.pc = "acceptOk" => sockOpen'[s],
           Accepting(t)' \/ place.pc = "announce" => Silent(s)
    PROVE  LifeInv' /\ OthersUntouched(at[t].s)
<1>1. IInv /\ TypeOK /\ Roles
  BY DEF LifeInv, IInv
<1>2. /\ OwnerInv(s) /\ OwnedByHandler(s, t) /\ ~used[s] /\ ~MainAt("start")
      /\ NoClose(s) /\ InOrder(s)
  BY HandlerOwns
<1>3. Roles' /\ GoesOn
  <2>1. place.pc \in IOPC
    BY DEF IOPC, OwningPC
  <2>2. /\ place.pc \in {"close", "notify"} => place.why \in {"NETWORK_ON_CLOSE", "ACCEPT_FAILED"}
        /\ place.pc \in OwningPC => place.why = "none"
    BY DEF OwningPC
  <2> QED
    BY <1>1, <1>2, <2>1, <2>2, RolesOfHandler, RolesQueue
<1>4. (\A r \in Session : r # s => OwnerInv(r)') /\ OthersUntouched(s)
  BY <1>1, <1>3, QueueStays, OthersLive
<1>5. OwnerInv(s)'
  <2>1. /\ at'[t] = place /\ OnlyHandler(s, t)' /\ ~MainHas(s)'
    BY <1>1, <1>2, HandlerAfter DEF OwnedByHandler
  <2>2. ~HasPacket(s)' /\ NoClose(s)' /\ InOrder(s)' /\ (Silent(s)' <=> Silent(s))
    BY <1>2, QueueFacts DEF OwnedByHandler
  <2>3. OwnedByHandler(s, t)'
    BY <1>2, <2>1, <2>2 DEF OwnedByHandler, NoOps
  <2>4. OpenWhenConnected(s)'
    BY DEF OpenWhenConnected
  <2> QED
    BY <1>2, <2>1, <2>2, <2>3, <2>4, HandlerOwnerInv
<1> QED
  BY <1>3, <1>4, <1>5 DEF LifeInv

LEMMA AcceptFailedLives ==
    ASSUME LifeInv, IInv', Calm' \subseteq Calm,
           NEW t \in IOThreads, AcceptFailed(t),
           at[t].s \in Calm
    PROVE  LifeInv' /\ OthersUntouched(at[t].s)
<1>1. at[t].pc = "acceptErr" /\ at[t].pc \in OwningPC
  BY DEF AcceptFailed, OwningPC
<1>2. PICK s \in Session \cap Calm : at[t].s = s
  BY <1>1, HandlerOwns
<1>3. /\ Owns(t, s) /\ OwnerInv(s) /\ OwnedByHandler(s, t)
      /\ NoClose(s) /\ InOrder(s) /\ ~MainAt("start")
  BY <1>1, <1>2, HandlerOwns
<1>4. sockState[s] # "CONNECT" /\ Silent(s)
  BY <1>1, <1>3 DEF OwnerInv, SocketInv, PacketInv, Accepting
<1>5. UNCHANGED socketVars /\ UNCHANGED ops /\ UNCHANGED queueVars
  BY DEF AcceptFailed
<1>6. IInv /\ Roles
  BY DEF LifeInv
<1>7. \A r \in Session : SocketKeeps(r)
  BY <1>5 DEF SocketKeeps, socketVars
<1>8. CASE shutdown
  <2>1. Goto(t, Idle)
    BY <1>8 DEF AcceptFailed
  <2>2. Idle.pc \in IOPC /\ Idle.pc \notin {"close", "notify"} /\ Idle.why = "none"
    BY DEF Idle, Loc, IOPC
  <2>3. Roles' /\ GoesOn
    BY <1>3, <1>5, <1>6, <2>1, <2>2, RolesOfHandler, RolesQueue
  <2>4. (\A r \in Session : r # s => OwnerInv(r)') /\ OthersUntouched(s)
    BY <1>3, <1>5, <1>6, <1>2, <1>7, <2>1, <2>3, QueueStays, OthersLive
  <2>5. ~HasHandler(s)' /\ ~MainHas(s)'
    BY <1>3, <1>6, <2>1, HandlerAfter DEF OwnedByHandler
  <2>6. ~HasPacket(s)' /\ NoClose(s)' /\ InOrder(s)'
    BY <1>3, <1>5, QueueFacts DEF OwnedByHandler
  <2>7. OwnedByMain(s)'
    BY <1>3, <1>5, <2>5, <2>6 DEF OwnedByHandler, OwnedByMain, NoOps
  <2>8. OpenWhenConnected(s)'
    BY <1>4, <1>5 DEF OpenWhenConnected, socketVars
  <2>9. OwnerInv(s)'
    BY <1>3, <2>5, <2>6, <2>7, <2>8, MainOwnerInv
  <2> QED
    BY <1>2, <2>3, <2>4, <2>9 DEF LifeInv
<1>9. CASE ~shutdown
  <2> DEFINE place == Closing(s, "ACCEPT_FAILED")
  <2>1. Goto(t, place)
    BY <1>2, <1>9 DEF AcceptFailed
  <2>2. place.s = s /\ place.pc = "close" /\ place.why = "ACCEPT_FAILED"
    BY DEF Closing
  <2> HIDE DEF place
  <2>3. sockState'[s] # "CONNECT" /\ used' = used
    BY <1>4, <1>5 DEF socketVars
  <2> QED
    BY <1>1, <1>3, <1>4, <1>5, <1>2, <1>7, <2>1, <2>2, <2>3, HandlerGoesOn
<1> QED
  BY <1>8, <1>9

LEMMA AcceptProcessingLives ==
    ASSUME LifeInv, IInv', Calm' \subseteq Calm,
           NEW t \in IOThreads, AcceptProcessing(t),
           at[t].s \in Calm
    PROVE  LifeInv' /\ OthersUntouched(at[t].s)
<1>1. at[t].pc = "acceptOk" /\ at[t].pc \in OwningPC
  BY DEF AcceptProcessing, OwningPC
<1>2. PICK s \in Session \cap Calm : at[t].s = s
  BY <1>1, HandlerOwns
<1>3. Owns(t, s) /\ OwnerInv(s)
  BY <1>1, <1>2, HandlerOwns
<1>4. Silent(s) /\ sockOpen[s]
  BY <1>1, <1>3 DEF OwnerInv, SocketInv, PacketInv, Accepting
<1>5. /\ UNCHANGED <<used, sockOpen>> /\ UNCHANGED ops /\ UNCHANGED queueVars
      /\ sockState' = [sockState EXCEPT ![s] = "CONNECT"] /\ Goto(t, Loc("announce", s))
  BY <1>2 DEF AcceptProcessing
<1>6. TypeOK /\ IInv
  BY DEF LifeInv, IInv
<1>7. \A r \in Session : r # s => SocketKeeps(r)
  BY <1>5, <1>6 DEF SocketKeeps, TypeOK
<1> DEFINE place == Loc("announce", s)
<1>8. place.s = s /\ place.pc = "announce" /\ place.pc \in OwningPC /\ place.why = "none"
  BY DEF Loc, OwningPC
<1>9. Goto(t, place)
  BY <1>5
<1> HIDE DEF place
<1>10. at'[t] = place
  BY <1>6, <1>9 DEF Goto, IInv, TypeOK, Thread
<1>11. ~Accepting(t)'
  BY <1>8, <1>10 DEF Accepting
<1> QED
  BY <1>1, <1>3, <1>4, <1>5, <1>2, <1>7, <1>8, <1>9, <1>11, HandlerGoesOn

\* A handler that puts a packet other than CLOSE into the queue.
LEMMA HandlerPushes ==
    ASSUME LifeInv, IInv', Calm' \subseteq Calm,
           NEW t \in IOThreads, NEW s \in Session, s = at[t].s,
           s \in Calm,
           at[t].pc \in OwningPC, Goto(t, Loc("postRecv", s)), UNCHANGED ops, UNCHANGED socketVars,
           NEW id \in PacketID \ {"CLOSE"}, Push(id, s), id = "ACCEPT" => Silent(s)
    PROVE  LifeInv' /\ OthersUntouched(at[t].s)
<1>1. IInv /\ TypeOK /\ Roles
  BY DEF LifeInv, IInv
<1>2. /\ OwnerInv(s) /\ OwnedByHandler(s, t) /\ ~used[s] /\ ~MainAt("start")
      /\ NoClose(s) /\ InOrder(s) /\ OpenWhenConnected(s)
  BY HandlerOwns
<1>3. PICK d \in {0, 1} : Pushed(id, s, d)
  BY <1>1, PushMoves, CalmNamed
<1>4. ~HasPacket(s)' /\ NoClose(s)' /\ InOrder(s)'
  BY <1>1, <1>2, <1>3, PushedInOrder DEF OwnedByHandler
<1> DEFINE place == Loc("postRecv", s)
<1>5. place.s = s /\ place.pc = "postRecv" /\ place.pc \in IOPC /\ place.why = "none"
  BY DEF Loc, OwningPC, IOPC
<1>6. Goto(t, place)
  OBVIOUS
<1> HIDE DEF place
<1>7. Roles' /\ GoesOn
  BY <1>1, <1>2, <1>3, <1>5, <1>6, RolesOfHandler DEF Pushed
<1>8. (\A r \in Session : r # s => OwnerInv(r)') /\ OthersUntouched(s)
  <2>1. \A r \in Session : r # s => QueueKeeps(r) /\ SocketKeeps(r)
    BY <1>3, PushKeepsOthers DEF SocketKeeps, socketVars
  <2> QED
    BY <1>5, <1>6, <1>7, <2>1, OthersLive
<1>9. OwnerInv(s)'
  <2>1. at'[t] = place /\ OnlyHandler(s, t)' /\ ~MainHas(s)' /\ at'[Main] = at[Main]
    BY <1>1, <1>2, <1>6, HandlerAfter DEF OwnedByHandler
  <2>2. OwnedByHandler(s, t)'
    BY <1>2, <1>4, <2>1 DEF OwnedByHandler, NoOps
  <2>3. OpenWhenConnected(s)' /\ ~used'[s]
    BY <1>2, <2>1 DEF OpenWhenConnected, MainAt, socketVars
  <2>4. ~Accepting(t)' /\ at'[t].pc = "postRecv"
    BY <1>5, <2>1 DEF Accepting
  <2> QED
    BY <1>4, <2>2, <2>3, <2>4, HandlerOwnerInv
<1> QED
  BY <1>7, <1>8, <1>9 DEF LifeInv

\* A peer's inner id disturbs the session that it names.
LEMMA ImitationDisturbs ==
    ASSUME IInv, NEW id, NEW s \in AcceptSession, Imitates(id, s)
    PROVE  s \notin Calm'
BY DEF IInv, TypeOK, Imitates, Calm, Undisturbed

LEMMA ProcessLives ==
    ASSUME LifeInv, IInv', Calm' \subseteq Calm,
           ProcessRuns, NEW t \in IOThreads,
           ProcessRecvData(t), at[t].s \in Calm'
    PROVE  LifeInv' /\ OthersUntouched(at[t].s)
<1>1. at[t].pc = "process" /\ at[t].pc \in OwningPC /\ at[t].s \in Calm
  BY DEF ProcessRecvData, OwningPC
<1>2. PICK s \in Session \cap Calm : at[t].s = s
  BY <1>1, HandlerOwns
<1>3. OpenWhenConnected(s) /\ ~MainAt("start") /\ ~used[s]
  BY <1>1, <1>2, HandlerOwns
<1>4. Goto(t, Loc("postRecv", s)) /\ UNCHANGED ops /\ UNCHANGED socketVars
  BY <1>2 DEF ProcessRecvData
<1>5. CASE Push("DATA", s) \/ Push("REQ_CLOSE_SESSION", s)
  <2>1. {"DATA", "REQ_CLOSE_SESSION"} \subseteq PacketID \ {"CLOSE"}
    BY DEF PacketID
  <2> QED
    BY <1>1, <1>3, <1>4, <1>2, <1>5, <2>1, HandlerPushes
<1>6. CASE UNCHANGED queueVars
  <2> DEFINE place == Loc("postRecv", s)
  <2>1. place.s = s /\ place.pc = "postRecv" /\ place.pc \in OwningPC /\ place.why = "none"
    BY DEF Loc, OwningPC
  <2>2. Goto(t, place)
    BY <1>4
  <2> HIDE DEF place
  <2>3. at'[t] = place
    BY <2>2 DEF Goto, LifeInv, IInv, TypeOK, Thread
  <2>4. ~Accepting(t)'
    BY <2>1, <2>3 DEF Accepting
  <2>5. sockState'[s] = "CONNECT" => sockOpen'[s]
    BY <1>3, <1>4 DEF OpenWhenConnected, ProcessRuns, socketVars
  <2>6. UNCHANGED used /\ \A r \in Session : SocketKeeps(r)
    BY <1>4 DEF SocketKeeps, socketVars
  <2> QED
    BY <1>1, <1>4, <1>2, <1>6, <2>1, <2>2, <2>4, <2>5, <2>6, HandlerGoesOn
<1>7. ASSUME NEW id \in PacketID, Imitates(id, SessionID(s))
      PROVE  FALSE
  <2>1. SessionID(s) = s /\ s \in AcceptSession /\ s \in Calm'
    BY <1>2, CalmAccepts DEF SessionID
  <2> QED
    BY <1>7, <2>1, ImitationDisturbs DEF LifeInv
<1> QED
  BY <1>2, <1>5, <1>6, <1>7 DEF ProcessRecvData, NotifyReqCloseSession

\* A step that changes nothing the invariant speaks of.
LEMMA NothingTouched ==
    ASSUME LifeInv, IInv', Calm' \subseteq Calm,
           ~MainAt("start"), UNCHANGED <<used, sockOpen>>, UNCHANGED ops,
           UNCHANGED queueVars, at' = at,
           \A r \in Session : sockState'[r] = sockState[r] \/ sockState'[r] = "CLOSE"
    PROVE  LifeInv' /\ \A r \in Session : Untouched(r)
<1>1. IInv /\ Roles
  BY DEF LifeInv
<1>2. Roles' /\ GoesOn
  BY <1>1, RolesStay, RolesQueue
<1>3. ASSUME NEW r \in Session
      PROVE  OwnerInv(r)' /\ Untouched(r)
  <2>1. Untouched(r)
    BY <1>1, QueueStays, NobodyMoves DEF Untouched
  <2>2. SocketKeeps(r)
    BY DEF SocketKeeps
  <2> QED
    BY <1>2, <2>1, <2>2, UntouchedOwner DEF LifeInv
<1> QED
  BY <1>2, <1>3 DEF LifeInv

LEMMA AnnounceLives ==
    ASSUME LifeInv, IInv', Calm' \subseteq Calm,
           NEW t \in IOThreads, Announce(t),
           at[t].s \in Calm
    PROVE  LifeInv' /\ OthersUntouched(at[t].s)
<1>1. at[t].pc = "announce" /\ at[t].pc \in OwningPC
  BY DEF Announce, OwningPC
<1>2. PICK s \in Session \cap Calm : at[t].s = s
  BY <1>1, HandlerOwns
<1>3. Owns(t, s) /\ OwnerInv(s) /\ ~MainAt("start")
  BY <1>1, <1>2, HandlerOwns
<1>4. Silent(s)
  BY <1>1, <1>3 DEF OwnerInv, PacketInv
<1>5. UNCHANGED socketVars /\ UNCHANGED ops
  BY DEF Announce
<1>6. CASE Push("ACCEPT", s) /\ Goto(t, Loc("postRecv", s))
  <2>1. "ACCEPT" \in PacketID \ {"CLOSE"}
    BY DEF PacketID
  <2> QED
    BY <1>1, <1>2, <1>4, <1>5, <1>6, <2>1, HandlerPushes
<1>7. CASE UNCHANGED queueVars /\ at' = at
  BY <1>3, <1>5, <1>7, NothingTouched DEF socketVars, OthersUntouched
<1> QED
  BY <1>2, <1>6, <1>7 DEF Announce, NotifyAccept

LEMMA ContinueRecvLives ==
    ASSUME LifeInv, IInv', Calm' \subseteq Calm,
           NEW t \in IOThreads, ContinueRecv(t),
           at[t].s \in Calm
    PROVE  LifeInv' /\ OthersUntouched(at[t].s)
<1>1. at[t].pc = "postRecv" /\ at[t].pc \in OwningPC
  BY DEF ContinueRecv, OwningPC
<1>2. PICK s \in Session \cap Calm : at[t].s = s
  BY <1>1, HandlerOwns
<1>3. /\ OwnedByHandler(s, t) /\ ~used[s] /\ ~MainAt("start")
      /\ NoClose(s) /\ InOrder(s) /\ OpenWhenConnected(s)
  BY <1>1, <1>2, HandlerOwns
<1>4. IInv /\ TypeOK /\ Roles
  BY DEF LifeInv, IInv
<1>5. UNCHANGED socketVars /\ UNCHANGED queueVars /\ Goto(t, Idle)
  BY DEF ContinueRecv
<1>6. PICK k \in {"recv", "recvErr"} : ops' = [ops EXCEPT ![s][k] = @ + 1]
  BY <1>2 DEF ContinueRecv, PostRecv
<1>7. k \in OpKind /\ k \notin AcceptOp
  BY DEF OpKind, AcceptOp
<1>8. OneOp(s, k)' /\ \A r \in Session : r # s => ops'[r] = ops[r]
  BY <1>3, <1>4, <1>6, <1>7, AddedOps DEF OwnedByHandler
<1>9. Roles' /\ GoesOn
  <2>1. Idle.pc \in IOPC /\ Idle.pc \notin {"close", "notify"} /\ Idle.why = "none"
    BY DEF Idle, Loc, IOPC
  <2> QED
    BY <1>3, <1>4, <1>5, <2>1, RolesOfHandler, RolesQueue
<1>10. (\A r \in Session : r # s => OwnerInv(r)') /\ OthersUntouched(s)
  <2>1. \A r \in Session : r # s => QueueKeeps(r) /\ SocketKeeps(r)
    BY <1>4, <1>5, QueueStays DEF SocketKeeps, socketVars
  <2> QED
    BY <1>2, <1>5, <1>8, <1>9, <2>1, OthersLive
<1>11. OwnerInv(s)'
  <2>1. ~HasHandler(s)' /\ ~MainHas(s)' /\ at'[Main] = at[Main]
    BY <1>3, <1>4, <1>5, HandlerAfter DEF OwnedByHandler
  <2>2. ~HasPacket(s)' /\ NoClose(s)' /\ InOrder(s)'
    BY <1>3, <1>5, QueueFacts DEF OwnedByHandler
  <2>3. OwnedByOp(s, k)'
    BY <1>8, <2>1, <2>2 DEF OwnedByOp
  <2>4. OpenWhenConnected(s)' /\ ~used'[s]
    BY <1>3, <1>5, <2>1 DEF OpenWhenConnected, MainAt, socketVars
  <2> QED
    BY <1>7, <2>2, <2>3, <2>4, OpOwnerInv
<1> QED
  BY <1>2, <1>9, <1>10, <1>11 DEF LifeInv

-----------------------------------------------------------------------------
(* Close, by a handler of the session or by Main.                           *)

\* There is nothing to cancel while a handler has the session.
LEMMA NothingCancelled ==
    ASSUME TypeOK, NEW s \in Session, ops[s]["recv"] = 0
    PROVE  [ops EXCEPT ![s] = Cancelled(@)] = ops
<1>1. ops \in [Session -> [OpKind -> Nat]] /\ {"recv", "recvErr"} \subseteq OpKind
  BY DEF TypeOK, OpKind
<1>2. Cancelled(ops[s]) = ops[s]
  <2>1. ops[s] \in [OpKind -> Nat]
    BY <1>1
  <2> DEFINE g == [ops[s] EXCEPT !["recv"] = 0]
  <2>2. g = ops[s]
    BY <1>1, <2>1
  <2>3. [g EXCEPT !["recvErr"] = @ + ops[s]["recv"]] = ops[s]
    BY <1>1, <2>1, <2>2
  <2> QED
    BY <2>3 DEF Cancelled
<1> QED
  BY <1>1, <1>2

LEMMA HandlerClosesLives ==
    ASSUME LifeInv, IInv', Calm' \subseteq Calm,
           ProcessRuns, NEW t \in IOThreads, CloseBegin(t),
           at[t].s \in Calm
    PROVE  LifeInv' /\ OthersUntouched(at[t].s)
<1>1. at[t].pc = "close"
  BY DEF CloseBegin
<1>2. PICK s \in Session \cap Calm : at[t].s = s
  BY <1>1, HandlerOwns
<1>3. /\ Owns(t, s) /\ OwnerInv(s) /\ OwnedByHandler(s, t) /\ ~MainAt("start")
      /\ OpenWhenConnected(s)
  BY <1>1, <1>2, HandlerOwns
<1>4. TypeOK /\ IInv /\ Roles
  BY DEF LifeInv, IInv
<1> DEFINE closes == sockOpen[s] /\ (sockState[s] = "CONNECT" \/ at[t].why = "ACCEPT_FAILED")
<1>5. /\ sockState' = IF closes THEN [sockState EXCEPT ![s] = "CLOSE"] ELSE sockState
      /\ sockOpen' = IF closes THEN [sockOpen EXCEPT ![s] = FALSE] ELSE sockOpen
      /\ ops' = IF closes THEN [ops EXCEPT ![s] = Cancelled(@)] ELSE ops
      /\ UNCHANGED used /\ UNCHANGED queueVars
  BY <1>2 DEF CloseBegin
<1>6. at[t].why \in {"NETWORK_ON_CLOSE", "ACCEPT_FAILED"}
  BY <1>1, <1>4 DEF Roles
<1> DEFINE place == [at[t] EXCEPT !.pc = "notify"]
<1>7. Goto(t, place)
  BY <1>6 DEF CloseBegin, Notifies
<1>8. place.pc = "notify" /\ place.s = s /\ place.why = at[t].why
  <2>1. at[t] \in Place
    BY <1>4 DEF TypeOK, Thread
  <2> QED
    BY <1>2, <2>1 DEF Place
<1>9. UNCHANGED ops
  <2>1. ops[s]["recv"] = 0
    BY <1>3 DEF OwnedByHandler, NoOps, OpKind
  <2> QED
    BY <1>4, <1>5, <2>1, NothingCancelled
<1>10. sockState'[s] # "CONNECT"
  <2>1. sockState[s] = "CONNECT" => sockOpen[s]
    BY <1>3 DEF OpenWhenConnected, ProcessRuns
  <2>2. s \in DOMAIN sockState
    BY <1>4 DEF TypeOK
  <2> QED
    BY <1>5, <2>1, <2>2
<1>11. \A r \in Session : r # s => SocketKeeps(r)
  BY <1>4, <1>5 DEF SocketKeeps, TypeOK
<1>12. Accepting(t)' => Silent(s)
  <2>1. at'[t] = place
    BY <1>4, <1>7 DEF Goto, TypeOK, Thread
  <2>2. Accepting(t)' => Accepting(t)
    BY <1>8, <2>1 DEF Accepting
  <2> QED
    BY <1>3, <2>2 DEF OwnerInv, PacketInv
<1> HIDE DEF place, closes
<1> QED
  BY <1>1, <1>2, <1>5, <1>6, <1>7, <1>8, <1>9, <1>10, <1>11, <1>12, HandlerGoesOn

\* Main is at no session but the one it reuses.
LEMMA MainLive ==
    ASSUME LifeInv, IInv', Calm' \subseteq Calm,
           NEW place, Goto(Main, place), Roles', GoesOn,
           NEW r \in Session, ~MainHas(r), place.pc \notin ReusePC \/ place.s # r,
           ops'[r] = ops[r], QueueKeeps(r), SocketKeeps(r)
    PROVE  OwnerInv(r)' /\ Untouched(r)
<1>1. ThreadsKeep(r)
  BY MainMoves DEF LifeInv
<1>2. Untouched(r)
  BY <1>1 DEF Untouched
<1> QED
  BY <1>2, UntouchedOwner DEF LifeInv

\* Main disconnects a session, of a packet's or, at the end, every one.
LEMMA MainClosesLives ==
    ASSUME LifeInv, IInv', Calm' \subseteq Calm, ProcessRuns, CloseBegin(Main),
           at[Main].why = "SELF_DISCONNECT"
    PROVE  /\ LifeInv' /\ OthersUntouched(at[Main].s)
           /\ ops'[at[Main].s] = ops[at[Main].s] => Untouched(at[Main].s)
<1>1. TypeOK /\ IInv /\ Roles
  BY DEF LifeInv, IInv
<1>2. at[Main].pc = "close" /\ at[Main].why = "SELF_DISCONNECT" /\ Main \in Thread
  BY <1>1 DEF CloseBegin, Roles, Thread
<1>3. PICK s \in Session : at[Main].s = s
  BY <1>1, <1>2 DEF IInv, HasSession, NoSessionPC
<1>4. ~MainAt("start") /\ ~MainAt("done") /\ \A r \in Session : ~MainHas(r)
  BY <1>2 DEF MainAt, MainHas, ReusePC
<1> DEFINE closes == sockOpen[s] /\ sockState[s] = "CONNECT"
<1>5. /\ sockState' = IF closes THEN [sockState EXCEPT ![s] = "CLOSE"] ELSE sockState
      /\ sockOpen' = IF closes THEN [sockOpen EXCEPT ![s] = FALSE] ELSE sockOpen
      /\ ops' = IF closes THEN [ops EXCEPT ![s] = Cancelled(@)] ELSE ops
      /\ UNCHANGED used /\ UNCHANGED queueVars
  BY <1>2, <1>3 DEF CloseBegin
<1> DEFINE place == [at[Main] EXCEPT !.pc = "closed"]
<1>6. Goto(Main, place)
  BY <1>2 DEF CloseBegin, Notifies
<1>7. place.pc = "closed" /\ place.why = "SELF_DISCONNECT"
  <2>1. at[Main] \in Place
    BY <1>1, <1>2 DEF TypeOK
  <2> QED
    BY <1>2, <2>1 DEF Place
<1> HIDE DEF place
<1>8. Roles' /\ GoesOn
  <2>1. place.pc \in MainPC \ {"start"} /\ place.pc \notin ReusePC
    BY <1>7 DEF MainPC, ReusePC
  <2> QED
    BY <1>1, <1>4, <1>5, <1>6, <1>7, <2>1, RolesOfMain, RolesQueue
<1>9. place.pc \notin ReusePC
  BY <1>7 DEF ReusePC
<1>10. \A r \in Session : SocketKeeps(r)
  BY <1>1, <1>5 DEF SocketKeeps, TypeOK
<1>11. \A r \in Session : QueueKeeps(r)
  BY <1>1, <1>5, QueueStays
<1>12. \A r \in Session : r # s => ops'[r] = ops[r]
  BY <1>1, <1>5 DEF TypeOK
<1>13. \A r \in Session : ops'[r] = ops[r] => OwnerInv(r)' /\ Untouched(r)
  BY <1>4, <1>6, <1>8, <1>9, <1>10, <1>11, MainLive
<1>14. OwnerInv(s)'
  <2> SUFFICES ASSUME s \in Calm PROVE OwnerInv(s)'
    BY DEF OwnerInv
  <2>1. CASE ~closes
    BY <1>5, <1>13, <2>1
  <2>2. CASE closes /\ ops[s]["recv"] = 0
    <3>1. ops' = ops
      BY <1>1, <1>5, <2>2, NothingCancelled
    <3> QED
      BY <1>13, <3>1
  <2>3. CASE closes /\ ops[s]["recv"] # 0
    \* The receive that Close cancels becomes a handler.
    <3>1. "recv" \in OpKind /\ "recvErr" \in OpKind /\ "recvErr" \notin AcceptOp
      BY DEF OpKind, AcceptOp
    <3>2. ops[s] \in [OpKind -> Nat] /\ ops \in [Session -> [OpKind -> Nat]]
      BY <1>1 DEF TypeOK
    <3>3. ops[s]["recv"] > 0
      BY <2>3, <3>1, <3>2
    <3>4. OwnerInv(s)
      BY DEF LifeInv
    <3>5. OwnedByOp(s, "recv")
      BY <1>1, <3>1, <3>3, <3>4, OpIsOwner DEF OwnerInv
    <3>6. ~used[s] /\ NoClose(s) /\ InOrder(s)
      BY <3>3, <3>4, <3>5, ClosesAwait, OwnerInvGives DEF OwnerInv, SocketInv, RecvOp, OwnedByOp
    <3>7. OneOp(s, "recvErr")'
      <4>1. ops'[s] = Cancelled(ops[s])
        BY <1>5, <2>3, <3>2
      <4>2. ops'[s]["recv"] = 0 /\ ops'[s]["recvErr"] = ops[s]["recvErr"] + ops[s]["recv"]
        BY <3>1, <3>2, <4>1 DEF Cancelled
      <4>3. \A j \in OpKind : j # "recv" /\ j # "recvErr" => ops'[s][j] = ops[s][j]
        BY <3>2, <4>1 DEF Cancelled
      <4> QED
        BY <3>1, <3>5, <4>2, <4>3 DEF OneOp, OwnedByOp
    <3>8. ~HasHandler(s)' /\ ~MainHas(s)'
      <4>1. ThreadsKeep(s)
        BY <1>1, <1>4, <1>6, <1>9, MainMoves
      <4> QED
        BY <1>4, <3>5, <4>1 DEF ThreadsKeep, OwnedByOp, HasHandler, MainHas, Owns
    <3>9. ~HasPacket(s)' /\ NoClose(s)' /\ InOrder(s)'
      BY <1>5, <3>5, <3>6, QueueFacts DEF OwnedByOp
    <3>10. OwnedByOp(s, "recvErr")'
      BY <3>7, <3>8, <3>9 DEF OwnedByOp
    <3>11. sockState'[s] # "CONNECT" /\ ~used'[s]
      BY <1>1, <1>5, <2>3, <3>6 DEF TypeOK
    <3>12. OpenWhenConnected(s)'
      BY <3>11 DEF OpenWhenConnected
    <3> QED
      BY <3>1, <3>9, <3>10, <3>11, <3>12, OpOwnerInv
  <2> QED
    BY <2>1, <2>2, <2>3
<1> QED
  BY <1>3, <1>8, <1>12, <1>13, <1>14 DEF LifeInv, OthersUntouched

LEMMA ShutdownThrowsLives ==
    ASSUME LifeInv, IInv', Calm' \subseteq Calm,
           NEW t \in Thread, ShutdownThrows(t)
    PROVE  LifeInv' /\ \A r \in Session : Untouched(r)
<1>1. Roles /\ TypeOK /\ at[t].pc = "close"
  BY DEF LifeInv, IInv, ShutdownThrows
<1>2. ~MainAt("start")
  BY <1>1, HasStarted DEF Thread, MainAt
<1>3. \A r \in Session : sockState'[r] = sockState[r] \/ sockState'[r] = "CLOSE"
  BY <1>1 DEF ShutdownThrows, TypeOK
<1> QED
  BY <1>2, <1>3, NothingTouched DEF ShutdownThrows

\* The notification hands the session from the handler to Main.
LEMMA CloseNotifyLives ==
    ASSUME LifeInv, IInv', Calm' \subseteq Calm,
           NEW t \in Thread, CloseNotify(t),
           at[t].s \in Calm
    PROVE  LifeInv' /\ OthersUntouched(at[t].s)
<1>1. TypeOK /\ IInv /\ Roles /\ at[t].pc = "notify"
  BY DEF LifeInv, IInv, CloseNotify
<1>2. t \in IOThreads
  BY <1>1 DEF Thread, Roles, MainPC
<1>3. PICK s \in Session \cap Calm : at[t].s = s
  BY <1>1, <1>2, HandlerOwns
<1>4. /\ Owns(t, s) /\ OwnerInv(s) /\ OwnedByHandler(s, t) /\ ~used[s]
      /\ NoClose(s) /\ InOrder(s) /\ ~MainAt("start")
  BY <1>1, <1>2, <1>3, HandlerOwns
<1>5. sockState[s] # "CONNECT"
  BY <1>1, <1>2, <1>4 DEF OwnerInv, SocketInv
<1> DEFINE place == [at[t] EXCEPT !.pc = "closed"]
<1>6. UNCHANGED socketVars /\ UNCHANGED ops /\ Goto(t, place) /\ Push("CLOSE", s)
  BY <1>3 DEF CloseNotify, NotifyDisconnect
<1>7. place.pc = "closed" /\ place.s = s
  <2>1. at[t] \in Place
    BY <1>1 DEF TypeOK
  <2> QED
    BY <1>3, <2>1 DEF Place
<1> HIDE DEF place
<1>8. PICK d \in {0, 1} : Pushed("CLOSE", s, d)
  BY <1>1, <1>6, PushMoves, CalmNamed DEF PacketID
<1>9. Roles' /\ GoesOn
  <2>1. place.pc \in IOPC /\ place.pc \notin {"close", "notify"} \cup OwningPC
    BY <1>7 DEF IOPC, OwningPC
  <2> QED
    BY <1>1, <1>2, <1>4, <1>6, <1>8, <2>1, RolesOfHandler DEF Pushed
<1>10. (\A r \in Session : r # s => OwnerInv(r)') /\ OthersUntouched(s)
  <2>1. \A r \in Session : r # s => QueueKeeps(r) /\ SocketKeeps(r)
    BY <1>6, <1>8, PushKeepsOthers DEF SocketKeeps, socketVars
  <2> QED
    BY <1>2, <1>3, <1>6, <1>7, <1>9, <2>1, OthersLive
<1>11. OwnerInv(s)'
  <2>1. ~HasHandler(s)' /\ ~MainHas(s)'
    BY <1>1, <1>2, <1>4, <1>6, <1>7, HandlerAfter DEF OwnedByHandler
  <2>2. PICK n \in Nat : n = Len(packets') /\ DOMAIN packets' = 1 .. n
    BY DEF IInv, TypeOK
  <2>3. n \in DOMAIN packets' /\ packets'[n] = [id |-> "CLOSE", sid |-> s] /\ Awaits(n, s)'
    BY <1>8, <2>2 DEF Pushed, Awaits
  <2>4. \A i \in DOMAIN packets' : i # n =>
           /\ i + d \in DOMAIN packets /\ packets'[i] = packets[i + d]
           /\ Of(i, s)' <=> Of(i + d, s)
           /\ Awaits(i, s)' <=> Awaits(i + d, s)
    BY <1>8, <2>2 DEF Pushed, Of
  <2>5. \A i \in DOMAIN packets' : i # n /\ Of(i, s)' => packets'[i].id # "CLOSE"
    BY <1>4, <2>4 DEF NoClose
  <2>6. \A i \in DOMAIN packets' : Awaits(i, s)' => i = n
    BY <1>4, <2>4 DEF OwnedByHandler, HasPacket
  <2>7. \A i \in DOMAIN packets' : Of(i, s)' /\ packets'[i].id = "CLOSE" => Awaits(i, s)'
    BY <2>3, <2>5
  <2>8. InOrder(s)'
    <3> SUFFICES ASSUME NEW i \in DOMAIN packets', NEW j \in DOMAIN packets', i < j,
                        Of(i, s)', Of(j, s)'
                 PROVE  packets'[i].id # "CLOSE" /\ packets'[j].id # "ACCEPT"
      BY DEF InOrder
    <3>1. i # n
      BY <2>2
    <3>2. CASE j = n
      BY <2>3, <2>5, <3>1, <3>2
    <3>3. CASE j # n
      <4>1. i + d < j + d
        BY <2>2
      <4> QED
        BY <1>4, <2>4, <3>1, <3>3, <4>1 DEF InOrder
    <3> QED
      BY <3>2, <3>3
  <2>9. OwnedByPacket(s, n)'
    BY <1>4, <1>6, <2>1, <2>6 DEF OwnedByPacket, OwnedByHandler, NoOps
  <2>10. n \in Int /\ ~used'[s] /\ sockState'[s] # "CONNECT"
    BY <1>4, <1>5, <1>6, <2>2 DEF socketVars
  <2> QED
    BY <2>7, <2>8, <2>9, <2>10, PacketOwnerInv
<1> QED
  BY <1>3, <1>9, <1>10, <1>11 DEF LifeInv

LEMMA CloseEndLives ==
    ASSUME LifeInv, IInv', Calm' \subseteq Calm,
           ProcessRuns, NEW t \in Thread, CloseEnd(t)
    PROVE  LifeInv' /\ \A r \in Session : Untouched(r)
<1>1. TypeOK /\ IInv /\ Roles /\ at[t].pc = "closed"
  BY DEF LifeInv, IInv, CloseEnd
<1>2. PICK s \in Session : at[t].s = s
  BY <1>1 DEF IInv, HasSession, NoSessionPC
<1>3. /\ UNCHANGED <<used, sockOpen>> /\ UNCHANGED ops /\ UNCHANGED queueVars
      /\ sockState' = [sockState EXCEPT ![s] = "CLOSE"] /\ Goto(t, AfterClose(t, s))
  BY <1>2 DEF CloseEnd
<1>4. \A r \in Session : QueueKeeps(r) /\ SocketKeeps(r) /\ ops'[r] = ops[r]
  BY <1>1, <1>3, QueueStays DEF SocketKeeps, TypeOK
<1>5. ~MainAt("start") /\ ~MainAt("done")
  BY <1>1, HasStarted DEF Thread, MainAt, ProcessRuns
<1>6. CASE t # Main
  <2>1. t \in IOThreads
    BY <1>6 DEF Thread
  <2>2. Goto(t, Idle)
    BY <1>3, <1>6 DEF AfterClose
  <2>3. Idle.pc \in IOPC /\ Idle.pc \notin {"close", "notify"} /\ Idle.why = "none"
    BY DEF Idle, Loc, IOPC
  <2>4. Roles' /\ GoesOn
    BY <1>1, <1>3, <1>5, <2>1, <2>2, <2>3, RolesOfHandler, RolesQueue
  <2>5. ASSUME NEW r \in Session
        PROVE  OwnerInv(r)' /\ Untouched(r)
    <3>1. /\ at'[Main] = at[Main]
          /\ \A u \in IOThreads : Owns(u, r) \/ Owns(u, r)' => at'[u] = at[u]
      BY <1>1, <1>6, <2>1, <2>2 DEF Goto, TypeOK, Thread, Owns, OwningPC, Idle, Loc
    <3>2. ThreadsKeep(r)
      BY <3>1 DEF ThreadsKeep, Owns
    <3>3. Untouched(r)
      BY <1>4, <3>2 DEF Untouched
    <3> QED
      BY <1>4, <2>4, <3>3, UntouchedOwner DEF LifeInv
  <2> QED
    BY <2>4, <2>5 DEF LifeInv
<1>7. CASE t = Main
  <2> DEFINE place == AfterClose(Main, s)
  <2>1. Goto(Main, place)
    BY <1>3, <1>7
  <2>2. /\ place.pc \in {"pop", "close", "closeAcceptor"}
        /\ place.pc = "close" => place.why = "SELF_DISCONNECT"
    BY DEF AfterClose, Loc, Closing
  <2> HIDE DEF place
  <2>3. place.pc \in MainPC \ {"start"} /\ place.pc \notin ReusePC
    BY <2>2 DEF MainPC, ReusePC
  <2>4. Roles' /\ GoesOn
    BY <1>1, <1>3, <1>5, <2>1, <2>2, <2>3, RolesOfMain, RolesQueue
  <2>5. \A r \in Session : ~MainHas(r)
    BY <1>1, <1>7 DEF MainHas, ReusePC
  <2>6. \A r \in Session : OwnerInv(r)' /\ Untouched(r)
    BY <1>4, <2>1, <2>3, <2>4, <2>5, MainLive
  <2> QED
    BY <2>4, <2>6 DEF LifeInv
<1> QED
  BY <1>6, <1>7

-----------------------------------------------------------------------------
(* The steps of Main.                                                       *)

\* Main goes from a place without a session to another one.
LEMMA MainGoes ==
    ASSUME LifeInv, IInv', Calm' \subseteq Calm,
           NEW place, Goto(Main, place), Roles', GoesOn,
           at[Main].pc \notin ReusePC, place.pc \notin ReusePC,
           \A r \in Session : ops'[r] = ops[r] /\ QueueKeeps(r) /\ SocketKeeps(r)
    PROVE  LifeInv' /\ \A r \in Session : Untouched(r)
<1>1. \A r \in Session : ~MainHas(r)
  BY DEF MainHas
<1>2. \A r \in Session : OwnerInv(r)' /\ Untouched(r)
  BY <1>1, MainLive
<1> QED
  BY <1>2 DEF LifeInv

LEMMA FrontPacketLives ==
    ASSUME LifeInv, IInv', Calm' \subseteq Calm, FrontPacket
    PROVE  /\ LifeInv' /\ OthersUntouched(Head(packets).sid)
           /\ Head(packets).id # "CLOSE" => Untouched(Head(packets).sid)
<1>1. TypeOK /\ IInv /\ Roles
  BY DEF LifeInv, IInv
<1>2. PICK p \in Packet : p = packets[1] /\ 1 \in DOMAIN packets /\ p = Head(packets)
  <2>1. packets \in Seq(Packet) /\ packets # <<>>
    BY <1>1 DEF TypeOK, FrontPacket
  <2> QED
    BY <2>1
<1>3. PICK s \in Session \cap AcceptSession : s = p.sid
  BY AcceptSessionIsSession DEF Packet
<1>4. /\ MainAt("front") /\ ~headInHand /\ packets # <<>> /\ headInHand'
      /\ UNCHANGED socketVars /\ UNCHANGED ops /\ UNCHANGED packets
  BY <1>1 DEF FrontPacket, Roles
<1>5. ~MainAt("start") /\ ~MainAt("done") /\ \A r \in Session : ~MainHas(r)
  BY <1>4 DEF MainAt, MainHas, ReusePC
<1>6. \A r \in Session : SocketKeeps(r)
  BY <1>4 DEF SocketKeeps, socketVars
<1>7. ASSUME NEW r \in Session, r = s => p.id # "CLOSE"
      PROVE  QueueKeeps(r)
  <2>1. ~Awaits(1, r)
    BY <1>2, <1>3, <1>7 DEF Awaits
  <2>2. \A i \in DOMAIN packets' : Awaits(i, r)' <=> Awaits(i, r)
    BY <1>4, <2>1 DEF Awaits
  <2>3. \A i \in DOMAIN packets' : i + 0 = i
    BY DEF IInv, TypeOK
  <2> QED
    BY <1>4, <2>2, <2>3 DEF QueueKeeps
<1>8. CASE p.id # "CLOSE"
  <2>1. PICK place \in {Closing(s, "SELF_DISCONNECT"), Loc("pop", NoSession)} : Goto(Main, place)
    BY <1>2, <1>3, <1>8 DEF FrontPacket, FindServerSession
  <2>2. place.pc \in {"close", "pop"} /\ (place.pc = "close" => place.why = "SELF_DISCONNECT")
    BY <2>1 DEF Closing, Loc
  <2>3. place.pc \in MainPC \ {"start"} /\ place.pc \notin ReusePC /\ at[Main].pc \notin ReusePC
    BY <1>4, <2>2 DEF MainPC, ReusePC, MainAt
  <2>4. Roles' /\ GoesOn
    BY <1>1, <1>4, <1>5, <2>1, <2>2, <2>3, RolesOfMain
  <2> QED
    BY <1>2, <1>3, <1>4, <1>6, <1>7, <1>8, <2>1, <2>3, <2>4, MainGoes DEF OthersUntouched
<1>9. CASE p.id = "CLOSE"
  <2> DEFINE place == Loc("reuse", s)
  <2>1. Goto(Main, place)
    BY <1>2, <1>3, <1>9 DEF FrontPacket, FindServerSession
  <2>2. place.pc = "reuse" /\ place.s = s /\ place.why = "none"
    BY DEF Loc
  <2> HIDE DEF place
  <2>3. Roles' /\ GoesOn
    <3>1. place.pc \in MainPC \ {"start"} /\ place.pc \notin {"close", "notify"}
      BY <2>2 DEF MainPC
    <3> QED
      BY <1>1, <1>4, <1>5, <2>1, <2>2, <3>1, RolesOfMain
  <2>4. (\A r \in Session : r # s => OwnerInv(r)') /\ OthersUntouched(s)
    BY <1>4, <1>5, <1>6, <1>7, <2>1, <2>2, <2>3, MainLive DEF OthersUntouched
  <2>5. OwnerInv(s)'
    <3> SUFFICES ASSUME s \in Calm PROVE OwnerInv(s)'
      BY DEF OwnerInv
    <3>1. Awaits(1, s)
      BY <1>2, <1>3, <1>4, <1>9 DEF Awaits, Packet
    <3>2. OwnerInv(s) /\ HasPacket(s)
      BY <1>2, <3>1 DEF LifeInv, HasPacket
    <3>3. OwnedByPacket(s, 1)
      BY <1>1, <1>2, <3>1, <3>2, PacketIsOwner DEF OwnerInv
    <3>4. ~used'[s] /\ sockState'[s] # "CONNECT"
      BY <1>4, <3>2 DEF OwnerInv, SocketInv, socketVars
    <3>5. InOrder(s)'
      BY <1>4, <3>2 DEF OwnerInv, PacketInv, InOrder, Of
    <3>6. at'[Main] = place /\ Main \notin IOThreads /\ \A u \in IOThreads : at'[u] = at[u]
      BY <1>1, <2>1, ThreadsAssumption DEF Goto, TypeOK, Thread
    <3>7. ~HasHandler(s)'
      BY <3>3, <3>6 DEF OwnedByPacket, HasHandler, Owns
    <3>8. ~HasPacket(s)'
      BY <1>4, <3>3 DEF OwnedByPacket, HasPacket, Awaits
    <3>9. OwnedByMain(s)'
      BY <1>4, <3>3, <3>7, <3>8 DEF OwnedByMain, OwnedByPacket, NoOps
    <3>10. MainHas(s)' /\ ~MainAt("async")'
      BY <2>2, <3>6 DEF MainHas, MainAt, ReusePC
    <3>11. OpenWhenConnected(s)'
      BY <3>4 DEF OpenWhenConnected
    <3> QED
      BY <3>4, <3>5, <3>9, <3>10, <3>11, MainOwnerInv
  <2> QED
    BY <1>2, <1>3, <1>9, <2>3, <2>4, <2>5 DEF LifeInv
<1> QED
  BY <1>8, <1>9

\* Main, while it reuses session s.
LEMMA MainReuses ==
    ASSUME LifeInv, at[Main].pc \in ReusePC, at[Main].s \in Calm
    PROVE  /\ at[Main].s \in Session /\ MainHas(at[Main].s) /\ OwnerInv(at[Main].s)
           /\ OwnedByMain(at[Main].s)
           /\ ~MainAt("start") /\ ~MainAt("done")
           /\ \A r \in Session : r # at[Main].s => ~MainHas(r)
<1>1. at[Main].s \in Session
  BY DEF LifeInv, IInv, HasSession, NoSessionPC, ReusePC, Thread
<1>2. MainHas(at[Main].s) /\ OwnerInv(at[Main].s)
  BY <1>1 DEF MainHas, LifeInv
<1>3. OwnedByMain(at[Main].s)
  BY <1>1, <1>2, MainIsOwner DEF LifeInv, IInv, OwnerInv
<1>4. ~MainAt("start") /\ ~MainAt("done")
  BY DEF MainAt, ReusePC
<1> QED
  BY <1>1, <1>2, <1>3, <1>4 DEF MainHas

\* Main moved, and nobody else.
LEMMA MainAfter ==
    ASSUME TypeOK, NEW place, Goto(Main, place), NEW s \in Session, ~HasHandler(s)
    PROVE  at'[Main] = place /\ ~HasHandler(s)'
<1>1. Main \notin IOThreads /\ Main \in Thread /\ IOThreads \subseteq Thread
  BY ThreadsAssumption DEF Thread
<1>2. at'[Main] = place /\ \A u \in IOThreads : at'[u] = at[u]
  BY <1>1 DEF Goto, TypeOK
<1> QED
  BY <1>2 DEF HasHandler, Owns

LEMMA ReUseSessionLives ==
    ASSUME LifeInv, IInv', Calm' \subseteq Calm,
           ReUseSession, at[Main].s \in Calm
    PROVE  LifeInv' /\ OthersUntouched(at[Main].s)
<1>1. TypeOK /\ IInv /\ Roles
  BY DEF LifeInv, IInv
<1>2. at[Main].pc = "reuse" /\ at[Main].pc \in ReusePC
  BY DEF ReUseSession, MainAt, ReusePC
<1>3. PICK s \in Session \cap Calm : at[Main].s = s
  BY <1>2, MainReuses
<1>4. /\ MainHas(s) /\ OwnerInv(s) /\ OwnedByMain(s) /\ ~MainAt("start") /\ ~MainAt("done")
      /\ \A r \in Session : r # s => ~MainHas(r)
  BY <1>2, <1>3, MainReuses
<1>5. ~used[s] /\ sockState[s] # "CONNECT"
  BY <1>2, <1>4 DEF OwnerInv, SocketInv, MainAt
<1> DEFINE place == Loc("reset", s)
<1>6. /\ UNCHANGED <<sockState, sockOpen>> /\ UNCHANGED ops /\ UNCHANGED queueVars
      /\ \A r \in Session : r # s => used'[r] = used[r]
      /\ Goto(Main, place)
  BY <1>1, <1>3, <1>5 DEF ReUseSession, CanPostAccept, TypeOK
<1>7. place.pc = "reset" /\ place.s = s /\ place.why = "none"
  BY DEF Loc
<1> HIDE DEF place
<1>8. Roles' /\ GoesOn
  <2>1. place.pc \in MainPC \ {"start"} /\ place.pc \notin {"close", "notify"}
    BY <1>7 DEF MainPC
  <2> QED
    BY <1>1, <1>4, <1>6, <1>7, <2>1, RolesOfMain, RolesQueue
<1>9. ASSUME NEW r \in Session, r # s
      PROVE  OwnerInv(r)' /\ Untouched(r)
  <2>1. QueueKeeps(r) /\ SocketKeeps(r) /\ ops'[r] = ops[r]
    BY <1>1, <1>6, <1>9, QueueStays DEF SocketKeeps
  <2> QED
    BY <1>4, <1>6, <1>7, <1>8, <1>9, <2>1, MainLive
<1>10. OwnerInv(s)'
  <2>1. at'[Main] = place /\ ~HasHandler(s)'
    BY <1>1, <1>4, <1>6, MainAfter DEF OwnedByMain
  <2>2. ~HasPacket(s)' /\ InOrder(s)'
    BY <1>4, <1>6, QueueFacts, OwnerInvGives DEF OwnedByMain
  <2>3. OwnedByMain(s)'
    BY <1>4, <1>6, <2>1, <2>2 DEF OwnedByMain, NoOps
  <2>4. MainHas(s)' /\ ~MainAt("async")' /\ ~MainAt("reuse")'
    BY <1>7, <2>1 DEF MainHas, MainAt, ReusePC
  <2>5. OpenWhenConnected(s)'
    BY <1>5, <1>6 DEF OpenWhenConnected
  <2> QED
    BY <2>2, <2>3, <2>4, <2>5, MainOwnerInv
<1> QED
  BY <1>3, <1>8, <1>9, <1>10 DEF LifeInv, OthersUntouched

LEMMA ResetSessionLives ==
    ASSUME LifeInv, IInv', Calm' \subseteq Calm,
           ResetSession, at[Main].s \in Calm
    PROVE  LifeInv' /\ OthersUntouched(at[Main].s)
<1>1. TypeOK /\ IInv /\ Roles
  BY DEF LifeInv, IInv
<1>2. at[Main].pc = "reset" /\ at[Main].pc \in ReusePC
  BY DEF ResetSession, MainAt, ReusePC
<1>3. PICK s \in Session \cap Calm : at[Main].s = s
  BY <1>2, MainReuses
<1>4. /\ OwnerInv(s) /\ OwnedByMain(s) /\ ~MainAt("start") /\ ~MainAt("done")
      /\ \A r \in Session : r # s => ~MainHas(r)
  BY <1>2, <1>3, MainReuses
<1> DEFINE place == Loc("async", s)
<1>5. /\ UNCHANGED <<used, sockOpen>> /\ UNCHANGED ops /\ ClearPackets
      /\ sockState' = [sockState EXCEPT ![s] = "INIT"] /\ Goto(Main, place)
  BY <1>3 DEF ResetSession
<1>6. place.pc = "async" /\ place.s = s /\ place.why = "none"
  BY DEF Loc
<1> HIDE DEF place
<1>7. Roles' /\ GoesOn
  <2>1. place.pc \in MainPC \ {"start"} /\ place.pc \notin {"close", "notify"} /\ ~headInHand'
    BY <1>5, <1>6 DEF MainPC, ClearPackets
  <2> QED
    BY <1>1, <1>4, <1>5, <1>6, <2>1, RolesOfMain
<1>8. ASSUME NEW r \in Session, r # s
      PROVE  OwnerInv(r)' /\ Untouched(r)
  <2>1. QueueKeeps(r) /\ SocketKeeps(r) /\ ops'[r] = ops[r]
    BY <1>1, <1>5, <1>8, QueueCleared DEF SocketKeeps, TypeOK
  <2> QED
    BY <1>4, <1>5, <1>6, <1>7, <1>8, <2>1, MainLive
<1>9. OwnerInv(s)'
  <2>1. at'[Main] = place /\ ~HasHandler(s)'
    BY <1>1, <1>4, <1>5, MainAfter DEF OwnedByMain
  <2>2. Silent(s)' /\ NoClose(s)' /\ InOrder(s)'
    BY <1>5, QueueCleared, SilentInOrder
  <2>3. ~HasPacket(s)'
    BY <2>2, ToldIncludes DEF HasPacket, Awaits, Silent, Of
  <2>4. OwnedByMain(s)'
    BY <1>4, <1>5, <2>1, <2>3 DEF OwnedByMain, NoOps
  <2>5. ~MainAt("reuse")'
    BY <1>6, <2>1 DEF MainAt
  <2>6. sockState'[s] # "CONNECT" /\ OpenWhenConnected(s)'
    BY <1>1, <1>5 DEF OpenWhenConnected, TypeOK
  <2> QED
    BY <2>2, <2>4, <2>5, <2>6, MainOwnerInv
<1> QED
  BY <1>3, <1>7, <1>8, <1>9 DEF LifeInv, OthersUntouched

LEMMA AsyncAcceptLives ==
    ASSUME LifeInv, IInv', Calm' \subseteq Calm,
           AsyncAccept, at[Main].s \in Calm
    PROVE  LifeInv' /\ OthersUntouched(at[Main].s)
<1>1. TypeOK /\ IInv /\ Roles
  BY DEF LifeInv, IInv
<1>2. at[Main].pc = "async" /\ at[Main].pc \in ReusePC
  BY DEF AsyncAccept, MainAt, ReusePC
<1>3. PICK s \in Session \cap Calm : at[Main].s = s
  BY <1>2, MainReuses
<1>4. /\ MainHas(s) /\ OwnerInv(s) /\ OwnedByMain(s) /\ ~MainAt("start") /\ ~MainAt("done")
      /\ \A r \in Session : r # s => ~MainHas(r)
  BY <1>2, <1>3, MainReuses
<1>5. sockState[s] # "CONNECT" /\ Silent(s)
  BY <1>2, <1>4 DEF OwnerInv, SocketInv, PacketInv, MainAt
<1> DEFINE place == Loc("pop", NoSession)
<1>6. UNCHANGED socketVars /\ UNCHANGED queueVars /\ Goto(Main, place)
  BY DEF AsyncAccept
<1>7. place.pc = "pop"
  BY DEF Loc
<1> HIDE DEF place
<1>8. PICK k \in {"accept", "acceptErr"} : ops' = [ops EXCEPT ![s][k] = @ + 1]
  BY <1>3 DEF AsyncAccept
<1>9. k \in OpKind /\ k \notin RecvOp
  BY DEF OpKind, RecvOp
<1>10. OneOp(s, k)' /\ \A r \in Session : r # s => ops'[r] = ops[r]
  BY <1>1, <1>4, <1>8, <1>9, AddedOps DEF OwnedByMain
<1>11. Roles' /\ GoesOn
  <2>1. place.pc \in MainPC \ {"start"} /\ place.pc \notin {"close", "notify", "front"} \cup ReusePC
    BY <1>7 DEF MainPC, ReusePC
  <2> QED
    BY <1>1, <1>4, <1>6, <2>1, RolesOfMain, RolesQueue
<1>12. ASSUME NEW r \in Session, r # s
       PROVE  OwnerInv(r)' /\ Untouched(r)
  <2>1. QueueKeeps(r) /\ SocketKeeps(r) /\ ops'[r] = ops[r] /\ place.pc \notin ReusePC
    BY <1>1, <1>6, <1>7, <1>10, <1>12, QueueStays DEF SocketKeeps, socketVars, ReusePC
  <2> QED
    BY <1>4, <1>6, <1>11, <1>12, <2>1, MainLive
<1>13. OwnerInv(s)'
  <2>1. at'[Main] = place /\ ~HasHandler(s)'
    BY <1>1, <1>4, <1>6, MainAfter DEF OwnedByMain
  <2>2. ~HasPacket(s)' /\ Silent(s)' /\ NoClose(s)' /\ InOrder(s)'
    BY <1>4, <1>5, <1>6, QueueFacts, SilentInOrder DEF OwnedByMain
  <2>3. ~MainHas(s)'
    BY <1>7, <2>1 DEF MainHas, ReusePC
  <2>4. OwnedByOp(s, k)'
    BY <1>10, <2>1, <2>2, <2>3 DEF OwnedByOp
  <2>5. sockState'[s] # "CONNECT" /\ OpenWhenConnected(s)'
    BY <1>5, <1>6 DEF OpenWhenConnected, socketVars
  <2> QED
    BY <1>9, <2>2, <2>4, <2>5, OpOwnerInv
<1> QED
  BY <1>3, <1>11, <1>12, <1>13 DEF LifeInv, OthersUntouched

LEMMA PopPacketLives ==
    ASSUME LifeInv, IInv', Calm' \subseteq Calm, PopPacket
    PROVE  LifeInv' /\ \A r \in Session : Untouched(r)
<1>1. TypeOK /\ IInv /\ Roles
  BY DEF LifeInv, IInv
<1> DEFINE place == Loc("front", NoSession)
<1>2. /\ at[Main].pc = "pop" /\ Goto(Main, place) /\ ~headInHand'
      /\ UNCHANGED socketVars /\ UNCHANGED ops
      /\ packets' = IF packets = <<>> THEN packets ELSE Tail(packets)
  BY DEF PopPacket, MainAt
<1>3. place.pc = "front"
  BY DEF Loc
<1> HIDE DEF place
<1>4. Roles' /\ GoesOn
  <2>1. /\ place.pc \in MainPC \ {"start"} /\ place.pc \notin {"close", "notify"} \cup ReusePC
        /\ ~MainAt("start") /\ ~MainAt("done")
    BY <1>2, <1>3 DEF MainPC, ReusePC, MainAt
  <2> QED
    BY <1>1, <1>2, <2>1, RolesOfMain
<1>5. ASSUME NEW r \in Session
      PROVE  QueueKeeps(r)
  <2>1. CASE packets = <<>>
    <3>1. packets' = <<>> /\ DOMAIN <<>> = {}
      BY <1>2, <2>1
    <3> QED
      BY <3>1 DEF QueueKeeps
  <2>2. CASE packets # <<>>
    <3>1. packets' = Tail(packets) /\ packets \in Seq(Packet)
      BY <1>1, <1>2, <2>2 DEF TypeOK
    <3>2. \A i \in DOMAIN packets' :
             i + 1 \in DOMAIN packets /\ packets'[i] = packets[i + 1] /\ i + 1 # 1
      BY <2>2, <3>1
    <3>3. \A i \in DOMAIN packets' : Awaits(i, r)' <=> Awaits(i + 1, r)
      BY <1>2, <3>2 DEF Awaits
    <3> QED
      BY <3>2, <3>3 DEF QueueKeeps
  <2> QED
    BY <2>1, <2>2
<1>6. \A r \in Session : ops'[r] = ops[r] /\ SocketKeeps(r)
  BY <1>2 DEF SocketKeeps, socketVars
<1> QED
  BY <1>2, <1>3, <1>4, <1>5, <1>6, MainGoes DEF ReusePC

\* Closing the acceptor changes only sessions that wait for a connection.
LEMMA CloseAcceptorLives ==
    ASSUME LifeInv, IInv', Calm' \subseteq Calm, CloseAcceptor
    PROVE  LifeInv' /\ \A r \in Calm : ops'[r] = ops[r] => Untouched(r)
<1>1. TypeOK /\ IInv /\ Roles
  BY DEF LifeInv, IInv
<1> DEFINE place == Loc("join", NoSession)
<1>2. /\ at[Main].pc = "closeAcceptor" /\ Goto(Main, place)
      /\ UNCHANGED socketVars /\ UNCHANGED queueVars
      /\ ops' = [s \in Session |-> [ops[s] EXCEPT !["accept"] = 0,
                                                 !["acceptErr"] = @ + ops[s]["accept"]]]
  BY DEF CloseAcceptor, MainAt
<1>3. place.pc = "join"
  BY DEF Loc
<1> HIDE DEF place
<1>4. ~MainAt("start") /\ ~MainAt("done") /\ \A r \in Session : ~MainHas(r)
  BY <1>2 DEF MainAt, MainHas, ReusePC
<1>5. Roles' /\ GoesOn
  <2>1. place.pc \in MainPC \ {"start"} /\ place.pc \notin {"close", "notify", "front"} \cup ReusePC
    BY <1>3 DEF MainPC, ReusePC
  <2> QED
    BY <1>1, <1>2, <1>4, <2>1, RolesOfMain, RolesQueue
<1>6. \A s \in Session : QueueKeeps(s) /\ SocketKeeps(s)
  BY <1>1, <1>2, QueueStays DEF SocketKeeps, socketVars
<1>7. {"accept", "acceptErr"} \subseteq OpKind \cap AcceptOp /\ "acceptErr" \notin RecvOp
  BY DEF OpKind, AcceptOp, RecvOp
<1>8. ASSUME NEW s \in Session \cap Calm
      PROVE  OwnerInv(s)' /\ (ops'[s] = ops[s] => Untouched(s))
  <2> DEFINE f == ops[s]
  <2>1. f \in [OpKind -> Nat]
    BY <1>1 DEF TypeOK
  <2>2. ops'[s] = [f EXCEPT !["accept"] = 0, !["acceptErr"] = @ + f["accept"]]
    BY <1>2
  <2>3. CASE f["accept"] = 0
    <3> DEFINE g == [f EXCEPT !["accept"] = 0]
    <3>1. g = f
      BY <1>7, <2>1, <2>3
    <3>2. [g EXCEPT !["acceptErr"] = @ + f["accept"]] = f
      BY <1>7, <2>1, <2>3, <3>1
    <3>3. ops'[s] = ops[s]
      BY <2>2, <3>2
    <3>4. place.pc \notin ReusePC
      BY <1>3 DEF ReusePC
    <3> QED
      BY <1>2, <1>4, <1>5, <1>6, <3>3, <3>4, MainLive
  <2>4. CASE f["accept"] # 0
    <3>1. ops[s]["accept"] > 0
      BY <1>7, <2>1, <2>4
    <3>2. OwnerInv(s)
      BY DEF LifeInv
    <3>3. OwnedByOp(s, "accept")
      BY <1>1, <1>7, <3>1, <3>2, OpIsOwner DEF OwnerInv
    <3>4. sockState[s] # "CONNECT" /\ Silent(s)
      BY <1>7, <3>1, <3>2 DEF OwnerInv, SocketInv, PacketInv
    <3>5. OneOp(s, "acceptErr")'
      <4>1. ops'[s]["accept"] = 0 /\ ops'[s]["acceptErr"] = ops[s]["acceptErr"] + ops[s]["accept"]
        BY <1>7, <2>1, <2>2
      <4>2. \A j \in OpKind : j # "accept" /\ j # "acceptErr" => ops'[s][j] = ops[s][j]
        BY <2>1, <2>2
      <4> QED
        BY <1>7, <3>3, <4>1, <4>2 DEF OneOp, OwnedByOp
    <3>6. at'[Main] = place /\ ~HasHandler(s)'
      BY <1>1, <1>2, <3>3, MainAfter DEF OwnedByOp
    <3>7. ~MainHas(s)'
      BY <1>3, <3>6 DEF MainHas, ReusePC
    <3>8. ~HasPacket(s)' /\ Silent(s)' /\ NoClose(s)' /\ InOrder(s)'
      BY <1>2, <3>3, <3>4, QueueFacts, SilentInOrder DEF OwnedByOp
    <3>9. OwnedByOp(s, "acceptErr")'
      BY <3>5, <3>6, <3>7, <3>8 DEF OwnedByOp
    <3>10. sockState'[s] # "CONNECT" /\ OpenWhenConnected(s)'
      BY <1>2, <3>4 DEF OpenWhenConnected, socketVars
    <3>11. ops'[s] # ops[s]
      BY <1>7, <3>3, <3>5 DEF OneOp, OwnedByOp
    <3> QED
      BY <1>7, <3>8, <3>9, <3>10, <3>11, OpOwnerInv
  <2> QED
    BY <2>3, <2>4
<1>9. \A s \in Session : OwnerInv(s)'
  BY <1>8 DEF OwnerInv
<1> QED
  BY <1>1, <1>5, <1>8, <1>9, CalmAccepts DEF LifeInv

LEMMA JoinStopLives ==
    ASSUME LifeInv, IInv', Calm' \subseteq Calm, Join \/ Stop
    PROVE  LifeInv' /\ \A r \in Session : Untouched(r)
<1>1. TypeOK /\ IInv /\ Roles
  BY DEF LifeInv, IInv
<1>2. PICK place \in {Loc("done", NoSession), Closing(0, "SELF_DISCONNECT")} : Goto(Main, place)
  BY DEF Join, Stop
<1>3. /\ at[Main].pc \in {"join", "front"} /\ UNCHANGED socketVars /\ UNCHANGED ops
      /\ UNCHANGED queueVars
  BY DEF Join, Stop, MainAt
<1>4. place.pc \in {"done", "close"} /\ (place.pc = "close" => place.why = "SELF_DISCONNECT")
  BY DEF Loc, Closing
<1>5. /\ place.pc \in MainPC \ {"start"} /\ place.pc \notin {"notify", "front"} \cup ReusePC
      /\ ~MainAt("start") /\ ~MainAt("done") /\ at[Main].pc \notin ReusePC
  BY <1>3, <1>4 DEF MainPC, ReusePC, MainAt
<1>6. Roles' /\ GoesOn
  BY <1>1, <1>2, <1>3, <1>4, <1>5, RolesOfMain, RolesQueue
<1>7. \A r \in Session : ops'[r] = ops[r] /\ QueueKeeps(r) /\ SocketKeeps(r)
  BY <1>1, <1>3, QueueStays DEF SocketKeeps, socketVars
<1> QED
  BY <1>2, <1>5, <1>6, <1>7, MainGoes

\* The first accepts, or a server that does not start.
LEMMA StartLives ==
    ASSUME LifeInv, IInv', Calm' \subseteq Calm, Start
    PROVE  LifeInv'
<1>1. TypeOK /\ IInv /\ Roles /\ MainAt("start")
  BY DEF LifeInv, IInv, Start
<1>2. /\ \A s \in Session : NoOps(s)
      /\ packets = <<>> /\ ~headInHand
      /\ \A t \in IOThreads : at[t] = Idle
  BY <1>1 DEF Roles, NoOps
<1> DEFINE posted == {s \in AcceptSession : \A r \in 0 .. s : sockState[r] # "CONNECT"}
           place == Loc(IF posted = AcceptSession THEN "front" ELSE "done", NoSession)
<1>3. /\ sockState' = [s \in Session |-> IF s \in posted THEN "INIT" ELSE sockState[s]]
      /\ ops' = [s \in Session |->
                   IF s \in posted THEN [ops[s] EXCEPT !["accept"] = 1] ELSE ops[s]]
      /\ Goto(Main, place) /\ UNCHANGED queueVars
  BY DEF Start
<1>4. PICK P : P = posted
  OBVIOUS
<1>5. PICK q : q = place
  OBVIOUS
<1>6. q.pc \in {"front", "done"} /\ (q.pc = "front" => P = AcceptSession)
  BY <1>4, <1>5 DEF Loc
<1>7. at'[Main] = q /\ \A t \in IOThreads : at'[t] = Idle
  BY <1>1, <1>2, <1>3, <1>5, ThreadsAssumption DEF Goto, TypeOK, Thread
<1> HIDE DEF posted, place
<1>8. ~headInHand' /\ packets' = <<>>
  BY <1>2, <1>3 DEF queueVars
<1>9. Roles'
  <2>1. at'[Main].pc \in MainPC /\ at'[Main].pc \notin {"close", "notify", "start"} \cup ReusePC
    BY <1>6, <1>7 DEF MainPC, ReusePC
  <2>2. Idle.pc \in IOPC /\ Idle.pc \notin {"close", "notify"} /\ Idle.why = "none"
    BY DEF Idle, Loc, IOPC
  <2> QED
    BY <1>7, <1>8, <2>1, <2>2 DEF Roles, MainAt
<1>10. ASSUME NEW s \in Session
       PROVE  OwnerInv(s)'
  <2> SUFFICES ASSUME s \in Calm PROVE OwnerInv(s)'
    BY DEF OwnerInv
  <2>1. DOMAIN packets' = {}
    BY <1>8
  <2>2. Silent(s)' /\ NoClose(s)' /\ InOrder(s)' /\ ~HasPacket(s)'
    BY <2>1 DEF Silent, NoClose, InOrder, HasPacket
  <2>3. ~HasHandler(s)'
    BY <1>7 DEF HasHandler, Owns, Idle, Loc, NoSession, Session
  <2>4. ~MainHas(s)'
    BY <1>6, <1>7 DEF MainHas, ReusePC
  <2>5. CASE s \in P
    <3>1. sockState'[s] # "CONNECT" /\ ops'[s] = [ops[s] EXCEPT !["accept"] = 1]
      BY <1>3, <1>4, <2>5
    <3>2. "accept" \in OpKind /\ "accept" \notin RecvOp
      BY DEF OpKind, RecvOp
    <3>3. ops[s] \in [OpKind -> Nat] /\ \A k \in OpKind : ops[s][k] = 0
      BY <1>1, <1>2 DEF TypeOK, NoOps
    <3>4. OneOp(s, "accept")'
      BY <3>1, <3>2, <3>3 DEF OneOp
    <3>5. OwnedByOp(s, "accept")'
      BY <2>2, <2>3, <2>4, <3>4 DEF OwnedByOp
    <3>6. OpenWhenConnected(s)'
      BY <3>1 DEF OpenWhenConnected
    <3> QED
      BY <2>2, <3>1, <3>2, <3>5, <3>6, OpOwnerInv
  <2>6. CASE s \notin P
    <3>1. ops'[s] = ops[s]
      BY <1>3, <1>4, <2>6
    <3>2. q.pc = "done"
      BY <1>6, <2>6, CalmAccepts
    <3>3. MainAt("done")' /\ ~MainAt("start")'
      BY <1>7, <3>2 DEF MainAt
    <3>4. OwnedByMain(s)'
      BY <1>2, <2>2, <2>3, <3>1 DEF OwnedByMain, NoOps
    <3>5. OpenWhenConnected(s)'
      BY <3>3 DEF OpenWhenConnected
    <3> QED
      BY <2>2, <2>4, <3>4, <3>5, MainOwnerInv
  <2> QED
    BY <2>5, <2>6
<1> QED
  BY <1>9, <1>10 DEF LifeInv

-----------------------------------------------------------------------------
(* Sessions of the connect pool.                                            *)

LEMMA TwoPools ==
    /\ Session = AcceptSession \cup ConnectSession
    /\ AcceptSession \cap ConnectSession = {}
    /\ NoSession \notin Session
    /\ MaxConnect = 0 <=> ConnectSession = {}
BY SizesAssumption DEF Session, AcceptSession, ConnectSession, NoSession

\* The one chain of receives: an operation, a handler, or nothing any more.
Chain(c) ==
    /\ \A k \in OpKind : ops[c][k] <= 1
    /\ \A j, k \in OpKind : ops[c][j] > 0 /\ ops[c][k] > 0 => j = k
    /\ \A t, u \in IOThreads : Owns(t, c) /\ Owns(u, c) => t = u
    /\ HasOp(c) => ~HasHandler(c)

\* It only receives, and only on a session that a connection has taken.
ConnectSocket(c) ==
    /\ \A k \in AcceptOp : ops[c][k] = 0
    /\ HasOp(c) => used[c]
    /\ used[c] => sockState[c] = "CLOSE" \/ (sockState[c] = "CONNECT" /\ sockOpen[c])
    /\ MainAt("start") => ~used[c]

\* What a thread may be doing that has the session.
ConnectHandler(t, c) ==
    at[t].s = c =>
       /\ used[c]
       /\ \/ at[t].pc \in {"process", "postRecv"}
          \/ at[t].pc \in {"close", "notify", "closed"} /\ at[t].why = "NETWORK_ON_CLOSE"
       /\ at[t].pc \in {"notify", "closed"} => sockState[c] = "CLOSE"

\* Main closes it, but never reuses it: no packet names it.
ConnectMain(c) ==
    at[Main].s = c => at[Main].pc \in {"close", "closed"} /\ at[Main].why = "SELF_DISCONNECT"

ConnectInv(c) ==
    /\ Chain(c)
    /\ ConnectSocket(c)
    /\ \A t \in IOThreads : ConnectHandler(t, c)
    /\ ConnectMain(c)

ConnectsInv == \A c \in ConnectSession : ConnectInv(c)

\* The members of the connect pool that a step leaves as they are, or closes.
SocketStays(c) ==
    /\ used'[c] = used[c]
    /\ \/ sockState'[c] = sockState[c] /\ sockOpen'[c] = sockOpen[c]
       \/ sockState'[c] = "CLOSE"

\* A step that has nothing to do with session c.
LEMMA ElsewhereKeeps ==
    ASSUME NEW c \in ConnectSession, ConnectInv(c), ops'[c] = ops[c], SocketStays(c),
           MainAt("start")' => MainAt("start"),
           \A t \in IOThreads : at'[t].s = c => at'[t] = at[t],
           at'[Main].s = c => \/ at'[Main] = at[Main]
                              \/ at'[Main].pc \in {"close", "closed"} /\ at'[Main].why = "SELF_DISCONNECT"
    PROVE  ConnectInv(c)'
<1>1. \A t \in IOThreads : Owns(t, c)' => Owns(t, c)
  BY DEF Owns
<1>2. HasOp(c)' <=> HasOp(c)
  BY DEF HasOp
<1>3. HasHandler(c)' => HasHandler(c)
  BY <1>1 DEF HasHandler
<1>4. Chain(c)'
  BY <1>1, <1>2, <1>3 DEF ConnectInv, Chain
<1>5. ConnectSocket(c)'
  BY <1>2 DEF ConnectInv, ConnectSocket, SocketStays
<1>6. \A t \in IOThreads : ConnectHandler(t, c)'
  BY DEF ConnectInv, ConnectHandler, SocketStays
<1>7. ConnectMain(c)'
  BY DEF ConnectInv, ConnectMain
<1> QED
  BY <1>4, <1>5, <1>6, <1>7 DEF ConnectInv

\* A thread that works on another session, or on none.
LEMMA ThreadElsewhere ==
    ASSUME IInv, NEW c \in ConnectSession, ConnectInv(c), ops'[c] = ops[c], SocketStays(c),
           NEW t \in Thread, NEW place, Goto(t, place), place.s # c, place.pc # "start"
    PROVE  ConnectInv(c)'
<1>1. at' = [at EXCEPT ![t] = place] /\ at \in [Thread -> Place]
  BY DEF Goto, IInv, TypeOK
<1>2. IOThreads \subseteq Thread /\ Main \in Thread
  BY DEF Thread
<1>3. \A u \in Thread : at'[u] = IF u = t THEN place ELSE at[u]
  BY <1>1
<1>4. MainAt("start")' => MainAt("start")
  BY <1>2, <1>3 DEF MainAt
<1> QED
  BY <1>2, <1>3, <1>4, ElsewhereKeeps

\* Main, which goes to close a session, whichever.
LEMMA MainClosing ==
    ASSUME IInv, NEW c \in ConnectSession, ConnectInv(c), ops'[c] = ops[c], SocketStays(c),
           NEW place, Goto(Main, place), place.pc \in {"close", "closed"},
           place.why = "SELF_DISCONNECT"
    PROVE  ConnectInv(c)'
<1>1. at' = [at EXCEPT ![Main] = place] /\ at \in [Thread -> Place]
  BY DEF Goto, IInv, TypeOK
<1>2. IOThreads \subseteq Thread /\ Main \in Thread /\ Main \notin IOThreads
  BY ThreadsAssumption DEF Thread
<1>3. at'[Main] = place /\ \A u \in IOThreads : at'[u] = at[u]
  BY <1>1, <1>2
<1>4. ~MainAt("start")'
  BY <1>3 DEF MainAt
<1> QED
  BY <1>3, <1>4, ElsewhereKeeps

\* Nobody moves.
LEMMA NobodyElsewhere ==
    ASSUME NEW c \in ConnectSession, ConnectInv(c), ops'[c] = ops[c], SocketStays(c), at' = at
    PROVE  ConnectInv(c)'
BY ElsewhereKeeps DEF MainAt

\* One operation, or one handler, is the whole chain.
LEMMA ChainOfOp ==
    ASSUME TypeOK, NEW c \in Session, Chain(c), NEW k \in OpKind, ops[c][k] > 0
    PROVE  OneOp(c, k) /\ ~HasHandler(c)
<1>1. \A j \in OpKind : ops[c][j] \in Nat
  BY DEF TypeOK
<1>2. HasOp(c)
  BY DEF HasOp
<1> QED
  BY <1>1, <1>2 DEF Chain, OneOp

LEMMA ChainOfHandler ==
    ASSUME TypeOK, NEW c \in Session, Chain(c), NEW t \in IOThreads, Owns(t, c)
    PROVE  NoOps(c) /\ OnlyHandler(c, t)
BY NoOpMeans DEF Chain, HasHandler, OnlyHandler

LEMMA ChainIsOp ==
    ASSUME NEW c, NEW k \in OpKind, OneOp(c, k)', ~HasHandler(c)'
    PROVE  Chain(c)'
<1>1. \A j \in OpKind : ops'[c][j] = IF j = k THEN 1 ELSE 0
  BY DEF OneOp
<1> QED
  BY <1>1 DEF Chain, HasHandler

LEMMA ChainIsHandler ==
    ASSUME NEW c, NEW t \in IOThreads, NoOps(c)', OnlyHandler(c, t)'
    PROVE  Chain(c)'
<1>1. \A j \in OpKind : ops'[c][j] = 0
  BY DEF NoOps
<1>2. ~HasOp(c)'
  BY <1>1 DEF HasOp
<1> QED
  BY <1>1, <1>2 DEF Chain, OnlyHandler

\* The peer of a connection sends or closes.
LEMMA NetworkKeepsConnect ==
    ASSUME IInv, NEW c \in ConnectSession, ConnectInv(c), NEW s \in Session,
           PeerConnects(s) \/ AcceptFails(s) \/ PeerSends(s) \/ PeerCloses(s)
    PROVE  ConnectInv(c)'
<1>1. ops \in [Session -> [OpKind -> Nat]] /\ c \in Session /\ TypeOK
  BY TwoPools DEF IInv, TypeOK
<1>2. at' = at /\ SocketStays(c) /\ used' = used /\ sockState' = sockState /\ sockOpen' = sockOpen
  BY DEF PeerConnects, AcceptFails, PeerSends, PeerCloses, socketVars, SocketStays
<1>3. CASE s # c
  <2>1. ops'[c] = ops[c]
    BY <1>1, <1>3 DEF PeerConnects, AcceptFails, PeerSends, PeerCloses
  <2> QED
    BY <1>2, <2>1, NobodyElsewhere
<1>4. CASE s = c
  <2>1. ~PeerConnects(c) /\ ~AcceptFails(c)
    BY DEF ConnectInv, ConnectSocket, AcceptOp, PeerConnects, AcceptFails
  <2>2. PICK to \in {"recvOk", "recvErr"} :
           ops[c]["recv"] > 0 /\ ops' = [ops EXCEPT ![c] = Moved(@, "recv", to)]
    BY <1>4, <2>1 DEF PeerSends, PeerCloses
  <2>3. "recv" \in OpKind /\ to \in OpKind /\ to # "recv"
    BY DEF OpKind
  <2>4. OneOp(c, "recv") /\ ~HasHandler(c)
    BY <1>1, <2>2, <2>3, ChainOfOp DEF ConnectInv
  <2>5. OneOp(c, to)'
    <3>1. ops'[c] = Moved(ops[c], "recv", to) /\ ops[c] \in [OpKind -> Nat]
      BY <1>1, <2>2
    <3>2. ops'[c]["recv"] = ops[c]["recv"] - 1 /\ ops'[c][to] = ops[c][to] + 1
      BY <2>3, <3>1 DEF Moved
    <3>3. \A j \in OpKind : j # "recv" /\ j # to => ops'[c][j] = ops[c][j]
      BY <2>3, <3>1 DEF Moved
    <3>4. \A j \in OpKind : ops[c][j] = IF j = "recv" THEN 1 ELSE 0
      BY <2>4 DEF OneOp
    <3> QED
      BY <2>3, <3>2, <3>3, <3>4 DEF OneOp
  <2>6. ~HasHandler(c)'
    BY <1>2, <2>4 DEF HasHandler, Owns
  <2>7. Chain(c)'
    BY <2>3, <2>5, <2>6, ChainIsOp
  <2>8. ConnectSocket(c)'
    <3>1. \A k \in AcceptOp : ops'[c][k] = 0
      BY <2>5 DEF OneOp, AcceptOp, OpKind
    <3>2. used[c]
      BY <2>2, <2>3 DEF ConnectInv, ConnectSocket, HasOp
    <3> QED
      BY <1>2, <3>1, <3>2 DEF ConnectInv, ConnectSocket, MainAt
  <2>9. ConnectMain(c)' /\ \A t \in IOThreads : ConnectHandler(t, c)'
    BY <1>2 DEF ConnectInv, ConnectMain, ConnectHandler
  <2> QED
    BY <2>7, <2>8, <2>9 DEF ConnectInv
<1> QED
  BY <1>3, <1>4

\* A handler of the session's only operation begins.
LEMMA TakenKeepsConnect ==
    ASSUME IInv, NEW c \in ConnectSession, ConnectInv(c), NEW t \in IOThreads, NEW s \in Session,
           RunHandler(t, s)
    PROVE  ConnectInv(c)'
<1>1. ops \in [Session -> [OpKind -> Nat]] /\ c \in Session /\ TypeOK
  BY TwoPools DEF IInv, TypeOK
<1>2. c # NoSession /\ IOThreads \subseteq Thread
  BY <1>1, TwoPools DEF Thread
<1>3. CASE s # c
  <2>1. ops'[c] = ops[c]
    BY <1>1, <1>3 DEF RunHandler, OnAcceptOk, OnAcceptErr, OnRecvOk, OnRecvErr, OnRecvErrWithBytes
  <2>2. SocketStays(c)
    BY <1>1, <1>3 DEF RunHandler, OnAcceptOk, OnAcceptErr, OnRecvOk, OnRecvErr, OnRecvErrWithBytes,
       SocketStays, socketVars, SetUnUsed, TypeOK
  <2>3. \/ at' = at
        \/ \E place \in {Idle, Loc("acceptErr", s), Loc("acceptOk", s), Loc("process", s),
                         Closing(s, "NETWORK_ON_CLOSE")} : Goto(t, place)
    BY DEF RunHandler, OnAcceptOk, OnAcceptErr, OnRecvOk, OnRecvErr, OnRecvErrWithBytes
  <2>4. CASE at' = at
    BY <2>1, <2>2, <2>4, NobodyElsewhere
  <2>5. CASE \E place \in {Idle, Loc("acceptErr", s), Loc("acceptOk", s), Loc("process", s),
                           Closing(s, "NETWORK_ON_CLOSE")} : Goto(t, place)
    <3>1. PICK place : /\ Goto(t, place)
                       /\ place \in {Idle, Loc("acceptErr", s), Loc("acceptOk", s),
                                     Loc("process", s), Closing(s, "NETWORK_ON_CLOSE")}
      BY <2>5
    <3>2. place.s # c /\ place.pc # "start"
      BY <1>2, <1>3, <3>1 DEF Idle, Loc, Closing
    <3> QED
      BY <1>2, <2>1, <2>2, <3>1, <3>2, ThreadElsewhere
  <2> QED
    BY <2>3, <2>4, <2>5
<1>4. CASE s = c
  <2>1. ~OnAcceptOk(t, c) /\ ~OnAcceptErr(t, c)
    BY DEF ConnectInv, ConnectSocket, AcceptOp, OnAcceptOk, OnAcceptErr
  <2>2. PICK k \in {"recvOk", "recvErr"} :
           ops[c][k] > 0 /\ ops' = [ops EXCEPT ![c][k] = @ - 1]
    BY <1>4, <2>1 DEF RunHandler, OnRecvOk, OnRecvErr, OnRecvErrWithBytes
  <2>3. k \in OpKind
    BY DEF OpKind
  <2>4. OneOp(c, k) /\ ~HasHandler(c)
    BY <1>1, <2>2, <2>3, ChainOfOp DEF ConnectInv
  <2>5. NoOps(c)'
    BY <1>1, <2>2, <2>3, <2>4, TakenOps
  <2>6. used[c]
    BY <2>2, <2>3 DEF ConnectInv, ConnectSocket, HasOp
  <2>7. used' = used /\ sockState' = sockState /\ sockOpen' = sockOpen /\ at[t].pc = "idle"
    BY <1>4, <2>1 DEF RunHandler, OnRecvOk, OnRecvErr, OnRecvErrWithBytes, socketVars
  <2>8. PICK place : /\ \/ at' = at
                        \/ Goto(t, place)
                     /\ place \in {Loc("process", c), Closing(c, "NETWORK_ON_CLOSE")}
    BY <1>4, <2>1 DEF RunHandler, OnRecvOk, OnRecvErr, OnRecvErrWithBytes
  <2>9. t # Main /\ at'[Main] = at[Main] /\ \A u \in IOThreads : u # t => at'[u] = at[u]
    BY <1>1, <1>2, <2>8, ThreadsAssumption DEF Goto, TypeOK, Thread
  <2>10. at'[t] \in {at[t], place}
    BY <1>1, <1>2, <2>8 DEF Goto, TypeOK
  <2>11. OnlyHandler(c, t)'
    BY <2>4, <2>9 DEF HasHandler, OnlyHandler, Owns
  <2>12. Chain(c)'
    BY <2>5, <2>11, ChainIsHandler
  <2>13. ConnectSocket(c)'
    <3>1. ~HasOp(c)' /\ \A j \in AcceptOp : ops'[c][j] = 0
      BY <2>5 DEF NoOps, HasOp, AcceptOp, OpKind
    <3> QED
      BY <2>7, <2>9, <3>1 DEF ConnectInv, ConnectSocket, MainAt
  <2>14. ConnectMain(c)'
    BY <2>9 DEF ConnectInv, ConnectMain
  <2>15. \A u \in IOThreads : u # t => ConnectHandler(u, c)'
    BY <2>7, <2>9 DEF ConnectInv, ConnectHandler
  <2>16. ConnectHandler(t, c)'
    <3>1. CASE at'[t] = at[t]
      BY <2>7, <3>1 DEF ConnectInv, ConnectHandler
    <3>2. CASE at'[t] = place
      BY <2>6, <2>7, <2>8, <3>2 DEF ConnectHandler, Loc, Closing
    <3> QED
      BY <2>10, <3>1, <3>2
  <2> QED
    BY <2>12, <2>13, <2>14, <2>15, <2>16 DEF ConnectInv
<1> QED
  BY <1>3, <1>4

\* The handler of the session goes on: it never accepts, only receives.
LEMMA HandlerKeepsConnect ==
    ASSUME IInv, NEW c \in ConnectSession, ConnectInv(c), NEW t \in IOThreads, HandlerStep(t)
    PROVE  ConnectInv(c)'
<1>1. ops \in [Session -> [OpKind -> Nat]] /\ c \in Session /\ TypeOK
  BY TwoPools DEF IInv, TypeOK
<1>2. c # NoSession /\ IOThreads \subseteq Thread
  BY <1>1, TwoPools DEF Thread
<1>3. used' = used /\ sockOpen' = sockOpen
  BY DEF HandlerStep, AcceptFailed, AcceptProcessing, Announce, ContinueRecv, ProcessRecvData, socketVars
<1>4. CASE at[t].s # c
  <2>1. ops'[c] = ops[c]
    BY <1>1, <1>4
    DEF HandlerStep, AcceptFailed, AcceptProcessing, Announce, ContinueRecv, ProcessRecvData, PostRecv
  <2>2. sockState'[c] = sockState[c]
    BY <1>1, <1>4
    DEF HandlerStep, AcceptFailed, AcceptProcessing, Announce, ContinueRecv, ProcessRecvData,
        socketVars, TypeOK
  <2>3. SocketStays(c)
    BY <1>3, <2>2 DEF SocketStays
  <2>4. \/ at' = at
        \/ \E place \in {Idle, Closing(at[t].s, "ACCEPT_FAILED"), Loc("announce", at[t].s),
                         Loc("postRecv", at[t].s)} : Goto(t, place)
    BY DEF HandlerStep, AcceptFailed, AcceptProcessing, Announce, ContinueRecv, ProcessRecvData
  <2>5. CASE at' = at
    BY <2>1, <2>3, <2>5, NobodyElsewhere
  <2>6. ASSUME NEW place \in {Idle, Closing(at[t].s, "ACCEPT_FAILED"), Loc("announce", at[t].s),
                              Loc("postRecv", at[t].s)},
               Goto(t, place)
        PROVE  ConnectInv(c)'
    <3>1. place.s # c /\ place.pc # "start"
      BY <1>2, <1>4 DEF Idle, Loc, Closing
    <3> QED
      BY <1>2, <2>1, <2>3, <2>6, <3>1, ThreadElsewhere
  <2> QED
    BY <2>4, <2>5, <2>6
<1>5. CASE at[t].s = c
  <2>1. used[c] /\ ~AcceptFailed(t) /\ ~AcceptProcessing(t) /\ ~Announce(t)
    BY <1>5 DEF ConnectInv, ConnectHandler, AcceptFailed, AcceptProcessing, Announce
  <2>2. ContinueRecv(t) \/ ProcessRecvData(t)
    BY <2>1 DEF HandlerStep
  <2>3. Owns(t, c)
    BY <1>5, <2>2 DEF ContinueRecv, ProcessRecvData, Owns, OwningPC
  <2>4. NoOps(c) /\ OnlyHandler(c, t)
    BY <1>1, <2>3, ChainOfHandler DEF ConnectInv
  <2>5. sockState' = sockState
    BY <2>2 DEF ContinueRecv, ProcessRecvData, socketVars
  <2>6. PICK place \in {Idle, Loc("postRecv", c)} : Goto(t, place)
    BY <1>5, <2>2 DEF ContinueRecv, ProcessRecvData
  <2>7. at'[t] = place /\ at'[Main] = at[Main] /\ OnlyHandler(c, t)' /\ (place = Idle => ~HasHandler(c)')
    BY <1>1, <2>4, <2>6, HandlerAfter
  <2>8. \A u \in IOThreads : u # t => at'[u] = at[u]
    BY <1>1, <1>2, <2>6 DEF Goto, TypeOK
  <2>9. Chain(c)' /\ \A k \in AcceptOp : ops'[c][k] = 0
    <3>1. CASE ContinueRecv(t)
      <4>1. PICK k \in {"recv", "recvErr"} : ops' = [ops EXCEPT ![c][k] = @ + 1]
        BY <1>5, <3>1 DEF ContinueRecv, PostRecv
      <4>2. k \in OpKind /\ k \notin AcceptOp /\ AcceptOp \subseteq OpKind
        BY DEF OpKind, AcceptOp
      <4>3. OneOp(c, k)'
        BY <1>1, <2>4, <4>1, <4>2, AddedOps
      <4>4. ~HasHandler(c)'
        <5>1. at' = [at EXCEPT ![t] = Idle] /\ at \in [Thread -> Place]
          BY <1>1, <3>1 DEF ContinueRecv, Goto, TypeOK
        <5>2. at'[t] = Idle
          BY <1>2, <5>1
        <5> QED
          BY <2>7, <5>2
      <4> QED
        BY <4>2, <4>3, <4>4, ChainIsOp DEF OneOp
    <3>2. CASE ProcessRecvData(t)
      <4>1. NoOps(c)' /\ \A k \in AcceptOp : ops'[c][k] = 0
        BY <2>4, <3>2 DEF ProcessRecvData, NoOps, OpKind, AcceptOp
      <4> QED
        BY <2>7, <4>1, ChainIsHandler
    <3> QED
      BY <2>2, <3>1, <3>2
  <2>10. ConnectSocket(c)'
    BY <1>3, <2>1, <2>5, <2>7, <2>9 DEF ConnectInv, ConnectSocket, MainAt
  <2>11. ConnectMain(c)'
    BY <2>7 DEF ConnectInv, ConnectMain
  <2>12. \A u \in IOThreads : ConnectHandler(u, c)'
    BY <1>2, <1>3, <2>1, <2>5, <2>7, <2>8 DEF ConnectInv, ConnectHandler, Idle, Loc
  <2> QED
    BY <2>9, <2>10, <2>11, <2>12 DEF ConnectInv
<1> QED
  BY <1>4, <1>5

\* Main cancels the receive of a connection that it closes.
LEMMA MainCancelsConnect ==
    ASSUME IInv, NEW c \in ConnectSession, ConnectInv(c), ops[c]["recv"] # 0,
           ops' = [ops EXCEPT ![c] = Cancelled(@)], used' = used, sockState'[c] = "CLOSE",
           NEW place, Goto(Main, place), place.pc \in {"close", "closed"},
           place.why = "SELF_DISCONNECT"
    PROVE  ConnectInv(c)'
<1>1. ops \in [Session -> [OpKind -> Nat]] /\ c \in Session /\ TypeOK
  BY TwoPools DEF IInv, TypeOK
<1>2. {"recv", "recvErr"} \subseteq OpKind /\ AcceptOp \subseteq OpKind \ {"recv", "recvErr"}
  BY DEF OpKind, AcceptOp
<1>3. ops[c] \in [OpKind -> Nat] /\ ops[c]["recv"] > 0
  BY <1>1, <1>2
<1>4. OneOp(c, "recv") /\ ~HasHandler(c)
  BY <1>1, <1>2, <1>3, ChainOfOp DEF ConnectInv
<1>5. OneOp(c, "recvErr")'
  <2>1. ops'[c] = Cancelled(ops[c])
    BY <1>1
  <2>2. ops'[c]["recv"] = 0 /\ ops'[c]["recvErr"] = ops[c]["recvErr"] + ops[c]["recv"]
    BY <1>2, <1>3, <2>1 DEF Cancelled
  <2>3. \A j \in OpKind : j # "recv" /\ j # "recvErr" => ops'[c][j] = ops[c][j]
    BY <1>3, <2>1 DEF Cancelled
  <2> QED
    BY <1>2, <1>4, <2>2, <2>3 DEF OneOp
<1>6. at'[Main] = place /\ ~HasHandler(c)'
  BY <1>1, <1>4, MainAfter
<1>7. Chain(c)'
  BY <1>2, <1>5, <1>6, ChainIsOp
<1>8. ConnectSocket(c)'
  <2>1. used[c]
    BY <1>2, <1>3 DEF ConnectInv, ConnectSocket, HasOp
  <2>2. \A k \in AcceptOp : ops'[c][k] = 0
    BY <1>2, <1>5 DEF OneOp
  <2> QED
    BY <1>6, <2>1, <2>2 DEF ConnectSocket, MainAt
<1>9. \A u \in IOThreads : ConnectHandler(u, c)'
  <2>1. \A u \in IOThreads : at'[u] = at[u]
    BY <1>1, ThreadsAssumption DEF Goto, TypeOK, Thread
  <2> QED
    BY <2>1 DEF ConnectInv, ConnectHandler
<1>10. ConnectMain(c)'
  BY <1>6 DEF ConnectMain
<1> QED
  BY <1>7, <1>8, <1>9, <1>10 DEF ConnectInv

\* The handler that closes a connection goes on.
LEMMA ClosingGoesOn ==
    ASSUME IInv, NEW c \in ConnectSession, ConnectInv(c), NEW t \in IOThreads, at[t].s = c,
           ops'[c] = ops[c], used' = used, sockState'[c] = "CLOSE", NEW place, Goto(t, place),
           \/ place = Idle
           \/ place.pc = "closed" /\ place.why = "NETWORK_ON_CLOSE"
           \/ /\ place.pc = "notify" /\ place.why = "NETWORK_ON_CLOSE"
              /\ at[t].pc = "close"
    PROVE  ConnectInv(c)'
<1>1. TypeOK /\ t # Main /\ Main \in Thread /\ IOThreads \subseteq Thread
  BY ThreadsAssumption DEF IInv, Thread
<1>2. /\ at'[t] = place /\ at'[Main] = at[Main]
      /\ \A u \in IOThreads : u # t => at'[u] = at[u]
  BY <1>1 DEF Goto, TypeOK
<1>3. used[c] /\ (at[t].pc = "close" => at[t].why = "NETWORK_ON_CLOSE")
  BY DEF ConnectInv, ConnectHandler
<1>4. \A u \in IOThreads : Owns(u, c)' => Owns(u, c)
  <2>1. Owns(t, c)' => Owns(t, c)
    BY <1>2, <1>3 DEF Owns, Idle, Loc, OwningPC
  <2> QED
    BY <1>2, <2>1 DEF Owns
<1>5. Chain(c)'
  BY <1>4 DEF ConnectInv, Chain, HasOp, HasHandler
<1>6. ConnectSocket(c)'
  BY <1>2, <1>3 DEF ConnectInv, ConnectSocket, HasOp, MainAt
<1>7. \A u \in IOThreads : ConnectHandler(u, c)'
  <2>1. c # NoSession
    BY TwoPools
  <2> QED
    BY <1>2, <1>3, <2>1 DEF ConnectInv, ConnectHandler, Idle, Loc
<1>8. ConnectMain(c)'
  BY <1>2 DEF ConnectInv, ConnectMain
<1> QED
  BY <1>5, <1>6, <1>7, <1>8 DEF ConnectInv

LEMMA CloseBeginKeepsConnect ==
    ASSUME IInv, NEW c \in ConnectSession, ConnectInv(c), NEW t \in Thread, CloseBegin(t)
    PROVE  ConnectInv(c)'
<1>1. ops \in [Session -> [OpKind -> Nat]] /\ c \in Session /\ TypeOK /\ at[t] \in Place
  BY TwoPools DEF IInv, TypeOK
<1>2. PICK s \in Session : at[t].s = s
  BY DEF CloseBegin, IInv, HasSession, NoSessionPC
<1> DEFINE closes == sockOpen[s] /\ (sockState[s] = "CONNECT" \/ at[t].why = "ACCEPT_FAILED")
           place == [at[t] EXCEPT !.pc = IF Notifies(at[t].why) THEN "notify" ELSE "closed"]
<1>3. /\ sockState' = IF closes THEN [sockState EXCEPT ![s] = "CLOSE"] ELSE sockState
      /\ sockOpen' = IF closes THEN [sockOpen EXCEPT ![s] = FALSE] ELSE sockOpen
      /\ ops' = IF closes THEN [ops EXCEPT ![s] = Cancelled(@)] ELSE ops
      /\ used' = used /\ Goto(t, place) /\ at[t].pc = "close"
  BY <1>2 DEF CloseBegin
<1>4. /\ place.s = s /\ place.why = at[t].why
      /\ place.pc = IF at[t].why # "SELF_DISCONNECT" THEN "notify" ELSE "closed"
  BY <1>1, <1>2 DEF Place, Notifies
<1> HIDE DEF place
<1>5. SocketStays(c)
  BY <1>1, <1>3 DEF SocketStays, TypeOK
<1>6. CASE s # c
  <2>1. ops'[c] = ops[c]
    BY <1>1, <1>3, <1>6
  <2> QED
    BY <1>3, <1>4, <1>5, <1>6, <2>1, ThreadElsewhere
<1>7. CASE s = c /\ t = Main
  <2>1. place.pc = "closed" /\ place.why = "SELF_DISCONNECT"
    BY <1>2, <1>4, <1>7 DEF ConnectInv, ConnectMain
  <2>2. CASE closes /\ ops[c]["recv"] # 0
    <3>1. ops' = [ops EXCEPT ![c] = Cancelled(@)] /\ sockState'[c] = "CLOSE"
      BY <1>1, <1>3, <1>7, <2>2 DEF TypeOK
    <3> QED
      BY <1>3, <1>7, <2>1, <2>2, <3>1, MainCancelsConnect
  <2>3. CASE ~closes \/ ops[c]["recv"] = 0
    <3>1. ops' = ops
      BY <1>1, <1>3, <1>7, <2>3, NothingCancelled
    <3> QED
      BY <1>3, <1>5, <1>7, <2>1, <3>1, MainClosing
  <2> QED
    BY <2>2, <2>3
<1>8. CASE s = c /\ t # Main
  <2>1. t \in IOThreads
    BY <1>8 DEF Thread
  <2>2. at[t].why = "NETWORK_ON_CLOSE" /\ used[c] /\ Owns(t, c)
    BY <1>2, <1>3, <1>8, <2>1 DEF ConnectInv, ConnectHandler, Owns
  <2>3. ops' = ops
    <3>1. ops[c]["recv"] = 0
      BY <1>1, <2>1, <2>2, ChainOfHandler DEF ConnectInv, NoOps, OpKind
    <3> QED
      BY <1>1, <1>3, <1>8, <3>1, NothingCancelled
  <2>4. sockState'[c] = "CLOSE"
    BY <1>1, <1>3, <1>8, <2>2 DEF ConnectInv, ConnectSocket, TypeOK
  <2> QED
    BY <1>2, <1>3, <1>4, <1>8, <2>1, <2>2, <2>3, <2>4, ClosingGoesOn
<1> QED
  BY <1>6, <1>7, <1>8

LEMMA CloseKeepsConnect ==
    ASSUME IInv, NEW c \in ConnectSession, ConnectInv(c), NEW t \in Thread, CloseStep(t)
    PROVE  ConnectInv(c)'
<1>1. c \in Session /\ TypeOK /\ at[t] \in Place /\ c # NoSession
  BY TwoPools DEF IInv, TypeOK
<1>2. CASE CloseBegin(t)
  BY <1>2, CloseBeginKeepsConnect
<1>3. CASE ShutdownThrows(t)
  <2>1. SocketStays(c) /\ at' = at /\ ops' = ops
    BY <1>1, <1>3 DEF ShutdownThrows, SocketStays, TypeOK
  <2> QED
    BY <2>1, NobodyElsewhere
<1>4. CASE CloseNotify(t)
  <2> DEFINE place == [at[t] EXCEPT !.pc = "closed"]
  <2>1. ops' = ops /\ used' = used /\ sockState' = sockState /\ sockOpen' = sockOpen
        /\ Goto(t, place) /\ at[t].pc = "notify"
    BY <1>4 DEF CloseNotify, socketVars
  <2>2. place.s = at[t].s /\ place.pc = "closed" /\ place.why = at[t].why
    BY <1>1 DEF Place
  <2> HIDE DEF place
  <2>3. CASE at[t].s # c
    BY <2>1, <2>2, <2>3, ThreadElsewhere DEF SocketStays
  <2>4. CASE at[t].s = c
    <3>1. t \in IOThreads
      BY <2>1, <2>4 DEF ConnectInv, ConnectMain, Thread
    <3>2. at[t].why = "NETWORK_ON_CLOSE" /\ sockState[c] = "CLOSE"
      BY <2>1, <2>4, <3>1 DEF ConnectInv, ConnectHandler
    <3> QED
      BY <2>1, <2>2, <2>4, <3>1, <3>2, ClosingGoesOn
  <2> QED
    BY <2>3, <2>4
<1>5. CASE CloseEnd(t)
  <2>1. PICK s \in Session : at[t].s = s
    BY <1>5 DEF CloseEnd, IInv, HasSession, NoSessionPC
  <2>2. /\ ops' = ops /\ used' = used /\ sockOpen' = sockOpen
        /\ sockState' = [sockState EXCEPT ![s] = "CLOSE"] /\ Goto(t, AfterClose(t, s))
    BY <1>5, <2>1 DEF CloseEnd
  <2>3. SocketStays(c) /\ (s = c => sockState'[c] = "CLOSE")
    BY <1>1, <2>2 DEF SocketStays, TypeOK
  <2>4. CASE t = Main
    <3>1. PICK place : /\ Goto(Main, place)
                       /\ place \in {Loc("pop", NoSession), Closing(s + 1, "SELF_DISCONNECT"),
                                     Loc("closeAcceptor", NoSession)}
      BY <2>2, <2>4 DEF AfterClose
    <3>2. CASE place.s # c
      <4>1. place.pc # "start"
        BY <3>1 DEF Loc, Closing
      <4> QED
        BY <2>2, <2>3, <2>4, <3>1, <3>2, <4>1, ThreadElsewhere
    <3>3. CASE place.s = c
      <4>1. place.pc = "close" /\ place.why = "SELF_DISCONNECT"
        BY <1>1, <3>1, <3>3 DEF Loc, Closing
      <4> QED
        BY <2>2, <2>3, <3>1, <4>1, MainClosing
    <3> QED
      BY <3>2, <3>3
  <2>5. CASE t # Main
    <3>1. Goto(t, Idle) /\ t \in IOThreads
      BY <2>2, <2>5 DEF AfterClose, Thread
    <3>2. Idle.s # c /\ Idle.pc # "start"
      BY <1>1 DEF Idle, Loc
    <3>3. CASE s # c
      BY <2>2, <2>3, <3>1, <3>2, <3>3, ThreadElsewhere
    <3>4. CASE s = c
      BY <2>1, <2>2, <2>3, <3>1, <3>4, ClosingGoesOn
    <3> QED
      BY <3>3, <3>4
  <2> QED
    BY <2>4, <2>5
<1> QED
  BY <1>2, <1>3, <1>4, <1>5 DEF CloseStep

\* What Main handles are packets of accept sessions.
LEMMA MainKeepsConnect ==
    ASSUME IInv, NEW c \in ConnectSession, ConnectInv(c), MainStep
    PROVE  ConnectInv(c)'
<1>1. ops \in [Session -> [OpKind -> Nat]] /\ c \in Session /\ TypeOK /\ Main \in Thread
  BY TwoPools DEF IInv, TypeOK, Thread
<1>2. c # NoSession /\ c \notin AcceptSession
  BY TwoPools
<1>3. at[Main].pc \in ReusePC => at[Main].s # c
  BY DEF ConnectInv, ConnectMain, ReusePC
<1>4. CASE Start
  <2>1. PICK posted \in SUBSET AcceptSession :
           /\ used' = [s \in Session |-> s \in posted]
           /\ sockState' = [s \in Session |-> IF s \in posted THEN "INIT" ELSE sockState[s]]
           /\ ops' = [s \in Session |->
                        IF s \in posted THEN [ops[s] EXCEPT !["accept"] = 1] ELSE ops[s]]
           /\ Goto(Main, Loc(IF posted = AcceptSession THEN "front" ELSE "done", NoSession))
    BY <1>4 DEF Start
  <2>2. sockOpen' = sockOpen /\ used[c] = FALSE
    BY <1>1, <1>4 DEF Start, ConnectInv, ConnectSocket, TypeOK
  <2>3. c \notin posted
    BY <1>2
  <2>4. SocketStays(c) /\ ops'[c] = ops[c]
    <3>1. used'[c] = (c \in posted)
      BY <1>1, <2>1
    <3>2. used'[c] = FALSE
      <4>1. ~used'[c]
        BY <2>3, <3>1
      <4>2. used'[c] \in BOOLEAN
        BY <3>1
      <4> QED
        BY <4>1, <4>2
    <3>3. sockState'[c] = sockState[c]
      BY <1>1, <2>1, <2>3
    <3>4. ops'[c] = ops[c]
      BY <1>1, <2>1, <2>3
    <3> QED
      BY <2>2, <3>2, <3>3, <3>4 DEF SocketStays
  <2>5. PICK place \in {Loc("front", NoSession), Loc("done", NoSession)} : Goto(Main, place)
    BY <2>1
  <2>6. place.s # c /\ place.pc # "start"
    BY <1>2 DEF Loc
  <2> QED
    BY <1>1, <2>4, <2>5, <2>6, ThreadElsewhere
<1>5. CASE FrontPacket
  <2>1. Head(packets).sid \in AcceptSession
    <3>1. packets \in Seq(Packet) /\ packets # <<>>
      BY <1>1, <1>5 DEF FrontPacket, TypeOK
    <3>2. Head(packets) \in Packet
      BY <3>1
    <3> QED
      BY <3>2 DEF Packet
  <2>2. PICK place \in {Loc("reuse", Head(packets).sid), Closing(Head(packets).sid, "SELF_DISCONNECT"),
                        Loc("pop", NoSession)} : Goto(Main, place)
    BY <1>5 DEF FrontPacket, FindServerSession
  <2>3. place.s # c /\ place.pc # "start"
    BY <1>2, <2>1 DEF Loc, Closing
  <2>4. SocketStays(c) /\ ops'[c] = ops[c]
    BY <1>5 DEF FrontPacket, SocketStays, socketVars
  <2> QED
    BY <1>1, <2>2, <2>3, <2>4, ThreadElsewhere
<1>6. CASE ReUseSession \/ ResetSession \/ AsyncAccept
  <2>1. at[Main].s # c
    BY <1>3, <1>6 DEF ReUseSession, ResetSession, AsyncAccept, MainAt, ReusePC
  <2>2. SocketStays(c)
    BY <1>1, <1>6, <2>1 DEF ReUseSession, ResetSession, AsyncAccept, SocketStays, socketVars, TypeOK
  <2>3. ops'[c] = ops[c]
    BY <1>1, <1>6, <2>1 DEF ReUseSession, ResetSession, AsyncAccept
  <2>4. PICK place \in {Loc("reset", at[Main].s), Closing(at[Main].s, "BIND_FAILED"),
                        Loc("async", at[Main].s), Loc("pop", NoSession)} : Goto(Main, place)
    BY <1>6 DEF ReUseSession, ResetSession, AsyncAccept
  <2>5. place.s # c /\ place.pc # "start"
    BY <1>2, <2>1 DEF Loc, Closing
  <2> QED
    BY <1>1, <2>2, <2>3, <2>4, <2>5, ThreadElsewhere
<1>7. CASE PopPacket \/ CloseAcceptor \/ Join
  <2>1. SocketStays(c)
    BY <1>7 DEF PopPacket, CloseAcceptor, Join, SocketStays, socketVars
  <2>2. ops'[c] = ops[c]
    <3>1. CASE CloseAcceptor
      <4>1. ops'[c] = [ops[c] EXCEPT !["accept"] = 0, !["acceptErr"] = @ + ops[c]["accept"]]
        BY <1>1, <3>1 DEF CloseAcceptor
      <4>2. ops[c] \in [OpKind -> Nat] /\ ops[c]["accept"] = 0 /\ ops[c]["acceptErr"] = 0
            /\ {"accept", "acceptErr"} \subseteq OpKind
        BY <1>1 DEF ConnectInv, ConnectSocket, AcceptOp, OpKind
      <4> DEFINE g == [ops[c] EXCEPT !["accept"] = 0]
      <4>3. g = ops[c]
        BY <4>2
      <4>4. [g EXCEPT !["acceptErr"] = @ + ops[c]["accept"]] = ops[c]
        BY <4>2, <4>3
      <4> QED
        BY <4>1, <4>4
    <3>2. CASE PopPacket \/ Join
      BY <3>2 DEF PopPacket, Join
    <3> QED
      BY <1>7, <3>1, <3>2
  <2>3. PICK place \in {Loc("front", NoSession), Loc("join", NoSession), Loc("done", NoSession)} :
           Goto(Main, place)
    BY <1>7 DEF PopPacket, CloseAcceptor, Join
  <2>4. place.s # c /\ place.pc # "start"
    BY <1>2 DEF Loc
  <2> QED
    BY <1>1, <2>1, <2>2, <2>3, <2>4, ThreadElsewhere
<1> QED
  BY <1>4, <1>5, <1>6, <1>7 DEF MainStep

\* A session that no connection has taken has no chain.
LEMMA UnusedConnect ==
    ASSUME TypeOK, NEW c \in Session, ConnectInv(c), ~used[c]
    PROVE  NoOps(c) /\ ~HasHandler(c) /\ \A t \in IOThreads : at[t].s # c
<1>1. NoOps(c)
  BY NoOpMeans DEF ConnectInv, ConnectSocket
<1>2. \A t \in IOThreads : at[t].s # c
  BY DEF ConnectInv, ConnectHandler
<1> QED
  BY <1>1, <1>2 DEF HasHandler, Owns

LEMMA CallsKeepConnect ==
    ASSUME IInv, NEW c \in ConnectSession, ConnectInv(c),
           Stop \/ \E d \in ConnectSession : Connect(d) \/ ConnectThrows(d) \/ ConnectFails(d)
    PROVE  ConnectInv(c)'
<1>1. ops \in [Session -> [OpKind -> Nat]] /\ c \in Session /\ TypeOK
  BY TwoPools DEF IInv, TypeOK
<1>2. CASE Stop
  <2>1. SocketStays(c) /\ ops'[c] = ops[c] /\ Goto(Main, Closing(0, "SELF_DISCONNECT"))
    BY <1>2 DEF Stop, SocketStays, socketVars
  <2> QED
    BY <2>1, MainClosing DEF Closing
<1>3. ASSUME NEW d \in ConnectSession, Connect(d)
      PROVE  ConnectInv(c)'
  <2>1. /\ at' = at /\ used' = [used EXCEPT ![d] = TRUE]
        /\ sockState' = [sockState EXCEPT ![d] = "CONNECT"]
        /\ sockOpen' = [sockOpen EXCEPT ![d] = TRUE]
        /\ ops' = [ops EXCEPT ![d]["recv"] = @ + 1]
        /\ MainAt("front") /\ ~used[d]
    BY <1>3 DEF Connect, UnUseConnectSession, CanPostAccept
  <2>2. CASE d # c
    <3>1. SocketStays(c) /\ ops'[c] = ops[c]
      BY <1>1, <2>1, <2>2 DEF SocketStays, TypeOK
    <3> QED
      BY <2>1, <3>1, NobodyElsewhere
  <2>3. CASE d = c
    <3>1. NoOps(c) /\ ~HasHandler(c) /\ \A t \in IOThreads : at[t].s # c
      BY <1>1, <2>1, <2>3, UnusedConnect
    <3>2. "recv" \in OpKind /\ "recv" \notin AcceptOp /\ AcceptOp \subseteq OpKind
      BY DEF OpKind, AcceptOp
    <3>3. OneOp(c, "recv")'
      BY <1>1, <2>1, <2>3, <3>1, <3>2, AddedOps
    <3>4. Chain(c)'
      <4>1. ~HasHandler(c)'
        BY <2>1, <3>1 DEF HasHandler, Owns
      <4> QED
        BY <3>2, <3>3, <4>1, ChainIsOp
    <3>5. ConnectSocket(c)'
      <4>1. used'[c] /\ sockState'[c] = "CONNECT" /\ sockOpen'[c]
        BY <1>1, <2>1, <2>3 DEF TypeOK
      <4>2. \A k \in AcceptOp : ops'[c][k] = 0
        BY <3>2, <3>3 DEF OneOp
      <4> QED
        BY <2>1, <4>1, <4>2 DEF ConnectSocket, MainAt
    <3>6. ConnectMain(c)' /\ \A t \in IOThreads : ConnectHandler(t, c)'
      BY <2>1, <3>1 DEF ConnectInv, ConnectMain, ConnectHandler
    <3> QED
      BY <3>4, <3>5, <3>6 DEF ConnectInv
  <2> QED
    BY <2>2, <2>3
<1>4. ASSUME NEW d \in ConnectSession, ConnectThrows(d)
      PROVE  ConnectInv(c)'
  <2>1. /\ at' = at /\ used' = [used EXCEPT ![d] = TRUE]
        /\ sockState' = [sockState EXCEPT ![d] = "CONNECT"]
        /\ sockOpen' = [sockOpen EXCEPT ![d] = TRUE]
        /\ ops' = ops /\ MainAt("front") /\ ~used[d]
    BY <1>4 DEF ConnectThrows, UnUseConnectSession, CanPostAccept
  <2>2. CASE d # c
    <3>1. SocketStays(c)
      BY <1>1, <2>1, <2>2 DEF SocketStays, TypeOK
    <3> QED
      BY <2>1, <3>1, NobodyElsewhere
  <2>3. CASE d = c
    <3>1. Chain(c)'
      BY <2>1 DEF ConnectInv, Chain, HasOp, HasHandler, Owns
    <3>2. ConnectSocket(c)'
      <4>1. used'[c] /\ sockState'[c] = "CONNECT" /\ sockOpen'[c]
        BY <1>1, <2>1, <2>3 DEF TypeOK
      <4> QED
        BY <2>1, <4>1 DEF ConnectInv, ConnectSocket, MainAt
    <3>3. ConnectMain(c)' /\ \A t \in IOThreads : ConnectHandler(t, c)'
      <4>1. \A t \in IOThreads : at[t].s # c
        BY <1>1, <2>1, <2>3, UnusedConnect
      <4> QED
        BY <2>1, <4>1 DEF ConnectInv, ConnectMain, ConnectHandler
    <3> QED
      BY <3>1, <3>2, <3>3 DEF ConnectInv
  <2> QED
    BY <2>2, <2>3
<1>5. ASSUME NEW d \in ConnectSession, ConnectFails(d)
      PROVE  ConnectInv(c)'
  <2>1. /\ at' = at /\ used' = used /\ sockOpen' = sockOpen /\ ops' = ops
        /\ sockState' = [sockState EXCEPT ![d] = "INIT"]
        /\ MainAt("front") /\ ~used[d]
    BY <1>5 DEF ConnectFails, UnUseConnectSession, CanPostAccept
  <2>2. CASE d # c
    <3>1. SocketStays(c)
      BY <1>1, <2>1, <2>2 DEF SocketStays, TypeOK
    <3> QED
      BY <2>1, <3>1, NobodyElsewhere
  <2>3. CASE d = c
    <3>1. Chain(c)'
      BY <2>1 DEF ConnectInv, Chain, HasOp, HasHandler, Owns
    <3>2. ConnectSocket(c)'
      BY <2>1, <2>3 DEF ConnectInv, ConnectSocket, HasOp, MainAt
    <3>3. ConnectMain(c)' /\ \A t \in IOThreads : ConnectHandler(t, c)'
      BY <2>1, <2>3 DEF ConnectInv, ConnectMain, ConnectHandler
    <3> QED
      BY <3>1, <3>2, <3>3 DEF ConnectInv
  <2> QED
    BY <2>2, <2>3
<1> QED
  BY <1>2, <1>3, <1>4, <1>5

LEMMA ConnectsInit == Init => ConnectsInv
<1> SUFFICES ASSUME Init, NEW c \in ConnectSession
             PROVE  ConnectInv(c)
  BY DEF ConnectsInv
<1>1. c \in Session /\ c # NoSession
  BY TwoPools
<1>2. /\ \A k \in OpKind : ops[c][k] = 0
      /\ used[c] = FALSE
      /\ at[Main].s = NoSession /\ \A t \in IOThreads : at[t].s = NoSession
  BY <1>1, ThreadsAssumption DEF Init, Thread, Loc, Idle
<1>3. AcceptOp \subseteq OpKind /\ ~HasOp(c)
  BY <1>2 DEF AcceptOp, OpKind, HasOp
<1> QED
  BY <1>1, <1>2, <1>3 DEF ConnectInv, Chain, ConnectSocket, ConnectHandler, ConnectMain, Owns

LEMMA ConnectsNext ==
    ASSUME IInv, ConnectsInv, [Next]_vars
    PROVE  ConnectsInv'
<1> SUFFICES ASSUME NEW c \in ConnectSession
             PROVE  ConnectInv(c)'
  BY DEF ConnectsInv
<1>1. ConnectInv(c)
  BY DEF ConnectsInv
<1>2. CASE UNCHANGED vars
  BY <1>1, <1>2, NobodyElsewhere DEF vars, SocketStays
<1>3. CASE Next
  <2>1. CASE Environment
    BY <1>1, <2>1, NetworkKeepsConnect, CallsKeepConnect DEF Environment
  <2> QED
    BY <1>1, <1>3, <2>1, MainKeepsConnect, CloseKeepsConnect, HandlerKeepsConnect, TakenKeepsConnect
    DEF Next
<1> QED
  BY <1>2, <1>3

LEMMA ConnectsInvAlways == Spec => [](IInv /\ ConnectsInv)
<1>1. IInv /\ ConnectsInv /\ [Next]_vars => (IInv /\ ConnectsInv)'
  BY NextKeepsIInv, ConnectsNext
<1>2. Init => IInv /\ ConnectsInv
  BY InitEstablishesIInv, ConnectsInit
<1> QED
  BY <1>1, <1>2, PTL DEF Spec

(***************************************************************************)
(* For any number of sessions, threads and packets and every fault of the  *)
(* platform: a connection that the server makes has one receive chain,     *)
(* whatever the packets that carry its id make Main do to the accept       *)
(* session of that id (SFServerSessionMgr.h:53, SFTCPSocket.h:96,          *)
(* 304-337).                                                               *)
(***************************************************************************)
THEOREM OneReceiveChainAlways == Spec => []OneReceiveChain
<1>1. IInv /\ ConnectsInv => OneReceiveChain
  <2> SUFFICES ASSUME IInv, ConnectsInv, NEW c \in ConnectSession
               PROVE  /\ \A k \in OpKind : ops[c][k] <= 1
                      /\ \A x, y \in Owners(c) : x = y
    BY DEF OneReceiveChain
  <2>1. Chain(c) /\ ConnectMain(c)
    BY DEF ConnectsInv, ConnectInv
  <2>2. \A i \in DOMAIN packets : ~Awaits(i, c)
    <3>1. \A i \in DOMAIN packets : packets[i] \in Packet
      BY DEF IInv, TypeOK
    <3>2. c \notin AcceptSession
      BY TwoPools
    <3>3. ASSUME NEW i \in DOMAIN packets, Awaits(i, c)
          PROVE  FALSE
      <4>1. packets[i].sid = c /\ packets[i].sid \in AcceptSession
        BY <3>1, <3>3 DEF Awaits, Packet
      <4> QED
        BY <3>2, <4>1
    <3> QED
      BY <3>3
  <2>3. \A pc \in {"reuse", "reset", "async"} : at[Main] # Loc(pc, c)
    BY <2>1 DEF ConnectMain, Loc
  <2>4. \A x \in Owners(c) :
           \/ \E k \in OpKind : ops[c][k] > 0 /\ x = <<"operation", k>>
           \/ \E t \in IOThreads : Owns(t, c) /\ x = <<"handler", t>>
    BY <2>2, <2>3, Zenon DEF Owners
  <2> QED
    BY <2>1, <2>4 DEF Chain, HasOp, HasHandler
<1> QED
  BY <1>1, ConnectsInvAlways, PTL

-----------------------------------------------------------------------------
(* Steps that no calm session has a part in: those of the connect pool and   *)
(* of the sessions that have been disturbed.                                 *)

CalmUntouched == \A r \in Calm' : Untouched(r)

\* Nothing is said of a disturbed session, and no calm one changes.
LEMMA ElsewhereLives ==
    ASSUME LifeInv, IInv', Calm' \subseteq Calm, Roles', GoesOn,
           \A r \in Calm' : Untouched(r) /\ SocketKeeps(r)
    PROVE  LifeInv' /\ CalmUntouched
<1>1. ASSUME NEW r \in Session
      PROVE  OwnerInv(r)'
  <2>1. CASE r \in Calm'
    BY <2>1, UntouchedOwner DEF LifeInv
  <2>2. CASE r \notin Calm'
    BY <2>2 DEF OwnerInv
  <2> QED
    BY <2>1, <2>2
<1> QED
  BY <1>1 DEF LifeInv, CalmUntouched

\* What a connection receives is queued under the id of an accept session, but
\* says nothing of that session's ACCEPT or CLOSE.
LEMMA ElsewherePushes ==
    ASSUME IInv, Roles, NEW s \in Session, s \notin Calm', NEW id \in PacketID, Push(id, s),
           id \in {"DATA", "REQ_CLOSE_SESSION"} \/ SessionID(s) \notin Calm'
    PROVE  /\ \A r \in Calm' : QueueKeeps(r)
           /\ headInHand' => headInHand /\ packets' # <<>>
<1>1. PICK d \in {0, 1} : Pushed(id, SessionID(s), d)
  BY PushMoves
<1>2. SessionID(s) \notin Calm' \/ id \notin Told(SessionID(s))
  <2>1. CASE s \in AcceptSession
    BY <2>1 DEF SessionID
  <2>2. CASE s \in ConnectSession
    BY <2>2 DEF Told, Namesakes
  <2> QED
    BY <2>1, <2>2, TwoPools
<1>3. \A r \in Calm' : r \in Session /\ (r # SessionID(s) \/ id \notin Told(SessionID(s)))
  BY <1>2, CalmAccepts
<1> QED
  BY <1>1, <1>3, PushKeepsOthers DEF Pushed

\* An IO thread that works on such a session.
LEMMA HandlerElsewhere ==
    ASSUME LifeInv, IInv', Calm' \subseteq Calm, ~MainAt("start"),
           NEW t \in IOThreads, NEW s \in Session, s \notin Calm', NEW place, Goto(t, place),
           at[t].s = s \/ at[t].pc = "idle", place.s = s \/ place = Idle,
           place.pc \in IOPC,
           place.pc \in {"close", "notify"} => place.why \in {"NETWORK_ON_CLOSE", "ACCEPT_FAILED"},
           place.pc \in OwningPC => place.why = "none",
           headInHand' => headInHand /\ packets' # <<>>,
           \A r \in Calm' : ops'[r] = ops[r] /\ QueueKeeps(r) /\ SocketKeeps(r)
    PROVE  LifeInv' /\ CalmUntouched
<1>1. IInv /\ Roles
  BY DEF LifeInv
<1>2. Roles' /\ GoesOn
  BY <1>1, RolesOfHandler
<1>3. \A r \in Calm' : Untouched(r)
  BY <1>1, CalmAccepts, HandlerMoves DEF Untouched
<1> QED
  BY <1>2, <1>3, ElsewhereLives

\* Main, while it reuses or closes such a session.
LEMMA MainElsewhere ==
    ASSUME LifeInv, IInv', Calm' \subseteq Calm, ~MainAt("start"), ~MainAt("done"),
           NEW place, Goto(Main, place),
           place.pc \in MainPC \ {"start", "front"},
           place.pc \in {"close", "notify"} => place.s \in AcceptSession \ Calm',
           place.pc \in ReusePC => place.why = "none" /\ place.s \notin Calm',
           headInHand' => packets' # <<>>,
           \A r \in Calm' : ~MainHas(r) /\ ops'[r] = ops[r] /\ QueueKeeps(r) /\ SocketKeeps(r)
    PROVE  LifeInv' /\ CalmUntouched
<1>1. IInv /\ Roles
  BY DEF LifeInv
<1>2. Roles' /\ GoesOn
  BY <1>1, RolesOfMain
<1>3. \A r \in Calm' : place.pc \notin ReusePC \/ place.s # r
  OBVIOUS
<1>4. \A r \in Calm' : Untouched(r)
  BY <1>1, <1>3, CalmAccepts, MainMoves DEF Untouched
<1> QED
  BY <1>2, <1>4, ElsewhereLives

LEMMA TakenElsewhere ==
    ASSUME LifeInv, IInv', Calm' \subseteq Calm, NEW t \in IOThreads,
           NEW s \in Session, s \notin Calm', RunHandler(t, s)
    PROVE  LifeInv' /\ CalmUntouched
<1>1. TypeOK /\ Roles /\ IInv
  BY DEF LifeInv, IInv
<1>2. PICK k \in OpKind : ops[s][k] > 0 /\ ops' = [ops EXCEPT ![s][k] = @ - 1]
  BY DEF RunHandler, OnAcceptOk, OnAcceptErr, OnRecvOk, OnRecvErr, OnRecvErrWithBytes, OpKind
<1>3. ~MainAt("start")
  BY <1>1, <1>2, HasStarted
<1>4. \A r \in Calm' : r \in Session /\ r # s /\ ops'[r] = ops[r]
  BY <1>1, <1>2, CalmAccepts DEF TypeOK
<1>5. \A r \in Calm' : SocketKeeps(r)
  <2>1. CASE OnAcceptOk(t, s) \/ OnAcceptErr(t, s)
    BY <1>1, <1>4, <2>1 DEF OnAcceptOk, OnAcceptErr, SetUnUsed, SocketKeeps, TypeOK
  <2>2. CASE UNCHANGED socketVars
    BY <2>2 DEF SocketKeeps, socketVars
  <2> QED
    BY <2>1, <2>2 DEF RunHandler, OnRecvOk, OnRecvErr, OnRecvErrWithBytes
<1>6. CASE ~OnRecvErrWithBytes(t, s)
  <2>1. at[t].pc = "idle" /\ UNCHANGED queueVars
    BY <1>6 DEF RunHandler, OnAcceptOk, OnAcceptErr, OnRecvOk, OnRecvErr
  <2>2. PICK place \in {Idle, Loc("acceptOk", s), Loc("acceptErr", s), Loc("process", s),
                        Closing(s, "NETWORK_ON_CLOSE")} : Goto(t, place)
    BY <1>6 DEF RunHandler, OnAcceptOk, OnAcceptErr, OnRecvOk, OnRecvErr
  <2>3. /\ place.s = s \/ place = Idle
        /\ \/ place.pc \in {"idle", "acceptOk", "acceptErr", "process"} /\ place.why = "none"
           \/ place.pc = "close" /\ place.why = "NETWORK_ON_CLOSE"
    BY <2>2 DEF Loc, Closing, Idle
  <2>4. /\ place.pc \in IOPC
        /\ place.pc \in {"close", "notify"} => place.why \in {"NETWORK_ON_CLOSE", "ACCEPT_FAILED"}
        /\ place.pc \in OwningPC => place.why = "none"
    BY <2>3 DEF IOPC, OwningPC
  <2>5. headInHand' => headInHand /\ packets' # <<>>
    BY <1>1, <2>1, RolesQueue
  <2>6. \A r \in Calm' : QueueKeeps(r)
    BY <1>1, <1>4, <2>1, QueueStays
  <2> QED
    BY <1>3, <1>4, <1>5, <2>1, <2>2, <2>3, <2>4, <2>5, <2>6, HandlerElsewhere
<1>7. CASE OnRecvErrWithBytes(t, s)
  <2>1. at' = at
    BY <1>7 DEF OnRecvErrWithBytes
  <2>2. /\ headInHand' => headInHand /\ packets' # <<>>
        /\ \A r \in Calm' : QueueKeeps(r)
    <3>1. CASE UNCHANGED queueVars
      BY <1>1, <1>4, <3>1, QueueStays, RolesQueue
    <3>2. CASE NotifyReqCloseSession(s)
      BY <1>1, <3>2, ElsewherePushes DEF NotifyReqCloseSession, PacketID
    <3> QED
      BY <1>7, <3>1, <3>2 DEF OnRecvErrWithBytes
  <2>3. Roles' /\ GoesOn
    BY <1>1, <1>3, <2>1, <2>2, RolesStay
  <2>4. \A r \in Calm' : Untouched(r)
    BY <1>4, <2>1, <2>2, NobodyMoves DEF Untouched
  <2> QED
    BY <1>5, <2>3, <2>4, ElsewhereLives
<1> QED
  BY <1>6, <1>7

\* Only accept sessions are announced, and a peer that imitates an inner id
\* disturbs the session of that id.
LEMMA HandlerStepElsewhere ==
    ASSUME LifeInv, ConnectsInv, IInv', Calm' \subseteq Calm, NEW t \in IOThreads,
           at[t].s \notin Calm', HandlerStep(t)
    PROVE  LifeInv' /\ CalmUntouched
<1>1. TypeOK /\ Roles /\ IInv
  BY DEF LifeInv, IInv
<1>2. at[t].pc \in OwningPC
  BY DEF HandlerStep, AcceptFailed, AcceptProcessing, Announce, ContinueRecv, ProcessRecvData,
     OwningPC
<1>3. PICK s \in Session : at[t].s = s
  BY <1>1, <1>2 DEF IInv, HasSession, NoSessionPC, OwningPC, Thread
<1>4. ~MainAt("start")
  BY <1>1, <1>2, HasStarted DEF OwningPC
<1>5. \A r \in Calm' : r \in Session /\ r # s
  BY <1>3, CalmAccepts
<1>6. \A r \in Calm' : ops'[r] = ops[r] /\ SocketKeeps(r)
  <2>1. CASE AcceptProcessing(t)
    BY <1>1, <1>3, <1>5, <2>1 DEF AcceptProcessing, SocketKeeps, TypeOK
  <2>2. CASE ContinueRecv(t)
    BY <1>1, <1>3, <1>5, <2>2 DEF ContinueRecv, PostRecv, SocketKeeps, socketVars, TypeOK
  <2>3. CASE AcceptFailed(t) \/ Announce(t) \/ ProcessRecvData(t)
    BY <2>3 DEF AcceptFailed, Announce, ProcessRecvData, SocketKeeps, socketVars
  <2> QED
    BY <2>1, <2>2, <2>3 DEF HandlerStep
<1>7. /\ headInHand' => headInHand /\ packets' # <<>>
      /\ \A r \in Calm' : QueueKeeps(r)
  <2>1. CASE UNCHANGED queueVars
    BY <1>1, <1>5, <2>1, QueueStays, RolesQueue
  <2>2. CASE Push("DATA", s) \/ Push("REQ_CLOSE_SESSION", s)
    BY <1>1, <1>3, <2>2, ElsewherePushes DEF PacketID
  <2>3. ASSUME Announce(t), Push("ACCEPT", s)
        PROVE  SessionID(s) \notin Calm'
    <3>1. s \notin ConnectSession
      BY <1>3, <2>3 DEF Announce, ConnectsInv, ConnectInv, ConnectHandler
    <3> QED
      BY <1>3, <3>1, TwoPools DEF SessionID
  <2>4. CASE Announce(t) /\ Push("ACCEPT", s)
    BY <1>1, <1>3, <2>3, <2>4, ElsewherePushes DEF PacketID
  <2>5. ASSUME NEW id \in PacketID, Push(id, s), Imitates(id, SessionID(s))
        PROVE  /\ headInHand' => headInHand /\ packets' # <<>>
               /\ \A r \in Calm' : QueueKeeps(r)
    <3>1. SessionID(s) \notin Calm'
      BY <1>1, <2>5, SessionIDType, ImitationDisturbs
    <3> QED
      BY <1>1, <1>3, <2>5, <3>1, ElsewherePushes
  <2>6. CASE ProcessRecvData(t)
    BY <1>3, <2>1, <2>2, <2>5, <2>6 DEF ProcessRecvData, NotifyReqCloseSession
  <2>7. CASE Announce(t)
    BY <1>3, <2>1, <2>4, <2>7 DEF Announce, NotifyAccept
  <2> QED
    BY <2>1, <2>6, <2>7 DEF HandlerStep, AcceptFailed, AcceptProcessing, ContinueRecv
<1>8. CASE at' = at
  <2>1. Roles' /\ GoesOn
    BY <1>1, <1>4, <1>7, <1>8, RolesStay
  <2>2. \A r \in Calm' : Untouched(r)
    BY <1>5, <1>6, <1>7, <1>8, NobodyMoves DEF Untouched
  <2> QED
    BY <1>6, <2>1, <2>2, ElsewhereLives
<1>9. CASE at' # at
  <2>1. PICK place \in {Idle, Loc("announce", s), Loc("postRecv", s),
                        Closing(s, "ACCEPT_FAILED")} : Goto(t, place)
    BY <1>3, <1>9 DEF HandlerStep, AcceptFailed, AcceptProcessing, Announce, ContinueRecv,
       ProcessRecvData
  <2>2. /\ place.s = s \/ place = Idle
        /\ \/ place.pc \in {"idle", "announce", "postRecv"} /\ place.why = "none"
           \/ place.pc = "close" /\ place.why = "ACCEPT_FAILED"
    BY <2>1 DEF Loc, Closing, Idle
  <2>3. /\ place.pc \in IOPC
        /\ place.pc \in {"close", "notify"} => place.why \in {"NETWORK_ON_CLOSE", "ACCEPT_FAILED"}
        /\ place.pc \in OwningPC => place.why = "none"
    BY <2>2 DEF IOPC, OwningPC
  <2> QED
    BY <1>3, <1>4, <1>6, <1>7, <2>1, <2>2, <2>3, HandlerElsewhere
<1> QED
  BY <1>8, <1>9

\* An IO thread closes such a session, or reports it closed: a connection that
\* is reported closed has disturbed the accept session of its id.
LEMMA HandlerClosesElsewhere ==
    ASSUME LifeInv, ConnectsInv, IInv', Calm' \subseteq Calm, NEW t \in IOThreads,
           at[t].s \notin Calm', CloseBegin(t) \/ CloseNotify(t)
    PROVE  LifeInv' /\ CalmUntouched
<1>1. TypeOK /\ Roles /\ IInv /\ at[t].pc \in {"close", "notify"} /\ at[t] \in Place
  BY DEF LifeInv, IInv, CloseBegin, CloseNotify, TypeOK, Thread
<1>2. PICK s \in Session : at[t].s = s
  BY <1>1 DEF IInv, HasSession, NoSessionPC, Thread
<1>3. ~MainAt("start") /\ at[t].why \in {"NETWORK_ON_CLOSE", "ACCEPT_FAILED"}
  BY <1>1, HasStarted DEF Roles
<1>4. \A r \in Calm' : r \in Session /\ r # s
  BY <1>2, CalmAccepts
<1>5. \A r \in Calm' : ops'[r] = ops[r] /\ SocketKeeps(r)
  <2>1. CASE CloseBegin(t)
    BY <1>1, <1>2, <1>4, <2>1 DEF CloseBegin, SocketKeeps, TypeOK
  <2>2. CASE CloseNotify(t)
    BY <2>2 DEF CloseNotify, SocketKeeps, socketVars
  <2> QED
    BY <2>1, <2>2
<1>6. /\ headInHand' => headInHand /\ packets' # <<>>
      /\ \A r \in Calm' : QueueKeeps(r)
  <2>1. CASE UNCHANGED queueVars
    BY <1>1, <1>4, <2>1, QueueStays, RolesQueue
  <2>2. CASE CloseNotify(t)
    <3>1. SessionID(s) \notin Calm'
      <4>1. CASE s \in AcceptSession
        BY <1>2, <4>1 DEF SessionID
      <4>2. CASE s \in ConnectSession
        <5>1. used[s] /\ sockState[s] = "CLOSE"
          BY <1>2, <2>2, <4>2 DEF CloseNotify, ConnectsInv, ConnectInv, ConnectHandler
        <5>2. SessionID(s) \notin Calm
          BY <4>2, <5>1 DEF Calm, Undisturbed, Namesakes
        <5> QED
          BY <5>2
      <4> QED
        BY <4>1, <4>2, TwoPools
    <3>2. Push("CLOSE", s)
      BY <1>2, <2>2 DEF CloseNotify, NotifyDisconnect
    <3> QED
      BY <1>1, <1>2, <3>1, <3>2, ElsewherePushes DEF PacketID
  <2> QED
    BY <2>1, <2>2 DEF CloseBegin
<1>7. PICK pc \in {"notify", "closed"} : Goto(t, [at[t] EXCEPT !.pc = pc])
  BY DEF CloseBegin, CloseNotify
<1> DEFINE place == [at[t] EXCEPT !.pc = pc]
<1>8. place.s = s /\ place.pc = pc /\ place.why = at[t].why
  BY <1>1, <1>2 DEF Place
<1>9. Goto(t, place)
  BY <1>7
<1> HIDE DEF place
<1>10. place.pc \in IOPC /\ place.pc \notin OwningPC
  BY <1>8 DEF IOPC, OwningPC
<1> QED
  BY <1>2, <1>3, <1>5, <1>6, <1>8, <1>9, <1>10, HandlerElsewhere

\* Main disconnects a session that it could not bind again.
LEMMA MainClosesElsewhere ==
    ASSUME LifeInv, IInv', Calm' \subseteq Calm, ProcessRuns,
           \/ CloseBegin(Main) /\ at[Main].why # "SELF_DISCONNECT"
           \/ CloseNotify(Main)
    PROVE  LifeInv' /\ CalmUntouched
<1>1. /\ TypeOK /\ Roles /\ IInv /\ Main \in Thread
      /\ at[Main].pc \in {"close", "notify"} /\ at[Main] \in Place
  BY DEF LifeInv, IInv, CloseBegin, CloseNotify, TypeOK, Thread
<1>2. PICK s \in AcceptSession \ Calm : at[Main].s = s
  BY <1>1 DEF CloseBegin, CloseNotify, Roles
<1>3. /\ s \in Session /\ s \in AcceptSession \ Calm' /\ SessionID(s) = s
      /\ \A r \in Calm' : r \in Session /\ r # s
  BY <1>2, CalmAccepts, AcceptSessionIsSession DEF SessionID
<1>4. ~MainAt("start") /\ ~MainAt("done") /\ \A r \in Calm' : ~MainHas(r)
  BY <1>1 DEF MainAt, MainHas, ReusePC
<1>5. \A r \in Calm' : ops'[r] = ops[r] /\ SocketKeeps(r)
  <2>1. CASE CloseBegin(Main)
    BY <1>1, <1>2, <1>3, <2>1 DEF CloseBegin, SocketKeeps, TypeOK
  <2>2. CASE CloseNotify(Main)
    BY <2>2 DEF CloseNotify, SocketKeeps, socketVars
  <2> QED
    BY <2>1, <2>2
<1>6. /\ headInHand' => headInHand /\ packets' # <<>>
      /\ \A r \in Calm' : QueueKeeps(r)
  <2>1. CASE UNCHANGED queueVars
    BY <1>1, <1>3, <2>1, QueueStays, RolesQueue
  <2>2. CASE CloseNotify(Main)
    <3>1. Push("CLOSE", s)
      BY <1>2, <2>2 DEF CloseNotify, NotifyDisconnect
    <3> QED
      BY <1>1, <1>3, <3>1, ElsewherePushes DEF PacketID
  <2> QED
    BY <2>1, <2>2 DEF CloseBegin
<1>7. PICK pc \in {"notify", "closed"} : Goto(Main, [at[Main] EXCEPT !.pc = pc])
  BY DEF CloseBegin, CloseNotify
<1> DEFINE place == [at[Main] EXCEPT !.pc = pc]
<1>8. place.s = s /\ place.pc = pc
  BY <1>1, <1>2 DEF Place
<1>9. Goto(Main, place)
  BY <1>7
<1> HIDE DEF place
<1>10. place.pc \in MainPC \ {"start", "front"} /\ place.pc \notin ReusePC
  BY <1>8 DEF MainPC, ReusePC
<1> QED
  BY <1>3, <1>4, <1>5, <1>6, <1>8, <1>9, <1>10, MainElsewhere

\* Main reuses a session that is taken for closed.
LEMMA ReusesElsewhere ==
    ASSUME LifeInv, IInv', Calm' \subseteq Calm, at[Main].s \in AcceptSession \ Calm',
           ReUseSession \/ ResetSession \/ AsyncAccept
    PROVE  LifeInv' /\ CalmUntouched
<1>1. TypeOK /\ Roles /\ IInv
  BY DEF LifeInv, IInv
<1>2. PICK s \in AcceptSession \ Calm' : at[Main].s = s
  OBVIOUS
<1>3. \A r \in Calm' : r \in Session /\ r # s
  BY <1>2, CalmAccepts
<1>4. ~MainAt("start") /\ ~MainAt("done")
  BY DEF ReUseSession, ResetSession, AsyncAccept, MainAt
<1>5. \A r \in Calm' : ~MainHas(r)
  BY <1>2, <1>3 DEF MainHas
<1>6. PICK place \in {Loc("reset", s), Closing(s, "BIND_FAILED"), Loc("async", s),
                      Loc("pop", NoSession)} : Goto(Main, place)
  BY <1>2 DEF ReUseSession, ResetSession, AsyncAccept
<1>7. \/ place.pc \in {"reset", "async"} /\ place.s = s /\ place.why = "none"
      \/ place.pc = "close" /\ place.s = s
      \/ place.pc = "pop"
  BY <1>6 DEF Loc, Closing
<1>8. /\ place.pc \in MainPC \ {"start", "front"}
      /\ place.pc \in {"close", "notify"} => place.s \in AcceptSession \ Calm'
      /\ place.pc \in ReusePC => place.why = "none" /\ place.s \notin Calm'
  BY <1>2, <1>7 DEF MainPC, ReusePC
<1>9. \A r \in Calm' : ops'[r] = ops[r] /\ SocketKeeps(r)
  BY <1>1, <1>2, <1>3 DEF ReUseSession, ResetSession, AsyncAccept, SocketKeeps, socketVars, TypeOK
<1>10. /\ headInHand' => packets' # <<>>
       /\ \A r \in Calm' : QueueKeeps(r)
  <2>1. CASE UNCHANGED queueVars
    BY <1>1, <1>3, <2>1, QueueStays, RolesQueue
  <2>2. CASE ClearPackets
    BY <1>3, <2>2, QueueCleared DEF ClearPackets
  <2> QED
    BY <2>1, <2>2 DEF ReUseSession, ResetSession, AsyncAccept
<1> QED
  BY <1>4, <1>5, <1>6, <1>8, <1>9, <1>10, MainElsewhere

\* Connect, which works on no accept session, and when it fails clears the queue.
LEMMA CallsElsewhere ==
    ASSUME LifeInv, IInv', Calm' \subseteq Calm, NEW c \in ConnectSession,
           Connect(c) \/ ConnectThrows(c) \/ ConnectFails(c)
    PROVE  LifeInv' /\ CalmUntouched
<1>1. TypeOK /\ Roles /\ IInv /\ \A r \in Calm' : r \in Session /\ r # c
  BY TwoPools, CalmAccepts DEF LifeInv, IInv
<1>2. MainAt("front") /\ ~MainAt("start") /\ at' = at
  BY DEF Connect, ConnectThrows, ConnectFails, MainAt
<1>3. \A r \in Calm' : ops'[r] = ops[r] /\ SocketKeeps(r)
  BY <1>1 DEF Connect, ConnectThrows, ConnectFails, SocketKeeps, TypeOK
<1>4. /\ headInHand' => headInHand /\ packets' # <<>>
      /\ \A r \in Calm' : QueueKeeps(r)
  <2>1. CASE UNCHANGED queueVars
    BY <1>1, <2>1, QueueStays, RolesQueue
  <2>2. CASE ClearPackets
    BY <1>1, <2>2, QueueCleared DEF ClearPackets
  <2> QED
    BY <2>1, <2>2 DEF Connect, ConnectThrows, ConnectFails
<1>5. Roles' /\ GoesOn
  BY <1>1, <1>2, <1>4, RolesStay
<1>6. \A r \in Calm' : Untouched(r)
  BY <1>1, <1>2, <1>3, <1>4, NobodyMoves DEF Untouched
<1> QED
  BY <1>3, <1>5, <1>6, ElsewhereLives

-----------------------------------------------------------------------------
(* The whole server.                                                        *)

LEMMA LifeInit == Init => LifeInv
<1> SUFFICES ASSUME Init PROVE LifeInv
  OBVIOUS
<1>1. IInv
  BY InitEstablishesIInv
<1>2. /\ \A s \in Session, k \in OpKind : ops[s][k] = 0
      /\ packets = <<>> /\ ~headInHand /\ DOMAIN packets = {}
  BY DEF Init
<1>3. at[Main] = Loc("start", NoSession) /\ \A t \in IOThreads : at[t] = Idle
  BY ThreadsAssumption DEF Init, Thread
<1>4. Roles
  BY <1>2, <1>3 DEF Roles, MainAt, Loc, Idle, MainPC, ReusePC, IOPC
<1>5. ASSUME NEW s \in Session
      PROVE  OwnerInv(s)
  <2>1. ~HasPacket(s) /\ Silent(s)
    BY <1>2 DEF HasPacket, Silent
  <2>2. ~HasHandler(s)
    BY <1>3 DEF HasHandler, Owns, Idle, Loc, NoSession, Session
  <2>3. ~MainHas(s) /\ MainAt("start")
    BY <1>3 DEF MainHas, ReusePC, MainAt, Loc
  <2>4. \A k \in OpKind : ops[s][k] = 0 /\ ~(ops[s][k] > 0) /\ ops[s][k] <= 1
    BY <1>2
  <2>5. AcceptOp \subseteq OpKind /\ RecvOp \subseteq OpKind
    BY DEF AcceptOp, RecvOp, OpKind
  <2>6. Exclusive(s)
    BY <1>2, <2>1, <2>2, <2>3, <2>4 DEF Exclusive, HasOp, HasHandler
  <2>7. SocketInv(s)
    BY <2>1, <2>2, <2>3, <2>4, <2>5 DEF SocketInv, HasHandler
  <2>8. PacketInv(s)
    BY <1>2, <2>1, <2>2, <2>3, <2>4, <2>5 DEF PacketInv, HasHandler
  <2> QED
    BY <2>6, <2>7, <2>8 DEF OwnerInv
<1> QED
  BY <1>1, <1>4, <1>5 DEF LifeInv

\* Main reuses accept sessions only.
LEMMA ReusesAccepts ==
    ASSUME IInv, ConnectsInv, at[Main].pc \in ReusePC
    PROVE  at[Main].s \in AcceptSession
<1>1. at[Main].s \in Session
  BY DEF IInv, HasSession, NoSessionPC, ReusePC, Thread
<1>2. at[Main].s \notin ConnectSession
  BY DEF ConnectsInv, ConnectInv, ConnectMain, ReusePC
<1> QED
  BY <1>1, <1>2, TwoPools

\* A thread that handles or closes a session works on one of the two pools.
LEMMA WorksOnAPool ==
    ASSUME IInv, NEW t \in Thread, at[t].pc \notin NoSessionPC
    PROVE  at[t].s \in AcceptSession \cup ConnectSession
BY TwoPools DEF IInv, HasSession

\* Close: of a calm session by its handler, of any by Main, or elsewhere.
LEMMA CloseStepLives ==
    ASSUME LifeInv, ConnectsInv, IInv', Calm' \subseteq Calm, ProcessRuns,
           NEW t \in Thread, CloseStep(t)
    PROVE  LifeInv'
<1>1. CASE t = Main
  BY <1>1, MainClosesLives, MainClosesElsewhere, ShutdownThrowsLives, CloseEndLives DEF CloseStep
<1>2. CASE t \in IOThreads /\ at[t].s \in Calm'
  BY <1>2, HandlerClosesLives, CloseNotifyLives, ShutdownThrowsLives, CloseEndLives DEF CloseStep
<1>3. CASE t \in IOThreads /\ at[t].s \notin Calm'
  BY <1>3, HandlerClosesElsewhere, ShutdownThrowsLives, CloseEndLives DEF CloseStep
<1> QED
  BY <1>1, <1>2, <1>3 DEF Thread

LEMMA HandlerStepLives ==
    ASSUME LifeInv, ConnectsInv, IInv', Calm' \subseteq Calm, ProcessRuns,
           NEW t \in IOThreads, HandlerStep(t)
    PROVE  LifeInv'
<1>1. CASE at[t].s \in Calm'
  <2>1. at[t].s \in Calm
    BY <1>1
  <2> QED
    BY <1>1, <2>1, AcceptFailedLives, AcceptProcessingLives, AnnounceLives, ContinueRecvLives,
       ProcessLives
    DEF HandlerStep
<1>2. CASE at[t].s \notin Calm'
  BY <1>2, HandlerStepElsewhere
<1> QED
  BY <1>1, <1>2

LEMMA RunHandlerLives ==
    ASSUME LifeInv, IInv', Calm' \subseteq Calm, NEW t \in IOThreads, NEW s \in Session,
           RunHandler(t, s)
    PROVE  LifeInv'
<1>1. CASE s \in Calm'
  <2>1. s \in Calm
    BY <1>1
  <2> QED
    BY <2>1, AcceptTakenLives, ReceiveTakenLives, ReceiveBrokenLives DEF RunHandler
<1>2. CASE s \notin Calm'
  BY <1>2, TakenElsewhere
<1> QED
  BY <1>1, <1>2

LEMMA MainStepLives ==
    ASSUME LifeInv, ConnectsInv, IInv', Calm' \subseteq Calm, MainStep
    PROVE  LifeInv'
<1>1. CASE ReUseSession \/ ResetSession \/ AsyncAccept
  <2>1. at[Main].s \in AcceptSession
    BY <1>1, ReusesAccepts DEF ReUseSession, ResetSession, AsyncAccept, MainAt, ReusePC, LifeInv
  <2>2. CASE at[Main].s \in Calm'
    <3>1. at[Main].s \in Calm
      BY <2>2
    <3> QED
      BY <1>1, <3>1, ReUseSessionLives, ResetSessionLives, AsyncAcceptLives
  <2>3. CASE at[Main].s \notin Calm'
    BY <1>1, <2>1, <2>3, ReusesElsewhere
  <2> QED
    BY <2>2, <2>3
<1>2. CASE Start \/ FrontPacket \/ PopPacket \/ CloseAcceptor \/ Join
  BY <1>2, StartLives, FrontPacketLives, PopPacketLives, CloseAcceptorLives, JoinStopLives
<1> QED
  BY <1>1, <1>2 DEF MainStep

\* What a step leaves of a session of the connect pool that has been taken.
LEMMA SpentStays ==
    ASSUME IInv, NEW c \in ConnectSession, ConnectInv(c), used[c], [Next]_vars
    PROVE  used'[c] /\ (sockState[c] = "CLOSE" => sockState'[c] = "CLOSE")
<1>1. /\ c \in Session /\ c \notin AcceptSession
      /\ used \in [Session -> BOOLEAN] /\ sockState \in [Session -> SocketState]
  BY TwoPools DEF IInv, TypeOK
<1>2. CASE UNCHANGED vars
  BY <1>2 DEF vars
<1>3. CASE Environment
  <2>1. CASE UNCHANGED socketVars
    BY <2>1 DEF socketVars
  <2>2. ASSUME NEW d \in ConnectSession, Connect(d) \/ ConnectThrows(d) \/ ConnectFails(d)
        PROVE  used'[c] /\ sockState'[c] = sockState[c]
    <3>1. d # c
      BY <2>2 DEF Connect, ConnectThrows, ConnectFails, UnUseConnectSession, CanPostAccept
    <3> QED
      BY <1>1, <2>2, <3>1 DEF Connect, ConnectThrows, ConnectFails
  <2> QED
    BY <1>3, <2>1, <2>2 DEF Environment, Stop, PeerConnects, AcceptFails, PeerSends, PeerCloses
<1>4. CASE MainStep
  <2>1. ~Start
    BY DEF Start, ConnectInv, ConnectSocket
  <2>2. CASE ReUseSession \/ ResetSession
    <3>1. at[Main].s # c
      BY <2>2 DEF ReUseSession, ResetSession, MainAt, ConnectInv, ConnectMain
    <3> QED
      BY <1>1, <2>2, <3>1 DEF ReUseSession, ResetSession
  <2>3. CASE UNCHANGED socketVars
    BY <2>3 DEF socketVars
  <2> QED
    BY <1>4, <2>1, <2>2, <2>3 DEF MainStep, FrontPacket, AsyncAccept, PopPacket, CloseAcceptor, Join
<1>5. ASSUME NEW t \in Thread, CloseStep(t)
      PROVE  used'[c] /\ (sockState'[c] = sockState[c] \/ sockState'[c] = "CLOSE")
  BY <1>1, <1>5 DEF CloseStep, CloseBegin, ShutdownThrows, CloseNotify, CloseEnd, socketVars
<1>6. ASSUME NEW t \in IOThreads, HandlerStep(t)
      PROVE  used'[c] /\ sockState'[c] = sockState[c]
  <2>1. CASE AcceptProcessing(t)
    <3>1. at[t].s # c
      BY <2>1 DEF AcceptProcessing, ConnectInv, ConnectHandler
    <3> QED
      BY <1>1, <2>1, <3>1 DEF AcceptProcessing
  <2>2. CASE UNCHANGED socketVars
    BY <2>2 DEF socketVars
  <2> QED
    BY <1>6, <2>1, <2>2 DEF HandlerStep, AcceptFailed, Announce, ContinueRecv, ProcessRecvData
<1>7. ASSUME NEW t \in IOThreads, NEW s \in Session, RunHandler(t, s)
      PROVE  used'[c] /\ sockState'[c] = sockState[c]
  <2>1. CASE OnAcceptOk(t, s) \/ OnAcceptErr(t, s)
    <3>1. s # c
      BY <2>1 DEF OnAcceptOk, OnAcceptErr, ConnectInv, ConnectSocket, AcceptOp
    <3> QED
      BY <1>1, <2>1, <3>1 DEF OnAcceptOk, OnAcceptErr, SetUnUsed
  <2>2. CASE UNCHANGED socketVars
    BY <2>2 DEF socketVars
  <2> QED
    BY <1>7, <2>1, <2>2 DEF RunHandler, OnRecvOk, OnRecvErr, OnRecvErrWithBytes
<1> QED
  BY <1>2, <1>3, <1>4, <1>5, <1>6, <1>7 DEF Next

\* Neither a peer's inner id nor the end of a connection is ever forgotten.
LEMMA CalmShrinks ==
    ASSUME IInv, ConnectsInv, [Next]_vars
    PROVE  Calm' \subseteq Calm
<1>1. ASSUME NEW s \in AcceptSession
      PROVE  imitated'[s] = 0 => imitated[s] = 0
  <2>1. imitated \in [AcceptSession -> Nat]
    BY DEF IInv, TypeOK
  <2>2. ASSUME NEW id, NEW r \in AcceptSession, Imitates(id, r)
        PROVE  imitated'[s] = 0 => imitated[s] = 0
    BY <2>1, <2>2 DEF Imitates
  <2>3. CASE UNCHANGED imitated
    BY <2>3
  <2>4. ASSUME NEW t \in IOThreads, ProcessRecvData(t)
        PROVE  imitated'[s] = 0 => imitated[s] = 0
    <3>1. at[t].s \in Session
      BY <2>4 DEF ProcessRecvData, IInv, HasSession, NoSessionPC, Thread
    <3> QED
      BY <2>2, <2>3, <2>4, <3>1, SessionIDType DEF ProcessRecvData
  <2>5. CASE Environment \/ MainStep
    BY <2>3, <2>5 DEF Environment, Stop, Connect, ConnectThrows, ConnectFails, PeerConnects,
       AcceptFails, PeerSends, PeerCloses, MainStep, Start, FrontPacket, ReUseSession,
       ResetSession, AsyncAccept, PopPacket, CloseAcceptor, Join
  <2>6. ASSUME NEW t \in Thread, CloseStep(t)
        PROVE  UNCHANGED imitated
    BY <2>6 DEF CloseStep, CloseBegin, ShutdownThrows, CloseNotify, CloseEnd
  <2>7. ASSUME NEW t \in IOThreads, HandlerStep(t)
        PROVE  imitated'[s] = 0 => imitated[s] = 0
    BY <2>3, <2>4, <2>7 DEF HandlerStep, AcceptFailed, AcceptProcessing, Announce, ContinueRecv
  <2>8. ASSUME NEW t \in IOThreads, NEW r \in Session, RunHandler(t, r)
        PROVE  UNCHANGED imitated
    BY <2>8 DEF RunHandler, OnAcceptOk, OnAcceptErr, OnRecvOk, OnRecvErr, OnRecvErrWithBytes
  <2>9. CASE UNCHANGED vars
    BY <2>3, <2>9 DEF vars
  <2> QED
    BY <2>3, <2>5, <2>6, <2>7, <2>8, <2>9 DEF Next
<1>2. \A c \in ConnectSession :
         used[c] /\ sockState[c] = "CLOSE" => used'[c] /\ sockState'[c] = "CLOSE"
  BY SpentStays DEF ConnectsInv
<1> QED
  BY <1>1, <1>2 DEF Calm, Undisturbed, Namesakes

LEMMA LifeNext ==
    ASSUME LifeInv, ConnectsInv, [Next]_vars
    PROVE  LifeInv'
<1>1. IInv' /\ Calm' \subseteq Calm
  BY NextKeepsIInv, CalmShrinks DEF LifeInv
<1>2. CASE UNCHANGED vars
  <2>1. IInv /\ Roles /\ \A r \in Session : OwnerInv(r)
    BY DEF LifeInv
  <2>2. UNCHANGED queueVars /\ at' = at /\ ops' = ops
    BY <1>2 DEF vars, queueVars
  <2>3. Roles'
    BY <1>1, <2>1, <2>2 DEF Roles, MainAt, queueVars
  <2>4. \A r \in Session : Untouched(r) /\ GoesOn
    BY <2>1, <2>2, QueueStays, NobodyMoves DEF Untouched
  <2>5. \A r \in Session : SocketKeeps(r)
    BY <1>2 DEF vars, SocketKeeps
  <2>6. \A r \in Session : OwnerInv(r)'
    BY <1>1, <2>1, <2>4, <2>5, UntouchedOwner
  <2> QED
    BY <1>1, <2>3, <2>6 DEF LifeInv
<1>3. CASE Next
  <2>1. ProcessRuns
    BY <1>3 DEF Next
  <2>2. CASE Environment
    BY <1>1, <2>2, NetworkLives, CallsElsewhere, JoinStopLives DEF Environment
  <2> QED
    BY <1>1, <1>3, <2>1, <2>2, MainStepLives, CloseStepLives, HandlerStepLives, RunHandlerLives
    DEF Next
<1> QED
  BY <1>2, <1>3

\* The invariant: who has the connect sessions, and the calm ones.
WholeInv == ConnectsInv /\ LifeInv

LEMMA WholeNext ==
    ASSUME WholeInv, [Next]_vars
    PROVE  WholeInv'
BY ConnectsNext, LifeNext DEF WholeInv, LifeInv

LEMMA WholeInvAlways == Spec => []WholeInv
<1>1. Init => WholeInv
  BY LifeInit, ConnectsInit DEF WholeInv
<1>2. WholeInv /\ [Next]_vars => WholeInv'
  BY WholeNext
<1> QED
  BY <1>1, <1>2, PTL DEF Spec

(***************************************************************************)
(* For any number of sessions, threads and packets and every fault of the  *)
(* platform: a session of the connect pool that a connection has taken is  *)
(* never free again, and stays closed once it has been closed              *)
(* (SFServerNet.h:142-209, SFServerSessionMgr.h:53, 67-86).                *)
(***************************************************************************)
THEOREM ConnectSessionSpentAlways == Spec => ConnectSessionSpent
<1>1. IInv /\ ConnectsInv /\ [Next]_vars =>
         [\A c \in ConnectSession : used[c] =>
             used'[c] /\ (sockState[c] = "CLOSE" => sockState'[c] = "CLOSE")]_vars
  BY SpentStays DEF ConnectsInv
<1> QED
  BY <1>1, ConnectsInvAlways, PTL DEF Spec, ConnectSessionSpent

\* What the invariant says of who has a session.
LEMMA LifeSingleOwner ==
    ASSUME LifeInv
    PROVE  SingleOwner
<1> SUFFICES ASSUME NEW s \in AcceptSession, Undisturbed(s)
             PROVE  /\ \A k \in OpKind : ops[s][k] <= 1
                    /\ \A x, y \in Owners(s) : x = y
  BY DEF SingleOwner
<1>1. Exclusive(s)
  BY AcceptSessionIsSession DEF LifeInv, OwnerInv, Calm
<1>2. \A x \in Owners(s) :
         \/ \E k \in OpKind : ops[s][k] > 0 /\ x = <<"operation", k>>
         \/ \E t \in IOThreads : Owns(t, s) /\ x = <<"handler", t>>
         \/ \E i \in DOMAIN packets : Awaits(i, s) /\ x = <<"packet", i>>
         \/ MainHas(s) /\ x = <<"main", at[Main].pc>>
  <2>1. \A pc : at[Main] = Loc(pc, s) => at[Main].pc = pc /\ at[Main].s = s
    BY DEF Loc
  <2>2. \A pc \in {"reuse", "reset", "async"} :
           at[Main] = Loc(pc, s) => MainHas(s) /\ pc = at[Main].pc
    BY <2>1 DEF MainHas, ReusePC
  <2> QED
    BY <2>2, Zenon DEF Owners
<1>3. ASSUME NEW x \in Owners(s), NEW y \in Owners(s)
      PROVE  x = y
  <2>1. CASE HasOp(s)
    BY <1>1, <1>2, <2>1 DEF Exclusive, HasHandler, HasPacket
  <2>2. CASE ~HasOp(s) /\ HasHandler(s)
    BY <1>1, <1>2, <2>2 DEF Exclusive, HasOp, HasPacket
  <2>3. CASE ~HasOp(s) /\ ~HasHandler(s) /\ HasPacket(s)
    BY <1>1, <1>2, <2>3 DEF Exclusive, HasOp, HasHandler
  <2>4. CASE ~HasOp(s) /\ ~HasHandler(s) /\ ~HasPacket(s)
    BY <1>2, <2>4 DEF HasOp, HasHandler, HasPacket
  <2> QED
    BY <2>1, <2>2, <2>3, <2>4
<1> QED
  BY <1>1, <1>3 DEF Exclusive

LEMMA LifeReuses ==
    ASSUME LifeInv, ConnectsInv
    PROVE  ReuseNeverRefused
<1> SUFFICES ASSUME MainAt("reuse"), Undisturbed(at[Main].s)
             PROVE  CanPostAccept(at[Main].s)
  BY DEF ReuseNeverRefused
<1>1. at[Main].pc \in ReusePC
  BY DEF MainAt, ReusePC
<1>2. at[Main].s \in AcceptSession
  BY <1>1, ReusesAccepts DEF LifeInv
<1>3. at[Main].s \in Calm
  BY <1>2 DEF Calm
<1>4. OwnerInv(at[Main].s) /\ MainHas(at[Main].s)
  BY <1>1, <1>3, MainReuses
<1> QED
  BY <1>3, <1>4 DEF OwnerInv, SocketInv, CanPostAccept

LEMMA LifeInOrder ==
    ASSUME LifeInv
    PROVE  NotificationOrder
<1> SUFFICES ASSUME NEW i \in DOMAIN packets, NEW j \in DOMAIN packets, i < j,
                    packets[i].sid = packets[j].sid, Undisturbed(packets[i].sid),
                    {packets[i].id, packets[j].id} \subseteq Told(packets[i].sid)
             PROVE  packets[i].id # "CLOSE" /\ packets[j].id # "ACCEPT"
  BY DEF NotificationOrder
<1>1. packets[i] \in Packet
  BY DEF LifeInv, IInv, TypeOK
<1>2. packets[i].sid \in Calm /\ packets[i].sid \in Session
  BY <1>1, AcceptSessionIsSession DEF Packet, Calm
<1>3. PacketInv(packets[i].sid)
  BY <1>2 DEF LifeInv, OwnerInv
<1> QED
  BY <1>3 DEF PacketInv, Of

(***************************************************************************)
(* For any number of sessions of both pools, threads, packets and inner    *)
(* ids that peers give, and every fault of the platform: nothing has an    *)
(* undisturbed session twice (SFServerNet.h:179-209, SFTCPSocket.h:118-158,*)
(* 304-337).                                                               *)
(***************************************************************************)
THEOREM SingleOwnerAlways == Spec => []SingleOwner
<1>1. WholeInv => SingleOwner
  BY LifeSingleOwner DEF WholeInv
<1> QED
  BY <1>1, WholeInvAlways, PTL

(***************************************************************************)
(* PostAccept accepts every undisturbed session that Main reuses, in any   *)
(* such server (SFServerNet.h:180-209, 336-392).                           *)
(***************************************************************************)
THEOREM ReuseNeverRefusedAlways == Spec => []ReuseNeverRefused
<1>1. WholeInv => ReuseNeverRefused
  BY LifeReuses DEF WholeInv
<1> QED
  BY <1>1, WholeInvAlways, PTL

(***************************************************************************)
(* The packets of an undisturbed session that wait are those of one        *)
(* connection, ACCEPT first and CLOSE last, data and requests between, in  *)
(* any such server, whatever the queue loses                               *)
(* (SFDefaultPacketHandler.h:118-143, 175-195).                            *)
(***************************************************************************)
THEOREM NotificationOrderAlways == Spec => []NotificationOrder
<1>1. WholeInv => NotificationOrder
  BY LifeInOrder DEF WholeInv
<1> QED
  BY <1>1, WholeInvAlways, PTL

(***************************************************************************)
(* So what becomes of the disturbed sessions harms no other, whichever     *)
(* they are and however often they are disturbed                           *)
(* (SFDefaultPacketHandler.h:118, SFServerSessionMgr.h:53,                 *)
(* SFServerNet.h:142-209).                                                 *)
(***************************************************************************)
THEOREM SharedIdsHarmlessAlways == Spec => []SharedIdsHarmless
<1>1. WholeInv => SharedIdsHarmless
  BY LifeSingleOwner, LifeReuses, LifeInOrder DEF WholeInv, SharedIdsHarmless
<1> QED
  BY <1>1, WholeInvAlways, PTL

-----------------------------------------------------------------------------
(* The phases of the sessions, and the abstract pool.                       *)

OwnerWaits(s) ==
    \/ MainHas(s) /\ MainAt("async")
    \/ \E k \in AcceptOp : ops[s][k] > 0
    \/ \E t \in IOThreads : Owns(t, s) /\ Accepting(t)

OwnerConnected(s) ==
    \/ \E k \in RecvOp : ops[s][k] > 0
    \/ \E t \in IOThreads : Owns(t, s) /\ ~Accepting(t)

OwnerClosed(s) == (MainHas(s) /\ ~MainAt("async")) \/ HasPacket(s)

\* The phase of a calm session is what the owner says, and no two owners
\* disagree.
Phases(s) ==
    IF MainAt("start") THEN PhaseOf(s) = "new"
    ELSE IF s \notin Calm THEN PhaseOf(s) = "disturbed"
    ELSE /\ PhaseOf(s) \in {"waiting", "connected", "closed", "lost"}
         /\ OwnerWaits(s) <=> PhaseOf(s) = "waiting"
         /\ OwnerConnected(s) <=> PhaseOf(s) = "connected"
         /\ OwnerClosed(s) <=> PhaseOf(s) = "closed"

PhaseInv == \A s \in AcceptSession : Phases(s)

\* Main, while it reuses a session, has no reason to close one.
LEMMA MainLoc ==
    ASSUME LifeInv, NEW s
    PROVE  \A pc \in ReusePC : at[Main] = Loc(pc, s) <=> at[Main].pc = pc /\ at[Main].s = s
<1>1. at[Main] \in Place
  BY DEF LifeInv, IInv, TypeOK, Thread
<1>2. at[Main].pc \in ReusePC => at[Main].why = "none"
  BY DEF LifeInv, Roles
<1> QED
  BY <1>1, <1>2 DEF Place, Loc

\* Which owners make a session wait, be connected or be closed.
LEMMA PhaseOwners ==
    ASSUME LifeInv, NEW s \in Session
    PROVE  /\ IsWaiting(s) <=> OwnerWaits(s)
           /\ IsConnected(s) <=> OwnerConnected(s)
           /\ IsClosed(s) <=> OwnerClosed(s)
<1>1. IsWaiting(s) <=> OwnerWaits(s)
  <2>1. at[Main] = Loc("async", s) <=> MainHas(s) /\ MainAt("async")
    BY MainLoc DEF MainHas, MainAt, ReusePC
  <2> QED
    BY <2>1 DEF IsWaiting, AcceptOp, Accepting, OwnerWaits
<1>2. IsConnected(s) <=> OwnerConnected(s)
  <2>1. ASSUME NEW t \in IOThreads, Owns(t, s)
        PROVE  ~Accepting(t) <=> \/ at[t].pc \in {"announce", "process", "postRecv"}
                                 \/ at[t].why = "NETWORK_ON_CLOSE"
    <3>1. at[t].pc \in OwningPC => at[t].why = "none"
      BY DEF LifeInv, Roles
    <3> QED
      BY <2>1, <3>1 DEF Accepting, Owns, OwningPC
  <2> QED
    BY <2>1 DEF IsConnected, RecvOp, OwnerConnected
<1>3. IsClosed(s) <=> OwnerClosed(s)
  <2>1. at[Main] \in {Loc("reuse", s), Loc("reset", s)} <=> MainHas(s) /\ ~MainAt("async")
    BY MainLoc DEF MainHas, MainAt, ReusePC
  <2> QED
    BY <2>1 DEF IsClosed, HasPacket, OwnerClosed
<1> QED
  BY <1>1, <1>2, <1>3

LEMMA LifePhases == LifeInv => PhaseInv
<1> SUFFICES ASSUME LifeInv, NEW s \in Session, s \in AcceptSession
             PROVE  Phases(s)
  BY AcceptSessionIsSession DEF PhaseInv
<1>0. s \in Calm <=> Undisturbed(s)
  BY DEF Calm
<1>1. CASE MainAt("start")
  <2>1. /\ \A k \in OpKind : ~(ops[s][k] > 0)
        /\ DOMAIN packets = {}
        /\ \A t \in IOThreads : at[t] = Idle
    BY <1>1 DEF LifeInv, Roles
  <2>2. \A t \in IOThreads : ~Owns(t, s)
    BY <2>1 DEF Owns, Idle, Loc, NoSession, Session
  <2>3. ~MainHas(s) /\ ~HasPacket(s)
    BY <1>1, <2>1 DEF MainHas, MainAt, ReusePC, HasPacket
  <2>4. AcceptOp \subseteq OpKind /\ RecvOp \subseteq OpKind
    BY DEF AcceptOp, RecvOp, OpKind
  <2>5. ~IsWaiting(s) /\ ~IsConnected(s) /\ ~IsClosed(s)
    BY <2>1, <2>2, <2>3, <2>4, PhaseOwners DEF OwnerWaits, OwnerConnected, OwnerClosed
  <2> HIDE DEF IsWaiting, IsConnected, IsClosed
  <2> QED
    BY <1>1, <2>5 DEF Phases, PhaseOf
<1>2. CASE ~MainAt("start") /\ s \in Calm
  <2>1. Exclusive(s) /\ AcceptOp \subseteq OpKind /\ RecvOp \subseteq OpKind /\ AcceptOp \cap RecvOp = {}
    BY <1>2 DEF LifeInv, OwnerInv, AcceptOp, RecvOp, OpKind
  <2>2. (\E k \in AcceptOp : ops[s][k] > 0) => ~(\E k \in RecvOp : ops[s][k] > 0)
    BY <2>1 DEF Exclusive
  <2>3. (\E k \in AcceptOp \cup RecvOp : ops[s][k] > 0) =>
           ~HasPacket(s) /\ ~MainHas(s) /\ ~(\E t \in IOThreads : Owns(t, s))
    BY <2>1 DEF Exclusive, HasOp, HasHandler
  <2>4. (\E t \in IOThreads : Owns(t, s)) => ~HasPacket(s) /\ ~MainHas(s)
    BY <2>1 DEF Exclusive, HasHandler
  <2>5. (\E t \in IOThreads : Owns(t, s) /\ Accepting(t)) => ~(\E t \in IOThreads : Owns(t, s) /\ ~Accepting(t))
    BY <2>1 DEF Exclusive
  <2>6. HasPacket(s) => ~MainHas(s)
    BY <2>1 DEF Exclusive
  <2>7. OwnerWaits(s) => ~OwnerConnected(s) /\ ~OwnerClosed(s)
    BY <2>2, <2>3, <2>4, <2>5, <2>6 DEF OwnerWaits, OwnerConnected, OwnerClosed
  <2>8. OwnerConnected(s) => ~OwnerClosed(s)
    BY <2>3, <2>4 DEF OwnerConnected, OwnerClosed
  <2> HIDE DEF IsWaiting, IsConnected, IsClosed
  <2> QED
    BY <1>0, <1>2, <2>7, <2>8, PhaseOwners DEF Phases, PhaseOf
<1>3. CASE ~MainAt("start") /\ s \notin Calm
  BY <1>0, <1>3 DEF Phases, PhaseOf
<1> QED
  BY <1>1, <1>2, <1>3

\* A session that is not touched keeps its phase, but its CLOSE may be lost.
Forgets(r) == PhaseOf(r)' = PhaseOf(r) \/ (PhaseOf(r) = "closed" /\ PhaseOf(r)' = "lost")

\* Both ends of a step of a server that has started.
Goes ==
    /\ PhaseInv /\ PhaseInv'
    /\ ~MainAt("start") /\ ~MainAt("start")'
    /\ Calm' \subseteq Calm

\* A disturbed session stays disturbed.
LEMMA DisturbedPhase ==
    ASSUME Goes, NEW r \in AcceptSession
    PROVE  /\ r \notin Calm => PhaseOf(r) = "disturbed" /\ PhaseOf(r)' = "disturbed"
           /\ r \notin Calm' => PhaseOf(r)' = "disturbed"
           /\ r \in Calm => PhaseOf(r) \notin {"new", "disturbed"}
BY DEF Goes, PhaseInv, Phases

LEMMA UntouchedPhase ==
    ASSUME Goes, NEW r \in Session, r \in Calm', Untouched(r)
    PROVE  Forgets(r) /\ (UNCHANGED queueVars => PhaseOf(r)' = PhaseOf(r))
<1>0. r \in AcceptSession /\ r \in Calm
  BY CalmAccepts DEF Goes
<1>1. Phases(r) /\ Phases(r)' /\ ~MainAt("start") /\ ~MainAt("start")'
  BY <1>0 DEF Goes, PhaseInv
<1>2. \A t \in IOThreads :
         /\ Owns(t, r)' <=> Owns(t, r)
         /\ Owns(t, r) => (Accepting(t)' <=> Accepting(t))
  BY DEF Untouched, ThreadsKeep, Owns, Accepting
<1>3. /\ MainHas(r)' <=> MainHas(r)
      /\ MainHas(r) => (MainAt("async")' <=> MainAt("async"))
  BY DEF Untouched, ThreadsKeep, MainHas, MainAt
<1>4. HasPacket(r)' => HasPacket(r)
  BY ToldIncludes DEF Untouched, QueueKeeps, HasPacket, Awaits, Of
<1>5. UNCHANGED queueVars => (HasPacket(r)' <=> HasPacket(r))
  BY QueueFacts
<1>6. ops'[r] = ops[r]
  BY DEF Untouched
<1>7. OwnerWaits(r)' <=> OwnerWaits(r)
  BY <1>2, <1>3, <1>6 DEF OwnerWaits
<1>8. OwnerConnected(r)' <=> OwnerConnected(r)
  BY <1>2, <1>6 DEF OwnerConnected
<1>9. /\ OwnerClosed(r)' => OwnerClosed(r)
      /\ UNCHANGED queueVars => (OwnerClosed(r)' <=> OwnerClosed(r))
  BY <1>3, <1>4, <1>5 DEF OwnerClosed
<1> QED
  BY <1>0, <1>1, <1>7, <1>8, <1>9 DEF Phases, Forgets

\* Every session but s keeps its phase, if it is left alone or disturbed.
LEMMA OthersForget ==
    ASSUME Goes, NEW s, Calm \ Calm' \subseteq {s}, OthersUntouched(s)
    PROVE  \A r \in AcceptSession : r # s =>
              Forgets(r) /\ (UNCHANGED queueVars => PhaseOf(r)' = PhaseOf(r))
<1> SUFFICES ASSUME NEW r \in AcceptSession, r # s
             PROVE  Forgets(r) /\ (UNCHANGED queueVars => PhaseOf(r)' = PhaseOf(r))
  OBVIOUS
<1>1. CASE r \in Calm'
  BY <1>1, UntouchedPhase, CalmAccepts DEF OthersUntouched
<1>2. CASE r \notin Calm
  BY <1>2, DisturbedPhase DEF Forgets
<1> QED
  BY <1>1, <1>2

\* The owner after a step tells the phase after it.
LEMMA PhaseAfter ==
    ASSUME Goes, NEW s \in Calm'
    PROVE  /\ OwnerWaits(s) => PhaseOf(s) = "waiting"
           /\ OwnerConnected(s) => PhaseOf(s) = "connected"
           /\ OwnerClosed(s) => PhaseOf(s) = "closed"
           /\ OwnerWaits(s)' => PhaseOf(s)' = "waiting"
           /\ OwnerConnected(s)' => PhaseOf(s)' = "connected"
           /\ OwnerClosed(s)' => PhaseOf(s)' = "closed"
           /\ ~OwnerWaits(s)' /\ ~OwnerConnected(s)' /\ ~OwnerClosed(s)' => PhaseOf(s)' = "lost"
<1>1. Phases(s) /\ Phases(s)' /\ ~MainAt("start") /\ ~MainAt("start")' /\ s \in Calm
  BY CalmAccepts DEF Goes, PhaseInv
<1> QED
  BY <1>1 DEF Phases

-----------------------------------------------------------------------------
(* Steps of the abstract pool.                                              *)

LEMMA PoolOverflows ==
    ASSUME \A r \in AcceptSession : Forgets(r), UNCHANGED shutdown
    PROVE  Pool!Overflow
<1> DEFINE forgotten == {r \in AcceptSession : PhaseOf(r) # PhaseOf(r)'}
<1>1. PICK lost : lost = forgotten
  <2> HIDE DEF forgotten
  <2> QED
    OBVIOUS
<1>2. \A r \in AcceptSession : Forgets(r)
  OBVIOUS
<1>3. lost \in SUBSET Pool!Closed
  BY <1>1, <1>2 DEF Pool!Closed, Forgets
<1>4. \A r \in AcceptSession : PhaseOf(r)' = IF r \in lost THEN "lost" ELSE PhaseOf(r)
  BY <1>1, <1>2 DEF Forgets
<1>5. [r \in AcceptSession |-> PhaseOf(r)]'
         = [r \in AcceptSession |-> IF r \in lost THEN "lost"
                                    ELSE [q \in AcceptSession |-> PhaseOf(q)][r]]
  BY <1>4
<1> QED
  BY <1>3, <1>5 DEF Pool!Overflow

LEMMA PoolSteps ==
    ASSUME NEW s \in AcceptSession, NEW p, PhaseOf(s)' = p,
           \A r \in AcceptSession : r # s => Forgets(r), UNCHANGED shutdown
    PROVE  \E lost \in SUBSET Pool!Closed : Pool!Step(s, p, lost)
<1> DEFINE forgotten == {r \in AcceptSession \ {s} : PhaseOf(r) # PhaseOf(r)'}
<1>1. PICK lost : lost = forgotten
  OBVIOUS
<1>2. \A r \in AcceptSession : r # s => Forgets(r)
  OBVIOUS
<1>3. lost \in SUBSET Pool!Closed
  BY <1>1, <1>2 DEF Pool!Closed, Forgets
<1>4. \A r \in AcceptSession :
         PhaseOf(r)' = IF r = s THEN p ELSE IF r \in lost THEN "lost" ELSE PhaseOf(r)
  BY <1>1, <1>2 DEF Forgets
<1>5. [r \in AcceptSession |-> PhaseOf(r)]'
         = [r \in AcceptSession |-> IF r = s THEN p ELSE IF r \in lost THEN "lost"
                                    ELSE [q \in AcceptSession |-> PhaseOf(q)][r]]
  BY <1>4
<1>6. Pool!Step(s, p, lost)
  BY <1>5 DEF Pool!Step
<1> QED
  BY <1>3, <1>6

\* A step that loses no CLOSE packet.
LEMMA PoolStepsAlone ==
    ASSUME NEW s \in AcceptSession, NEW p, PhaseOf(s)' = p,
           \A r \in AcceptSession : r # s => PhaseOf(r)' = PhaseOf(r), UNCHANGED shutdown
    PROVE  Pool!Step(s, p, {})
<1>1. \A r \in AcceptSession :
         PhaseOf(r)' = IF r = s THEN p ELSE IF r \in {} THEN "lost" ELSE PhaseOf(r)
  OBVIOUS
<1>2. [r \in AcceptSession |-> PhaseOf(r)]'
         = [r \in AcceptSession |-> IF r = s THEN p ELSE IF r \in {} THEN "lost"
                                    ELSE [q \in AcceptSession |-> PhaseOf(q)][r]]
  BY <1>1
<1> QED
  BY <1>2 DEF Pool!Step

LEMMA SamePhase ==
    ASSUME Goes, Calm' = Calm, NEW s \in Calm', OthersUntouched(s), UNCHANGED shutdown,
           \/ OwnerWaits(s) /\ OwnerWaits(s)'
           \/ OwnerConnected(s) /\ OwnerConnected(s)'
           \/ OwnerClosed(s) /\ OwnerClosed(s)'
           \/ Untouched(s)
    PROVE  Pool!Next
<1>1. Forgets(s)
  BY PhaseAfter, UntouchedPhase, CalmAccepts DEF Forgets
<1>2. \A r \in AcceptSession : r # s => Forgets(r)
  BY OthersForget
<1>3. Pool!Overflow
  BY <1>1, <1>2, PoolOverflows
<1> QED
  BY <1>3 DEF Pool!Next

\* A step that no calm session has a part in is none of the pool, which may
\* lose a CLOSE with it, or disturbs a session.
LEMMA ElsewhereSteps ==
    ASSUME Goes, CalmUntouched, NEW s, Calm \ Calm' \subseteq {s}, UNCHANGED shutdown
    PROVE  Pool!Next
<1>1. \A r \in AcceptSession : r # s => Forgets(r)
  BY OthersForget DEF CalmUntouched, OthersUntouched
<1>2. CASE s \in Calm \ Calm'
  <2>1. s \in AcceptSession
    BY <1>2, CalmAccepts
  <2>2. PhaseOf(s)' = "disturbed" /\ PhaseOf(s) \notin {"new", "disturbed"}
    BY <1>2, <2>1, DisturbedPhase
  <2>3. \E lost \in SUBSET Pool!Closed : Pool!Step(s, "disturbed", lost)
    BY <1>1, <2>1, <2>2, PoolSteps
  <2>4. Pool!Disturb(s)
    BY <2>1, <2>2, <2>3 DEF Pool!Disturb
  <2> QED
    BY <2>1, <2>4 DEF Pool!Next
<1>3. CASE s \notin Calm \ Calm'
  <2>1. s \in AcceptSession => Forgets(s)
    <3>1. CASE s \in Calm'
      BY <3>1, UntouchedPhase, CalmAccepts DEF CalmUntouched
    <3>2. CASE s \notin Calm
      BY <3>2, DisturbedPhase DEF Forgets
    <3> QED
      BY <1>3, <3>1, <3>2
  <2>2. Pool!Overflow
    BY <1>1, <2>1, PoolOverflows
  <2> QED
    BY <2>2 DEF Pool!Next
<1> QED
  BY <1>2, <1>3

-----------------------------------------------------------------------------
(* Which sessions a step disturbs.                                          *)

\* What happens to one session disturbs at most the one that has its id.
LEMMA DisturbsNamesake ==
    ASSUME UNCHANGED imitated, NEW s,
           \A c \in Session : c # s => used'[c] = used[c] /\ sockState'[c] = sockState[c]
    PROVE  Calm \ Calm' \subseteq {SessionID(s)}
<1> SUFFICES ASSUME NEW r \in Calm, r # SessionID(s)
             PROVE  r \in Calm'
  OBVIOUS
<1>1. \A c \in Namesakes(r) : used'[c] = used[c] /\ sockState'[c] = sockState[c]
  BY TwoPools DEF Namesakes
<1> QED
  BY <1>1 DEF Calm, Undisturbed, Namesakes

\* What happens to a session of the accept pool disturbs none.
LEMMA CalmStays ==
    ASSUME UNCHANGED imitated, NEW s \in AcceptSession,
           \A c \in Session : c # s => used'[c] = used[c] /\ sockState'[c] = sockState[c],
           Calm' \subseteq Calm
    PROVE  Calm' = Calm
<1>1. \A c \in ConnectSession : used'[c] = used[c] /\ sockState'[c] = sockState[c]
  BY TwoPools
<1> QED
  BY <1>1 DEF Calm, Undisturbed, Namesakes

\* One session is written to.
LEMMA OthersAsBefore ==
    ASSUME TypeOK, NEW s,
           used' = used \/ \E v : used' = [used EXCEPT ![s] = v],
           sockState' = sockState \/ \E v : sockState' = [sockState EXCEPT ![s] = v]
    PROVE  \A c \in Session : c # s => used'[c] = used[c] /\ sockState'[c] = sockState[c]
BY DEF TypeOK

\* A step disturbs one session at most.
LEMMA OneDisturbed ==
    ASSUME IInv, Next, ~MainAt("start")
    PROVE  \E s : Calm \ Calm' \subseteq {s}
<1>1. TypeOK
  BY DEF IInv
<1>2. ASSUME UNCHANGED imitated, NEW s,
             used' = used \/ \E v : used' = [used EXCEPT ![s] = v],
             sockState' = sockState \/ \E v : sockState' = [sockState EXCEPT ![s] = v]
      PROVE  \E r : Calm \ Calm' \subseteq {r}
  BY <1>1, <1>2, OthersAsBefore, DisturbsNamesake
<1>3. CASE Environment
  BY <1>2, <1>3 DEF Environment, Stop, Connect, ConnectThrows, ConnectFails, PeerConnects,
     AcceptFails, PeerSends, PeerCloses, socketVars
<1>4. CASE MainStep
  BY <1>2, <1>4 DEF MainStep, Start, FrontPacket, ReUseSession, ResetSession, AsyncAccept,
     PopPacket, CloseAcceptor, Join, socketVars
<1>5. ASSUME NEW t \in Thread, CloseStep(t)
      PROVE  \E r : Calm \ Calm' \subseteq {r}
  BY <1>2, <1>5 DEF CloseStep, CloseBegin, ShutdownThrows, CloseNotify, CloseEnd, socketVars
<1>6. ASSUME NEW t \in IOThreads, HandlerStep(t)
      PROVE  \E r : Calm \ Calm' \subseteq {r}
  <2>1. CASE ProcessRecvData(t) /\ imitated' # imitated
    <3>1. imitated' = [imitated EXCEPT ![SessionID(at[t].s)] = @ + 1] /\ UNCHANGED socketVars
      BY <2>1 DEF ProcessRecvData, Imitates
    <3>2. \A r \in AcceptSession : r # SessionID(at[t].s) => imitated'[r] = imitated[r]
      BY <1>1, <3>1 DEF TypeOK
    <3> QED
      BY <3>1, <3>2 DEF Calm, Undisturbed, Namesakes, socketVars
  <2>2. CASE UNCHANGED imitated
    BY <1>2, <1>6, <2>2
    DEF HandlerStep, AcceptFailed, AcceptProcessing, Announce, ContinueRecv, ProcessRecvData,
        socketVars
  <2> QED
    BY <1>6, <2>1, <2>2
    DEF HandlerStep, AcceptFailed, AcceptProcessing, Announce, ContinueRecv
<1>7. ASSUME NEW t \in IOThreads, NEW s \in Session, RunHandler(t, s)
      PROVE  \E r : Calm \ Calm' \subseteq {r}
  BY <1>2, <1>7
  DEF RunHandler, OnAcceptOk, OnAcceptErr, OnRecvOk, OnRecvErr, OnRecvErrWithBytes, SetUnUsed,
      socketVars
<1> QED
  BY <1>3, <1>4, <1>5, <1>6, <1>7 DEF Next

-----------------------------------------------------------------------------
(* Steps that calm sessions have a part in.                                 *)

\* A session that is dropped: it has no owner any more.
LEMMA DroppedPhase ==
    ASSUME Goes, NEW s \in Calm', NoOps(s)', ~HasHandler(s)', ~HasPacket(s)', ~MainHas(s)'
    PROVE  PhaseOf(s)' = "lost"
<1>1. AcceptOp \subseteq OpKind /\ RecvOp \subseteq OpKind
  BY DEF AcceptOp, RecvOp, OpKind
<1>2. ~OwnerWaits(s)' /\ ~OwnerConnected(s)' /\ ~OwnerClosed(s)'
  BY <1>1 DEF OwnerWaits, OwnerConnected, OwnerClosed, NoOps, HasHandler
<1> QED
  BY <1>2, PhaseAfter

LEMMA NetworkSteps ==
    ASSUME LifeInv, IInv', Goes, NEW s \in Session, s \in Calm',
           PeerConnects(s) \/ AcceptFails(s) \/ PeerSends(s) \/ PeerCloses(s)
    PROVE  Pool!Next
<1>0. Calm' = Calm
  BY CalmStays, CalmAccepts
  DEF PeerConnects, AcceptFails, PeerSends, PeerCloses, socketVars, Goes
<1>1. OthersUntouched(s) /\ UNCHANGED shutdown
  BY NetworkLives DEF PeerConnects, AcceptFails, PeerSends, PeerCloses, Goes
<1>2. PICK from \in OpKind, to \in OpKind :
         /\ from # to /\ ops[s][from] > 0 /\ ops' = [ops EXCEPT ![s] = Moved(@, from, to)]
         /\ \/ from \in AcceptOp /\ to \in AcceptOp
            \/ from \in RecvOp /\ to \in RecvOp
  <2>1. {"accept", "acceptOk", "acceptErr", "recv", "recvOk", "recvErr"} = OpKind
    BY DEF OpKind
  <2>2. CASE PeerConnects(s)
    BY <2>1, <2>2 DEF PeerConnects, AcceptOp
  <2>3. CASE AcceptFails(s)
    BY <2>1, <2>3 DEF AcceptFails, AcceptOp
  <2>4. CASE PeerSends(s)
    BY <2>1, <2>4 DEF PeerSends, RecvOp
  <2>5. CASE PeerCloses(s)
    BY <2>1, <2>5 DEF PeerCloses, RecvOp
  <2> QED
    BY <2>2, <2>3, <2>4, <2>5
<1>3. ops'[s][to] > 0
  <2>1. ops \in [Session -> [OpKind -> Nat]]
    BY DEF LifeInv, IInv, TypeOK
  <2>2. ops'[s] = Moved(ops[s], from, to) /\ ops[s] \in [OpKind -> Nat]
    BY <1>2, <2>1
  <2>3. ops'[s][to] = ops[s][to] + 1 /\ ops[s][to] \in Nat
    BY <1>2, <2>2 DEF Moved
  <2> QED
    BY <2>3
<1>4. \/ OwnerWaits(s) /\ OwnerWaits(s)'
      \/ OwnerConnected(s) /\ OwnerConnected(s)'
  BY <1>2, <1>3 DEF OwnerWaits, OwnerConnected
<1> QED
  BY <1>0, <1>1, <1>4, SamePhase

LEMMA AcceptTakenSteps ==
    ASSUME LifeInv, IInv', Goes, NEW t \in IOThreads, NEW s \in Session,
           s \in Calm',
           OnAcceptOk(t, s) \/ OnAcceptErr(t, s)
    PROVE  Pool!Next
<1>0. Calm' = Calm /\ s \in AcceptSession
  <2>1. s \in AcceptSession /\ TypeOK
    BY CalmAccepts DEF LifeInv, IInv
  <2> QED
    BY <2>1, OthersAsBefore, CalmStays DEF OnAcceptOk, OnAcceptErr, SetUnUsed, Goes
<1>1. OthersUntouched(s) /\ UNCHANGED shutdown /\ UNCHANGED queueVars
  BY <1>0, AcceptTakenLives DEF OnAcceptOk, OnAcceptErr
<1>2. PICK k \in AcceptOp : /\ k \in OpKind /\ ops[s][k] > 0
                            /\ ops' = [ops EXCEPT ![s][k] = @ - 1]
  BY DEF OnAcceptOk, OnAcceptErr, AcceptOp, OpKind
<1>3. OwnerWaits(s)
  BY <1>2 DEF OwnerWaits
<1>4. OwnedByOp(s, k) /\ TypeOK /\ IInv
  BY <1>0, <1>2, OpIsOwner DEF LifeInv, IInv, OwnerInv
<1>5. OnlyHandler(s, t)
  BY <1>4 DEF OwnedByOp, HasHandler, OnlyHandler
<1>6. CASE shutdown
  <2>1. Goto(t, Idle)
    BY <1>6 DEF OnAcceptOk, OnAcceptErr
  <2>2. ~HasHandler(s)' /\ ~MainHas(s)'
    BY <1>4, <1>5, <2>1, HandlerAfter DEF OwnedByOp
  <2>3. NoOps(s)' /\ ~HasPacket(s)'
    BY <1>1, <1>2, <1>4, TakenOps, QueueFacts DEF OwnedByOp
  <2>4. PhaseOf(s)' = "lost"
    BY <2>2, <2>3, DroppedPhase
  <2>5. \A r \in AcceptSession : r # s => PhaseOf(r)' = PhaseOf(r)
    BY <1>1, <1>0, OthersForget
  <2>6. s \in AcceptSession
    BY <1>0
  <2>7. Pool!Step(s, "lost", {})
    BY <1>1, <2>4, <2>5, <2>6, PoolStepsAlone
  <2>8. PhaseOf(s) = "waiting"
    BY <1>3, PhaseAfter
  <2>9. Pool!Drop(s)
    BY <1>6, <2>6, <2>7, <2>8 DEF Pool!Drop
  <2> QED
    BY <2>6, <2>9 DEF Pool!Next
<1>7. CASE ~shutdown
  <2>1. PICK pc \in {"acceptOk", "acceptErr"} : Goto(t, Loc(pc, s))
    BY <1>7 DEF OnAcceptOk, OnAcceptErr
  <2>2. at'[t] = Loc(pc, s)
    BY <1>4, <2>1 DEF Goto, TypeOK, Thread
  <2>3. Owns(t, s)' /\ Accepting(t)'
    BY <2>1, <2>2 DEF Owns, Accepting, Loc, OwningPC
  <2>4. OwnerWaits(s)'
    BY <2>3 DEF OwnerWaits
  <2> QED
    BY <1>0, <1>1, <1>3, <2>4, SamePhase
<1> QED
  BY <1>6, <1>7

LEMMA ReceiveTakenSteps ==
    ASSUME LifeInv, IInv', Goes, NEW t \in IOThreads, NEW s \in Session,
           s \in Calm',
           OnRecvOk(t, s) \/ OnRecvErr(t, s)
    PROVE  Pool!Next
<1>0. Calm' = Calm
  BY CalmStays, CalmAccepts DEF OnRecvOk, OnRecvErr, socketVars, Goes
<1>1. OthersUntouched(s) /\ UNCHANGED shutdown
  BY <1>0, ReceiveTakenLives DEF OnRecvOk, OnRecvErr
<1>2. OwnerConnected(s)
  BY DEF OnRecvOk, OnRecvErr, OwnerConnected, RecvOp
<1>3. PICK place \in {Loc("process", s), Closing(s, "NETWORK_ON_CLOSE")} : Goto(t, place)
  BY DEF OnRecvOk, OnRecvErr
<1>4. at'[t] = place
  BY <1>3 DEF Goto, LifeInv, IInv, TypeOK, Thread
<1>5. Owns(t, s)' /\ ~Accepting(t)'
  BY <1>3, <1>4 DEF Owns, Accepting, Loc, Closing, OwningPC
<1>6. OwnerConnected(s)'
  BY <1>5 DEF OwnerConnected
<1> QED
  BY <1>0, <1>1, <1>2, <1>6, SamePhase

LEMMA ReceiveBrokenSteps ==
    ASSUME LifeInv, IInv', Goes, NEW t \in IOThreads, NEW s \in Session,
           s \in Calm',
           OnRecvErrWithBytes(t, s)
    PROVE  Pool!Next
<1>0. Calm' = Calm
  BY CalmStays, CalmAccepts DEF OnRecvErrWithBytes, socketVars, Goes
<1>1. OthersUntouched(s) /\ UNCHANGED shutdown /\ at' = at
  BY <1>0, ReceiveBrokenLives DEF OnRecvErrWithBytes
<1>2. ops[s]["recvErr"] > 0 /\ ops' = [ops EXCEPT ![s]["recvErr"] = @ - 1] /\ "recvErr" \in OpKind
  BY DEF OnRecvErrWithBytes, OpKind
<1>3. TypeOK /\ IInv /\ Roles /\ OwnerInv(s)
  BY DEF LifeInv, IInv
<1>4. OwnedByOp(s, "recvErr") /\ NoClose(s) /\ InOrder(s)
  BY <1>0, <1>2, <1>3, OpIsOwner, ClosesAwait, OwnerInvGives DEF OwnerInv, OwnedByOp
<1>5. NoOps(s)'
  BY <1>2, <1>3, <1>4, TakenOps DEF OwnedByOp
<1>6. ~HasHandler(s)' /\ ~MainHas(s)'
  BY <1>1, <1>4 DEF OwnedByOp, HasHandler, Owns, MainHas
<1>7. ~HasPacket(s)'
  <2>1. CASE UNCHANGED queueVars
    BY <1>4, <2>1, QueueFacts DEF OwnedByOp
  <2>2. CASE NotifyReqCloseSession(s)
    <3>1. PICK d \in {0, 1} : Pushed("REQ_CLOSE_SESSION", s, d)
      BY <1>0, <1>3, <2>2, PushMoves, CalmNamed DEF NotifyReqCloseSession, PacketID
    <3> QED
      BY <1>3, <1>4, <3>1, PushedInOrder DEF OwnedByOp
  <2> QED
    BY <2>1, <2>2 DEF OnRecvErrWithBytes
<1>8. PhaseOf(s)' = "lost" /\ s \in AcceptSession
  BY <1>5, <1>6, <1>7, DroppedPhase, CalmAccepts
<1>9. \E lost \in SUBSET Pool!Closed : Pool!Step(s, "lost", lost)
  BY <1>0, <1>1, <1>8, OthersForget, PoolSteps
<1>10. PhaseOf(s) = "connected"
  BY <1>2, PhaseAfter DEF OwnerConnected, RecvOp
<1>11. Pool!Break(s)
  BY <1>8, <1>9, <1>10 DEF Pool!Break
<1> QED
  BY <1>8, <1>11 DEF Pool!Next

LEMMA AcceptFailedSteps ==
    ASSUME LifeInv, IInv', Goes, NEW t \in IOThreads, AcceptFailed(t),
           at[t].s \in Calm'
    PROVE  Pool!Next
<1>1. at[t].pc = "acceptErr" /\ at[t].pc \in OwningPC
  BY DEF AcceptFailed, OwningPC
<1>0. at[t].s \in Calm
  BY DEF Goes
<1>2. PICK s \in Session : at[t].s = s /\ s \in Calm' /\ s \in AcceptSession
  BY <1>0, <1>1, HandlerOwns, CalmAccepts
<1>calm. Calm' = Calm
  BY <1>2, CalmStays DEF AcceptFailed, socketVars, Goes
<1>3. OwnedByHandler(s, t) /\ Owns(t, s)
  BY <1>0, <1>1, <1>2, HandlerOwns
<1>4. OthersUntouched(s) /\ UNCHANGED shutdown /\ UNCHANGED ops /\ UNCHANGED queueVars
  BY <1>0, <1>2, <1>calm, AcceptFailedLives DEF AcceptFailed
<1>5. OwnerWaits(s)
  BY <1>1, <1>3 DEF OwnerWaits, Accepting
<1>6. IInv /\ TypeOK
  BY DEF LifeInv, IInv
<1>7. CASE shutdown
  <2>1. Goto(t, Idle)
    BY <1>7 DEF AcceptFailed
  <2>2. ~HasHandler(s)' /\ ~MainHas(s)'
    BY <1>3, <1>6, <2>1, HandlerAfter DEF OwnedByHandler
  <2>3. NoOps(s)' /\ ~HasPacket(s)'
    BY <1>3, <1>4, QueueFacts DEF OwnedByHandler, NoOps
  <2>4. PhaseOf(s)' = "lost"
    BY <2>2, <2>3, <1>2, DroppedPhase
  <2>5. \A r \in AcceptSession : r # s => PhaseOf(r)' = PhaseOf(r)
    BY <1>4, <1>calm, OthersForget
  <2>6. s \in AcceptSession
    BY <1>2
  <2>7. Pool!Step(s, "lost", {})
    BY <1>4, <2>4, <2>5, <2>6, PoolStepsAlone
  <2>8. PhaseOf(s) = "waiting"
    BY <1>5, <1>2, PhaseAfter
  <2>9. Pool!Drop(s)
    BY <1>7, <2>6, <2>7, <2>8 DEF Pool!Drop
  <2> QED
    BY <2>6, <2>9 DEF Pool!Next
<1>8. CASE ~shutdown
  <2>1. Goto(t, Closing(s, "ACCEPT_FAILED"))
    BY <1>2, <1>8 DEF AcceptFailed
  <2>2. at'[t] = Closing(s, "ACCEPT_FAILED")
    BY <1>6, <2>1 DEF Goto, TypeOK, Thread
  <2>3. Owns(t, s)' /\ Accepting(t)'
    BY <2>2 DEF Owns, Accepting, Closing
  <2>4. OwnerWaits(s)'
    BY <2>3 DEF OwnerWaits
  <2> QED
    BY <1>4, <1>5, <2>4, <1>2, <1>calm, SamePhase
<1> QED
  BY <1>7, <1>8

LEMMA AcceptProcessingSteps ==
    ASSUME LifeInv, IInv', Goes, NEW t \in IOThreads, AcceptProcessing(t),
           at[t].s \in Calm'
    PROVE  Pool!Next
<1>1. at[t].pc = "acceptOk" /\ at[t].pc \in OwningPC
  BY DEF AcceptProcessing, OwningPC
<1>0. at[t].s \in Calm
  BY DEF Goes
<1>2. PICK s \in Session : at[t].s = s /\ s \in Calm' /\ s \in AcceptSession
  BY <1>0, <1>1, HandlerOwns, CalmAccepts
<1>calm. Calm' = Calm
  <2>1. TypeOK
    BY DEF LifeInv, IInv
  <2> QED
    BY <1>2, <2>1, OthersAsBefore, CalmStays DEF AcceptProcessing, Goes
<1>3. Owns(t, s)
  BY <1>0, <1>1, <1>2, HandlerOwns
<1>4. OthersUntouched(s) /\ UNCHANGED shutdown /\ UNCHANGED queueVars /\ Goto(t, Loc("announce", s))
  BY <1>0, <1>2, <1>calm, AcceptProcessingLives DEF AcceptProcessing
<1>5. PhaseOf(s) = "waiting"
  BY <1>1, <1>3, <1>2, PhaseAfter DEF OwnerWaits, Accepting
<1>6. at'[t] = Loc("announce", s)
  BY <1>4 DEF Goto, LifeInv, IInv, TypeOK, Thread
<1>7. Owns(t, s)' /\ ~Accepting(t)'
  BY <1>6 DEF Owns, Accepting, Loc, OwningPC
<1>8. PhaseOf(s)' = "connected"
  BY <1>7, <1>2, PhaseAfter DEF OwnerConnected
<1>9. \A r \in AcceptSession : r # s => PhaseOf(r)' = PhaseOf(r)
  BY <1>4, <1>calm, OthersForget
<1>10. s \in AcceptSession
  BY <1>2
<1>11. Pool!Step(s, "connected", {})
  BY <1>4, <1>8, <1>9, <1>10, PoolStepsAlone
<1>12. Pool!Accept(s)
  BY <1>5, <1>10, <1>11 DEF Pool!Accept
<1> QED
  BY <1>10, <1>12 DEF Pool!Next

\* A connected session whose handler goes on with the connection.
LEMMA HandlerStepsOn ==
    ASSUME LifeInv, Goes, Calm' = Calm, NEW t \in IOThreads, NEW s \in Calm', at[t].s = s,
           at[t].pc \in {"announce", "process"}, Goto(t, Loc("postRecv", s)),
           OthersUntouched(s), UNCHANGED shutdown
    PROVE  Pool!Next
<1>1. Owns(t, s) /\ ~Accepting(t)
  <2>1. at[t].pc \in OwningPC
    BY DEF OwningPC
  <2>2. at[t].why = "none"
    BY <2>1 DEF LifeInv, Roles
  <2> QED
    BY <2>1, <2>2 DEF Owns, Accepting
<1>2. at'[t] = Loc("postRecv", s)
  BY DEF Goto, LifeInv, IInv, TypeOK, Thread
<1>3. Owns(t, s)' /\ ~Accepting(t)'
  BY <1>2 DEF Owns, Accepting, Loc, OwningPC
<1>4. OwnerConnected(s) /\ OwnerConnected(s)'
  BY <1>1, <1>3 DEF OwnerConnected
<1> QED
  BY <1>4, SamePhase

LEMMA AnnounceSteps ==
    ASSUME LifeInv, IInv', Goes, NEW t \in IOThreads, Announce(t),
           at[t].s \in Calm'
    PROVE  Pool!Next
<1>1. at[t].pc = "announce" /\ at[t].pc \in OwningPC
  BY DEF Announce, OwningPC
<1>0. at[t].s \in Calm
  BY DEF Goes
<1>2. PICK s \in Session : at[t].s = s /\ s \in Calm' /\ s \in AcceptSession
  BY <1>0, <1>1, HandlerOwns, CalmAccepts
<1>calm. Calm' = Calm
  BY <1>2, CalmStays DEF Announce, socketVars, Goes
<1>3. OthersUntouched(s) /\ UNCHANGED shutdown /\ UNCHANGED ops
  BY <1>0, <1>2, <1>calm, AnnounceLives DEF Announce
<1>4. CASE Goto(t, Loc("postRecv", s))
  BY <1>1, <1>2, <1>calm, <1>3, <1>4, HandlerStepsOn
<1>5. CASE UNCHANGED <<queueVars, at>>
  <2>1. Owns(t, s) /\ (Owns(t, s)' <=> Owns(t, s)) /\ (Accepting(t)' <=> Accepting(t))
    BY <1>1, <1>2, <1>5, HandlerOwns DEF Owns, Accepting
  <2>2. \/ OwnerWaits(s) /\ OwnerWaits(s)'
        \/ OwnerConnected(s) /\ OwnerConnected(s)'
    BY <2>1 DEF OwnerWaits, OwnerConnected
  <2> QED
    BY <1>3, <2>2, <1>2, <1>calm, SamePhase
<1> QED
  BY <1>2, <1>4, <1>5 DEF Announce

LEMMA ProcessSteps ==
    ASSUME LifeInv, IInv', Goes, ProcessRuns, NEW t \in IOThreads, ProcessRecvData(t),
           at[t].s \in Calm'
    PROVE  Pool!Next
<1>1. at[t].pc = "process" /\ at[t].pc \in OwningPC
  BY DEF ProcessRecvData, OwningPC
<1>0. at[t].s \in Calm
  BY DEF Goes
<1>2. PICK s \in Session : at[t].s = s /\ s \in Calm' /\ s \in AcceptSession
  BY <1>0, <1>1, HandlerOwns, CalmAccepts
<1>calm. Calm' = Calm
  <2>1. SessionID(s) = s
    BY <1>2, CalmNamed DEF Goes
  <2>2. UNCHANGED imitated
    BY <1>2, <2>1, ImitationDisturbs DEF ProcessRecvData, LifeInv
  <2> QED
    BY <1>2, <2>2, CalmStays DEF ProcessRecvData, socketVars, Goes
<1>3. OthersUntouched(s) /\ UNCHANGED shutdown /\ Goto(t, Loc("postRecv", s))
  BY <1>0, <1>2, <1>calm, ProcessLives DEF ProcessRecvData
<1> QED
  BY <1>1, <1>2, <1>calm, <1>3, HandlerStepsOn

LEMMA ContinueRecvSteps ==
    ASSUME LifeInv, IInv', Goes, NEW t \in IOThreads, ContinueRecv(t),
           at[t].s \in Calm'
    PROVE  Pool!Next
<1>1. at[t].pc = "postRecv" /\ at[t].pc \in OwningPC
  BY DEF ContinueRecv, OwningPC
<1>0. at[t].s \in Calm
  BY DEF Goes
<1>2. PICK s \in Session : at[t].s = s /\ s \in Calm' /\ s \in AcceptSession
  BY <1>0, <1>1, HandlerOwns, CalmAccepts
<1>calm. Calm' = Calm
  BY <1>2, CalmStays DEF ContinueRecv, socketVars, Goes
<1>3. OwnedByHandler(s, t) /\ Owns(t, s)
  BY <1>0, <1>1, <1>2, HandlerOwns
<1>4. OthersUntouched(s) /\ UNCHANGED shutdown
  BY <1>0, <1>2, <1>calm, ContinueRecvLives DEF ContinueRecv
<1>5. at[t].why = "none"
  BY <1>1 DEF LifeInv, Roles
<1>6. OwnerConnected(s)
  BY <1>1, <1>3, <1>5 DEF OwnerConnected, Accepting
<1>7. PICK k \in RecvOp : k \in OpKind /\ ops' = [ops EXCEPT ![s][k] = @ + 1]
  BY <1>2 DEF ContinueRecv, PostRecv, RecvOp, OpKind
<1>8. OneOp(s, k)'
  BY <1>3, <1>7, AddedOps DEF LifeInv, IInv, OwnedByHandler
<1>9. ops'[s][k] = 1
  BY <1>7, <1>8 DEF OneOp
<1>10. OwnerConnected(s)'
  BY <1>9 DEF OwnerConnected
<1> QED
  BY <1>4, <1>6, <1>10, <1>2, <1>calm, SamePhase

LEMMA HandlerClosesSteps ==
    ASSUME LifeInv, IInv', Goes, ProcessRuns, NEW t \in IOThreads, CloseBegin(t),
           at[t].s \in Calm'
    PROVE  Pool!Next
<1>1. at[t].pc = "close"
  BY DEF CloseBegin
<1>0. at[t].s \in Calm
  BY DEF Goes
<1>2. PICK s \in Session : at[t].s = s /\ s \in Calm' /\ s \in AcceptSession
  BY <1>0, <1>1, HandlerOwns, CalmAccepts
<1>calm. Calm' = Calm
  <2>1. TypeOK
    BY DEF LifeInv, IInv
  <2> QED
    BY <1>2, <2>1, OthersAsBefore, CalmStays DEF CloseBegin, Goes
<1>3. Owns(t, s) /\ at[t] \in Place
  BY <1>0, <1>1, <1>2, HandlerOwns DEF LifeInv, IInv, TypeOK, Thread
<1>4. OthersUntouched(s) /\ UNCHANGED shutdown
  BY <1>0, <1>2, <1>calm, HandlerClosesLives DEF CloseBegin
<1>5. Notifies(at[t].why)
  BY <1>1 DEF LifeInv, Roles, Notifies
<1>6. at'[t] = [at[t] EXCEPT !.pc = "notify"]
  BY <1>5 DEF CloseBegin, Goto, LifeInv, IInv, TypeOK, Thread
<1>7. at'[t].pc = "notify" /\ at'[t].s = at[t].s /\ at'[t].why = at[t].why
  BY <1>3, <1>6 DEF Place
<1>8. Owns(t, s)' /\ (Accepting(t)' <=> Accepting(t))
  BY <1>1, <1>3, <1>7 DEF Owns, Accepting, OwningPC
<1>9. \/ OwnerWaits(s) /\ OwnerWaits(s)'
      \/ OwnerConnected(s) /\ OwnerConnected(s)'
  BY <1>3, <1>8 DEF OwnerWaits, OwnerConnected
<1> QED
  BY <1>4, <1>9, <1>2, <1>calm, SamePhase

LEMMA MainClosesSteps ==
    ASSUME LifeInv, IInv', Goes, ProcessRuns, CloseBegin(Main), at[Main].why = "SELF_DISCONNECT",
           NEW q, Calm \ Calm' \subseteq {q}
    PROVE  Pool!Next
<1>0. TypeOK /\ IInv
  BY DEF LifeInv, IInv
<1>1. PICK s \in Session : at[Main].s = s
  BY <1>0 DEF CloseBegin, IInv, HasSession, NoSessionPC, Thread
<1>2. OthersUntouched(s) /\ UNCHANGED shutdown /\ (ops'[s] = ops[s] => Untouched(s))
  BY <1>1, MainClosesLives DEF CloseBegin, Goes
<1>3. CASE s \notin Calm'
  BY <1>2, <1>3, ElsewhereSteps, CalmAccepts DEF OthersUntouched, CalmUntouched
<1>4. s \in Calm' => Calm' = Calm
  <2> SUFFICES ASSUME s \in Calm' PROVE Calm' = Calm
    OBVIOUS
  <2>1. s \in AcceptSession
    BY CalmAccepts
  <2> QED
    BY <1>0, <1>1, <2>1, OthersAsBefore, CalmStays DEF CloseBegin, Goes
<1>5. CASE s \in Calm' /\ ops'[s] = ops[s]
  BY <1>2, <1>4, <1>5, SamePhase
<1>6. CASE s \in Calm' /\ ops'[s] # ops[s]
  <2>1. ops' = [ops EXCEPT ![s] = Cancelled(@)]
    BY <1>1, <1>6 DEF CloseBegin
  <2>2. ops[s] \in [OpKind -> Nat] /\ {"recv", "recvErr"} \subseteq OpKind
    BY <1>0 DEF TypeOK, OpKind
  <2>3. ops[s]["recv"] > 0
    BY <1>0, <1>6, <2>1, <2>2, NothingCancelled
  <2>4. ops'[s]["recvErr"] = ops[s]["recvErr"] + ops[s]["recv"]
    BY <1>0, <2>1, <2>2 DEF Cancelled, TypeOK
  <2>5. ops'[s]["recvErr"] > 0
    BY <2>2, <2>3, <2>4
  <2>6. OwnerConnected(s) /\ OwnerConnected(s)'
    BY <2>3, <2>5 DEF OwnerConnected, RecvOp
  <2> QED
    BY <1>2, <1>4, <1>6, <2>6, SamePhase
<1> QED
  BY <1>3, <1>5, <1>6

LEMMA CloseNotifySteps ==
    ASSUME LifeInv, IInv', Goes, NEW t \in Thread, CloseNotify(t),
           at[t].s \in Calm'
    PROVE  Pool!Next
<1>1. TypeOK /\ IInv /\ Roles /\ at[t].pc = "notify"
  BY DEF LifeInv, IInv, CloseNotify
<1>0. at[t].s \in Calm
  BY DEF Goes
<1>2. t \in IOThreads
  BY <1>0, <1>1 DEF Thread, Roles
<1>3. PICK s \in Session : at[t].s = s /\ s \in Calm' /\ s \in AcceptSession
  BY <1>0, <1>1, <1>2, HandlerOwns, CalmAccepts
<1>4. Owns(t, s) /\ s \in AcceptSession
  BY <1>0, <1>1, <1>2, <1>3, HandlerOwns
<1>calm. Calm' = Calm
  BY <1>3, CalmStays DEF CloseNotify, socketVars, Goes
<1>5. OthersUntouched(s) /\ UNCHANGED shutdown
  BY <1>0, <1>3, <1>calm, CloseNotifyLives DEF CloseNotify
<1>6. PhaseOf(s) \in {"waiting", "connected"}
  BY <1>2, <1>4, <1>3, PhaseAfter DEF OwnerWaits, OwnerConnected
<1>7. PICK d \in {0, 1} : Pushed("CLOSE", s, d)
  BY <1>0, <1>1, <1>3, PushMoves, CalmNamed DEF CloseNotify, NotifyDisconnect, PacketID
<1>8. HasPacket(s)'
  BY <1>7 DEF Pushed, HasPacket, Awaits
<1>9. PhaseOf(s)' = "closed"
  BY <1>8, <1>3, PhaseAfter DEF OwnerClosed
<1>10. \E lost \in SUBSET Pool!Closed : Pool!Step(s, "closed", lost)
  BY <1>4, <1>5, <1>9, <1>calm, OthersForget, PoolSteps
<1>11. Pool!Close(s)
  BY <1>4, <1>6, <1>10 DEF Pool!Close
<1> QED
  BY <1>4, <1>11 DEF Pool!Next

LEMMA FrontPacketSteps ==
    ASSUME LifeInv, IInv', Goes, FrontPacket, NEW q, Calm \ Calm' \subseteq {q}
    PROVE  Pool!Next
<1>1. PICK p \in Packet : p = packets[1] /\ 1 \in DOMAIN packets /\ p = Head(packets)
  <2>1. packets \in Seq(Packet) /\ packets # <<>>
    BY DEF LifeInv, IInv, TypeOK, FrontPacket
  <2> QED
    BY <2>1
<1>2. PICK s \in Session \cap AcceptSession : s = p.sid
  BY AcceptSessionIsSession DEF Packet
<1>3. OthersUntouched(s) /\ UNCHANGED shutdown /\ (p.id # "CLOSE" => Untouched(s))
  BY <1>1, <1>2, FrontPacketLives DEF FrontPacket, Goes
<1>calm. s \in Calm' => Calm' = Calm
  BY <1>2, CalmStays DEF FrontPacket, socketVars, Goes
<1>4. CASE s \in Calm' /\ p.id # "CLOSE"
  BY <1>3, <1>4, <1>calm, SamePhase
<1>5. CASE s \in Calm' /\ p.id = "CLOSE"
  <2>1. MainAt("front") /\ ~headInHand
    BY DEF FrontPacket, LifeInv, Roles
  <2>2. p = [id |-> "CLOSE", sid |-> s]
    BY <1>2, <1>5 DEF Packet
  <2>3. Awaits(1, s)
    BY <1>1, <2>1, <2>2 DEF Awaits
  <2>4. OwnerClosed(s)
    BY <1>1, <2>3 DEF OwnerClosed, HasPacket
  <2>5. Goto(Main, Loc("reuse", s))
    BY <1>1, <1>2, <1>5 DEF FrontPacket, FindServerSession
  <2>6. at'[Main] = Loc("reuse", s)
    BY <2>5 DEF Goto, LifeInv, IInv, TypeOK, Thread
  <2>7. OwnerClosed(s)'
    BY <2>6 DEF OwnerClosed, MainHas, MainAt, Loc, ReusePC
  <2> QED
    BY <1>3, <1>5, <1>calm, <2>4, <2>7, SamePhase
<1>6. CASE s \notin Calm'
  BY <1>3, <1>6, ElsewhereSteps, CalmAccepts DEF OthersUntouched, CalmUntouched
<1> QED
  BY <1>4, <1>5, <1>6

LEMMA ReUseSessionSteps ==
    ASSUME LifeInv, IInv', Goes, ReUseSession, at[Main].s \in Calm'
    PROVE  Pool!Next
<1>1. at[Main].pc = "reuse" /\ at[Main].pc \in ReusePC
  BY DEF ReUseSession, MainAt, ReusePC
<1>0. at[Main].s \in Calm
  BY DEF Goes
<1>2. PICK s \in Session : at[Main].s = s /\ s \in Calm' /\ s \in AcceptSession
  BY <1>0, <1>1, MainReuses, CalmAccepts
<1>calm. Calm' = Calm
  <2>1. TypeOK
    BY DEF LifeInv, IInv
  <2> QED
    BY <1>2, <2>1, OthersAsBefore, CalmStays DEF ReUseSession, Goes
<1>3. MainHas(s) /\ OwnerInv(s)
  BY <1>0, <1>1, <1>2, MainReuses
<1>4. OthersUntouched(s) /\ UNCHANGED shutdown
  BY <1>0, <1>2, <1>calm, ReUseSessionLives DEF ReUseSession
<1>5. CanPostAccept(s)
  BY <1>0, <1>1, <1>2, <1>3 DEF OwnerInv, SocketInv, CanPostAccept, MainAt
<1>6. Goto(Main, Loc("reset", s))
  BY <1>2, <1>5 DEF ReUseSession
<1>7. at'[Main] = Loc("reset", s)
  BY <1>6 DEF Goto, LifeInv, IInv, TypeOK, Thread
<1>8. OwnerClosed(s) /\ OwnerClosed(s)'
  BY <1>1, <1>3, <1>7 DEF OwnerClosed, MainHas, MainAt, Loc, ReusePC
<1> QED
  BY <1>4, <1>8, <1>2, <1>calm, SamePhase

LEMMA ResetSessionSteps ==
    ASSUME LifeInv, IInv', Goes, ResetSession, at[Main].s \in Calm'
    PROVE  Pool!Next
<1>1. at[Main].pc = "reset" /\ at[Main].pc \in ReusePC
  BY DEF ResetSession, MainAt, ReusePC
<1>0. at[Main].s \in Calm
  BY DEF Goes
<1>2. PICK s \in Session : at[Main].s = s /\ s \in Calm' /\ s \in AcceptSession
  BY <1>0, <1>1, MainReuses, CalmAccepts
<1>calm. Calm' = Calm
  <2>1. TypeOK
    BY DEF LifeInv, IInv
  <2> QED
    BY <1>2, <2>1, OthersAsBefore, CalmStays DEF ResetSession, Goes
<1>3. MainHas(s) /\ s \in AcceptSession
  BY <1>0, <1>1, <1>2, MainReuses
<1>4. OthersUntouched(s) /\ UNCHANGED shutdown /\ Goto(Main, Loc("async", s))
  BY <1>0, <1>2, <1>calm, ResetSessionLives DEF ResetSession
<1>5. at'[Main] = Loc("async", s)
  BY <1>4 DEF Goto, LifeInv, IInv, TypeOK, Thread
<1>6. OwnerClosed(s) /\ OwnerWaits(s)'
  BY <1>1, <1>3, <1>5 DEF OwnerClosed, OwnerWaits, MainHas, MainAt, Loc, ReusePC
<1>7. PhaseOf(s) = "closed" /\ PhaseOf(s)' = "waiting"
  BY <1>6, <1>2, PhaseAfter
<1>8. \E lost \in SUBSET Pool!Closed : Pool!Step(s, "waiting", lost)
  BY <1>3, <1>4, <1>7, <1>calm, OthersForget, PoolSteps
<1>9. Pool!Reuse(s)
  BY <1>3, <1>7, <1>8 DEF Pool!Reuse
<1> QED
  BY <1>3, <1>9 DEF Pool!Next

LEMMA AsyncAcceptSteps ==
    ASSUME LifeInv, IInv', Goes, AsyncAccept, at[Main].s \in Calm'
    PROVE  Pool!Next
<1>1. at[Main].pc = "async" /\ at[Main].pc \in ReusePC
  BY DEF AsyncAccept, MainAt, ReusePC
<1>0. at[Main].s \in Calm
  BY DEF Goes
<1>2. PICK s \in Session : at[Main].s = s /\ s \in Calm' /\ s \in AcceptSession
  BY <1>0, <1>1, MainReuses, CalmAccepts
<1>calm. Calm' = Calm
  BY <1>2, CalmStays DEF AsyncAccept, socketVars, Goes
<1>3. MainHas(s) /\ OwnedByMain(s)
  BY <1>0, <1>1, <1>2, MainReuses
<1>4. OthersUntouched(s) /\ UNCHANGED shutdown
  BY <1>0, <1>2, <1>calm, AsyncAcceptLives DEF AsyncAccept
<1>5. PICK k \in AcceptOp : k \in OpKind /\ ops' = [ops EXCEPT ![s][k] = @ + 1]
  BY <1>2 DEF AsyncAccept, AcceptOp, OpKind
<1>6. OneOp(s, k)'
  BY <1>3, <1>5, AddedOps DEF LifeInv, IInv, OwnedByMain
<1>7. ops'[s][k] = 1
  BY <1>5, <1>6 DEF OneOp
<1>8. OwnerWaits(s) /\ OwnerWaits(s)'
  BY <1>1, <1>3, <1>7 DEF OwnerWaits, MainAt
<1> QED
  BY <1>4, <1>8, <1>2, <1>calm, SamePhase

LEMMA CloseAcceptorSteps ==
    ASSUME LifeInv, IInv', Goes, CloseAcceptor
    PROVE  Pool!Next
<1>calm. Calm' = Calm
  BY DEF CloseAcceptor, socketVars, Calm, Undisturbed
<1>1. UNCHANGED shutdown /\ \A r \in Calm : ops'[r] = ops[r] => Untouched(r)
  BY <1>calm, CloseAcceptorLives DEF CloseAcceptor
<1>2. ASSUME NEW r \in Calm
      PROVE  Forgets(r)
  <2>0. r \in Session /\ r \in Calm'
    BY <1>calm, CalmAccepts
  <2>1. CASE ops'[r] = ops[r]
    BY <1>1, <2>0, <2>1, UntouchedPhase
  <2>2. CASE ops'[r] # ops[r]
    <3>1. ops'[r] = [ops[r] EXCEPT !["accept"] = 0, !["acceptErr"] = @ + ops[r]["accept"]]
      BY <2>0 DEF CloseAcceptor
    <3>2. ops[r] \in [OpKind -> Nat] /\ {"accept", "acceptErr"} \subseteq OpKind
      BY <2>0 DEF LifeInv, IInv, TypeOK, OpKind
    <3>3. ops[r]["accept"] > 0
      <4>1. SUFFICES ASSUME ops[r]["accept"] = 0
                     PROVE  FALSE
        BY <3>2
      <4>2. ops'[r] = ops[r]
        BY <3>1, <3>2, <4>1
      <4> QED
        BY <2>2, <4>2
    <3>4. ops'[r]["acceptErr"] = ops[r]["acceptErr"] + ops[r]["accept"]
      BY <3>1, <3>2
    <3>5. ops'[r]["acceptErr"] > 0
      BY <3>2, <3>3, <3>4
    <3>6. OwnerWaits(r) /\ OwnerWaits(r)'
      BY <3>3, <3>5 DEF OwnerWaits, AcceptOp
    <3> QED
      BY <2>0, <3>6, PhaseAfter DEF Forgets
  <2> QED
    BY <2>1, <2>2
<1>3. \A r \in AcceptSession : Forgets(r)
  BY <1>2, DisturbedPhase DEF Forgets
<1>4. Pool!Overflow
  BY <1>1, <1>3, PoolOverflows
<1> QED
  BY <1>4 DEF Pool!Next

\* Release: the phases stay, and the pool may only stop.
LEMMA StopSteps ==
    ASSUME LifeInv, IInv', Goes, Stop
    PROVE  Pool!Next
<1>calm. Calm' = Calm
  BY DEF Stop, socketVars, Calm, Undisturbed
<1>1. CalmUntouched
  BY <1>calm, JoinStopLives, CalmAccepts DEF CalmUntouched
<1>2. UNCHANGED queueVars /\ shutdown' = TRUE
  BY DEF Stop
<1>3. \A r \in AcceptSession : PhaseOf(r)' = PhaseOf(r)
  <2> SUFFICES ASSUME NEW r \in AcceptSession
               PROVE  PhaseOf(r)' = PhaseOf(r)
    OBVIOUS
  <2>1. CASE r \in Calm'
    BY <1>1, <1>2, <2>1, UntouchedPhase, CalmAccepts DEF CalmUntouched
  <2>2. CASE r \notin Calm
    BY <2>2, DisturbedPhase
  <2> QED
    BY <1>calm, <2>1, <2>2
<1>4. CASE shutdown
  BY <1>1, <1>2, <1>4, <1>calm, ElsewhereSteps
<1>5. CASE ~shutdown
  <2>1. [r \in AcceptSession |-> PhaseOf(r)]' = [r \in AcceptSession |-> PhaseOf(r)]
    BY <1>3
  <2>2. Pool!Stop
    BY <1>2, <1>5, <2>1 DEF Pool!Stop
  <2> QED
    BY <2>2 DEF Pool!Next
<1> QED
  BY <1>4, <1>5 DEF LifeInv, IInv, TypeOK

\* Nothing but Start happens before the server has started.
LEMMA OnlyStart ==
    ASSUME LifeInv, Next, MainAt("start")
    PROVE  Start
<1>1. /\ \A s \in Session, k \in OpKind : ~(ops[s][k] > 0)
      /\ \A t \in IOThreads : at[t].pc = "idle"
      /\ at[Main].pc = "start"
  BY DEF LifeInv, Roles, Idle, Loc, MainAt
<1>2. ~Environment
  BY <1>1
  DEF Environment, Stop, Connect, ConnectThrows, ConnectFails, PeerConnects, AcceptFails,
      PeerSends, PeerCloses, MainAt, OpKind
<1>3. ASSUME NEW t \in Thread
      PROVE  ~CloseStep(t)
  BY <1>1 DEF Thread, CloseStep, CloseBegin, ShutdownThrows, CloseNotify, CloseEnd
<1>4. ASSUME NEW t \in IOThreads
      PROVE  ~HandlerStep(t)
  BY <1>1 DEF HandlerStep, AcceptFailed, AcceptProcessing, Announce, ContinueRecv, ProcessRecvData
<1>5. ASSUME NEW t \in IOThreads, NEW s \in Session
      PROVE  ~RunHandler(t, s)
  BY <1>1 DEF RunHandler, OnAcceptOk, OnAcceptErr, OnRecvOk, OnRecvErr, OnRecvErrWithBytes, OpKind
<1>6. MainStep => Start
  BY <1>1 DEF MainStep, FrontPacket, ReUseSession, ResetSession, AsyncAccept, PopPacket,
     CloseAcceptor, Join, MainAt
<1> QED
  BY <1>2, <1>3, <1>4, <1>5, <1>6 DEF Next

LEMMA StartSteps ==
    ASSUME LifeInv, LifeInv', PhaseInv, PhaseInv', AcceptSession \subseteq Calm,
           Start
    PROVE  Pool!Next
<1> DEFINE posted == {s \in AcceptSession : \A r \in 0 .. s : sockState[r] # "CONNECT"}
           place == Loc(IF posted = AcceptSession THEN "front" ELSE "done", NoSession)
<1>calm. AcceptSession \subseteq Calm'
  <2>1. used' = [s \in Session |-> s \in posted] /\ UNCHANGED imitated
    BY DEF Start
  <2>2. posted \subseteq AcceptSession
    OBVIOUS
  <2> HIDE DEF posted
  <2>3. \A c \in ConnectSession : ~used'[c]
    BY <2>1, <2>2, TwoPools
  <2> QED
    BY <2>1, <2>3 DEF Calm, Undisturbed, Namesakes
<1>1. /\ MainAt("start") /\ UNCHANGED shutdown
      /\ ops' = [s \in Session |->
                   IF s \in posted THEN [ops[s] EXCEPT !["accept"] = 1] ELSE ops[s]]
      /\ Goto(Main, place) /\ UNCHANGED queueVars
  BY DEF Start
<1>2. PICK P : P = posted
  OBVIOUS
<1>3. PICK q : q = place
  OBVIOUS
<1>4. q.pc \in {"front", "done"}
  BY <1>3 DEF Loc
<1> HIDE DEF posted, place
<1>5. at'[Main] = q /\ \A t \in IOThreads : at'[t] = Idle
  BY <1>1, <1>3, ThreadsAssumption DEF Goto, LifeInv, Roles, IInv, TypeOK, Thread
<1>6. ~MainAt("start")' /\ DOMAIN packets' = {}
  BY <1>1, <1>4, <1>5 DEF MainAt, queueVars, LifeInv, Roles
<1>7. ASSUME NEW s \in Session, s \in AcceptSession
      PROVE  PhaseOf(s) = "new" /\ PhaseOf(s)' \in {"waiting", "lost"}
  <2>1. Phases(s) /\ Phases(s)'
    BY <1>7 DEF PhaseInv
  <2>2. ops[s] \in [OpKind -> Nat] /\ \A k \in OpKind : ops[s][k] = 0
    BY <1>1 DEF LifeInv, IInv, TypeOK, Roles
  <2>3. \A k \in RecvOp : ops'[s][k] = 0
    BY <1>1, <1>2, <2>2 DEF RecvOp, OpKind
  <2>4. \A t \in IOThreads : ~Owns(t, s)'
    BY <1>5 DEF Owns, Idle, Loc, NoSession, Session
  <2>5. ~OwnerConnected(s)'
    BY <2>3, <2>4 DEF OwnerConnected
  <2>6. ~OwnerClosed(s)'
    BY <1>4, <1>5, <1>6 DEF OwnerClosed, MainHas, ReusePC, HasPacket
  <2> QED
    BY <1>1, <1>6, <1>7, <1>calm, <2>1, <2>5, <2>6 DEF Phases
<1>8. \A s \in AcceptSession : PhaseOf(s) = "new" /\ PhaseOf(s)' \in {"waiting", "lost"}
  BY <1>7, AcceptSessionIsSession
<1>9. [s \in AcceptSession |-> PhaseOf(s)] = [s \in AcceptSession |-> "new"]
  BY <1>8
<1>10. [s \in AcceptSession |-> PhaseOf(s)]' \in [AcceptSession -> {"waiting", "lost"}]
  BY <1>8
<1>11. Pool!Open
  BY <1>1, <1>9, <1>10 DEF Pool!Open
<1> QED
  BY <1>11 DEF Pool!Next

\* A server that has started does not start again.
LEMMA GotoGoesOn ==
    ASSUME TypeOK, ~MainAt("start"), NEW t \in Thread, NEW place, Goto(t, place),
           place.pc # "start"
    PROVE  ~MainAt("start")'
BY DEF Goto, TypeOK, Thread, MainAt

LEMMA NeverStarts ==
    ASSUME LifeInv, Next, ~MainAt("start")
    PROVE  ~MainAt("start")'
<1>1. TypeOK /\ Main \in Thread /\ IOThreads \subseteq Thread
  BY DEF LifeInv, IInv, Thread
<1>2. \A pc \in PC : \A s : (Loc(pc, s)).pc = pc
  BY DEF Loc
<1>3. Idle.pc # "start" /\ \A s, why : (Closing(s, why)).pc # "start"
  BY DEF Idle, Loc, Closing
<1>4. at' = at => ~MainAt("start")'
  BY DEF MainAt
<1>5. ASSUME Environment
      PROVE  ~MainAt("start")'
  <2>1. Stop => Goto(Main, Closing(0, "SELF_DISCONNECT"))
    BY DEF Stop
  <2> QED
    BY <1>1, <1>3, <1>4, <1>5, <2>1, GotoGoesOn
    DEF Environment, Connect, ConnectThrows, ConnectFails, PeerConnects, AcceptFails, PeerSends,
        PeerCloses
<1>6. ASSUME MainStep
      PROVE  ~MainAt("start")'
  <2>1. PICK place : Goto(Main, place) /\ place.pc # "start"
    <3>1. CASE FrontPacket
      <4>1. PICK place \in {Loc("reuse", Head(packets).sid),
                            Closing(Head(packets).sid, "SELF_DISCONNECT"),
                            Loc("pop", NoSession)} : Goto(Main, place)
        BY <3>1 DEF FrontPacket, FindServerSession
      <4> QED
        BY <4>1 DEF Loc, Closing
    <3>2. CASE ReUseSession
      <4>1. PICK place \in {Loc("reset", at[Main].s), Closing(at[Main].s, "BIND_FAILED")} :
               Goto(Main, place)
        BY <3>2 DEF ReUseSession
      <4> QED
        BY <4>1 DEF Loc, Closing
    <3>3. CASE ResetSession
      BY <3>3 DEF ResetSession, Loc
    <3>4. CASE AsyncAccept
      BY <3>4 DEF AsyncAccept, Loc
    <3>5. CASE PopPacket
      BY <3>5 DEF PopPacket, Loc
    <3>6. CASE CloseAcceptor
      BY <3>6 DEF CloseAcceptor, Loc
    <3>7. CASE Join
      BY <3>7 DEF Join, Loc
    <3> QED
      BY <1>6, <3>1, <3>2, <3>3, <3>4, <3>5, <3>6, <3>7 DEF MainStep, Start
  <2> QED
    BY <1>1, <2>1, GotoGoesOn
<1>7. ASSUME NEW t \in Thread, CloseStep(t)
      PROVE  ~MainAt("start")'
  <2>1. at[t] \in Place
    BY <1>1 DEF TypeOK
  <2>2. \A pc \in {"notify", "closed"} : [at[t] EXCEPT !.pc = pc].pc # "start"
    BY <2>1 DEF Place
  <2>3. CASE CloseBegin(t)
    BY <1>1, <2>2, <2>3, GotoGoesOn DEF CloseBegin
  <2>4. CASE ShutdownThrows(t)
    BY <1>4, <2>4 DEF ShutdownThrows
  <2>5. CASE CloseNotify(t)
    BY <1>1, <2>2, <2>5, GotoGoesOn DEF CloseNotify
  <2>6. CASE CloseEnd(t)
    <3>1. PICK place \in {Idle, Loc("pop", NoSession), Closing(at[t].s + 1, "SELF_DISCONNECT"),
                          Loc("closeAcceptor", NoSession)} : Goto(t, place)
      BY <2>6 DEF CloseEnd, AfterClose
    <3>2. place.pc # "start"
      BY <3>1 DEF Idle, Loc, Closing
    <3> QED
      BY <1>1, <3>1, <3>2, GotoGoesOn
  <2> QED
    BY <1>7, <2>3, <2>4, <2>5, <2>6 DEF CloseStep
<1>8. ASSUME NEW t \in IOThreads, NEW place, Goto(t, place)
      PROVE  ~MainAt("start")'
  BY <1>1, <1>8, ThreadsAssumption DEF Goto, TypeOK, MainAt
<1>9. ASSUME NEW t \in IOThreads, HandlerStep(t)
      PROVE  ~MainAt("start")'
  BY <1>4, <1>8, <1>9
  DEF HandlerStep, AcceptFailed, AcceptProcessing, Announce, ContinueRecv, ProcessRecvData
<1>10. ASSUME NEW t \in IOThreads, NEW s \in Session, RunHandler(t, s)
       PROVE  ~MainAt("start")'
  BY <1>4, <1>8, <1>10
  DEF RunHandler, OnAcceptOk, OnAcceptErr, OnRecvOk, OnRecvErr, OnRecvErrWithBytes
<1> QED
  BY <1>5, <1>6, <1>7, <1>9, <1>10 DEF Next

-----------------------------------------------------------------------------
(* The refinement.                                                          *)

LEMMA EnvironmentSteps ==
    ASSUME LifeInv, IInv', Goes, Environment, NEW q, Calm \ Calm' \subseteq {q}
    PROVE  Pool!Next
<1>1. CASE Stop
  BY <1>1, StopSteps
<1>2. ASSUME NEW c \in ConnectSession, Connect(c) \/ ConnectThrows(c) \/ ConnectFails(c)
      PROVE  Pool!Next
  BY <1>2, CallsElsewhere, ElsewhereSteps DEF Connect, ConnectThrows, ConnectFails, Goes
<1>3. ASSUME NEW s \in Session,
             PeerConnects(s) \/ AcceptFails(s) \/ PeerSends(s) \/ PeerCloses(s)
      PROVE  Pool!Next
  <2>1. CASE s \in Calm'
    BY <1>3, <2>1, NetworkSteps
  <2>2. CASE s \notin Calm'
    <3>1. OthersUntouched(s) /\ UNCHANGED shutdown
      BY <1>3, NetworkLives DEF PeerConnects, AcceptFails, PeerSends, PeerCloses, Goes
    <3> QED
      BY <2>2, <3>1, ElsewhereSteps, CalmAccepts DEF OthersUntouched, CalmUntouched
  <2> QED
    BY <2>1, <2>2
<1> QED
  BY <1>1, <1>2, <1>3 DEF Environment

LEMMA MainSteps ==
    ASSUME LifeInv, ConnectsInv, IInv', Goes, MainStep, NEW q, Calm \ Calm' \subseteq {q}
    PROVE  Pool!Next
<1>1. CASE PopPacket \/ Join
  <2>1. CalmUntouched /\ UNCHANGED shutdown
    BY <1>1, PopPacketLives, JoinStopLives, CalmAccepts DEF PopPacket, Join, CalmUntouched, Goes
  <2> QED
    BY <2>1, ElsewhereSteps
<1>2. CASE ReUseSession \/ ResetSession \/ AsyncAccept
  <2>1. CASE at[Main].s \in Calm'
    BY <1>2, <2>1, ReUseSessionSteps, ResetSessionSteps, AsyncAcceptSteps
  <2>2. CASE at[Main].s \notin Calm'
    <3>1. at[Main].s \in AcceptSession
      BY <1>2, ReusesAccepts
      DEF ReUseSession, ResetSession, AsyncAccept, MainAt, ReusePC, LifeInv
    <3>2. CalmUntouched /\ UNCHANGED shutdown
      BY <1>2, <2>2, <3>1, ReusesElsewhere DEF ReUseSession, ResetSession, AsyncAccept, Goes
    <3> QED
      BY <3>2, ElsewhereSteps
  <2> QED
    BY <2>1, <2>2
<1> QED
  BY <1>1, <1>2, FrontPacketSteps, CloseAcceptorSteps DEF MainStep, Start, Goes

LEMMA CloseSteps ==
    ASSUME LifeInv, ConnectsInv, IInv', Goes, ProcessRuns, NEW t \in Thread, CloseStep(t),
           NEW q, Calm \ Calm' \subseteq {q}
    PROVE  Pool!Next
<1>1. UNCHANGED shutdown
  BY DEF CloseStep, CloseBegin, ShutdownThrows, CloseNotify, CloseEnd
<1>2. CASE ShutdownThrows(t) \/ CloseEnd(t)
  <2>1. CalmUntouched
    BY <1>2, ShutdownThrowsLives, CloseEndLives, CalmAccepts DEF CalmUntouched, Goes
  <2> QED
    BY <1>1, <2>1, ElsewhereSteps
<1>3. CASE t = Main /\ CloseBegin(Main) /\ at[Main].why = "SELF_DISCONNECT"
  BY <1>3, MainClosesSteps
<1>4. CASE \/ t = Main /\ CloseBegin(Main) /\ at[Main].why # "SELF_DISCONNECT"
           \/ t = Main /\ CloseNotify(Main)
  <2>1. CalmUntouched
    BY <1>4, MainClosesElsewhere DEF Goes
  <2> QED
    BY <1>1, <2>1, ElsewhereSteps
<1>5. CASE t \in IOThreads /\ at[t].s \in Calm' /\ (CloseBegin(t) \/ CloseNotify(t))
  BY <1>5, HandlerClosesSteps, CloseNotifySteps
<1>6. CASE t \in IOThreads /\ at[t].s \notin Calm' /\ (CloseBegin(t) \/ CloseNotify(t))
  <2>1. CalmUntouched
    BY <1>6, HandlerClosesElsewhere DEF Goes
  <2> QED
    BY <1>1, <2>1, ElsewhereSteps
<1> QED
  BY <1>2, <1>3, <1>4, <1>5, <1>6 DEF CloseStep, Thread

LEMMA HandlerSteps ==
    ASSUME LifeInv, ConnectsInv, IInv', Goes, ProcessRuns, NEW t \in IOThreads, HandlerStep(t),
           NEW q, Calm \ Calm' \subseteq {q}
    PROVE  Pool!Next
<1>1. CASE at[t].s \in Calm'
  BY <1>1, AcceptFailedSteps, AcceptProcessingSteps, AnnounceSteps, ContinueRecvSteps, ProcessSteps
  DEF HandlerStep
<1>2. CASE at[t].s \notin Calm'
  <2>1. CalmUntouched
    BY <1>2, HandlerStepElsewhere DEF Goes
  <2>2. UNCHANGED shutdown
    BY DEF HandlerStep, AcceptFailed, AcceptProcessing, Announce, ContinueRecv, ProcessRecvData
  <2> QED
    BY <2>1, <2>2, ElsewhereSteps
<1> QED
  BY <1>1, <1>2

LEMMA TakenSteps ==
    ASSUME LifeInv, IInv', Goes, NEW t \in IOThreads, NEW s \in Session, RunHandler(t, s),
           NEW q, Calm \ Calm' \subseteq {q}
    PROVE  Pool!Next
<1>1. CASE s \in Calm'
  BY <1>1, AcceptTakenSteps, ReceiveTakenSteps, ReceiveBrokenSteps DEF RunHandler
<1>2. CASE s \notin Calm'
  <2>1. CalmUntouched
    BY <1>2, TakenElsewhere DEF Goes
  <2>2. UNCHANGED shutdown
    BY DEF RunHandler, OnAcceptOk, OnAcceptErr, OnRecvOk, OnRecvErr, OnRecvErrWithBytes
  <2> QED
    BY <2>1, <2>2, ElsewhereSteps
<1> QED
  BY <1>1, <1>2

LEMMA StartedSteps ==
    ASSUME LifeInv, IInv', ConnectsInv, Goes, Next
    PROVE  Pool!Next
<1>1. PICK q : Calm \ Calm' \subseteq {q}
  BY OneDisturbed DEF LifeInv, Goes
<1> QED
  BY <1>1, EnvironmentSteps, MainSteps, CloseSteps, HandlerSteps, TakenSteps DEF Next

LEMMA InitIsPoolInit == Init => Pool!Init
<1> SUFFICES ASSUME Init PROVE Pool!Init
  OBVIOUS
<1>1. MainAt("start")
  BY DEF Init, MainAt, Loc, Thread
<1>2. \A s \in AcceptSession : PhaseOf(s) = "new"
  BY <1>1, LifeInit, LifePhases, AcceptSessionIsSession DEF PhaseInv, Phases
<1>3. [s \in AcceptSession |-> PhaseOf(s)] = [s \in AcceptSession |-> "new"]
  BY <1>2
<1> QED
  BY <1>3 DEF Init, Pool!Init

\* Nothing has been disturbed when the server starts.
StartsCalm == MainAt("start") => AcceptSession \subseteq Calm

LEMMA StartsCalmInit == Init => StartsCalm
BY SessionIDType, AcceptSessionIsSession, TwoPools
DEF Init, StartsCalm, Calm, Undisturbed, Namesakes

LEMMA NextIsPoolNext ==
    ASSUME WholeInv, WholeInv', StartsCalm, [Next]_vars
    PROVE  StartsCalm' /\ [Pool!Next]_(Pool!poolVars)
<1>1. PhaseInv /\ PhaseInv'
  BY LifePhases, PTL DEF WholeInv
<1>2. CASE UNCHANGED vars
  <2>1. StartsCalm'
    BY <1>2 DEF vars, StartsCalm, MainAt, Calm, Undisturbed
  <2>2. UNCHANGED Pool!poolVars
    BY <1>2 DEF vars, Pool!poolVars, PhaseOf, IsWaiting, IsConnected, IsClosed, Owns, Awaits,
       MainAt, Undisturbed
  <2> QED
    BY <2>1, <2>2
<1>3. CASE Next /\ MainAt("start")
  <2>1. Start
    BY <1>3, OnlyStart DEF WholeInv
  <2>2. Pool!Next
    BY <1>1, <1>3, <2>1, StartSteps DEF WholeInv, StartsCalm
  <2>3. ~MainAt("start")'
    BY <2>1 DEF Start, Goto, Loc, MainAt, WholeInv, LifeInv, IInv, TypeOK, Thread
  <2> QED
    BY <2>2, <2>3 DEF StartsCalm
<1>4. CASE Next /\ ~MainAt("start")
  <2>1. ~MainAt("start")'
    BY <1>4, NeverStarts DEF WholeInv
  <2>2. Goes
    BY <1>1, <1>4, <2>1, CalmShrinks DEF Goes, WholeInv, LifeInv
  <2>3. Pool!Next
    BY <1>4, <2>2, StartedSteps DEF WholeInv, LifeInv
  <2> QED
    BY <2>1, <2>3 DEF StartsCalm
<1> QED
  BY <1>2, <1>3, <1>4

(***************************************************************************)
(* The server implements the pool of accept sessions, for any number of    *)
(* sessions of both pools, threads, packets and inner ids of peers, and    *)
(* every fault of the platform: a step moves at most one undisturbed       *)
(* session on in its life cycle, or disturbs one, and may lose others only *)
(* by losing their CLOSE packets (SFServerNet.h:142-209, 336-392;          *)
(* SFTCPSocket.h:118-158, 304-337; SFDefaultPacketHandler.h:118-143).      *)
(***************************************************************************)
THEOREM ImplementsPoolAlways == Spec => ImplementsPool
<1>1. WholeInv /\ WholeInv' /\ StartsCalm /\ [Next]_vars =>
         StartsCalm' /\ [Pool!Next]_(Pool!poolVars)
  BY NextIsPoolNext
<1>2. Init => StartsCalm /\ Pool!Init
  BY StartsCalmInit, InitIsPoolInit
<1> QED
  BY <1>1, <1>2, WholeInvAlways, PTL DEF Spec, ImplementsPool, Pool!Spec
=============================================================================
