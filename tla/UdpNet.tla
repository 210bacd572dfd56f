------------------------------- MODULE UdpNet -------------------------------
(***************************************************************************)
(* CreateUDP, UDPMgr and its UDPSocket: one receive at a time, whose       *)
(* handler looks the sender up among the UdpSessions, and sends from any   *)
(* thread through the UdpSendBuffer. The handlers of all of them lie in    *)
(* the socket's HandlerMemory. What ends the process is a value of crash.  *)
(***************************************************************************)
EXTENDS UdpSessions, UdpSendBuffer, HandlerMemory

CONSTANTS
    IoThreads,     \* nThreadCount
    MaxDatagrams,  \* bound: datagrams received in a run
    MaxSends,      \* bound: datagrams sent in a run
    MaxWork        \* bound: work in a run

ASSUME UdpNetAssumption ==
    /\ IoThreads \in Nat \ {0}
    /\ {MaxDatagrams, MaxSends, MaxWork} \subseteq Nat

RecvOp == 0

VARIABLES
    version,  \* nUseIPAddressVersion
    phase,    \* of CreateUDP: "none", "creating" or "created"
    bound,    \* m_pSocket was created, and with it the threads
    finder,   \* GetUDPIDFunc is set
    stop,     \* m_bStopProcessRecvData
    posted,   \* async_receive_from operations that are posted
    ready,    \* outcomes of the completed ones, whose handlers are to run
    running,  \* the handlers in OnRecvFrom: where each is, the id it found, and
              \* for which datagram
    sender,   \* m_SenderEndpoint
    data,     \* the number of the datagram in m_pPacketBuffer
    sends,    \* number of a datagram -> how far its async_send_to is
    work,     \* what the application did so far: 2 for a session call, 3 for a send
    crash     \* what ended the process, or "none"

chainVars == <<posted, ready, running, sender, data>>
stateVars == <<version, phase, bound, finder, stop>>
sendVars == <<bufferVars, sends>>
netVars == <<sessionsVars, sendVars, memoryVars, stateVars, chainVars, work, crash>>

NetInit ==
    /\ SessionsInit
    /\ BufferInit
    /\ MemoryInit
    /\ version \in {"v4", "v6"}
    /\ phase = "none"
    /\ bound = FALSE
    /\ finder = FALSE
    /\ stop = FALSE
    /\ posted = 0
    /\ ready = <<>>
    /\ running = {}
    /\ sender = NoAddress
    /\ data = 0
    /\ sends = <<>>
    /\ work = 0
    /\ crash = "none"

Ends(cause) ==
    /\ crash' = cause
    /\ UNCHANGED <<sessionsVars, sendVars, memoryVars, stateVars, chainVars, work>>

-----------------------------------------------------------------------------
(* CreateUDP.                                                               *)

\* UDPSocket::Init: the socket is bound, a receive posted, the threads are
\* started; or there is no socket, which UDPMgr::Create does not report.
InitSocket ==
    \/ /\ bound' = TRUE
       /\ posted' = 1
       /\ inUse' = TRUE
       /\ holders' = {RecvOp}
       /\ UNCHANGED <<testing, overlapped>>
    \/ UNCHANGED <<bound, posted, memoryVars>>

\* Mutant of DestroyUDP: the threads are detached.
DestroyUDPDetached ==
    /\ DestroySessions
    /\ UNCHANGED crash

\* Destroying a bound socket destroys threads that were not joined, which ends
\* the process (CreateUDPAgain). That the session manager and the buffers were
\* freed just before, while those threads ran, is part of that end.
DestroyUDP ==
    /\ ~bound
    /\ DestroySessions
    /\ UNCHANGED crash

\* CreateUDP up to the start of the threads. m_bStopProcessRecvData has no
\* initial value.
CreateUDP ==
    /\ phase \in {"none", "created"}
    /\ DestroyUDP
    /\ InitSocket
    /\ phase' = "creating"
    /\ finder' = FALSE
    /\ stop' \in BOOLEAN
    /\ UNCHANGED <<sendVars, ready, running, sender, data, version, work>>

CreateUDPAgain == phase = "created" /\ bound /\ Ends("threads joinable")

\* GetUDPIDFunc is set for the IPv4 socket, and for it only.
SetFinder == finder' = (version = "v4")

CreateReturns ==
    /\ phase = "creating"
    /\ phase' = "created"
    /\ SetFinder
    /\ UNCHANGED <<sessionsVars, sendVars, memoryVars, version, bound, stop, chainVars, work, crash>>

-----------------------------------------------------------------------------
(* The receive chain.                                                       *)

\* A datagram arrives for the receive that is posted.
Arrive(a) ==
    /\ posted > 0 /\ data < MaxDatagrams
    /\ posted' = posted - 1
    /\ sender' = a
    /\ data' = data + 1
    /\ ready' = Append(ready, "ok")
    /\ UNCHANGED <<running, sessionsVars, sendVars, memoryVars, stateVars, work, crash>>

\* The receive fails.
ReceiveFails ==
    /\ posted > 0
    /\ posted' = posted - 1
    /\ ready' = Append(ready, "error")
    /\ UNCHANGED <<running, sender, data, sessionsVars, sendVars, memoryVars, stateVars, work, crash>>

Handler(pc) == [pc |-> pc, id |-> -1, for |-> 0]

\* Mutant of RunsOn: the handler ends with an error.
RunsOnAfterError(outcome) ==
    IF outcome = "error" THEN {} ELSE {Handler(IF stop THEN "allocate" ELSE "find")}

\* An error and data that is not wanted lead to RecvFrom at once.
RunsOn(outcome) == {Handler(IF outcome = "error" \/ stop THEN "allocate" ELSE "find")}

\* A thread runs OnRecvFrom; the handler's memory is given back first.
OnRecvFrom ==
    /\ ready # <<>> /\ Cardinality(running) < IoThreads
    /\ ready' = Tail(ready)
    /\ Deallocate(RecvOp)
    /\ running' = running \cup RunsOn(Head(ready))
    /\ UNCHANGED <<posted, sender, data, sessionsVars, sendVars, stateVars, work, crash>>

GoesOn(h, next) == running' = (running \ {h}) \cup next

FindSender(h) ==
    /\ h.pc = "find"
    /\ \/ ~finder /\ Ends("no finder")
       \/ /\ finder
          /\ GoesOn(h, {[pc |-> "hand", id |-> GetUDPID(sender), for |-> data]})
          /\ UNCHANGED <<posted, ready, sender, data,
                         sessionsVars, sendVars, memoryVars, stateVars, work, crash>>

\* Mutant of HandOver: the next receive is posted before the call.
HandOverAfterRecvFrom(h) ==
    /\ \/ h.pc = "hand" /\ posted' = posted + 1 /\ GoesOn(h, {[h EXCEPT !.pc = "late"]})
       \/ h.pc = "late" /\ GoesOn(h, {})
          /\ UNCHANGED posted
    /\ UNCHANGED <<ready, sender, data, sessionsVars, sendVars, memoryVars, stateVars, work, crash>>

\* ProcessRecvDataUDP, an empty function that keeps nothing.
HandOver(h) ==
    /\ h.pc = "hand"
    /\ GoesOn(h, {Handler("allocate")})
    /\ UNCHANGED <<posted, ready, sender, data,
                   sessionsVars, sendVars, memoryVars, stateVars, work, crash>>

\* RecvFrom in the steps of allocate; async_receive_from is posted at its end.
RecvFrom(h) ==
    /\ \/ /\ h.pc = "allocate"
          /\ TestInUse(RecvOp)
          /\ GoesOn(h, IF SeesFree THEN {Handler("take")} ELSE {})
          /\ posted' = IF SeesFree THEN posted ELSE posted + 1
       \/ /\ h.pc = "take"
          /\ TakeBlock(RecvOp)
          /\ GoesOn(h, {})
          /\ posted' = posted + 1
    /\ UNCHANGED <<ready, sender, data, sessionsVars, sendVars, stateVars, work, crash>>

-----------------------------------------------------------------------------
(* Sends, on threads of the application.                                    *)

\* SendTo up to the test of allocate: GetPostBuffer, which holds a lock, has
\* nothing in common with it.
SendTo(length) ==
    \/ ~bound /\ Ends("no send buffer")
    \/ /\ bound
       /\ posts < MaxSends /\ work + 3 <= MaxWork
       /\ work' = work + 3
       /\ GetPostBuffer(length)
       /\ TestInUse(posts + 1)
       /\ sends' = sends @@ ((posts + 1) :> IF SeesFree THEN "take" ELSE "posted")
       /\ UNCHANGED <<sessionsVars, stateVars, chainVars, crash>>

AsyncSendTo(number) ==
    /\ sends[number] = "take"
    /\ TakeBlock(number)
    /\ sends' = [sends EXCEPT ![number] = "posted"]
    /\ UNCHANGED <<sessionsVars, bufferVars, stateVars, chainVars, work, crash>>

\* The datagram is sent, or an error; OnSendTo only logs.
OnSendTo(number) ==
    /\ sends[number] = "posted"
    /\ Deallocate(number)
    /\ Sent(number)
    /\ sends' = Restrict(sends, DOMAIN sends \ {number})
    /\ UNCHANGED <<sessionsVars, stateVars, chainVars, work, crash>>

-----------------------------------------------------------------------------
\* A call of the session manager that does something.
SessionCall ==
    /\ work + 2 <= MaxWork
    /\ work' = work + 2
    /\ \/ \E a \in Addresses, id \in Ids : AddSession(a, id)
       \/ \E a \in Addresses : RemoveSessionByAddress(a)
       \/ \E id \in Ids : RemoveSessionById(id)
       \/ \E id \in Ids, key \in Keys : SetUDPPacketCrypter(id, key)
    /\ UNCHANGED <<sendVars, memoryVars, stateVars, chainVars, crash>>

\* AddSession does not look at what the pool gave.
AddToEmptyPool ==
    /\ pool = <<>>
    /\ \E a \in Addresses : WithAddress(a) = {}
    /\ Ends("null session")

StopProcessRecvData ==
    /\ stop' = ~stop
    /\ UNCHANGED <<sessionsVars, sendVars, memoryVars, version, phase, bound, finder, chainVars, work, crash>>

\* Nothing of the library fills the pool; a manager derived from UDPMgr may.
FillSessionPool ==
    /\ phase = "created"
    /\ NoSessions
    /\ FillPool
    /\ UNCHANGED <<sendVars, memoryVars, stateVars, chainVars, work, crash>>

Application ==
    \/ CreateUDP
    \/ CreateUDPAgain
    \/ /\ phase = "created"
       /\ \/ \E length \in 1 .. MaxLength : SendTo(length)
          \/ SessionCall
          \/ AddToEmptyPool
          \/ StopProcessRecvData

HandlerStep(h) == FindSender(h) \/ HandOver(h) \/ RecvFrom(h)

ThreadStep == OnRecvFrom \/ \E h \in running : HandlerStep(h)

NetNext ==
    /\ crash = "none"
    /\ \/ Application
       \/ CreateReturns
       \/ FillSessionPool
       \/ \E a \in Addresses : Arrive(a)
       \/ ReceiveFails
       \/ ThreadStep
       \/ \E number \in DOMAIN sends : AsyncSendTo(number) \/ OnSendTo(number)

NetSpec == NetInit /\ [][NetNext]_netVars

-----------------------------------------------------------------------------
(***************************************************************************)
(* A bound socket always has one receive, posted, completed or in its      *)
(* handler: errors and data that is dropped do not end the chain, and      *)
(* nothing starts a second one (SFUDPSocket.h:116, 163-176, 219-238).      *)
(***************************************************************************)
OneReceive == posted + Len(ready) + Cardinality(running) = IF bound THEN 1 ELSE 0

(***************************************************************************)
(* m_SenderEndpoint and m_pPacketBuffer are read several times, unlocked,  *)
(* in a handler that may run on any thread: when the packet handler is     *)
(* given them, they still are those of the datagram whose sender was       *)
(* looked up (SFUDPSocket.h:163-176, 230-237).                             *)
(***************************************************************************)
HandedTogether == \A h \in running : h.pc \in {"hand", "late"} => h.for = data

(***************************************************************************)
(* A manager is replaced by another CreateUDP only when nothing can refer  *)
(* to its socket any more: with a bound socket the threads, which nobody   *)
(* joins, end the process first (SFServerNet.h:211-217, 394-397,           *)
(* SFUDPSocket.h:189-215, 266).                                            *)
(***************************************************************************)
NothingPendingWhenReplaced ==
    [][phase # "creating" /\ phase' = "creating" =>
          posted = 0 /\ ready = <<>> /\ running = {} /\ sends = <<>>]_netVars
=============================================================================
