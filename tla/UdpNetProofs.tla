---------------------------- MODULE UdpNetProofs ----------------------------
(***************************************************************************)
(* Proofs about UdpNet for every number of threads, sessions, rows and     *)
(* datagrams. ChainInv says in which of three shapes the receive chain of  *)
(* a bound socket is, BlockInv who may be in allocate, BufferInv where the *)
(* datagrams lie that are being sent, SessionsInv where the session        *)
(* objects are. None needs another, but for the fact that a socket that    *)
(* was never bound has nothing pending.                                    *)
(***************************************************************************)
EXTENDS UdpNet, FiniteSetTheorems, TLAPS

Idle == posted = 0 /\ ready = <<>> /\ running = {}
Posted == posted = 1 /\ ready = <<>> /\ running = {}
Completed == posted = 0 /\ running = {} /\ \E outcome : ready = <<outcome>>
InHandler ==
    /\ posted = 0 /\ ready = <<>>
    /\ \E h : /\ running = {h}
              /\ h.pc \in {"find", "hand", "allocate", "take"}
              /\ h.pc = "hand" => h.for = data

ChainInv ==
    /\ bound \in BOOLEAN
    /\ bound => Posted \/ Completed \/ InHandler
    /\ ~bound => Idle /\ sends = <<>>

BlockInv ==
    /\ inUse \in BOOLEAN
    /\ ~bound => testing = {} /\ holders = {} /\ ~inUse
    /\ ~overlapped => /\ \A p, q \in testing : p = q
                      /\ \A p, q \in holders : p = q
                      /\ inUse <=> holders # {}
                      /\ holders # {} => testing = {}

NetInv == ChainInv /\ BlockInv

-----------------------------------------------------------------------------
LEMMA NetInitInv == NetInit => NetInv
<1> SUFFICES ASSUME NetInit PROVE NetInv
  OBVIOUS
<1>1. ChainInv
  BY DEF NetInit, ChainInv, Idle
<1>2. BlockInv
  BY DEF NetInit, MemoryInit, BlockInv
<1> QED
  BY <1>1, <1>2 DEF NetInv

\* A handler that goes on is replaced by the one handler it becomes.
LEMMA OneGoesOn ==
    ASSUME NEW h, running = {h}, NEW next, GoesOn(h, next)
    PROVE  running' = next
BY DEF GoesOn

\* A chain whose next step is RecvFrom.
LEMMA ChainInHandler ==
    ASSUME NEW pc \in {"find", "allocate", "take"}, bound' = TRUE, posted' = 0,
           ready' = <<>>, running' = {Handler(pc)}
    PROVE  ChainInv'
<1> DEFINE h == Handler(pc)
<1>1. h.pc = pc
  BY DEF Handler
<1> HIDE DEF h
<1>2. InHandler'
  BY <1>1 DEF InHandler, h
<1> QED
  BY <1>2 DEF ChainInv

\* Steps of the receive chain, and of nothing else, move it from one shape to
\* the next.
LEMMA ThreadKeepsChain ==
    ASSUME ChainInv, ThreadStep
    PROVE  ChainInv'
<1>1. bound = TRUE
  BY DEF ThreadStep, ChainInv, OnRecvFrom, Idle
<1>2. CASE OnRecvFrom
  <2>1. PICK outcome : ready = <<outcome>> /\ running = {} /\ posted = 0
    BY <1>1, <1>2 DEF OnRecvFrom, ChainInv, Posted, Completed, InHandler
  <2>2. ready' = <<>> /\ posted' = 0 /\ bound' = TRUE
    BY <1>1, <1>2, <2>1 DEF OnRecvFrom, stateVars
  <2> DEFINE pc == IF outcome = "error" \/ stop THEN "allocate" ELSE "find"
  <2>3. running' = {Handler(pc)}
    BY <1>2, <2>1 DEF OnRecvFrom, RunsOn
  <2> QED
    BY <2>2, <2>3, ChainInHandler
<1>3. ASSUME NEW h \in running, HandlerStep(h)
      PROVE  ChainInv'
  <2>2. running = {h} /\ posted = 0 /\ ready = <<>>
    BY <1>1, <1>3 DEF ChainInv, Posted, Completed, InHandler
  <2>3. CASE FindSender(h)
    <3>1. CASE finder
      <4> DEFINE g == [pc |-> "hand", id |-> GetUDPID(sender), for |-> data]
      <4>1. running' = {g} /\ posted' = 0 /\ ready' = <<>> /\ data' = data /\ bound' = TRUE
        BY <1>1, <2>2, <2>3, <3>1, OneGoesOn DEF FindSender, stateVars
      <4>2. g.pc = "hand" /\ g.for = data
        OBVIOUS
      <4> HIDE DEF g
      <4>3. InHandler'
        BY <4>1, <4>2 DEF InHandler
      <4> QED
        BY <4>1, <4>3 DEF ChainInv
    <3>2. CASE ~finder
      <4>1. UNCHANGED <<sends, bound, posted, ready, running, data>>
        BY <2>3, <3>2 DEF FindSender, Ends, sendVars, stateVars, chainVars
      <4> QED
        BY <4>1 DEF ChainInv, Idle, Posted, Completed, InHandler
    <3> QED
      BY <3>1, <3>2
  <2>4. CASE HandOver(h)
    <3>1. running' = {Handler("allocate")} /\ posted' = 0 /\ ready' = <<>> /\ bound' = TRUE
      BY <1>1, <2>2, <2>4, OneGoesOn DEF HandOver, stateVars
    <3> QED
      BY <3>1, ChainInHandler
  <2>5. CASE RecvFrom(h)
    <3>1. ready' = <<>> /\ bound' = TRUE
      BY <1>1, <2>2, <2>5 DEF RecvFrom, stateVars
    <3>2. CASE h.pc = "allocate" /\ SeesFree
      <4>1. running' = {Handler("take")} /\ posted' = 0
        BY <2>2, <2>5, <3>2, OneGoesOn DEF RecvFrom
      <4> QED
        BY <3>1, <4>1, ChainInHandler
    <3>3. CASE ~(h.pc = "allocate" /\ SeesFree)
      <4>1. running' = {} /\ posted' = 1
        BY <2>2, <2>5, <3>3, OneGoesOn DEF RecvFrom
      <4>2. Posted'
        BY <3>1, <4>1 DEF Posted
      <4> QED
        BY <3>1, <4>2 DEF ChainInv
    <3> QED
      BY <3>2, <3>3
  <2> QED
    BY <1>3, <2>3, <2>4, <2>5 DEF HandlerStep
<1> QED
  BY <1>2, <1>3 DEF ThreadStep

LEMMA NextKeepsChain ==
    ASSUME ChainInv, [NetNext]_netVars
    PROVE  ChainInv'
<1> DEFINE chainUnchanged == UNCHANGED <<bound, posted, ready, running, data>>
<1>1. ASSUME chainUnchanged, (bound \/ sends' = sends)
      PROVE  ChainInv'
  BY <1>1 DEF ChainInv, Idle, Posted, Completed, InHandler
<1>2. CASE CreateUDP
  <2>1. ~bound /\ Idle /\ sends = <<>>
    BY <1>2 DEF CreateUDP, DestroyUDP, ChainInv
  <2>2. ready' = <<>> /\ running' = {} /\ sends' = <<>>
    BY <1>2, <2>1 DEF CreateUDP, sendVars, Idle
  <2>3. CASE bound' = TRUE /\ posted' = 1
    BY <2>2, <2>3 DEF ChainInv, Posted
  <2>4. CASE bound' = bound /\ posted' = posted
    BY <2>1, <2>2, <2>4 DEF ChainInv, Idle
  <2> QED
    BY <1>2, <2>3, <2>4 DEF CreateUDP, InitSocket
<1>3. CASE \E cause : Ends(cause)
  BY <1>1, <1>3 DEF Ends, chainVars, stateVars, sendVars
<1>4. ASSUME NEW length \in 1 .. MaxLength, SendTo(length)
      PROVE  ChainInv'
  <2>1. CASE bound /\ UNCHANGED <<stateVars, chainVars>>
    BY <1>1, <2>1 DEF chainVars, stateVars
  <2> QED
    BY <1>3, <1>4, <2>1 DEF SendTo
<1>5. CASE SessionCall \/ StopProcessRecvData \/ CreateReturns \/ FillSessionPool
  BY <1>1, <1>5 DEF SessionCall, StopProcessRecvData, CreateReturns, FillSessionPool,
                    chainVars, stateVars, sendVars
<1>6. CASE Application
  BY <1>2, <1>3, <1>4, <1>5, <1>6 DEF Application, CreateUDPAgain, AddToEmptyPool
<1>7. ASSUME NEW outcome, posted > 0, posted' = posted - 1, ready' = Append(ready, outcome),
             UNCHANGED <<running, sendVars, stateVars>>
      PROVE  ChainInv'
  <2>1. bound /\ posted = 1 /\ ready = <<>> /\ running = {}
    BY <1>7 DEF ChainInv, Idle, Posted, Completed, InHandler
  <2>2. posted' = 0 /\ ready' = <<outcome>> /\ running' = {} /\ bound'
    BY <1>7, <2>1 DEF stateVars
  <2>3. Completed'
    BY <2>2 DEF Completed
  <2> QED
    BY <2>2, <2>3 DEF ChainInv
<1>8. CASE ReceiveFails \/ \E a \in Addresses : Arrive(a)
  BY <1>7, <1>8 DEF Arrive, ReceiveFails
<1>9. ASSUME NEW number \in DOMAIN sends, AsyncSendTo(number) \/ OnSendTo(number)
      PROVE  ChainInv'
  <2>1. bound
    BY <1>9 DEF ChainInv
  <2>2. chainUnchanged
    BY <1>9 DEF AsyncSendTo, OnSendTo, chainVars, stateVars
  <2> QED
    BY <1>1, <2>1, <2>2
<1>10. CASE UNCHANGED netVars
  BY <1>1, <1>10 DEF netVars, chainVars, stateVars, sendVars
<1> QED
  BY <1>5, <1>6, <1>8, <1>9, <1>10, ThreadKeepsChain DEF NetNext

-----------------------------------------------------------------------------
(* The block of memory.                                                     *)

\* As long as threads are in allocate one by one, each step of it keeps the
\* block with one operation.
LEMMA TestKeepsBlock ==
    ASSUME BlockInv, NEW op, TestInUse(op), bound, bound' = bound
    PROVE  BlockInv'
BY DEF BlockInv, TestInUse, SeesFree

LEMMA TakeKeepsBlock ==
    ASSUME BlockInv, NEW op, TakeBlock(op), bound, bound' = bound
    PROVE  BlockInv'
BY DEF BlockInv, TakeBlock

LEMMA DeallocateKeepsBlock ==
    ASSUME BlockInv, NEW op, Deallocate(op), bound, bound' = bound
    PROVE  BlockInv'
<1>1. inUse' \in BOOLEAN /\ testing' = testing /\ overlapped' = overlapped
  BY DEF BlockInv, Deallocate
<1>2. CASE overlapped
  BY <1>1, <1>2 DEF BlockInv
<1>3. CASE ~overlapped
  <2>1. \A p, q \in holders' : p = q
    BY <1>3 DEF BlockInv, Deallocate
  <2>2. inUse' <=> holders' # {}
    BY <1>3 DEF BlockInv, Deallocate
  <2>3. holders' # {} => testing' = {}
    BY <1>3 DEF BlockInv, Deallocate
  <2> QED
    BY <1>1, <1>3, <2>1, <2>2, <2>3 DEF BlockInv
<1> QED
  BY <1>2, <1>3

LEMMA NextKeepsBlock ==
    ASSUME NetInv, [NetNext]_netVars
    PROVE  BlockInv'
<1> USE DEF NetInv
<1>1. ASSUME UNCHANGED <<memoryVars, bound>>
      PROVE  BlockInv'
  BY <1>1 DEF BlockInv, memoryVars
<1>2. CASE CreateUDP
  <2>1. ~bound /\ testing = {} /\ holders = {}
    BY <1>2 DEF CreateUDP, DestroyUDP, BlockInv
  <2>2. CASE bound' = TRUE /\ inUse' = TRUE /\ holders' = {RecvOp}
             /\ testing' = testing /\ overlapped' = overlapped
    BY <2>1, <2>2 DEF BlockInv
  <2>3. CASE UNCHANGED <<bound, memoryVars>>
    BY <1>1, <2>3
  <2> QED
    BY <1>2, <2>2, <2>3 DEF CreateUDP, InitSocket
<1>3. CASE \E cause : Ends(cause)
  BY <1>1, <1>3 DEF Ends, stateVars
<1>4. ASSUME NEW length \in 1 .. MaxLength, SendTo(length)
      PROVE  BlockInv'
  <2>1. CASE bound /\ TestInUse(posts + 1) /\ UNCHANGED stateVars
    BY <2>1, TestKeepsBlock DEF stateVars
  <2> QED
    BY <1>3, <1>4, <2>1 DEF SendTo
<1>5. CASE SessionCall \/ StopProcessRecvData \/ CreateReturns \/ FillSessionPool
  BY <1>1, <1>5 DEF SessionCall, StopProcessRecvData, CreateReturns, FillSessionPool, stateVars
<1>6. CASE Application
  BY <1>2, <1>3, <1>4, <1>5, <1>6 DEF Application, CreateUDPAgain, AddToEmptyPool
<1>7. CASE ReceiveFails \/ \E a \in Addresses : Arrive(a)
  BY <1>1, <1>7 DEF Arrive, ReceiveFails, stateVars
<1>8. CASE OnRecvFrom
  <2>1. bound /\ bound' = bound
    BY <1>8 DEF OnRecvFrom, ChainInv, Idle, stateVars
  <2> QED
    BY <1>8, <2>1, DeallocateKeepsBlock DEF OnRecvFrom
<1>9. ASSUME NEW h \in running, HandlerStep(h)
      PROVE  BlockInv'
  <2>1. bound
    BY <1>9 DEF ChainInv, Idle
  <2>2. CASE FindSender(h) \/ HandOver(h)
    BY <1>1, <1>3, <2>2 DEF FindSender, HandOver, stateVars
  <2>3. CASE RecvFrom(h)
    <3>1. bound' = bound
      BY <2>3 DEF RecvFrom, stateVars
    <3> QED
      BY <2>1, <2>3, <3>1, TestKeepsBlock, TakeKeepsBlock DEF RecvFrom
  <2> QED
    BY <1>9, <2>2, <2>3 DEF HandlerStep
<1>10. ASSUME NEW number \in DOMAIN sends, AsyncSendTo(number) \/ OnSendTo(number)
       PROVE  BlockInv'
  <2>1. bound /\ bound' = bound
    BY <1>10 DEF ChainInv, AsyncSendTo, OnSendTo, stateVars
  <2> QED
    BY <1>10, <2>1, TakeKeepsBlock, DeallocateKeepsBlock DEF AsyncSendTo, OnSendTo
<1>11. CASE UNCHANGED netVars
  BY <1>1, <1>11 DEF netVars, stateVars
<1> QED
  BY <1>5, <1>6, <1>7, <1>8, <1>9, <1>10, <1>11 DEF NetNext, ThreadStep

-----------------------------------------------------------------------------
\* The invariant, in all behaviours.
THEOREM NetInvAlways == NetSpec => []NetInv
<1>1. NetInv /\ [NetNext]_netVars => NetInv'
  <2> SUFFICES ASSUME NetInv, [NetNext]_netVars PROVE NetInv'
    OBVIOUS
  <2> QED
    BY NextKeepsChain, NextKeepsBlock DEF NetInv
<1> QED
  BY <1>1, NetInitInv, PTL DEF NetSpec

(***************************************************************************)
(* The receive chain of a bound socket never ends and never doubles, for   *)
(* any number of threads (SFUDPSocket.h:163-176, 219-238).                 *)
(***************************************************************************)
THEOREM OneReceiveAlways == NetSpec => []OneReceive
<1>1. NetInv => OneReceive
  <2> SUFFICES ASSUME NetInv PROVE OneReceive
    OBVIOUS
  <2>1. Cardinality({}) = 0
    BY FS_EmptySet
  <2>2. ASSUME NEW h PROVE Cardinality({h}) = 1
    BY FS_Singleton
  <2>3. ASSUME NEW outcome PROVE Len(<<outcome>>) = 1
    OBVIOUS
  <2>4. Len(<<>>) = 0
    OBVIOUS
  <2>5. CASE ~bound
    <3>1. posted = 0 /\ ready = <<>> /\ running = {}
      BY <2>5 DEF NetInv, ChainInv, Idle
    <3>2. posted = 0 /\ Len(ready) = 0 /\ Cardinality(running) = 0
      BY <2>1, <2>4, <3>1
    <3> QED
      BY <2>5, <3>2 DEF OneReceive
  <2>6. CASE Posted
    <3>1. bound
      BY <2>6 DEF NetInv, ChainInv, Idle, Posted
    <3>2. posted = 1 /\ Len(ready) = 0 /\ Cardinality(running) = 0
      BY <2>1, <2>4, <2>6 DEF Posted
    <3> QED
      BY <3>1, <3>2 DEF OneReceive
  <2>7. CASE Completed
    <3>1. PICK outcome : ready = <<outcome>>
      BY <2>7 DEF Completed
    <3>2. Len(ready) = 1
      BY <2>3, <3>1
    <3>3. bound
      BY <3>1 DEF NetInv, ChainInv, Idle
    <3> QED
      BY <2>1, <2>7, <3>2, <3>3 DEF Completed, OneReceive
  <2>8. CASE InHandler
    <3>1. PICK h : running = {h}
      BY <2>8 DEF InHandler
    <3>2. Cardinality(running) = 1
      BY <2>2, <3>1
    <3>3. bound
      BY <3>1 DEF NetInv, ChainInv, Idle
    <3> QED
      BY <2>4, <2>8, <3>2, <3>3 DEF InHandler, OneReceive
  <2> QED
    BY <2>5, <2>6, <2>7, <2>8 DEF NetInv, ChainInv
<1> QED
  BY <1>1, NetInvAlways, PTL

(***************************************************************************)
(* The packet handler is given sender and data of the datagram whose       *)
(* sender was looked up (SFUDPSocket.h:230-237).                           *)
(***************************************************************************)
THEOREM HandedTogetherAlways == NetSpec => []HandedTogether
<1>1. NetInv => HandedTogether
  BY DEF NetInv, ChainInv, Idle, Posted, Completed, InHandler, HandedTogether
<1> QED
  BY <1>1, NetInvAlways, PTL

(***************************************************************************)
(* As long as threads are in allocate one by one, the handlers of any      *)
(* number of operations share the block safely (HandlerAllocator.h:22-45). *)
(***************************************************************************)
THEOREM OneHolderAlways == NetSpec => []OneHolder
<1>1. NetInv => OneHolder
  BY DEF NetInv, BlockInv, OneHolder
<1> QED
  BY <1>1, NetInvAlways, PTL

(***************************************************************************)
(* A manager is replaced only when its socket has nothing pending          *)
(* (SFServerNet.h:211-217).                                                *)
(***************************************************************************)
THEOREM NothingPendingAlways == NetSpec => NothingPendingWhenReplaced
<1> DEFINE Replaces == phase # "creating" /\ phase' = "creating"
           Nothing == posted = 0 /\ ready = <<>> /\ running = {} /\ sends = <<>>
<1>1. NetInv /\ [NetNext]_netVars => [Replaces => Nothing]_netVars
  <2> SUFFICES ASSUME NetInv, NetNext, Replaces PROVE Nothing
    OBVIOUS
  <2>1. CreateUDP
    BY DEF NetNext, Application, CreateUDPAgain, SendTo, AddToEmptyPool, Ends, SessionCall,
           StopProcessRecvData, CreateReturns, FillSessionPool, Arrive, ReceiveFails,
           ThreadStep, OnRecvFrom, HandlerStep, FindSender, HandOver, RecvFrom,
           AsyncSendTo, OnSendTo, stateVars
  <2> QED
    BY <2>1 DEF CreateUDP, DestroyUDP, NetInv, ChainInv, Idle
<1> QED
  BY <1>1, NetInvAlways, PTL DEF NetSpec, NothingPendingWhenReplaced
-----------------------------------------------------------------------------
(* The send buffer.                                                         *)

BufferTypes ==
    /\ posts \in Nat
    /\ rowIndex \in 0 .. SendRows
    /\ rows \in [SendRow -> [SendColumn -> Nat]]
    /\ marks \in [SendRow -> 0 .. SendRowSize]
    /\ laps \in [SendRow -> Nat]

\* Where a datagram lies, and behind which mark.
Placed(d) ==
    /\ d.row \in SendRow
    /\ d.pos \in Nat /\ d.length \in Nat /\ d.pos + d.length <= SendRowSize
    /\ d.number \in 1 .. posts
    /\ d.lap \in Nat /\ d.lap <= laps[d.row]
    /\ laps[d.row] = d.lap => d.pos + d.length <= marks[d.row]

\* Its row is not used again before all others were.
InTurn(d) ==
    LET since == posts - d.number + 1
    IN  since < SendRows => UseRow \in {d.row + since, d.row + since - SendRows}

BufferInv ==
    /\ BufferTypes
    /\ \A d \in inFlight : Placed(d) /\ InTurn(d)
    /\ WholeUntilLapped

\* A datagram in flight when another is posted.
LEMMA PostKeepsDatagram ==
    ASSUME BufferInv, NEW length \in 1 .. MaxLength, GetPostBuffer(length), NEW d \in inFlight
    PROVE  Placed(d)' /\ InTurn(d)' /\ (Whole(d)' \/ (Lapped(d)' /\ posts' >= d.number + SendRows))
<1> DEFINE pos0 == IF Wraps(UseRow, length) THEN 0 ELSE marks[UseRow]
           lap0 == IF Wraps(UseRow, length) THEN laps[UseRow] + 1 ELSE laps[UseRow]
<1>1. PICK r \in SendRow : r = UseRow
  BY UdpSendBufferAssumption DEF BufferInv, BufferTypes, UseRow, SendRow
<1>2. PICK pos \in Nat, lap \in Nat :
         /\ pos = pos0 /\ lap = lap0
         /\ pos + length <= SendRowSize
         /\ \/ pos = marks[r] /\ lap = laps[r]
            \/ pos = 0 /\ lap = laps[r] + 1
  BY <1>1, UdpSendBufferAssumption DEF BufferInv, BufferTypes, Wraps
<1>3. /\ rows' = [rows EXCEPT ![r] = [c \in SendColumn |->
                     IF pos <= c /\ c < pos + length THEN posts + 1 ELSE @[c]]]
      /\ marks' = [marks EXCEPT ![r] = pos + length]
      /\ laps' = [laps EXCEPT ![r] = lap]
      /\ rowIndex' = r + 1
      /\ posts' = posts + 1
  BY <1>1, <1>2 DEF GetPostBuffer, NextRowIndex
<1> HIDE DEF pos0, lap0
<1>4. BufferTypes /\ Placed(d) /\ InTurn(d) /\ (Whole(d) \/ (Lapped(d) /\ posts >= d.number + SendRows))
  BY DEF BufferInv, WholeUntilLapped
<1>5. marks'[r] = pos + length /\ laps'[r] = lap
  BY <1>3, <1>4 DEF BufferTypes
<1>6. PICK since \in Nat \ {0}, row \in SendRow, all \in Nat \ {0} :
         /\ since = posts - d.number + 1 /\ row = d.row /\ all = SendRows
         /\ posts' - d.number + 1 = since + 1
         /\ since < all => r \in {row + since, row + since - all}
         /\ r \in 0 .. all - 1 /\ row \in 0 .. all - 1
  <2>1. posts \in Nat /\ d.number \in 1 .. posts /\ d.row \in SendRow
    BY <1>4 DEF Placed, BufferTypes
  <2>2. posts - d.number + 1 \in Nat \ {0} /\ posts' - d.number + 1 = posts - d.number + 1 + 1
    BY <1>3, <2>1
  <2>3. posts - d.number + 1 < SendRows =>
           r \in {d.row + (posts - d.number + 1), d.row + (posts - d.number + 1) - SendRows}
    BY <1>1, <1>4 DEF InTurn
  <2> QED
    BY <2>1, <2>2, <2>3, UdpSendBufferAssumption DEF SendRow
<1>7. InTurn(d)'
  <2>1. UseRow' = IF r + 1 >= all THEN 0 ELSE r + 1
    BY <1>3, <1>6 DEF UseRow
  <2>2. since + 1 < all => UseRow' \in {row + (since + 1), row + (since + 1) - all}
    BY <1>6, <2>1
  <2> QED
    BY <1>6, <2>2 DEF InTurn
<1>8. CASE d.row # r
  <2>1. marks'[d.row] = marks[d.row] /\ laps'[d.row] = laps[d.row] /\ rows'[d.row] = rows[d.row]
    BY <1>3, <1>4, <1>8 DEF Placed, BufferTypes
  <2>2. Placed(d)'
    BY <1>3, <1>4, <2>1 DEF Placed, BufferTypes
  <2>3. Whole(d) => Whole(d)'
    BY <2>1 DEF Whole
  <2>4. Lapped(d) => Lapped(d)'
    BY <2>1 DEF Lapped
  <2> QED
    BY <1>3, <1>4, <1>7, <2>2, <2>3, <2>4, UdpSendBufferAssumption DEF BufferTypes, Placed
<1>9. CASE d.row = r
  <2>1. Placed(d)'
    BY <1>2, <1>3, <1>4, <1>5, <1>9 DEF Placed, BufferTypes
  <2>2. posts' >= d.number + SendRows
    <3>1. ~(since < all)
      BY <1>6, <1>9
    <3>2. posts' \in Nat /\ d.number \in Nat
      BY <1>3, <1>4 DEF Placed, BufferTypes
    <3> QED
      BY <1>6, <3>1, <3>2
  <2>3. CASE Lapped(d)
    <3>1. Lapped(d)'
      BY <1>2, <1>4, <1>5, <1>9, <2>3 DEF Lapped, Placed, BufferTypes
    <3> QED
      BY <1>7, <2>1, <2>2, <3>1
  <2>4. CASE ~Lapped(d) /\ Whole(d)
    <3>1. laps[r] \in {d.lap, d.lap + 1} /\ (laps[r] = d.lap + 1 => marks[r] <= d.pos)
      <4>1. laps[r] \in Nat /\ marks[r] \in Nat /\ d.lap \in Nat /\ d.pos \in Nat /\ d.lap <= laps[r]
        BY <1>4, <1>9 DEF Placed, BufferTypes
      <4>2. ~(laps[r] - d.lap > 1) /\ ~(laps[r] - d.lap = 1 /\ marks[r] > d.pos)
        BY <1>9, <2>4 DEF Lapped
      <4> QED
        BY <4>1, <4>2
    <3>2. Lapped(d)' \/ pos >= d.pos + d.length \/ pos + length <= d.pos
      <4>1. CASE laps[r] = d.lap /\ lap = laps[r]
        BY <1>2, <1>4, <1>9, <4>1 DEF Placed, BufferTypes
      <4>2. CASE laps[r] = d.lap /\ lap = laps[r] + 1
        BY <1>2, <1>4, <1>5, <1>9, <4>2 DEF Placed, BufferTypes, Lapped
      <4>3. CASE laps[r] = d.lap + 1 /\ lap = laps[r]
        BY <1>2, <1>4, <1>5, <1>9, <4>3 DEF Placed, BufferTypes, Lapped
      <4>4. CASE laps[r] = d.lap + 1 /\ lap = laps[r] + 1
        BY <1>2, <1>4, <1>5, <1>9, <4>4 DEF Placed, BufferTypes, Lapped
      <4> QED
        BY <1>2, <3>1, <4>1, <4>2, <4>3, <4>4
    <3>3. CASE pos >= d.pos + d.length \/ pos + length <= d.pos
      <4>1. ASSUME NEW c \in d.pos .. d.pos + d.length - 1
            PROVE  rows'[d.row][c] = d.number
        <5>1. c \in SendColumn /\ ~(pos <= c /\ c < pos + length)
          BY <1>2, <1>4, <3>3, UdpSendBufferAssumption DEF Placed, SendColumn
        <5>2. rows'[r][c] = rows[r][c]
          BY <1>3, <1>4, <5>1 DEF BufferTypes
        <5> QED
          BY <1>9, <2>4, <5>2 DEF Whole
      <4>2. Whole(d)'
        BY <2>4, <4>1 DEF Whole
      <4> QED
        BY <1>7, <2>1, <4>2
    <3> QED
      BY <1>7, <2>1, <2>2, <3>2, <3>3
  <2> QED
    BY <1>4, <2>3, <2>4
<1> QED
  BY <1>8, <1>9

\* The datagram that is posted.
LEMMA PostKeepsBuffer ==
    ASSUME BufferInv, NEW length \in 1 .. MaxLength, GetPostBuffer(length)
    PROVE  BufferInv'
<1> DEFINE pos0 == IF Wraps(UseRow, length) THEN 0 ELSE marks[UseRow]
           lap0 == IF Wraps(UseRow, length) THEN laps[UseRow] + 1 ELSE laps[UseRow]
<1>1. PICK r \in SendRow : r = UseRow
  BY UdpSendBufferAssumption DEF BufferInv, BufferTypes, UseRow, SendRow
<1>2. PICK pos \in Nat, lap \in Nat :
         /\ pos = pos0 /\ lap = lap0
         /\ pos + length <= SendRowSize
  BY <1>1, UdpSendBufferAssumption DEF BufferInv, BufferTypes, Wraps
<1>3. PICK new : new = [row |-> r, pos |-> pos, length |-> length, number |-> posts + 1, lap |-> lap]
  OBVIOUS
<1>4. /\ rows' = [rows EXCEPT ![r] = [c \in SendColumn |->
                     IF pos <= c /\ c < pos + length THEN posts + 1 ELSE @[c]]]
      /\ marks' = [marks EXCEPT ![r] = pos + length]
      /\ laps' = [laps EXCEPT ![r] = lap]
      /\ rowIndex' = r + 1
      /\ inFlight' = inFlight \cup {new}
      /\ posts' = posts + 1
  BY <1>1, <1>2, <1>3 DEF GetPostBuffer, NextRowIndex
<1> HIDE DEF pos0, lap0
<1>5. BufferTypes
  BY DEF BufferInv
<1>6. BufferTypes'
  <2>1. posts' \in Nat /\ rowIndex' \in 0 .. SendRows
    BY <1>4, <1>5, UdpSendBufferAssumption DEF BufferTypes, SendRow
  <2>2. rows' \in [SendRow -> [SendColumn -> Nat]]
    BY <1>4, <1>5 DEF BufferTypes
  <2>3. pos + length \in 0 .. SendRowSize
    BY <1>2, UdpSendBufferAssumption
  <2>4. marks' \in [SendRow -> 0 .. SendRowSize] /\ laps' \in [SendRow -> Nat]
    BY <1>4, <1>5, <2>3 DEF BufferTypes
  <2> QED
    BY <2>1, <2>2, <2>4 DEF BufferTypes
<1>7. /\ new.row = r /\ new.pos = pos /\ new.length = length
      /\ new.number = posts + 1 /\ new.lap = lap
  BY <1>3
<1>8. marks'[r] = pos + length /\ laps'[r] = lap
  BY <1>4, <1>5 DEF BufferTypes
<1>9. Placed(new)'
  BY <1>2, <1>4, <1>5, <1>7, <1>8, UdpSendBufferAssumption DEF Placed, BufferTypes
<1>10. InTurn(new)'
  BY <1>4, <1>5, <1>7, UdpSendBufferAssumption DEF InTurn, UseRow, BufferTypes, SendRow
<1>11. Whole(new)'
  <2>1. ASSUME NEW c \in pos .. pos + length - 1
        PROVE  rows'[r][c] = posts + 1
    <3>1. c \in SendColumn /\ pos <= c /\ c < pos + length
      BY <1>2, UdpSendBufferAssumption DEF SendColumn
    <3> QED
      BY <1>4, <1>5, <3>1 DEF BufferTypes
  <2> QED
    BY <1>2, <1>7, <2>1 DEF Whole
<1> QED
  BY <1>4, <1>6, <1>9, <1>10, <1>11, PostKeepsDatagram DEF BufferInv, WholeUntilLapped

\* The steps of the system that concern the send buffer.
LEMMA NextPosts ==
    ASSUME [NetNext]_netVars
    PROVE  \/ UNCHANGED bufferVars
           \/ \E length \in 1 .. MaxLength : GetPostBuffer(length)
           \/ \E number : Sent(number)
<1>1. CASE Application
  BY <1>1 DEF Application, CreateUDP, CreateUDPAgain, SendTo, SessionCall, AddToEmptyPool,
     StopProcessRecvData, Ends, sendVars
<1>2. CASE ThreadStep
  BY <1>2 DEF ThreadStep, OnRecvFrom, HandlerStep, FindSender, HandOver, RecvFrom, Ends, sendVars
<1>3. CASE CreateReturns \/ FillSessionPool \/ ReceiveFails \/ \E a \in Addresses : Arrive(a)
  BY <1>3 DEF CreateReturns, FillSessionPool, ReceiveFails, Arrive, sendVars
<1>4. ASSUME NEW number, AsyncSendTo(number) \/ OnSendTo(number)
      PROVE  UNCHANGED bufferVars \/ Sent(number)
  BY <1>4 DEF AsyncSendTo, OnSendTo
<1>5. CASE UNCHANGED netVars
  BY <1>5 DEF netVars, sendVars
<1> QED
  BY <1>1, <1>2, <1>3, <1>4, <1>5 DEF NetNext

LEMMA BufferInvAlways == NetSpec => []BufferInv
<1>1. NetInit => BufferInv
  <2> SUFFICES ASSUME NetInit PROVE BufferInv
    OBVIOUS
  <2>1. inFlight = {} /\ posts = 0 /\ rowIndex = 0
    BY DEF NetInit, BufferInit
  <2>2. BufferTypes
    BY UdpSendBufferAssumption DEF NetInit, BufferInit, EmptyBuffer, BufferTypes
  <2> QED
    BY <2>1, <2>2 DEF BufferInv, WholeUntilLapped
<1>2. BufferInv /\ [NetNext]_netVars => BufferInv'
  <2> SUFFICES ASSUME BufferInv, [NetNext]_netVars PROVE BufferInv'
    OBVIOUS
  <2>1. CASE UNCHANGED bufferVars
    BY <2>1 DEF bufferVars, BufferInv, BufferTypes, Placed, InTurn, UseRow, WholeUntilLapped,
       Whole, Lapped
  <2>2. ASSUME NEW number, Sent(number)
        PROVE  BufferInv'
    BY <2>2 DEF Sent, BufferInv, BufferTypes, Placed, InTurn, UseRow, WholeUntilLapped, Whole, Lapped
  <2> QED
    BY <2>1, <2>2, NextPosts, PostKeepsBuffer
<1> QED
  BY <1>1, <1>2, PTL DEF NetSpec

(***************************************************************************)
(* For any number of rows and any sizes: a datagram that is being sent     *)
(* keeps its bytes until as many more as there are rows were posted and    *)
(* its own row was begun anew up to its place (SFUDPSendBuffer.h:49-84).   *)
(***************************************************************************)
THEOREM WholeUntilLappedAlways == NetSpec => []WholeUntilLapped
<1>1. BufferInv => WholeUntilLapped
  BY DEF BufferInv
<1> QED
  BY <1>1, BufferInvAlways, PTL

-----------------------------------------------------------------------------
(* The sessions.                                                            *)

Pooled == {pool[i] : i \in DOMAIN pool}

\* Address and id of what is registered determine each other.
Unique ==
    \A s, q \in registered :
       info[s].address = info[q].address \/ info[s].id = info[q].id => s = q

\* What is registered, is under an address and an id of the caller's.
Known == \A s \in registered : info[s].address \in Addresses /\ info[s].id \in Ids

SessionsInv ==
    /\ pool \in Seq(Session)
    /\ registered \subseteq Session
    /\ refusals \in Nat
    /\ info \in [Session -> Info]
    /\ Unique
    /\ Known
    /\ EverySessionOnce

LEMMA SessionsFinite ==
    ASSUME NEW T \in SUBSET Session
    PROVE  IsFiniteSet(T) /\ Cardinality(T) \in Nat
<1>1. IsFiniteSet(Session)
  BY UdpSessionsAssumption, FS_Interval DEF Session
<1> QED
  BY <1>1, FS_Subset, FS_CardinalityType

\* The front of the pool is taken.
LEMMA FrontTaken ==
    ASSUME SessionsInv, pool # <<>>, pool' = Tail(pool)
    PROVE  /\ pool' \in Seq(Session) /\ IsInjective(pool)'
           /\ Head(pool) \in Pooled /\ Pooled' = Pooled \ {Head(pool)}
<1>1. pool \in Seq(Session) /\ \A i, j \in DOMAIN pool : pool[i] = pool[j] => i = j
  BY DEF SessionsInv, EverySessionOnce, IsInjective
<1>2. PICK n \in Nat \ {0} : n = Len(pool) /\ DOMAIN pool = 1 .. n
  BY <1>1
<1>3. /\ pool' \in Seq(Session) /\ DOMAIN pool' = 1 .. n - 1
      /\ \A i \in 1 .. n - 1 : pool'[i] = pool[i + 1]
      /\ Head(pool) = pool[1]
  BY <1>1, <1>2
<1>4. IsInjective(pool)'
  <2> SUFFICES ASSUME NEW i \in DOMAIN pool', NEW j \in DOMAIN pool', pool'[i] = pool'[j]
               PROVE  i = j
    BY DEF IsInjective
  <2>1. i + 1 \in DOMAIN pool /\ j + 1 \in DOMAIN pool /\ pool[i + 1] = pool[j + 1]
    BY <1>2, <1>3
  <2>2. i + 1 = j + 1
    BY <1>1, <2>1
  <2> QED
    BY <1>3, <2>2
<1>5. \A x \in Pooled' : x \in Pooled /\ x # Head(pool)
  <2> SUFFICES ASSUME NEW i \in DOMAIN pool'
               PROVE  pool'[i] \in Pooled /\ pool'[i] # Head(pool)
    BY DEF Pooled
  <2>1. i + 1 \in DOMAIN pool /\ 1 \in DOMAIN pool /\ i + 1 # 1 /\ pool'[i] = pool[i + 1]
    BY <1>2, <1>3
  <2> QED
    BY <1>1, <1>3, <2>1 DEF Pooled
<1>6. \A x \in Pooled : x # Head(pool) => x \in Pooled'
  <2> SUFFICES ASSUME NEW i \in DOMAIN pool, pool[i] # pool[1]
               PROVE  pool[i] \in Pooled'
    BY <1>3 DEF Pooled
  <2>1. i - 1 \in DOMAIN pool' /\ pool'[i - 1] = pool[i]
    BY <1>2, <1>3
  <2> QED
    BY <2>1 DEF Pooled
<1>7. Head(pool) \in Pooled
  BY <1>2, <1>3 DEF Pooled
<1> QED
  BY <1>3, <1>4, <1>5, <1>6, <1>7

\* An object is put back.
LEMMA PutBack ==
    ASSUME SessionsInv, NEW s \in Session, s \notin Pooled, pool' = Append(pool, s)
    PROVE  pool' \in Seq(Session) /\ IsInjective(pool)' /\ Pooled' = Pooled \cup {s} /\ pool' # <<>>
<1>1. pool \in Seq(Session) /\ \A i, j \in DOMAIN pool : pool[i] = pool[j] => i = j
  BY DEF SessionsInv, EverySessionOnce, IsInjective
<1>2. PICK n \in Nat : n = Len(pool) /\ DOMAIN pool = 1 .. n
  BY <1>1
<1>3. /\ pool' \in Seq(Session) /\ DOMAIN pool' = 1 .. n + 1
      /\ \A i \in 1 .. n : pool'[i] = pool[i]
      /\ pool'[n + 1] = s
  BY <1>1, <1>2
<1>4. \A i \in 1 .. n : pool[i] # s
  BY <1>2 DEF Pooled
<1>5. IsInjective(pool)'
  <2> SUFFICES ASSUME NEW i \in DOMAIN pool', NEW j \in DOMAIN pool', pool'[i] = pool'[j]
               PROVE  i = j
    BY DEF IsInjective
  <2>1. CASE i \in 1 .. n /\ j \in 1 .. n
    BY <1>1, <1>2, <1>3, <2>1
  <2>2. CASE i = n + 1 \/ j = n + 1
    BY <1>2, <1>3, <1>4, <2>2
  <2> QED
    BY <1>3, <2>1, <2>2
<1>6. \A x : x \in Pooled' <=> x \in Pooled \/ x = s
  <2>1. ASSUME NEW i \in DOMAIN pool'
        PROVE  pool'[i] \in Pooled \/ pool'[i] = s
    BY <1>2, <1>3 DEF Pooled
  <2>2. ASSUME NEW i \in DOMAIN pool
        PROVE  pool[i] \in Pooled'
    BY <1>2, <1>3 DEF Pooled
  <2>3. s \in Pooled'
    BY <1>3 DEF Pooled
  <2> QED
    BY <2>1, <2>2, <2>3 DEF Pooled
<1>7. pool' # <<>>
  BY <1>3
<1> QED
  BY <1>3, <1>5, <1>6, <1>7

\* EverySessionOnce, from what it counts.
LEMMA OnceCounted ==
    ASSUME IsInjective(pool)', (Pooled \cap registered)' = {},
           (pool # <<>> \/ registered # {})' =>
              (Cardinality(Pooled) + Cardinality(registered) + refusals)' = MaxSessions
    PROVE  EverySessionOnce'
BY DEF EverySessionOnce, Pooled

LEMMA AddKeepsSessions ==
    ASSUME SessionsInv, NEW address \in Addresses, NEW id \in Ids, AddSession(address, id)
    PROVE  SessionsInv'
<1>1. PICK s : s = Head(pool)
  OBVIOUS
<1>2. /\ pool' \in Seq(Session) /\ IsInjective(pool)'
      /\ s \in Pooled /\ Pooled' = Pooled \ {s}
  BY <1>1, FrontTaken DEF AddSession
<1>3. s \in Session /\ s \notin registered
  BY <1>1, <1>2 DEF SessionsInv, EverySessionOnce, AddSession, Pooled
<1>4. /\ info' = [info EXCEPT ![s] = [id |-> id, address |-> address, key |-> 0]]
      /\ WithAddress(address) = {}
  BY <1>1 DEF AddSession, SetInfo
<1>5. info' \in [Session -> Info]
  BY <1>3, <1>4 DEF SessionsInv, Info
<1>6. /\ info'[s] = [id |-> id, address |-> address, key |-> 0]
      /\ \A q \in registered : info'[q] = info[q]
  BY <1>3, <1>4 DEF SessionsInv
<1>7. Pooled \subseteq Session
  BY DEF SessionsInv, Pooled
<1>8. /\ IsFiniteSet(Pooled) /\ IsFiniteSet(registered)
      /\ Cardinality(Pooled) \in Nat /\ Cardinality(registered) \in Nat /\ refusals \in Nat
  BY <1>7, SessionsFinite DEF SessionsInv
<1>9. Cardinality(Pooled') = Cardinality(Pooled) - 1
  BY <1>2, <1>8, FS_RemoveElement
<1>10. Cardinality(Pooled) + Cardinality(registered) + refusals = MaxSessions
  BY DEF SessionsInv, EverySessionOnce, AddSession, Pooled
<1>11. Pooled \cap registered = {}
  BY DEF SessionsInv, EverySessionOnce, Pooled
<1>12. CASE WithId(id) = {} /\ registered' = registered \cup {s} /\ refusals' = refusals
  <2>1. Unique'
    <3> SUFFICES ASSUME NEW p \in registered', NEW q \in registered',
                        info'[p].address = info'[q].address \/ info'[p].id = info'[q].id
                 PROVE  p = q
      BY DEF Unique
    <3>1. \A r \in registered : info[r].address # address /\ info[r].id # id
      BY <1>4, <1>12 DEF WithAddress, WithId
    <3>2. CASE p \in registered /\ q \in registered
      BY <1>6, <3>2 DEF SessionsInv, Unique
    <3>3. CASE p = s /\ q \in registered
      BY <1>6, <3>1, <3>3
    <3>4. CASE q = s /\ p \in registered
      BY <1>6, <3>1, <3>4
    <3> QED
      BY <1>12, <3>2, <3>3, <3>4
  <2>7. Known'
    BY <1>6, <1>12 DEF SessionsInv, Known
  <2>2. Cardinality(registered') = Cardinality(registered) + 1
    BY <1>3, <1>8, <1>12, FS_AddElement
  <2>3. Cardinality(Pooled') + Cardinality(registered') + refusals' = MaxSessions
    BY <1>8, <1>9, <1>10, <1>12, <2>2
  <2>4. Pooled' \cap registered' = {}
    BY <1>2, <1>11, <1>12
  <2>5. EverySessionOnce'
    BY <1>2, <2>3, <2>4, OnceCounted
  <2>6. registered' \subseteq Session
    BY <1>3, <1>12 DEF SessionsInv
  <2> QED
    BY <1>2, <1>5, <1>8, <1>12, <2>1, <2>5, <2>6, <2>7 DEF SessionsInv
<1>13. CASE registered' = registered /\ refusals' = refusals + 1
  <2>1. Unique' /\ Known'
    BY <1>6, <1>13 DEF SessionsInv, Unique, Known
  <2>2. Cardinality(Pooled') + Cardinality(registered') + refusals' = MaxSessions
    BY <1>8, <1>9, <1>10, <1>13
  <2>3. Pooled' \cap registered' = {}
    BY <1>2, <1>11, <1>13
  <2>4. EverySessionOnce'
    BY <1>2, <2>2, <2>3, OnceCounted
  <2> QED
    BY <1>2, <1>5, <1>8, <1>13, <2>1, <2>4 DEF SessionsInv
<1> QED
  BY <1>1, <1>12, <1>13 DEF AddSession

LEMMA RemoveKeepsSessions ==
    ASSUME SessionsInv, NEW s, RemoveFound(s)
    PROVE  SessionsInv'
<1>1. /\ s \in registered /\ pool' = Append(pool, s) /\ registered' = registered \ {s}
      /\ info' = info /\ refusals' = refusals
  BY DEF RemoveFound
<1>2. Pooled \subseteq Session /\ Pooled \cap registered = {} /\ s \in Session
  BY <1>1 DEF SessionsInv, EverySessionOnce, Pooled
<1>3. pool' \in Seq(Session) /\ IsInjective(pool)' /\ Pooled' = Pooled \cup {s}
  BY <1>1, <1>2, PutBack
<1>4. /\ IsFiniteSet(Pooled) /\ IsFiniteSet(registered)
      /\ Cardinality(Pooled) \in Nat /\ Cardinality(registered) \in Nat /\ refusals \in Nat
  BY <1>2, SessionsFinite DEF SessionsInv
<1>5. Cardinality(Pooled) + Cardinality(registered) + refusals = MaxSessions
  BY <1>1 DEF SessionsInv, EverySessionOnce, Pooled
<1>6. Cardinality(Pooled') = Cardinality(Pooled) + 1
  BY <1>1, <1>2, <1>3, <1>4, FS_AddElement
<1>7. Cardinality(registered') = Cardinality(registered) - 1
  BY <1>1, <1>4, FS_RemoveElement
<1>8. Cardinality(Pooled') + Cardinality(registered') + refusals' = MaxSessions
  BY <1>1, <1>4, <1>5, <1>6, <1>7
<1>9. EverySessionOnce'
  BY <1>1, <1>2, <1>3, <1>8, OnceCounted
<1>10. Unique' /\ Known'
  BY <1>1 DEF SessionsInv, Unique, Known
<1> QED
  BY <1>1, <1>3, <1>9, <1>10 DEF SessionsInv

LEMMA KeyKeepsSessions ==
    ASSUME SessionsInv, NEW id, NEW key \in Keys, SetUDPPacketCrypter(id, key)
    PROVE  SessionsInv'
<1>1. PICK s \in Session : s \in WithId(id) /\ info' = [info EXCEPT ![s].key = key]
  BY DEF SetUDPPacketCrypter, WithId, SessionsInv
<1>2. UNCHANGED <<pool, registered, refusals>>
  BY DEF SetUDPPacketCrypter
<1>3. info' \in [Session -> Info]
  BY <1>1 DEF SessionsInv, Info
<1>4. \A q \in Session : info'[q].address = info[q].address /\ info'[q].id = info[q].id
  BY <1>1 DEF SessionsInv, Info
<1>5. Unique' /\ Known'
  BY <1>2, <1>4 DEF SessionsInv, Unique, Known
<1>6. EverySessionOnce'
  BY <1>2 DEF SessionsInv, EverySessionOnce
<1> QED
  BY <1>2, <1>3, <1>5, <1>6 DEF SessionsInv

LEMMA FillKeepsSessions ==
    ASSUME SessionsInv, NoSessions, FillPool
    PROVE  SessionsInv'
<1>1. /\ pool' = [i \in Session |-> i] /\ registered' = {} /\ refusals' = 0
      /\ info' = [s \in Session |-> [id |-> -1, address |-> NoAddress, key |-> 0]]
  BY DEF NoSessions, FillPool
<1>2. Session = 1 .. MaxSessions /\ MaxSessions \in Nat
  BY UdpSessionsAssumption DEF Session
<1>3. pool' \in Seq(Session)
  BY <1>1, <1>2
<1>4. info' \in [Session -> Info]
  BY <1>1 DEF Info
<1>5. Pooled' = Session /\ IsInjective(pool)'
  BY <1>1 DEF Pooled, IsInjective
<1>6. Cardinality(Session) = MaxSessions /\ Cardinality({}) = 0
  BY <1>2, FS_Interval, FS_EmptySet
<1>7. EverySessionOnce'
  BY <1>1, <1>2, <1>5, <1>6, OnceCounted
<1>8. Unique' /\ Known'
  BY <1>1 DEF Unique, Known
<1> QED
  BY <1>1, <1>3, <1>4, <1>7, <1>8 DEF SessionsInv

LEMMA DestroyKeepsSessions ==
    ASSUME SessionsInv, DestroySessions
    PROVE  SessionsInv'
<1>1. pool' = <<>> /\ registered' = {} /\ refusals' = 0 /\ info' = info
  BY DEF DestroySessions
<1>2. EverySessionOnce'
  BY <1>1 DEF EverySessionOnce, IsInjective
<1> QED
  BY <1>1, <1>2 DEF SessionsInv, Unique, Known

\* The steps of the system that concern the sessions.
LEMMA NextManages ==
    ASSUME [NetNext]_netVars
    PROVE  \/ UNCHANGED sessionsVars
           \/ DestroySessions
           \/ NoSessions /\ FillPool
           \/ \E address \in Addresses, id \in Ids : AddSession(address, id)
           \/ \E address \in Addresses : RemoveSessionByAddress(address)
           \/ \E id \in Ids : RemoveSessionById(id)
           \/ \E id \in Ids, key \in Keys : SetUDPPacketCrypter(id, key)
<1>1. CASE SessionCall
  BY <1>1 DEF SessionCall
<1>2. CASE Application
  BY <1>1, <1>2 DEF Application, CreateUDP, DestroyUDP, CreateUDPAgain, SendTo, AddToEmptyPool,
     StopProcessRecvData, Ends
<1>3. CASE ThreadStep
  BY <1>3 DEF ThreadStep, OnRecvFrom, HandlerStep, FindSender, HandOver, RecvFrom, Ends
<1>4. CASE CreateReturns \/ ReceiveFails \/ \E a \in Addresses : Arrive(a)
  BY <1>4 DEF CreateReturns, ReceiveFails, Arrive
<1>5. CASE FillSessionPool
  BY <1>5 DEF FillSessionPool
<1>6. ASSUME NEW number, AsyncSendTo(number) \/ OnSendTo(number)
      PROVE  UNCHANGED sessionsVars
  BY <1>6 DEF AsyncSendTo, OnSendTo
<1>7. CASE UNCHANGED netVars
  BY <1>7 DEF netVars
<1> QED
  BY <1>2, <1>3, <1>4, <1>5, <1>6, <1>7 DEF NetNext

LEMMA SessionsInvAlways == NetSpec => []SessionsInv
<1>1. NetInit => SessionsInv
  <2> SUFFICES ASSUME NetInit PROVE SessionsInv
    OBVIOUS
  <2>1. /\ pool = <<>> /\ registered = {} /\ refusals = 0
        /\ info = [s \in Session |-> [id |-> -1, address |-> NoAddress, key |-> 0]]
    BY DEF NetInit, SessionsInit, NoSessions
  <2>2. EverySessionOnce
    BY <2>1 DEF EverySessionOnce, IsInjective
  <2>3. info \in [Session -> Info]
    BY <2>1 DEF Info
  <2> QED
    BY <2>1, <2>2, <2>3 DEF SessionsInv, Unique, Known
<1>2. SessionsInv /\ [NetNext]_netVars => SessionsInv'
  <2> SUFFICES ASSUME SessionsInv, [NetNext]_netVars PROVE SessionsInv'
    OBVIOUS
  <2>1. CASE UNCHANGED sessionsVars
    BY <2>1 DEF sessionsVars, SessionsInv, Unique, Known, EverySessionOnce
  <2> QED
    BY <2>1, NextManages, AddKeepsSessions, RemoveKeepsSessions, KeyKeepsSessions,
       FillKeepsSessions, DestroyKeepsSessions DEF RemoveSessionByAddress, RemoveSessionById
<1> QED
  BY <1>1, <1>2, PTL DEF NetSpec

(***************************************************************************)
(* For any size of the pool: an object is in it once or registered, and    *)
(* missing only for an insert that was refused                             *)
(* (SFUDPSessionMgr.h:165-171, 180-208, 246-261).                          *)
(***************************************************************************)
THEOREM EverySessionOnceAlways == NetSpec => []EverySessionOnce
<1>1. SessionsInv => EverySessionOnce
  BY DEF SessionsInv
<1> QED
  BY <1>1, SessionsInvAlways, PTL

\* What is registered, address by address.
LEMMA RegistryIs ==
    SessionsInv =>
           /\ Registry = [a \in {info[s].address : s \in registered} |-> Registry[a]]
           /\ \A s \in registered :
                 Registry[info[s].address] = [id |-> info[s].id, key |-> info[s].key]
<1> SUFFICES ASSUME SessionsInv
             PROVE  /\ Registry = [a \in {info[s].address : s \in registered} |-> Registry[a]]
                    /\ \A s \in registered :
                          Registry[info[s].address] = [id |-> info[s].id, key |-> info[s].key]
  OBVIOUS
<1>1. \A s \in registered : WithAddress(info[s].address) = {s}
  BY DEF SessionsInv, Unique, WithAddress
<1>2. ASSUME NEW s \in registered
      PROVE  Registry[info[s].address] = [id |-> info[s].id, key |-> info[s].key]
  <2>1. (CHOOSE q \in WithAddress(info[s].address) : TRUE) = s
    BY <1>1
  <2> QED
    BY <2>1 DEF Registry
<1> QED
  BY <1>2 DEF Registry

\* An address is registered under what its object holds, and under nothing else.
LEMMA RegistryAfter ==
    ASSUME SessionsInv', NEW f, f = [a \in DOMAIN f |-> f[a]],
           \A a : a \in DOMAIN f <=> \E s \in registered' : info'[s].address = a,
           \A s \in registered' :
              f[info'[s].address] = [id |-> info'[s].id, key |-> info'[s].key]
    PROVE  Registry' = f
<1>1. (/\ Registry = [a \in {info[s].address : s \in registered} |-> Registry[a]]
       /\ \A s \in registered :
             Registry[info[s].address] = [id |-> info[s].id, key |-> info[s].key])'
  BY RegistryIs, PTL
<1>2. PICK g, D : g = Registry' /\ D = {info'[s].address : s \in registered'}
  OBVIOUS
<1>3. /\ g = [a \in D |-> g[a]]
      /\ \A s \in registered' : g[info'[s].address] = [id |-> info'[s].id, key |-> info'[s].key]
  BY <1>1, <1>2
<1>4. DOMAIN f = D
  BY <1>2
<1>5. ASSUME NEW a \in D
      PROVE  g[a] = f[a]
  <2>1. PICK s \in registered' : info'[s].address = a
    BY <1>2
  <2> QED
    BY <1>3, <2>1
<1> QED
  BY <1>2, <1>3, <1>4, <1>5

LEMMA AddRegisters ==
    ASSUME SessionsInv, SessionsInv', NEW address \in Addresses, NEW id \in Ids,
           AddSession(address, id)
    PROVE  Abstract!Register(address, id) \/ Registry' = Registry
<1>1. PICK s : s = Head(pool)
  OBVIOUS
<1>2. s \in Session /\ s \notin registered
  BY <1>1, FrontTaken DEF SessionsInv, EverySessionOnce, AddSession, Pooled
<1>3. /\ info' = [info EXCEPT ![s] = [id |-> id, address |-> address, key |-> 0]]
      /\ WithAddress(address) = {}
  BY <1>1 DEF AddSession, SetInfo
<1>4. /\ info'[s] = [id |-> id, address |-> address, key |-> 0]
      /\ \A q \in registered : info'[q] = info[q]
  BY <1>2, <1>3 DEF SessionsInv
<1>5. /\ DOMAIN Registry = {info[q].address : q \in registered}
      /\ Registry = [a \in DOMAIN Registry |-> Registry[a]]
      /\ \A q \in registered :
            Registry[info[q].address] = [id |-> info[q].id, key |-> info[q].key]
  BY RegistryIs
<1>6. CASE WithId(id) = {} /\ registered' = registered \cup {s}
  <2>1. address \notin DOMAIN Registry
    BY <1>3, <1>5 DEF WithAddress
  <2>2. \A a \in DOMAIN Registry : Registry[a].id # id
    <3> SUFFICES ASSUME NEW a \in DOMAIN Registry
                 PROVE  Registry[a].id # id
      OBVIOUS
    <3>1. PICK q \in registered : info[q].address = a
      BY <1>5
    <3>2. PICK e : e = Registry[a]
      OBVIOUS
    <3>3. e = [id |-> info[q].id, key |-> info[q].key]
      BY <1>5, <3>1, <3>2
    <3>4. e.id = info[q].id
      BY <3>3
    <3> QED
      BY <1>6, <3>1, <3>2, <3>4 DEF WithId
  <2>3. PICK f : f = [a \in DOMAIN Registry \cup {address} |->
                     IF a = address THEN [id |-> id, key |-> 0] ELSE Registry[a]]
    OBVIOUS
  <2>4. /\ f = [a \in DOMAIN f |-> f[a]]
        /\ DOMAIN f = DOMAIN Registry \cup {address}
        /\ \A a \in DOMAIN Registry : f[a] = Registry[a]
        /\ f[address] = [id |-> id, key |-> 0]
    BY <2>1, <2>3
  <2>5. Registry' = f
    <3>1. \A a : a \in DOMAIN f <=> \E q \in registered' : info'[q].address = a
      BY <1>4, <1>5, <1>6, <2>4
    <3>2. \A q \in registered' :
             f[info'[q].address] = [id |-> info'[q].id, key |-> info'[q].key]
      BY <1>4, <1>5, <1>6, <2>4
    <3> QED
      BY <2>4, <3>1, <3>2, RegistryAfter
  <2> QED
    BY <2>1, <2>2, <2>3, <2>5 DEF Abstract!Register
<1>7. CASE registered' = registered
  <2>1. \A a : a \in DOMAIN Registry <=> \E q \in registered' : info'[q].address = a
    BY <1>4, <1>5, <1>7
  <2>2. \A q \in registered' :
           Registry[info'[q].address] = [id |-> info'[q].id, key |-> info'[q].key]
    BY <1>4, <1>5, <1>7
  <2>3. Registry' = Registry
    BY <1>5, <2>1, <2>2, RegistryAfter
  <2> QED
    BY <2>3
<1> QED
  BY <1>1, <1>6, <1>7 DEF AddSession

LEMMA RemoveUnregisters ==
    ASSUME SessionsInv, SessionsInv', NEW s, RemoveFound(s)
    PROVE  Abstract!Unregister(info[s].address)
<1>1. s \in registered /\ registered' = registered \ {s} /\ info' = info
  BY DEF RemoveFound
<1>2. PICK address : address = info[s].address
  OBVIOUS
<1>3. /\ DOMAIN Registry = {info[q].address : q \in registered}
      /\ \A q \in registered :
            Registry[info[q].address] = [id |-> info[q].id, key |-> info[q].key]
  BY RegistryIs
<1>4. \A q \in registered : info[q].address = address <=> q = s
  BY <1>1, <1>2 DEF SessionsInv, Unique
<1>5. PICK f : f = [a \in DOMAIN Registry \ {address} |-> Registry[a]]
  OBVIOUS
<1>6. /\ f = [a \in DOMAIN f |-> f[a]]
      /\ DOMAIN f = DOMAIN Registry \ {address}
      /\ \A a \in DOMAIN Registry \ {address} : f[a] = Registry[a]
  BY <1>5
<1>7. Registry' = f
  <2>1. \A a : a \in DOMAIN f <=> \E q \in registered' : info'[q].address = a
    BY <1>1, <1>3, <1>4, <1>6
  <2>2. \A q \in registered' :
           f[info'[q].address] = [id |-> info'[q].id, key |-> info'[q].key]
    BY <1>1, <1>3, <1>4, <1>6
  <2> QED
    BY <1>6, <2>1, <2>2, RegistryAfter
<1>8. address \in DOMAIN Registry
  BY <1>1, <1>2, <1>3
<1> QED
  BY <1>2, <1>5, <1>7, <1>8 DEF Abstract!Unregister

LEMMA KeyIsSet ==
    ASSUME SessionsInv, SessionsInv', NEW id, NEW key \in Keys, SetUDPPacketCrypter(id, key)
    PROVE  \E a \in Addresses : Abstract!SetKey(a, key)
<1>1. PICK s \in registered : info' = [info EXCEPT ![s].key = key]
  BY DEF SetUDPPacketCrypter, WithId
<1>2. registered' = registered
  BY DEF SetUDPPacketCrypter
<1>3. PICK address \in Addresses : address = info[s].address
  BY DEF SessionsInv, Known
<1>4. /\ DOMAIN Registry = {info[q].address : q \in registered}
      /\ \A q \in registered :
            Registry[info[q].address] = [id |-> info[q].id, key |-> info[q].key]
  BY RegistryIs
<1>5. \A q \in registered : info[q].address = address <=> q = s
  BY <1>1, <1>3 DEF SessionsInv, Unique
<1>6. /\ info'[s] = [id |-> info[s].id, address |-> address, key |-> key]
      /\ \A q \in registered : q # s => info'[q] = info[q]
      /\ \A q \in registered : info'[q].address = info[q].address
  BY <1>1, <1>3 DEF SessionsInv, Info
<1>7. PICK f : f = [Registry EXCEPT ![address].key = key]
  OBVIOUS
<1>8. address \in DOMAIN Registry
  BY <1>3, <1>4
<1>9. /\ f = [a \in DOMAIN f |-> f[a]]
      /\ DOMAIN f = DOMAIN Registry
      /\ \A a \in DOMAIN Registry : a # address => f[a] = Registry[a]
      /\ f[address] = [Registry[address] EXCEPT !.key = key]
  BY <1>7, <1>8
<1>10. f[address] = [id |-> info[s].id, key |-> key]
  <2>1. PICK e : e = Registry[address]
    OBVIOUS
  <2>2. e = [id |-> info[s].id, key |-> info[s].key]
    BY <1>1, <1>3, <1>4, <2>1
  <2>3. [e EXCEPT !.key = key] = [id |-> info[s].id, key |-> key]
    BY <2>2
  <2> QED
    BY <1>9, <2>1, <2>3
<1>11. Registry' = f
  <2>1. \A a : a \in DOMAIN f <=> \E q \in registered' : info'[q].address = a
    BY <1>2, <1>4, <1>6, <1>9
  <2>2. ASSUME NEW q \in registered'
        PROVE  f[info'[q].address] = [id |-> info'[q].id, key |-> info'[q].key]
    <3>1. CASE q = s
      BY <1>6, <1>10, <3>1
    <3>2. CASE q # s
      BY <1>2, <1>4, <1>5, <1>6, <1>9, <3>2
    <3> QED
      BY <3>1, <3>2
  <2> QED
    BY <1>9, <2>1, <2>2, RegistryAfter
<1> QED
  BY <1>7, <1>8, <1>11 DEF Abstract!SetKey

\* Without a session, there is the empty registry.
LEMMA NobodyRegistered ==
    ASSUME registered = {}
    PROVE  Registry = <<>>
<1>1. {info[s].address : s \in registered} = {}
  OBVIOUS
<1> QED
  BY <1>1 DEF Registry

(***************************************************************************)
(* For any addresses, ids, keys and number of objects: what the callers of *)
(* UDPSessionMgr see is a registry in which address and id determine each  *)
(* other and a key ends with its entry (SFUDPSessionMgr.h:116-208).        *)
(***************************************************************************)
THEOREM ImplementsRegistryAlways == NetSpec => ImplementsRegistry
<1>1. NetInit => Abstract!RegistryInit
  BY NobodyRegistered DEF NetInit, SessionsInit, NoSessions, Abstract!RegistryInit
<1>2. SessionsInv /\ SessionsInv' /\ [NetNext]_netVars => [Abstract!RegistryNext]_Registry
  <2> SUFFICES ASSUME SessionsInv, SessionsInv', [NetNext]_netVars
               PROVE  Abstract!RegistryNext \/ Registry' = Registry
    OBVIOUS
  <2>1. CASE UNCHANGED sessionsVars
    BY <2>1 DEF sessionsVars, Registry, WithAddress
  <2>2. CASE DestroySessions
    <3>1. (registered = {} => Registry = <<>>)'
      BY NobodyRegistered, PTL
    <3> QED
      BY <2>2, <3>1 DEF DestroySessions, Abstract!RegistryNext, Abstract!UnregisterAll
  <2>3. CASE NoSessions /\ FillPool
    <3>1. (registered = {} => Registry = <<>>)'
      BY NobodyRegistered, PTL
    <3> QED
      BY <2>3, <3>1, NobodyRegistered DEF NoSessions, FillPool
  <2>4. ASSUME NEW address \in Addresses, NEW id \in Ids, AddSession(address, id)
        PROVE  Abstract!RegistryNext \/ Registry' = Registry
    BY <2>4, AddRegisters DEF Abstract!RegistryNext
  <2>5. ASSUME NEW s, RemoveFound(s)
        PROVE  Abstract!RegistryNext
    <3>1. info[s].address \in Addresses
      BY <2>5 DEF RemoveFound, SessionsInv, Known
    <3> QED
      BY <2>5, <3>1, RemoveUnregisters DEF Abstract!RegistryNext
  <2>6. ASSUME NEW id \in Ids, NEW key \in Keys, SetUDPPacketCrypter(id, key)
        PROVE  Abstract!RegistryNext
    BY <2>6, KeyIsSet DEF Abstract!RegistryNext
  <2> QED
    BY <2>1, <2>2, <2>3, <2>4, <2>5, <2>6, NextManages
       DEF RemoveSessionByAddress, RemoveSessionById
<1> QED
  BY <1>1, <1>2, SessionsInvAlways, PTL DEF NetSpec, ImplementsRegistry, Abstract!RegistrySpec
=============================================================================
