------------------------- MODULE ReceivePathProofs -------------------------
(***************************************************************************)
(* Proofs about ReceivePath for every size of the ring, of the rows and of *)
(* the queue: each step of the path is a step of the ring's user and of    *)
(* the store, or leaves them alone.                                        *)
(***************************************************************************)
EXTENDS ReceivePath, RecvBufferProofs, PacketStoreProofs

PathInv == RecvInv /\ (\A place \in DOMAIN heads : heads[place] >= 1) /\ IInv

\* Any size that a header is read as is that of a packet of at least a byte.
LEMMA HeaderSizesPositive ==
    ASSUME PathInv, NEW size \in SizesInHeader
    PROVE  size \in Nat /\ size >= 1
<1> DEFINE byte == buffer1[readOffset]
<1>1. CASE byte \in DOMAIN heads
  <2>1. size = heads[byte]
    BY <1>1 DEF SizesInHeader
  <2> QED
    BY <1>1, <2>1 DEF PathInv, RecvInv, SizesOK
<1>2. CASE byte \notin DOMAIN heads
  <2>1. size \in Nat \ {0}
    BY <1>2, PacketSizesAssumption DEF SizesInHeader
  <2> QED
    BY <2>1
<1> QED
  BY <1>1, <1>2

\* What the handler does to the ring is what RecvBuffer describes.
LEMMA PathOffsets ==
    ASSUME PathInv, [PathNext]_pathVars
    PROVE  RecvInv' /\ heads' = heads
<1>1. CASE HandlePacket
  <2>1. TakePacket
    BY <1>1 DEF HandlePacket, TakePacket
  <2> QED
    BY <2>1, NextKeeps DEF PathInv, Next, TakePacket
<1>2. CASE RecvAgain
  BY <1>2 DEF RecvAgain, ringVars, PathInv, RecvInv, OffsetsOK, SizesOK, ReceivePlace
<1>3. ASSUME NEW n \in 1 .. WriteOnceMax, Receive(n)
      PROVE  RecvInv' /\ heads' = heads
  <2>1. OnRecv(n)
    BY <1>3 DEF Receive
  <2> QED
    BY <2>1, NextKeeps DEF PathInv, Next, OnRecv
<1>4. CASE UNCHANGED vars
  BY <1>4, NextKeeps DEF PathInv, vars
<1> QED
  BY <1>1, <1>2, <1>3, <1>4 DEF PathNext, OtherPacket, Main, pathVars

\* What reaches the store are packets of legal sizes.
LEMMA PathStoreStep ==
    ASSUME PathInv, [PathNext]_pathVars
    PROVE  [StoreNext]_storeVars
<1>1. CASE HandlePacket
  <2>1. PICK size \in SizesInHeader :
           /\ CanMakePacket(size)
           /\ \/ TooLarge(size) /\ UNCHANGED storeVars
              \/ /\ ~TooLarge(size)
                 /\ \/ Int16(size) <= MaxSize /\ ProcessRecvDataTCP(Int16(size))
                    \/ ProcessRecvDataTCP(ReqCloseSize)
    BY <1>1 DEF HandlePacket
  <2> SUFFICES ASSUME ~TooLarge(size)
               PROVE  StoreNext
    BY <2>1
  <2>2. Int16(size) = size /\ size \in Nat /\ size >= 1
    BY <2>1, TakenSize, HeaderSizesPositive DEF PathInv, RecvInv
  <2>3. CASE Int16(size) <= MaxSize /\ ProcessRecvDataTCP(Int16(size))
    <3>1. size \in 1 .. MaxSize /\ ProcessRecvDataTCP(size)
      BY <2>2, <2>3, StoreSizesAssumption
    <3> QED
      BY <3>1 DEF StoreNext
  <2>4. CASE ProcessRecvDataTCP(ReqCloseSize)
    BY <2>4, ReqCloseSizeAssumption DEF StoreNext
  <2> QED
    BY <2>1, <2>3, <2>4
<1>2. CASE RecvAgain
  BY <1>2 DEF RecvAgain
<1>3. ASSUME NEW n \in 1 .. WriteOnceMax, Receive(n)
      PROVE  [StoreNext]_storeVars
  BY <1>3 DEF Receive
<1>4. ASSUME NEW size \in 1 .. MaxSize, OtherPacket(size)
      PROVE  [StoreNext]_storeVars
  BY <1>4 DEF OtherPacket, StoreNext
<1>5. CASE Main
  BY <1>5 DEF Main, StoreNext
<1>6. CASE UNCHANGED pathVars
  BY <1>6 DEF pathVars
<1> QED
  BY <1>1, <1>2, <1>3, <1>4, <1>5, <1>6 DEF PathNext

\* Ring, headers and store stay sound together.
LEMMA PathInvAlways == PathSpec => []PathInv
<1>1. PathInit => PathInv
  <2> SUFFICES ASSUME PathInit
               PROVE  PathInv
    OBVIOUS
  <2>1. RecvInv /\ IInv
    BY InitEstablishes, InitEstablishesIInv DEF PathInit
  <2>2. PICK D \in SUBSET (1 .. MaxBytes) : heads \in [D -> PacketSizes]
    BY DEF PathInit, Init, Streams
  <2>3. \A size \in PacketSizes : size >= 1
    BY PacketSizesAssumption
  <2> QED
    BY <2>1, <2>2, <2>3 DEF PathInv
<1>2. PathInv /\ [PathNext]_pathVars => PathInv'
  <2> SUFFICES ASSUME PathInv, [PathNext]_pathVars
               PROVE  PathInv'
    OBVIOUS
  <2>1. RecvInv' /\ heads' = heads
    BY PathOffsets
  <2>2. IInv'
    BY PathStoreStep, StoreStepKeepsIInv DEF PathInv
  <2> QED
    BY <2>1, <2>2 DEF PathInv
<1> QED
  BY <1>1, <1>2, PTL DEF PathSpec

(***************************************************************************)
(* On the whole path from the socket to Main, with packets the store       *)
(* refuses and with other sessions' packets, the data of a packet that     *)
(* waits is intact until the writer has been once through all rows: the    *)
(* receive handler gives the store only packets of legal sizes (the model  *)
(* goes no further than a packet that an INT16 does not hold).             *)
(***************************************************************************)
THEOREM PathIntactAlways == PathSpec => []IntactUntilOvertaken
<1>1. PathInv => IntactUntilOvertaken
  BY DEF PathInv, IInv, Tracked, IntactUntilOvertaken
<1> QED
  BY <1>1, PathInvAlways, PTL

(***************************************************************************)
(* Also when the store refuses a packet, and the handler skips it and goes *)
(* back to receiving, reading stays behind writing, until a packet is      *)
(* complete that an INT16 does not hold.                                   *)
(***************************************************************************)
THEOREM PathReadBehindWriteAlways == PathSpec => []ReadBehindWrite
<1>1. PathInv => ReadBehindWrite
  BY DEF PathInv, RecvInv, OffsetsOK, ReadBehindWrite
<1> QED
  BY <1>1, PathInvAlways, PTL
=============================================================================
