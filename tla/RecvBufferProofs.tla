-------------------------- MODULE RecvBufferProofs --------------------------
(***************************************************************************)
(* A proof about RecvBuffer for every size of the ring and every stream of *)
(* packets: whatever a header is read as, reading stays behind writing     *)
(* until a packet is complete that an INT16 does not hold; and rings that  *)
(* are allocated with no more than an INT16 counts never hold such one.    *)
(***************************************************************************)
EXTENDS RecvBuffer, TLAPS

\* The offsets are in order and in the allocated block, and a receive that
\* was posted fills the place PostRecv chose.
OffsetsOK ==
    /\ writeOffset \in Nat /\ readOffset \in Nat
    /\ readOffset <= writeOffset /\ writeOffset <= PlusExtra
    /\ receiving # NoRecv => receiving = ReceivePlace

SizesOK == \A place \in DOMAIN heads : heads[place] \in Nat

\* Nothing is said of the offsets once a size has been narrowed.
RecvInv == SizesOK /\ narrowed \in BOOLEAN /\ (narrowed \/ OffsetsOK)

\* The memory of a ring is no larger than an INT16 counts, as with the rings of
\* 16000 and 30000 bytes and packets of 1024 of main.cpp:22-25.
RingIsSmall == PlusExtra <= Int16Max

\* Any size that a header is read as is a number.
LEMMA HeaderSizes ==
    ASSUME SizesOK, NEW size \in SizesInHeader
    PROVE  size \in Nat
BY PacketSizesAssumption DEF SizesOK, SizesInHeader

\* The heads of a stream have sizes of packets.
LEMMA InitEstablishes == Init => RecvInv /\ ~narrowed
<1> SUFFICES ASSUME Init
             PROVE  RecvInv /\ ~narrowed
  OBVIOUS
<1>0. narrowed = FALSE
  BY DEF Init
<1>1. OffsetsOK
  BY RingSizesAssumption DEF Init, RingInit, OffsetsOK, PlusExtra
<1>2. PICK D \in SUBSET (1 .. MaxBytes) : heads \in [D -> PacketSizes]
  BY DEF Init, Streams
<1>3. PacketSizes \subseteq Nat
  BY PacketSizesAssumption, RingSizesAssumption
<1> QED
  BY <1>0, <1>1, <1>2, <1>3 DEF SizesOK, RecvInv

\* The offsets that rotation leaves.
LEMMA RotationKeepsOffsets ==
    ASSUME readOffset \in Nat, NEW b, NEW w \in Nat, readOffset <= w, NEW n
    PROVE  /\ Rotated(b, w, n).w \in Nat /\ Rotated(b, w, n).r \in Nat
           /\ Rotated(b, w, n).r <= Rotated(b, w, n).w
           /\ Rotated(b, w, n).w <= w
<1>1. CASE n <= BufferSize - w
  BY <1>1 DEF Rotated
<1>2. CASE ~(n <= BufferSize - w) /\ w = readOffset
  <2>1. Rotated(b, w, n).w = 0 /\ Rotated(b, w, n).r = 0
    BY <1>2 DEF Rotated, Emptied
  <2> QED
    BY <2>1
<1>3. CASE ~(n <= BufferSize - w) /\ w # readOffset
  <2>1. Rotated(b, w, n).w = w - readOffset /\ Rotated(b, w, n).r = 0
    BY <1>3 DEF Rotated, Swapped
  <2> QED
    BY <2>1
<1> QED
  BY <1>1, <1>2, <1>3

\* What an INT16 holds is the same as an INT16.
LEMMA Int16Keeps ==
    ASSUME NEW n \in Nat, n <= Int16Max
    PROVE  Int16(n) = n
<1>1. Int16Max \in Nat /\ n <= Int16Max
  BY PacketSizesAssumption
<1>2. n % (2 * (Int16Max + 1)) = n
  BY <1>1
<1> QED
  BY <1>1, <1>2 DEF Int16

\* A packet that is taken is there, and has the same size as an INT16.
LEMMA TakenSize ==
    ASSUME SizesOK, NEW size \in SizesInHeader, CanMakePacket(size), ~TooLarge(size)
    PROVE  size \in Nat /\ size <= writeOffset - readOffset /\ Int16(size) = size
<1>1. size \in Nat
  BY HeaderSizes
<1>2. size <= Int16Max
  BY <1>1, PacketSizesAssumption DEF TooLarge, CanMakePacket
<1> QED
  BY <1>1, <1>2, Int16Keeps DEF CanMakePacket, Readable

\* Every step keeps the offsets in order, or meets a packet that is too large.
LEMMA OffsetsStay ==
    ASSUME OffsetsOK, SizesOK, narrowed = FALSE, [Next]_vars
    PROVE  (narrowed' \/ OffsetsOK') /\ SizesOK' /\ narrowed' \in BOOLEAN
<1>0. PlusExtra \in Nat
  BY RingSizesAssumption DEF PlusExtra
<1>1. CASE TakePacket
  <2>1. PICK size \in SizesInHeader :
           CanMakePacket(size) /\ Consume(size) /\ narrowed' = TooLarge(size)
    BY <1>1 DEF TakePacket
  <2> SUFFICES ASSUME ~TooLarge(size)
               PROVE  OffsetsOK' /\ SizesOK'
    BY <1>1, <2>1 DEF TakePacket, SizesOK, TooLarge
  <2>2. size \in Nat
    BY HeaderSizes
  <2>3. size <= writeOffset - readOffset /\ Int16(size) = size
    BY <2>1, TakenSize
  <2>4. readOffset' = readOffset + size /\ writeOffset' = writeOffset
    BY <2>1, <2>3 DEF Consume
  <2>5. heads' = heads /\ receiving = NoRecv /\ receiving' = receiving
    BY <1>1 DEF TakePacket
  <2> QED
    BY <2>2, <2>3, <2>4, <2>5 DEF OffsetsOK, SizesOK
<1>2. CASE PostRecv
  BY <1>2 DEF PostRecv, ReceivePlace, ringVars, OffsetsOK, SizesOK
<1>3. ASSUME NEW n \in 1 .. WriteOnceMax, OnRecv(n)
      PROVE  OffsetsOK' /\ SizesOK' /\ narrowed' = narrowed
  <2> DEFINE b == Filled(buffer1, receiving, n)
             w == writeOffset + n
  <2>1. /\ writeOffset' = Rotated(b, w, WriteOnceMax).w
        /\ readOffset' = Rotated(b, w, WriteOnceMax).r
        /\ heads' = heads /\ receiving' = NoRecv /\ narrowed' = narrowed
    BY <1>3 DEF OnRecv
  <2>2. w \in Nat /\ readOffset \in Nat /\ readOffset <= w /\ w <= PlusExtra
    <3>1. receiving = writeOffset + writeOffset /\ receiving + WriteOnceMax <= PlusExtra
      BY <1>3 DEF OnRecv, OffsetsOK, ReceivePlace
    <3> QED
      BY <1>0, <3>1, RingSizesAssumption DEF OffsetsOK
  <2> HIDE DEF b, w
  <2> QED
    BY <1>0, <2>1, <2>2, RotationKeepsOffsets DEF OffsetsOK, SizesOK
<1>4. CASE UNCHANGED vars
  BY <1>4 DEF vars, ringVars, OffsetsOK, SizesOK, ReceivePlace
<1> QED
  BY <1>1, <1>2, <1>3, <1>4 DEF Next

\* After a packet that was too large no step undoes it.
LEMMA NarrowedStays ==
    ASSUME SizesOK, narrowed = TRUE, [Next]_vars
    PROVE  SizesOK' /\ narrowed' = TRUE
BY DEF Next, TakePacket, PostRecv, OnRecv, vars, SizesOK

\* Either way the invariant is kept.
LEMMA NextKeeps ==
    ASSUME RecvInv, [Next]_vars
    PROVE  RecvInv'
BY OffsetsStay, NarrowedStays DEF RecvInv

\* What lies in a small ring is not too large.
LEMMA SmallKeeps ==
    ASSUME RingIsSmall, RecvInv, ~narrowed, [Next]_vars
    PROVE  ~narrowed'
<1>1. CASE TakePacket
  <2>1. PICK size \in SizesInHeader : narrowed' = TooLarge(size)
    BY <1>1 DEF TakePacket
  <2>2. size \in Nat /\ writeOffset <= Int16Max /\ writeOffset \in Nat /\ readOffset \in Nat
    BY HeaderSizes, RingSizesAssumption, PacketSizesAssumption
       DEF RecvInv, OffsetsOK, RingIsSmall, PlusExtra
  <2>3. ~TooLarge(size)
    BY <2>2, PacketSizesAssumption DEF TooLarge, Readable
  <2> QED
    BY <2>1, <2>3
<1>2. CASE ~TakePacket
  BY <1>2 DEF Next, PostRecv, OnRecv, vars
<1> QED
  BY <1>1, <1>2

(***************************************************************************)
(* CanMakePacket's test of the size against what can be read is enough:    *)
(* even a header read from bytes that are none never takes the read offset *)
(* past the write offset, as long as every packet that was complete had a  *)
(* size that an INT16 holds. A size that is larger than what can be read   *)
(* may be as large as it likes.                                            *)
(***************************************************************************)
THEOREM ReadBehindWriteAlways == Spec => []ReadBehindWrite
<1>1. Init => RecvInv
  BY InitEstablishes
<1>2. RecvInv /\ [Next]_vars => RecvInv'
  BY NextKeeps
<1>3. RecvInv => ReadBehindWrite
  BY DEF RecvInv, OffsetsOK, ReadBehindWrite
<1> QED
  BY <1>1, <1>2, <1>3, PTL DEF Spec

(***************************************************************************)
(* In a ring whose memory is no larger than an INT16 counts, every packet  *)
(* that CanMakePacket accepts keeps its size when it is handled; so the    *)
(* rings that main.cpp:22-25 configures are safe, and only the size of the *)
(* ring decides it.                                                        *)
(***************************************************************************)
THEOREM SmallRingsHandleSizes == ASSUME RingIsSmall PROVE Spec => []SizeIsHandled
<1>1. Init => RecvInv /\ ~narrowed
  BY InitEstablishes
<1>2. RecvInv /\ ~narrowed /\ [Next]_vars => RecvInv' /\ ~narrowed'
  BY NextKeeps, SmallKeeps
<1>3. RecvInv /\ ~narrowed => SizeIsHandled
  BY DEF SizeIsHandled
<1> QED
  BY <1>1, <1>2, <1>3, PTL DEF Spec
=============================================================================
