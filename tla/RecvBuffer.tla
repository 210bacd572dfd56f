----------------------------- MODULE RecvBuffer -----------------------------
(***************************************************************************)
(* How TCPSocket fills the RingBuffer of a session and takes packets out:  *)
(* PostRecv, OnRecv and OnProecssRecvData of one connection. A packet      *)
(* starts with a header that gives its size; the header is one byte here.  *)
(***************************************************************************)
EXTENDS RingBuffer

CONSTANTS
    PacketSizes,   \* sizes of the packets that peers send
    GarbageSizes,  \* sizes that bytes which are no header may be read as
    Int16Max       \* the greatest INT16

ASSUME PacketSizesAssumption ==
    /\ PacketSizes \subseteq Nat \ {0}
    /\ GarbageSizes \subseteq Nat \ {0}
    /\ Int16Max \in Nat

VARIABLES
    heads,    \* where the packets of the stream start: place -> size
    receiving, \* the place async_read_some fills, or NoRecv
    narrowed  \* a packet that was complete was larger than an INT16

NoRecv == -1

vars == <<ringVars, heads, receiving, narrowed>>

\* A stream of packets: each head is followed by the next, size places later.
IsStream(f) ==
    /\ 1 \in DOMAIN f
    /\ \A p \in DOMAIN f :
          /\ \A q \in p + 1 .. p + f[p] - 1 : q \notin DOMAIN f
          /\ p + f[p] <= MaxBytes => p + f[p] \in DOMAIN f

Streams ==
    {f \in UNION {[D -> PacketSizes] : D \in SUBSET (1 .. MaxBytes)} : IsStream(f)}

-----------------------------------------------------------------------------
\* PostRecv: GetWriteData() is already writeOffset into the block, and
\* GetWriteOffset() is added to it once more.
ReceivePlace == writeOffset + writeOffset

\* CanMakePacket reads the header at the read offset. A byte that starts no
\* packet may hold any value.
SizesInHeader ==
    LET byte == buffer1[readOffset]
    IN  IF byte \in DOMAIN heads THEN {heads[byte]} ELSE GarbageSizes

\* ProcessRecvDataTCP keeps the size of the packet in an INT16.
Int16(n) ==
    LET m == n % (2 * (Int16Max + 1))
    IN  IF m <= Int16Max THEN m ELSE m - 2 * (Int16Max + 1)

\* Mutant of CanMakePacket: the size is compared as an INT16.
CanMakePacketNarrow(size) == Readable > 0 /\ Int16(size) <= Readable

\* CanMakePacket compares what can be read with the size as an INT32.
CanMakePacket(size) == Readable > 0 /\ size <= Readable

\* Mutant of Consume: the read offset stays.
ConsumeNot(size) == UNCHANGED <<ringVars>>

\* IncreaseReadOffset by the size of a packet that was taken.
Consume(size) ==
    /\ readOffset' = readOffset + Int16(size)
    /\ consumed' = consumed + Int16(size)
    /\ UNCHANGED <<memory, writeOffset, result, written>>

\* A complete packet that an INT16 does not hold. Its size comes out as another
\* one: as a negative number of bytes to copy, which is undefined, as 0, which
\* the loop meets for ever, or as a part. What follows is not modelled.
TooLarge(size) == size > Int16Max /\ size <= Readable

\* OnProecssRecvData takes one more packet.
TakePacket ==
    /\ receiving = NoRecv
    /\ ~narrowed
    /\ \E size \in SizesInHeader :
          /\ CanMakePacket(size)
          /\ Consume(size)
          /\ narrowed' = TooLarge(size)
    /\ UNCHANGED <<heads, receiving>>

\* What can be read is no complete packet.
NoPacket == Readable = 0 \/ \E size \in SizesInHeader : ~CanMakePacket(size)

\* No packet is complete: the loop ends and OnRecv calls PostRecv.
PostRecv ==
    /\ receiving = NoRecv
    /\ ~narrowed
    /\ NoPacket
    /\ receiving' = ReceivePlace
    /\ UNCHANGED <<ringVars, heads, narrowed>>

\* OnRecv of n bytes: IncreaseWriteOffset and BufferFilledThenRotate. Receives
\* that leave the block are left out: what they overwrite is not known
\* (ReceiveInsideBuffer).
OnRecv(n) ==
    LET q == Rotated(Filled(buffer1, receiving, n), writeOffset + n, WriteOnceMax)
    IN  /\ receiving # NoRecv
        /\ receiving + WriteOnceMax <= PlusExtra
        /\ written + n <= MaxBytes
        /\ buffer1' = q.b1
        /\ buffer2' = q.b2
        /\ writeOffset' = q.w
        /\ readOffset' = q.r
        /\ written' = written + n
        /\ receiving' = NoRecv
        /\ UNCHANGED <<result, consumed, heads, narrowed>>

Init ==
    /\ RingInit
    /\ heads \in Streams
    /\ receiving = NoRecv
    /\ narrowed = FALSE

Next ==
    \/ TakePacket
    \/ PostRecv
    \/ \E n \in 1 .. WriteOnceMax : OnRecv(n)

Spec == Init /\ [][Next]_vars

-----------------------------------------------------------------------------
(***************************************************************************)
(* Whatever size is read from the memory at the read offset, reading never *)
(* gets ahead of writing: a packet is taken only when all of it is there.  *)
(* That ends with a packet that is complete and larger than an INT16       *)
(* (SFDefaultPacketHandler.h:101-122, SFTCPSocket.h:340-361).              *)
(***************************************************************************)
ReadBehindWrite == narrowed \/ (0 <= readOffset /\ readOffset <= writeOffset)

(***************************************************************************)
(* CanMakePacket asks "is it a packet of a size that can be handled?"      *)
(* (SFDefaultPacketHandler.h:100): a packet for which it says yes has the  *)
(* same size when ProcessRecvDataTCP handles it. Nothing in the            *)
(* configuration, whose sizes are INT32, keeps rings small enough for it.  *)
(***************************************************************************)
SizeIsHandled == ~narrowed

(***************************************************************************)
(* "The real buffer is allocated larger, in case the allocated buffer is   *)
(* left when it is gone round once" (SFRingBuffer.h:40): the place that a  *)
(* receive may fill lies in the allocated memory.                          *)
(***************************************************************************)
ReceiveInsideBuffer ==
    receiving # NoRecv => receiving + WriteOnceMax <= PlusExtra
=============================================================================
