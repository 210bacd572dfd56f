---------------------------- MODULE PacketStore ----------------------------
(***************************************************************************)
(* BasicPacketHandler with its memory: ProcessRecvDataTCP copies a packet  *)
(* into MultiRingBuffer, rows that are filled in turn and never checked    *)
(* for packets that still wait, and queues where it lies. Main copies the  *)
(* front of the queue, not the data it points to.                          *)
(***************************************************************************)
EXTENDS Integers, Sequences

CONSTANTS
    Rows,        \* MAX_PACKET_BUFFER_COUNT
    RowSize,     \* MAX_PACKET_BUFFER_SIZE
    MaxSize,     \* MAX_PACKET_SIZE
    MaxPackets,  \* MAX_PACKET_COUNT
    MaxReceived  \* bound: packets received in a run

ASSUME StoreSizesAssumption ==
    /\ Rows \in Nat \ {0}
    /\ MaxSize \in Nat \ {0}
    /\ RowSize \in Nat /\ MaxSize <= RowSize
    /\ MaxPackets \in Nat \ {0}
    /\ MaxReceived \in Nat

Row == 0 .. Rows - 1
Column == 0 .. RowSize - 1

\* PACKET_DATA_INFO: pData is a row and a column; number is the packet whose
\* data was copied there, turn how many rows had been begun before.
PacketInfo ==
    [row : Row, col : Column, size : 1 .. MaxSize, number : Nat, turn : Nat]

VARIABLES
    store,       \* m_BufferSet: the number of the packet each byte belongs to
    row,         \* m_nCurUseBufferIndex
    rowOffset, \* m_nWriteOffset
    packets,     \* m_Packets
    handling,    \* Main is between FrontPacket and PopPacket
    hand,        \* the PACKET_DATA_INFO whose data Main reads: at most one
    received,    \* packets received
    turns        \* rows begun since the store was cleared or made

storeVars == <<store, row, rowOffset, packets, handling, hand, received, turns>>

StoreTypeOK ==
    /\ store \in [Row -> [Column -> Nat]]
    /\ row \in Row
    /\ rowOffset \in 0 .. RowSize
    /\ packets \in Seq(PacketInfo)
    /\ Len(packets) <= MaxPackets
    /\ handling \in BOOLEAN
    /\ hand \in SUBSET PacketInfo
    /\ received \in Nat
    /\ turns \in Nat

StoreInit ==
    /\ store = [r \in Row |-> [c \in Column |-> 0]]
    /\ row = 0
    /\ rowOffset = 0
    /\ packets = <<>>
    /\ handling = FALSE
    /\ hand = {}
    /\ received = 0
    /\ turns = 0

-----------------------------------------------------------------------------
\* Mutant of TurnsRow: one byte too late.
TurnsRowLate(size) == RowSize + 1 - rowOffset < size

\* MultiRingBuffer::BufferFilledThenRotate.
TurnsRow(size) == RowSize - rowOffset < size
NextRow == IF row + 1 >= Rows THEN 0 ELSE row + 1

\* MultiRingBuffer::WriteBuffer and push_back, which drops the oldest packet
\* of a full queue. A packet above MAX_PACKET_SIZE is refused.
ProcessRecvDataTCP(size) ==
    LET r == IF TurnsRow(size) THEN NextRow ELSE row
        c == IF TurnsRow(size) THEN 0 ELSE rowOffset
        info == [row |-> r, col |-> c, size |-> size, number |-> received + 1, turn |-> turns']
    IN  /\ received < MaxReceived
        /\ size <= MaxSize
        /\ turns' = IF TurnsRow(size) THEN turns + 1 ELSE turns
        /\ row' = r
        /\ rowOffset' = c + size
        /\ store' = [store EXCEPT ![r] =
                       [i \in Column |-> IF c <= i /\ i < c + size THEN received + 1 ELSE @[i]]]
        /\ packets' = Append(IF Len(packets) = MaxPackets THEN Tail(packets) ELSE packets, info)
        /\ received' = received + 1
        /\ UNCHANGED <<handling, hand>>

FrontPacket ==
    /\ ~handling
    /\ packets # <<>>
    /\ handling' = TRUE
    /\ hand' = {Head(packets)}
    /\ UNCHANGED <<store, row, rowOffset, packets, received, turns>>

PopPacket ==
    /\ handling
    /\ handling' = FALSE
    /\ hand' = {}
    /\ packets' = IF packets = <<>> THEN packets ELSE Tail(packets)
    /\ UNCHANGED <<store, row, rowOffset, received, turns>>

\* Mutant of ClearStore: m_Packets is kept.
ClearStoreKeepsPackets ==
    /\ row' = 0
    /\ rowOffset' = 0
    /\ hand' = {}
    /\ turns' = 0
    /\ UNCHANGED <<store, packets, handling, received>>

\* Clear, by Main when it reuses a session or fails to connect one; it has
\* then read what it needs of the packet in hand.
ClearStore ==
    /\ packets' = <<>>
    /\ row' = 0
    /\ rowOffset' = 0
    /\ hand' = {}
    /\ turns' = 0
    /\ UNCHANGED <<store, handling, received>>

StoreNext ==
    \/ \E size \in 1 .. MaxSize : ProcessRecvDataTCP(size)
    \/ FrontPacket
    \/ PopPacket
    \/ ClearStore

StoreSpec == StoreInit /\ [][StoreNext]_storeVars

-----------------------------------------------------------------------------
Waiting == hand \cup {packets[i] : i \in DOMAIN packets}

Intact(p) ==
    /\ p.col + p.size <= RowSize
    /\ \A i \in p.col .. p.col + p.size - 1 : store[p.row][i] = p.number

\* Since p was stored the writer has come round to p's row and passed p.
Overtaken(p) ==
    \/ turns - p.turn > Rows
    \/ turns - p.turn = Rows /\ rowOffset > p.col

(***************************************************************************)
(* Main reads a packet out of the store without the lock, while IO threads *)
(* fill the rows. The data of a packet in the queue or in hand is what was *)
(* received until the writer has been once through all rows and reaches    *)
(* the packet: never earlier, also after Clear and after the queue dropped *)
(* packets (SFMultiRingBuffer.h:60-108, SFDefaultPacketHandler.h:118-143). *)
(***************************************************************************)
IntactUntilOvertaken ==
    \A p \in Waiting : Intact(p) \/ Overtaken(p)
=============================================================================
