-------------------------- MODULE PacketStoreProofs --------------------------
(***************************************************************************)
(* Proofs about PacketStore for every number and size of rows, packets and *)
(* queue.                                                                  *)
(***************************************************************************)
EXTENDS PacketStore, TLAPS

(***************************************************************************)
(* Where the writer is, seen from packet p: d rows further round, and      *)
(* behind p while it is still in the same row.                             *)
(***************************************************************************)
WriterPast(p) ==
    LET d == turns - p.turn
    IN  /\ d >= 0
        /\ d <= Rows => row = p.row + d \/ row = p.row + d - Rows
        /\ d = 0 => rowOffset >= p.col + p.size

Tracked(p) ==
    /\ p.col + p.size <= RowSize
    /\ WriterPast(p)
    /\ Intact(p) \/ Overtaken(p)

IInv == StoreTypeOK /\ \A p \in Waiting : Tracked(p)

-----------------------------------------------------------------------------
\* The packets that wait are those in hand and those in the queue.
LEMMA WaitingType ==
    ASSUME StoreTypeOK
    PROVE  Waiting \subseteq PacketInfo
BY DEF StoreTypeOK, Waiting

\* What a queue loses its front to keeps the others.
LEMMA TailSubset ==
    ASSUME NEW q \in Seq(PacketInfo), q # <<>>
    PROVE  /\ Tail(q) \in Seq(PacketInfo)
           /\ Len(Tail(q)) = Len(q) - 1
           /\ \A i \in DOMAIN Tail(q) : \E j \in DOMAIN q : Tail(q)[i] = q[j]
<1>1. Tail(q) \in Seq(PacketInfo) /\ Len(Tail(q)) = Len(q) - 1
  OBVIOUS
<1>2. ASSUME NEW i \in DOMAIN Tail(q)
      PROVE  \E j \in DOMAIN q : Tail(q)[i] = q[j]
  <2>1. i \in 1 .. Len(q) - 1
    BY <1>1
  <2>2. i + 1 \in DOMAIN q /\ Tail(q)[i] = q[i + 1]
    BY <2>1
  <2> QED
    BY <2>2
<1> QED
  BY <1>1, <1>2

\* Packets that neither move nor lose their row to the writer stay tracked.
LEMMA UntouchedTracked ==
    ASSUME IInv, Waiting' \subseteq Waiting, UNCHANGED <<store, row, rowOffset, turns>>
    PROVE  \A p \in Waiting' : Tracked(p)'
BY DEF IInv, Tracked, WriterPast, Intact, Overtaken

-----------------------------------------------------------------------------
(* A packet is received.                                                    *)

\* Row and column where a packet of this size goes.
IntoRow(size) == IF TurnsRow(size) THEN NextRow ELSE row
IntoColumn(size) == IF TurnsRow(size) THEN 0 ELSE rowOffset

\* The packet fits behind the column it is put at.
LEMMA PlaceFits ==
    ASSUME StoreTypeOK, NEW size \in 1 .. MaxSize
    PROVE  /\ IntoRow(size) \in Row
           /\ IntoColumn(size) \in Nat
           /\ IntoColumn(size) + size <= RowSize
<1>1. /\ Rows \in Nat /\ Rows >= 1 /\ MaxSize \in Nat /\ RowSize \in Nat /\ MaxSize <= RowSize
      /\ row \in 0 .. Rows - 1 /\ rowOffset \in 0 .. RowSize
  BY StoreSizesAssumption DEF StoreTypeOK, Row
<1>2. IntoRow(size) \in Row
  BY <1>1 DEF IntoRow, NextRow, Row
<1>3. IntoColumn(size) \in Nat /\ IntoColumn(size) + size <= RowSize
  BY <1>1 DEF IntoColumn, TurnsRow
<1> QED
  BY <1>2, <1>3

\* A packet that waited before stays tracked.
LEMMA OldTracked ==
    ASSUME IInv, NEW size \in 1 .. MaxSize, ProcessRecvDataTCP(size),
           NEW p \in PacketInfo, Tracked(p)
    PROVE  Tracked(p)'
<1> DEFINE r == IntoRow(size)
           c == IntoColumn(size)
           d == turns - p.turn
<1>1. /\ Rows \in Nat /\ Rows >= 1 /\ RowSize \in Nat
      /\ row \in 0 .. Rows - 1 /\ rowOffset \in 0 .. RowSize
      /\ turns \in Nat /\ received \in Nat /\ store \in [Row -> [Column -> Nat]]
      /\ p.row \in 0 .. Rows - 1 /\ p.col \in 0 .. RowSize - 1 /\ p.size \in Nat
      /\ p.size >= 1 /\ p.turn \in Nat /\ d \in Int
  BY StoreSizesAssumption DEF IInv, StoreTypeOK, Row, Column, PacketInfo
<1>2. r \in 0 .. Rows - 1 /\ c \in Nat /\ c + size <= RowSize
  BY PlaceFits DEF IInv, Row
<1>3. /\ turns' = IF TurnsRow(size) THEN turns + 1 ELSE turns
      /\ row' = r
      /\ rowOffset' = c + size
      /\ store' = [store EXCEPT ![r] =
                     [i \in Column |-> IF c <= i /\ i < c + size THEN received + 1 ELSE store[r][i]]]
  BY DEF ProcessRecvDataTCP, IntoRow, IntoColumn
<1>4. /\ p.col + p.size <= RowSize
      /\ d >= 0
      /\ d <= Rows => row = p.row + d \/ row = p.row + d - Rows
      /\ d = 0 => rowOffset >= p.col + p.size
  BY DEF Tracked, WriterPast
<1>5. \/ turns' = turns + 1 /\ c = 0 /\ (r = row + 1 \/ r = row + 1 - Rows)
      \/ turns' = turns /\ c = rowOffset /\ r = row
  BY <1>1, <1>3 DEF IntoRow, IntoColumn, NextRow
<1> HIDE DEF r, c
<1>6. WriterPast(p)'
  <2>1. CASE turns' = turns + 1 /\ c = 0 /\ (r = row + 1 \/ r = row + 1 - Rows)
    BY <1>1, <1>2, <1>3, <1>4, <2>1 DEF WriterPast
  <2>2. CASE turns' = turns /\ c = rowOffset /\ r = row
    BY <1>1, <1>2, <1>3, <1>4, <2>2 DEF WriterPast
  <2> QED
    BY <1>5, <2>1, <2>2
<1>7. ASSUME ~Overtaken(p)'
      PROVE  Intact(p)'
  <2>1. turns' - p.turn <= Rows /\ (turns' - p.turn = Rows => c + size <= p.col)
    BY <1>1, <1>2, <1>3, <1>5, <1>7 DEF Overtaken
  <2>2. r # p.row \/ c >= p.col + p.size \/ c + size <= p.col
    <3> DEFINE e == turns' - p.turn
    <3>1. \/ e = d + 1 /\ (r = row + 1 \/ r = row + 1 - Rows)
          \/ e = d /\ r = row /\ c = rowOffset
      BY <1>1, <1>5
    <3>2. e <= Rows /\ (e = Rows => c + size <= p.col)
      BY <2>1
    <3> HIDE DEF d, e
    <3>3. CASE e = Rows
      BY <3>2, <3>3
    <3>4. CASE e # Rows /\ e = d + 1 /\ (r = row + 1 \/ r = row + 1 - Rows)
      BY <1>1, <1>2, <1>4, <3>2, <3>4
    <3>5. CASE e # Rows /\ e = d /\ r = row /\ c = rowOffset
      BY <1>1, <1>2, <1>4, <3>2, <3>5
    <3> QED
      BY <3>1, <3>3, <3>4, <3>5
  <2>3. ~Overtaken(p)
    BY <1>1, <1>2, <1>5, <2>1 DEF Overtaken
  <2>4. Intact(p)
    BY <2>3 DEF Tracked
  <2>5. ASSUME NEW i \in p.col .. p.col + p.size - 1
        PROVE  store'[p.row][i] = p.number
    <3>1. i \in Column /\ p.row \in Row /\ r \in Row /\ store[p.row][i] = p.number
      BY <1>1, <1>2, <1>4, <2>4 DEF Column, Row, Intact
    <3>2. CASE r # p.row
      BY <1>1, <1>3, <3>1, <3>2
    <3>3. CASE r = p.row
      <4>1. ~(c <= i /\ i < c + size)
        BY <1>1, <1>2, <2>2, <3>3
      <4>2. store'[r][i] = store[r][i]
        BY <1>1, <1>3, <3>1, <4>1
      <4> QED
        BY <3>1, <3>3, <4>2
    <3> QED
      BY <3>2, <3>3
  <2> QED
    BY <1>4, <2>5 DEF Intact
<1> QED
  BY <1>4, <1>6, <1>7 DEF Tracked

\* The packet that was just put into the store is tracked.
LEMMA NewTracked ==
    ASSUME IInv, NEW size \in 1 .. MaxSize, ProcessRecvDataTCP(size),
           NEW p, p = [row |-> IntoRow(size), col |-> IntoColumn(size), size |-> size,
                       number |-> received + 1, turn |-> turns']
    PROVE  p \in PacketInfo /\ Tracked(p)'
<1> DEFINE r == IntoRow(size)
           c == IntoColumn(size)
<1>1. /\ Rows \in Nat /\ Rows >= 1 /\ RowSize \in Nat
      /\ turns \in Nat /\ received \in Nat /\ store \in [Row -> [Column -> Nat]]
  BY StoreSizesAssumption DEF IInv, StoreTypeOK
<1>2. r \in Row /\ c \in Nat /\ c + size <= RowSize
  BY PlaceFits DEF IInv
<1>3. /\ turns' = IF TurnsRow(size) THEN turns + 1 ELSE turns
      /\ row' = r
      /\ rowOffset' = c + size
      /\ store' = [store EXCEPT ![r] =
                     [i \in Column |-> IF c <= i /\ i < c + size THEN received + 1 ELSE store[r][i]]]
  BY DEF ProcessRecvDataTCP, IntoRow, IntoColumn
<1> HIDE DEF r, c
<1>4. p.row = r /\ p.col = c /\ p.size = size /\ p.number = received + 1 /\ p.turn = turns'
  BY DEF r, c
<1>5. turns' \in Nat
  BY <1>1, <1>3
<1>6. p \in PacketInfo
  <2>1. c \in Column /\ received + 1 \in Nat
    BY <1>1, <1>2 DEF Column
  <2> QED
    BY <1>2, <1>5, <2>1 DEF PacketInfo, r, c
<1>7. WriterPast(p)'
  <2>1. turns' - p.turn = 0 /\ row' = p.row /\ r \in Int
    BY <1>2, <1>3, <1>4, <1>5 DEF Row
  <2>2. rowOffset' >= p.col + p.size
    BY <1>2, <1>3, <1>4
  <2> QED
    BY <1>1, <1>4, <2>1, <2>2 DEF WriterPast
<1>8. Intact(p)'
  <2>1. ASSUME NEW i \in c .. c + size - 1
        PROVE  store'[r][i] = received + 1
    <3>1. i \in Column /\ c <= i /\ i < c + size
      BY <1>1, <1>2 DEF Column
    <3> QED
      BY <1>1, <1>2, <1>3, <3>1
  <2> QED
    BY <1>2, <1>4, <2>1 DEF Intact
<1> QED
  BY <1>2, <1>4, <1>6, <1>7, <1>8 DEF Tracked

\* Receiving a packet keeps the invariant, also when the queue drops one.
LEMMA ReceiveKeepsIInv ==
    ASSUME IInv, NEW size \in 1 .. MaxSize, ProcessRecvDataTCP(size)
    PROVE  IInv'
<1>0. PICK info : info = [row |-> IntoRow(size), col |-> IntoColumn(size), size |-> size,
                         number |-> received + 1, turn |-> turns']
  OBVIOUS
<1> DEFINE kept == IF Len(packets) = MaxPackets THEN Tail(packets) ELSE packets
<1>1. info \in PacketInfo /\ Tracked(info)'
  BY <1>0, NewTracked
<1>2. packets' = Append(kept, info) /\ UNCHANGED <<handling, hand>>
  BY <1>0 DEF ProcessRecvDataTCP, IntoRow, IntoColumn
<1>3. /\ packets \in Seq(PacketInfo) /\ Len(packets) <= MaxPackets
      /\ MaxPackets \in Nat /\ MaxPackets >= 1
  BY StoreSizesAssumption DEF IInv, StoreTypeOK
<1>4. /\ kept \in Seq(PacketInfo) /\ Len(kept) + 1 <= MaxPackets
      /\ \A i \in DOMAIN kept : \E j \in DOMAIN packets : kept[i] = packets[j]
  <2>1. CASE Len(packets) = MaxPackets
    BY <1>3, <2>1, TailSubset
  <2>2. CASE Len(packets) # MaxPackets
    BY <1>3, <2>2
  <2> QED
    BY <2>1, <2>2
<1> HIDE DEF kept
<1>5. packets' \in Seq(PacketInfo) /\ Len(packets') <= MaxPackets
  BY <1>1, <1>2, <1>4
<1>6. Waiting' \subseteq Waiting \cup {info}
  <2>1. ASSUME NEW i \in DOMAIN packets'
        PROVE  packets'[i] = info \/ \E j \in DOMAIN packets : packets'[i] = packets[j]
    <3>1. i \in 1 .. Len(kept) + 1
      BY <1>1, <1>2, <1>4
    <3>2. CASE i = Len(kept) + 1
      BY <1>1, <1>2, <1>4, <3>2
    <3>3. CASE i \in DOMAIN kept
      <4>1. packets'[i] = kept[i]
        BY <1>1, <1>2, <1>4, <3>3
      <4> QED
        BY <1>4, <3>3, <4>1
    <3> QED
      BY <1>4, <3>1, <3>2, <3>3
  <2> QED
    BY <1>2, <2>1 DEF Waiting
<1>7. ASSUME NEW p \in Waiting'
      PROVE  Tracked(p)'
  <2>1. CASE p = info
    BY <1>1, <2>1
  <2>2. CASE p \in Waiting
    <3>1. p \in PacketInfo /\ Tracked(p)
      BY <2>2, WaitingType DEF IInv
    <3> QED
      BY <3>1, OldTracked
  <2> QED
    BY <1>6, <2>1, <2>2
<1>8. StoreTypeOK'
  <2>1. /\ IntoRow(size) \in Row /\ IntoColumn(size) + size \in 0 .. RowSize
        /\ received + 1 \in Nat /\ turns' \in Nat
    BY PlaceFits, StoreSizesAssumption DEF ProcessRecvDataTCP, IInv, StoreTypeOK
  <2>2. store' \in [Row -> [Column -> Nat]]
    <3>1. PICK f \in [Column -> Nat] : store' = [store EXCEPT ![IntoRow(size)] = f]
      <4> DEFINE r == IntoRow(size)
                 c == IntoColumn(size)
                 g == [i \in Column |-> IF c <= i /\ i < c + size THEN received + 1 ELSE store[r][i]]
      <4>1. store' = [store EXCEPT ![r] = g]
        BY DEF ProcessRecvDataTCP, IntoRow, IntoColumn
      <4> HIDE DEF r, c
      <4>2. g \in [Column -> Nat]
        BY <2>1 DEF r, IInv, StoreTypeOK
      <4> QED
        BY <4>1, <4>2 DEF r
    <3> QED
      BY <3>1 DEF IInv, StoreTypeOK
  <2>3. row' = IntoRow(size) /\ rowOffset' = IntoColumn(size) + size
        /\ received' = received + 1
    BY DEF ProcessRecvDataTCP, IntoRow, IntoColumn
  <2> QED
    BY <1>2, <1>5, <2>1, <2>2, <2>3 DEF IInv, StoreTypeOK
<1> QED
  BY <1>7, <1>8 DEF IInv

-----------------------------------------------------------------------------
(* Main.                                                                    *)

\* The front is in the queue; popping it shortens the queue.
LEMMA MainKeepsIInv ==
    ASSUME IInv, FrontPacket \/ PopPacket
    PROVE  IInv'
<1>1. packets \in Seq(PacketInfo) /\ Len(packets) <= MaxPackets /\ MaxPackets \in Nat
  BY StoreSizesAssumption DEF IInv, StoreTypeOK
<1>2. UNCHANGED <<store, row, rowOffset, turns, received>>
  BY DEF FrontPacket, PopPacket
<1>3. CASE FrontPacket
  <2>1. packets' = packets /\ hand' = {packets[1]} /\ 1 \in DOMAIN packets /\ handling' = TRUE
    BY <1>1, <1>3 DEF FrontPacket
  <2>2. Waiting' \subseteq Waiting /\ packets[1] \in Waiting
    BY <2>1 DEF Waiting
  <2>3. hand' \in SUBSET PacketInfo
    BY <2>1, <2>2, WaitingType DEF IInv
  <2>4. \A p \in Waiting' : Tracked(p)'
    BY <1>2, <2>2, UntouchedTracked
  <2> QED
    BY <1>2, <2>1, <2>3, <2>4 DEF IInv, StoreTypeOK
<1>4. CASE PopPacket
  <2>1. /\ packets' \in Seq(PacketInfo) /\ Len(packets') <= MaxPackets
        /\ \A i \in DOMAIN packets' : \E j \in DOMAIN packets : packets'[i] = packets[j]
    <3>1. CASE packets = <<>>
      BY <1>1, <1>4, <3>1 DEF PopPacket
    <3>2. CASE packets # <<>>
      <4>1. packets' = Tail(packets)
        BY <1>4, <3>2 DEF PopPacket
      <4> QED
        BY <1>1, <3>2, <4>1, TailSubset
    <3> QED
      BY <3>1, <3>2
  <2>2. hand' = {} /\ handling' = FALSE
    BY <1>4 DEF PopPacket
  <2>3. \A p \in Waiting' : Tracked(p)'
    BY <1>2, <2>1, <2>2, UntouchedTracked DEF Waiting
  <2> QED
    BY <1>2, <2>1, <2>2, <2>3 DEF IInv, StoreTypeOK
<1> QED
  BY <1>3, <1>4

\* ClearStore leaves nothing that waits.
LEMMA ClearKeepsIInv ==
    ASSUME IInv, ClearStore
    PROVE  IInv'
<1>1. Waiting' = {}
  BY DEF ClearStore, Waiting
<1>2. 0 \in Row /\ 0 \in 0 .. RowSize /\ MaxPackets \in Nat
  BY StoreSizesAssumption DEF Row
<1>3. packets' = <<>> /\ row' = 0 /\ rowOffset' = 0 /\ hand' = {} /\ turns' = 0
      /\ UNCHANGED <<store, handling, received>>
  BY DEF ClearStore
<1>4. packets' \in Seq(PacketInfo) /\ Len(packets') = 0
  BY <1>3
<1>5. Len(packets') <= MaxPackets
  BY <1>2, <1>4
<1> QED
  BY <1>1, <1>2, <1>3, <1>4, <1>5 DEF IInv, StoreTypeOK

-----------------------------------------------------------------------------
\* An empty store of new rows.
LEMMA InitEstablishesIInv == StoreInit => IInv
<1> SUFFICES ASSUME StoreInit
             PROVE  IInv
  OBVIOUS
<1>1. Waiting = {}
  BY DEF StoreInit, Waiting
<1>2. 0 \in Row /\ 0 \in 0 .. RowSize /\ MaxPackets \in Nat
  BY StoreSizesAssumption DEF Row
<1>3. packets \in Seq(PacketInfo) /\ Len(packets) = 0
  BY DEF StoreInit
<1>4. Len(packets) <= MaxPackets
  BY <1>2, <1>3
<1>5. store \in [Row -> [Column -> Nat]]
  BY DEF StoreInit
<1> QED
  BY <1>1, <1>2, <1>3, <1>4, <1>5 DEF StoreInit, IInv, StoreTypeOK

\* Every step of the store keeps the packets that wait tracked.
LEMMA StoreStepKeepsIInv ==
    ASSUME IInv, [StoreNext]_storeVars
    PROVE  IInv'
<1>1. ASSUME UNCHANGED storeVars
      PROVE  IInv'
  <2>1. Waiting' \subseteq Waiting
    BY <1>1 DEF storeVars, Waiting
  <2>2. \A p \in Waiting' : Tracked(p)'
    BY <1>1, <2>1, UntouchedTracked DEF storeVars
  <2> QED
    BY <1>1, <2>2 DEF storeVars, IInv, StoreTypeOK
<1> QED
  BY <1>1, ReceiveKeepsIInv, MainKeepsIInv, ClearKeepsIInv DEF StoreNext

\* In every state the packets that wait are tracked.
LEMMA IInvAlways == StoreSpec => []IInv
<1>1. StoreInit => IInv
  BY InitEstablishesIInv
<1>2. IInv /\ [StoreNext]_storeVars => IInv'
  BY StoreStepKeepsIInv
<1> QED
  BY <1>1, <1>2, PTL DEF StoreSpec

(***************************************************************************)
(* The rows, the offset and the queue keep their sizes, whatever sizes of  *)
(* packets arrive and however often the store is cleared.                  *)
(***************************************************************************)
THEOREM TypesAlways == StoreSpec => []StoreTypeOK
<1>1. IInv => StoreTypeOK
  BY DEF IInv
<1> QED
  BY <1>1, IInvAlways, PTL

(***************************************************************************)
(* A packet that waits, or that Main reads without the lock, keeps its     *)
(* data until the writer has gone once through all rows and reaches it,    *)
(* for any number and size of rows and packets: no shorter way round       *)
(* exists, and this is all that protects the data.                         *)
(***************************************************************************)
THEOREM IntactAlways == StoreSpec => []IntactUntilOvertaken
<1>1. IInv => IntactUntilOvertaken
  BY DEF IInv, Tracked, IntactUntilOvertaken
<1> QED
  BY <1>1, IInvAlways, PTL
=============================================================================
