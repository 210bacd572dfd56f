-------------------------- MODULE RingBufferProofs --------------------------
(***************************************************************************)
(* Proofs about RingBuffer for every size of the blocks and of the writes: *)
(* the offsets stay in the allocated block, the unread bytes keep their    *)
(* order through every swap, and a write is refused only for want of room. *)
(***************************************************************************)
EXTENDS RingBuffer, TLAPS

IInv == RingTypeOK /\ Contents

\* The ring that BufferFilledThenRotate leaves: blocks, offsets, contents.
RingOf(q, u) ==
    /\ q.b1 \in [Place -> Nat] /\ q.b2 \in [Place -> Nat]
    /\ q.r \in Nat /\ q.w \in Nat
    /\ q.r <= q.w /\ q.w <= PlusExtra
    /\ q.w - q.r = u
    /\ \A i \in 0 .. u - 1 : q.b1[q.r + i] = consumed + 1 + i

\* The sizes are numbers.
LEMMA Sizes ==
    /\ BufferSize \in Nat /\ BufferSize >= 1
    /\ WriteOnceMax \in Nat /\ WriteOnceMax >= 1
    /\ PlusExtra \in Nat /\ PlusExtra >= BufferSize + WriteOnceMax
BY RingSizesAssumption DEF PlusExtra

\* The offsets and the number of unread bytes.
LEMMA Offsets ==
    ASSUME RingTypeOK
    PROVE  /\ writeOffset \in Nat /\ readOffset \in Nat /\ Readable \in Nat
           /\ readOffset <= writeOffset /\ writeOffset <= PlusExtra
           /\ Readable = writeOffset - readOffset
BY Sizes DEF RingTypeOK, Readable

\* Rotation keeps the unread bytes, at the start of a block when it swaps.
LEMMA RotationKeepsContents ==
    ASSUME IInv, NEW n \in Nat
    PROVE  RingOf(Rotated(buffer1, writeOffset, n), Readable)
<1> DEFINE q == Rotated(buffer1, writeOffset, n)
<1>1. /\ writeOffset \in Nat /\ readOffset \in Nat /\ Readable \in Nat
      /\ readOffset <= writeOffset /\ writeOffset <= PlusExtra
      /\ Readable = writeOffset - readOffset
      /\ buffer1 \in [Place -> Nat] /\ buffer2 \in [Place -> Nat]
      /\ PlusExtra \in Nat
  BY Offsets, Sizes DEF IInv, RingTypeOK
<1>2. \A i \in 0 .. Readable - 1 : buffer1[readOffset + i] = consumed + 1 + i
  BY DEF IInv, Contents
<1>3. CASE n <= BufferSize - writeOffset
  <2>1. q = [b1 |-> buffer1, b2 |-> buffer2, w |-> writeOffset, r |-> readOffset]
    BY <1>3 DEF Rotated
  <2> QED
    BY <1>1, <1>2, <2>1 DEF RingOf
<1>4. CASE ~(n <= BufferSize - writeOffset) /\ writeOffset = readOffset
  <2>1. q = [b1 |-> buffer1, b2 |-> buffer2, w |-> 0, r |-> 0]
    BY <1>4 DEF Rotated, Emptied
  <2>2. Readable = 0
    BY <1>1, <1>4
  <2> QED
    BY <1>1, <2>1, <2>2 DEF RingOf
<1>5. CASE ~(n <= BufferSize - writeOffset) /\ writeOffset # readOffset
  <2> DEFINE b == [i \in Place |-> IF i < Readable THEN buffer1[readOffset + i]
                                                   ELSE buffer2[i]]
  <2>1. q = [b1 |-> b, b2 |-> buffer1, w |-> Readable, r |-> 0]
    BY <1>1, <1>5 DEF Rotated, Swapped
  <2>2. ASSUME NEW i \in Place, i < Readable
        PROVE  readOffset + i \in Place
    BY <1>1, <2>2 DEF Place
  <2>3. b \in [Place -> Nat]
    BY <1>1, <2>2
  <2>4. ASSUME NEW i \in 0 .. Readable - 1
        PROVE  b[0 + i] = consumed + 1 + i
    <3>1. i \in Place /\ 0 + i = i /\ i < Readable
      BY <1>1 DEF Place
    <3> QED
      BY <1>2, <3>1
  <2> HIDE DEF b
  <2> QED
    BY <1>1, <2>1, <2>3, <2>4 DEF RingOf
<1> QED
  BY <1>3, <1>4, <1>5

\* At first the ring is empty.
LEMMA InitEstablishesIInv == RingInit => IInv
BY Sizes DEF RingInit, IInv, RingTypeOK, Contents, Readable, Error

\* A write that is not refused appends the next bytes of the stream.
LEMMA WriteKeepsIInv ==
    ASSUME IInv, NEW n \in 1 .. WriteOnceMax + 1, WriteBuffer(n)
    PROVE  IInv'
<1> DEFINE q == Rotated(buffer1, writeOffset, n)
<1>1. n \in Nat /\ n >= 1 /\ written \in Nat /\ consumed \in Nat /\ consumed' = consumed
  BY Sizes DEF IInv, RingTypeOK, WriteBuffer
<1>2. RingOf(q, Readable)
  BY <1>1, RotationKeepsContents
<1>3. written = consumed + Readable
  BY DEF IInv, Contents
<1>4. /\ PlusExtra \in Nat /\ Readable \in Nat
      /\ q.b1 \in [Place -> Nat] /\ q.b2 \in [Place -> Nat]
      /\ q.r \in Nat /\ q.w \in Nat /\ q.r <= q.w /\ q.w <= PlusExtra
      /\ q.w - q.r = Readable
      /\ \A i \in 0 .. Readable - 1 : q.b1[q.r + i] = consumed + 1 + i
  BY <1>2, Sizes, Offsets DEF RingOf, IInv
<1> HIDE DEF q
<1>5. CASE n > WriteOnceMax
  <2>1. result' \in Error /\ UNCHANGED <<buffer1, buffer2, writeOffset, readOffset, written>>
    BY <1>5 DEF WriteBuffer, memory, Error
  <2> QED
    BY <1>1, <2>1 DEF IInv, RingTypeOK, Contents, Readable
<1>6. CASE n <= WriteOnceMax /\ WrongWritePos(q.w, n)
  <2>1. /\ buffer1' = q.b1 /\ buffer2' = q.b2
        /\ readOffset' = q.r /\ writeOffset' = q.w
        /\ written' = written /\ result' \in Error
    BY <1>6, Sizes DEF WriteBuffer, Error, q
  <2>2. Readable' = Readable
    BY <1>4, <2>1 DEF Readable
  <2>3. RingTypeOK'
    BY <1>1, <1>4, <2>1 DEF RingTypeOK
  <2>4. Contents'
    BY <1>1, <1>3, <1>4, <2>1, <2>2 DEF Contents
  <2> QED
    BY <2>3, <2>4 DEF IInv
<1>7. CASE n <= WriteOnceMax /\ ~WrongWritePos(q.w, n)
  <2>1. /\ buffer1' = Filled(q.b1, q.w, n) /\ buffer2' = q.b2
        /\ readOffset' = q.r /\ writeOffset' = q.w + n
        /\ written' = written + n /\ result' \in Error
    BY <1>7, Sizes DEF WriteBuffer, Error, q
  <2>2. q.w + n <= PlusExtra
    BY <1>1, <1>4, <1>7 DEF WrongWritePos
  <2>3. Readable' = Readable + n
    BY <1>1, <1>4, <2>1 DEF Readable
  <2>4. \A i \in Place : i \in Nat
    BY Sizes DEF Place
  <2>5. buffer1' = [i \in Place |-> IF q.w <= i /\ i < q.w + n
                                    THEN written + 1 + (i - q.w) ELSE q.b1[i]]
    BY <2>1 DEF Filled
  <2>6. ASSUME NEW i \in Place
        PROVE  (IF q.w <= i /\ i < q.w + n
                THEN written + 1 + (i - q.w) ELSE q.b1[i]) \in Nat
    BY <1>1, <1>4, <2>4
  <2>7. buffer1' \in [Place -> Nat]
    BY <2>5, <2>6
  <2>8. RingTypeOK'
    BY <1>1, <1>4, <2>1, <2>2, <2>7 DEF RingTypeOK
  <2>9. ASSUME NEW i \in 0 .. Readable + n - 1
        PROVE  buffer1'[q.r + i] = consumed + 1 + i
    <3>1. q.r + i \in Place /\ i \in Nat
      <4>1. /\ q.r \in Nat /\ q.w \in Nat /\ PlusExtra \in Nat
            /\ Readable \in Nat /\ q.w - q.r = Readable
        BY <1>4
      <4>2. i \in Nat /\ i < Readable + n
        BY <1>1, <4>1
      <4>3. q.r + i \in 0 .. PlusExtra - 1
        BY <1>1, <2>2, <4>1, <4>2
      <4> QED
        BY <4>2, <4>3 DEF Place
    <3>2. PICK x \in Place : x = q.r + i
      BY <3>1
    <3>3. CASE i < Readable
      <4>1. ~(q.w <= x)
        BY <1>4, <3>1, <3>2, <3>3
      <4>2. buffer1'[x] = q.b1[x]
        BY <2>5, <4>1
      <4> QED
        BY <1>4, <3>1, <3>2, <3>3, <4>2
    <3>4. CASE i >= Readable
      <4>1. q.w <= x /\ x < q.w + n /\ written + 1 + (x - q.w) = consumed + 1 + i
        BY <1>1, <1>3, <1>4, <3>1, <3>2, <3>4
      <4>2. buffer1'[x] = written + 1 + (x - q.w)
        BY <2>5, <4>1
      <4> QED
        BY <3>2, <4>1, <4>2
    <3> QED
      BY <1>4, <3>1, <3>3, <3>4
  <2>10. Contents'
    BY <1>1, <1>3, <1>4, <2>1, <2>3, <2>9 DEF Contents
  <2> QED
    BY <2>8, <2>10 DEF IInv
<1> QED
  BY <1>1, <1>5, <1>6, <1>7, Sizes

\* Reading takes bytes from the front.
LEMMA ReadKeepsIInv ==
    ASSUME IInv, NEW n \in 1 .. PlusExtra, IncreaseReadOffset(n)
    PROVE  IInv'
<1>1. /\ n \in Nat /\ written \in Nat /\ consumed \in Nat
      /\ writeOffset \in Nat /\ readOffset \in Nat /\ Readable \in Nat
      /\ Readable = writeOffset - readOffset
      /\ written = consumed + Readable
      /\ \A i \in 0 .. Readable - 1 : buffer1[readOffset + i] = consumed + 1 + i
  BY Sizes, Offsets DEF IInv, RingTypeOK, Contents
<1>2. /\ n <= Readable
      /\ readOffset' = readOffset + n /\ consumed' = consumed + n
      /\ UNCHANGED <<buffer1, buffer2, writeOffset, result, written>>
  BY DEF IncreaseReadOffset, memory
<1>3. Readable' = Readable - n
  BY <1>1, <1>2 DEF Readable
<1>4. RingTypeOK'
  BY <1>1, <1>2 DEF IInv, RingTypeOK
<1>5. ASSUME NEW i \in 0 .. Readable - n - 1
      PROVE  buffer1[readOffset + n + i] = consumed + n + 1 + i
  <2>1. n + i \in 0 .. Readable - 1
    BY <1>1, <1>2
  <2>2. buffer1[readOffset + (n + i)] = consumed + 1 + (n + i)
    BY <1>1, <2>1
  <2> QED
    BY <1>1, <2>1, <2>2
<1> QED
  BY <1>1, <1>2, <1>3, <1>4, <1>5 DEF IInv, Contents

\* Clear takes all that is unread.
LEMMA ClearKeepsIInv ==
    ASSUME IInv, Clear
    PROVE  IInv'
<1>1. /\ writeOffset' = 0 /\ readOffset' = 0 /\ consumed' = written
      /\ UNCHANGED <<buffer1, buffer2, result, written>>
  BY DEF Clear, memory
<1>2. Readable' = 0
  BY <1>1 DEF Readable
<1> QED
  BY <1>1, <1>2, Sizes DEF IInv, RingTypeOK, Contents

\* Every step keeps the invariant.
LEMMA NextKeepsIInv ==
    ASSUME IInv, [RingNext]_ringVars
    PROVE  IInv'
<1>1. ASSUME NEW n \in 1 .. WriteOnceMax + 1, WriteBuffer(n)
      PROVE  IInv'
  BY <1>1, WriteKeepsIInv
<1>2. ASSUME NEW n \in 1 .. PlusExtra, IncreaseReadOffset(n)
      PROVE  IInv'
  BY <1>2, ReadKeepsIInv
<1>3. CASE Clear
  BY <1>3, ClearKeepsIInv
<1>4. CASE UNCHANGED ringVars
  BY <1>4 DEF ringVars, IInv, RingTypeOK, Contents, Readable
<1> QED
  BY <1>1, <1>2, <1>3, <1>4 DEF RingNext

(***************************************************************************)
(* The type invariant and Contents together are inductive: rotation copies *)
(* what Contents says lies between the offsets.                            *)
(***************************************************************************)
LEMMA IInvAlways == RingSpec => []IInv
<1>1. RingInit => IInv
  BY InitEstablishesIInv
<1>2. IInv /\ [RingNext]_ringVars => IInv'
  BY NextKeepsIInv
<1> QED
  BY <1>1, <1>2, PTL DEF RingSpec

(***************************************************************************)
(* No write, read, rotation or clear moves an offset out of the allocated  *)
(* block or the read offset past the write offset.                         *)
(***************************************************************************)
THEOREM RingTypesAlways == RingSpec => []RingTypeOK
<1>1. IInv => RingTypeOK
  BY DEF IInv
<1> QED
  BY <1>1, IInvAlways, PTL

(***************************************************************************)
(* Between the offsets lie exactly the bytes that were written and not yet *)
(* read, in order, whatever the sizes and however often the blocks were    *)
(* swapped.                                                                *)
(***************************************************************************)
THEOREM ContentsAlways == RingSpec => []Contents
<1>1. IInv => Contents
  BY DEF IInv
<1> QED
  BY <1>1, IInvAlways, PTL

\* A write that is refused after rotation finds the unread bytes in the way.
LEMMA RefusalMeansFull ==
    ASSUME IInv, NEW n \in 1 .. WriteOnceMax, WriteBuffer(n),
           result' = "WRONG_WRITE_MARK_POS"
    PROVE  Readable >= BufferSize \/ Readable + n > PlusExtra
<1> DEFINE q == Rotated(buffer1, writeOffset, n)
<1>1. /\ n \in Nat /\ n >= 1 /\ n <= WriteOnceMax
      /\ writeOffset \in Nat /\ readOffset \in Nat /\ Readable \in Nat
      /\ Readable = writeOffset - readOffset
      /\ BufferSize \in Nat /\ BufferSize >= 1
      /\ PlusExtra \in Nat /\ PlusExtra >= BufferSize + WriteOnceMax
      /\ WriteOnceMax \in Nat
  BY Sizes, Offsets DEF IInv
<1>2. q.w >= BufferSize \/ PlusExtra < q.w + n
  BY <1>1 DEF WriteBuffer, WrongWritePos
<1>3. CASE n <= BufferSize - writeOffset
  <2>1. q.w = writeOffset
    BY <1>3 DEF Rotated
  <2> QED
    BY <1>1, <1>2, <1>3, <2>1
<1>4. CASE ~(n <= BufferSize - writeOffset) /\ writeOffset = readOffset
  <2>1. q.w = 0
    BY <1>4 DEF Rotated, Emptied
  <2> QED
    BY <1>1, <1>2, <2>1
<1>5. CASE ~(n <= BufferSize - writeOffset) /\ writeOffset # readOffset
  <2>1. q.w = Readable
    BY <1>1, <1>5 DEF Rotated, Swapped
  <2> QED
    BY <1>1, <1>2, <2>1
<1> QED
  BY <1>3, <1>4, <1>5

(***************************************************************************)
(* No space is lost to bytes already read: a write of a legal size is      *)
(* refused only when the unread bytes leave no room for it.                *)
(***************************************************************************)
THEOREM RefusalsAlways == RingSpec => RefusedOnlyWhenFull
<1>1. IInv /\ [RingNext]_ringVars =>
        [\A n \in 1 .. WriteOnceMax :
            WriteBuffer(n) /\ result' = "WRONG_WRITE_MARK_POS" =>
               Readable >= BufferSize \/ Readable + n > PlusExtra]_ringVars
  BY RefusalMeansFull
<1> QED
  BY <1>1, IInvAlways, PTL DEF RingSpec, RefusedOnlyWhenFull
=============================================================================
