----------------------------- MODULE RingBuffer -----------------------------
(***************************************************************************)
(* RingBuffer: two memory blocks, of which the one in use is filled from   *)
(* the left. When too little is left to its right, the unread bytes are    *)
(* copied to the left end of the other block and the blocks are swapped.   *)
(* A byte is the number of its place in the stream that was written; 0 is  *)
(* memory that was never written.                                          *)
(***************************************************************************)
EXTENDS Integers

CONSTANTS
    BufferSize,    \* m_nBufferSize
    WriteOnceMax,  \* m_nWriteOnceMaxSize
    MaxBytes       \* bound: bytes written in a run

ASSUME RingSizesAssumption ==
    /\ BufferSize \in Nat \ {0}
    /\ WriteOnceMax \in Nat \ {0}
    /\ MaxBytes \in Nat

\* m_nPlusExtraBufferLength, what Allocate really allocates.
PlusExtra == BufferSize + 2 * WriteOnceMax

Place == 0 .. PlusExtra - 1

VARIABLES
    buffer1, buffer2,        \* m_pBuffer1, m_pBuffer2
    writeOffset, readOffset, \* m_nWriteOffset, m_nReadOffset
    result,                  \* what the last WriteBuffer returned
    written, consumed        \* bytes put in and taken out (Clear takes all)

memory == <<buffer1, buffer2>>
ringVars == <<buffer1, buffer2, writeOffset, readOffset, result, written, consumed>>

Error == {"NONE", "WRONG_COPY_DATA_SIZE", "WRONG_WRITE_MARK_POS"}

RingTypeOK ==
    /\ buffer1 \in [Place -> Nat]
    /\ buffer2 \in [Place -> Nat]
    /\ writeOffset \in 0 .. PlusExtra
    /\ readOffset \in 0 .. writeOffset
    /\ result \in Error
    /\ written \in Nat
    /\ consumed \in Nat

Readable == writeOffset - readOffset

RingInit ==
    /\ buffer1 = [i \in Place |-> 0]
    /\ buffer2 = [i \in Place |-> 0]
    /\ writeOffset = 0
    /\ readOffset = 0
    /\ result = "NONE"
    /\ written = 0
    /\ consumed = 0

-----------------------------------------------------------------------------
\* Mutant of Swapped: copies from the start of the block.
SwappedFromStart(b, w) ==
    [b1 |-> [i \in Place |-> IF i < w - readOffset THEN b[i] ELSE buffer2[i]],
     b2 |-> b, w |-> w - readOffset, r |-> 0]

\* The unread bytes of block b, in front of what the other block holds.
Swapped(b, w) ==
    [b1 |-> [i \in Place |-> IF i < w - readOffset THEN b[readOffset + i] ELSE buffer2[i]],
     b2 |-> b, w |-> w - readOffset, r |-> 0]

\* Mutant of Emptied: an empty block is not begun anew.
EmptiedNot(b, w) == [b1 |-> b, b2 |-> buffer2, w |-> w, r |-> readOffset]

Emptied(b, w) == [b1 |-> b, b2 |-> buffer2, w |-> 0, r |-> 0]

\* BufferFilledThenRotate(n): the ring after it, when the block in use is b
\* and the write offset w.
Rotated(b, w, n) ==
    IF n <= BufferSize - w THEN [b1 |-> b, b2 |-> buffer2, w |-> w, r |-> readOffset]
    ELSE IF w = readOffset THEN Emptied(b, w)
    ELSE Swapped(b, w)

\* memcpy of the next n bytes of the stream to the places from p on.
Filled(b, p, n) ==
    [i \in Place |-> IF p <= i /\ i < p + n THEN written + 1 + (i - p) ELSE b[i]]

\* Mutant of WrongWritePos: no test of the write position.
WrongWritePosNever(w, n) == FALSE

WrongWritePos(w, n) == w >= BufferSize \/ PlusExtra < w + n

WriteBuffer(n) ==
    LET q == Rotated(buffer1, writeOffset, n)
        wrong == WrongWritePos(q.w, n)
    IN  /\ written + n <= MaxBytes
        /\ IF n > WriteOnceMax
             THEN /\ result' = "WRONG_COPY_DATA_SIZE"
                  /\ UNCHANGED <<memory, writeOffset, readOffset, written>>
             ELSE /\ buffer1' = IF wrong THEN q.b1 ELSE Filled(q.b1, q.w, n)
                  /\ buffer2' = q.b2
                  /\ readOffset' = q.r
                  /\ writeOffset' = IF wrong THEN q.w ELSE q.w + n
                  /\ written' = IF wrong THEN written ELSE written + n
                  /\ result' = IF wrong THEN "WRONG_WRITE_MARK_POS" ELSE "NONE"
        /\ UNCHANGED consumed

\* IncreaseReadOffset by a reader that has seen GetReadableDataSize.
IncreaseReadOffset(n) ==
    /\ n <= Readable
    /\ readOffset' = readOffset + n
    /\ consumed' = consumed + n
    /\ UNCHANGED <<memory, writeOffset, result, written>>

Clear ==
    /\ writeOffset' = 0
    /\ readOffset' = 0
    /\ consumed' = written
    /\ UNCHANGED <<memory, result, written>>

RingNext ==
    \/ \E n \in 1 .. WriteOnceMax + 1 : WriteBuffer(n)
    \/ \E n \in 1 .. PlusExtra : IncreaseReadOffset(n)
    \/ Clear

RingSpec == RingInit /\ [][RingNext]_ringVars

-----------------------------------------------------------------------------
(***************************************************************************)
(* Between the offsets lie exactly the bytes that were written and not yet *)
(* read, in order, however often the blocks were swapped                   *)
(* (SFRingBuffer.h:66-136).                                                *)
(***************************************************************************)
Contents ==
    /\ written = consumed + Readable
    /\ \A i \in 0 .. Readable - 1 : buffer1[readOffset + i] = consumed + 1 + i

(***************************************************************************)
(* A write of a legal size is refused only when what is unread fills the   *)
(* configured size or leaves no place for it in the allocated one: no      *)
(* space is lost to bytes already read (SFRingBuffer.h:74-90).             *)
(***************************************************************************)
RefusedOnlyWhenFull ==
    [][\A n \in 1 .. WriteOnceMax :
          WriteBuffer(n) /\ result' = "WRONG_WRITE_MARK_POS" =>
             Readable >= BufferSize \/ Readable + n > PlusExtra]_ringVars
=============================================================================
