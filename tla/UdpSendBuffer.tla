--------------------------- MODULE UdpSendBuffer ---------------------------
(***************************************************************************)
(* BasicUDPSendBuffer: datagrams are copied into rows in turn, behind one  *)
(* another in each row and from its start again when they do not fit.      *)
(* Nothing tells the buffer that a datagram was sent.                      *)
(***************************************************************************)
EXTENDS Integers

CONSTANTS
    SendRows,     \* nWriteBufferIndexCount
    SendRowSize,  \* nWriteBufferLength
    MaxLength     \* the longest datagram that is sent

\* A longer datagram would be logged through a logger that was never set.
ASSUME UdpSendBufferAssumption ==
    /\ SendRows \in Nat \ {0}
    /\ MaxLength \in Nat \ {0}
    /\ SendRowSize \in Nat /\ MaxLength <= SendRowSize

SendRow == 0 .. SendRows - 1
SendColumn == 0 .. SendRowSize - 1

VARIABLES
    rows,      \* m_BufferList: the number of the datagram a byte belongs to
    marks,     \* m_nWriteMarkPosList
    rowIndex,  \* m_nUseBufferRowIndex
    laps,      \* how often each row was begun anew
    inFlight,  \* datagrams that are posted and not yet sent, with their place
    posts      \* datagrams posted

bufferVars == <<rows, marks, rowIndex, laps, inFlight, posts>>

\* Clear and Allocate.
EmptyBuffer ==
    [rows |-> [r \in SendRow |-> [c \in SendColumn |-> 0]],
     marks |-> [r \in SendRow |-> 0], laps |-> [r \in SendRow |-> 0]]

BufferInit ==
    /\ rows = EmptyBuffer.rows
    /\ marks = EmptyBuffer.marks
    /\ rowIndex = 0
    /\ laps = EmptyBuffer.laps
    /\ inFlight = {}
    /\ posts = 0

-----------------------------------------------------------------------------
UseRow == IF rowIndex >= SendRows THEN 0 ELSE rowIndex

\* Mutant of Wraps: one byte too late.
WrapsLate(row, length) == marks[row] + length > SendRowSize + 1

Wraps(row, length) == marks[row] + length > SendRowSize

NextRowIndex(row) == row + 1

GetPostBuffer(length) ==
    LET r == UseRow
        pos == IF Wraps(r, length) THEN 0 ELSE marks[r]
        lap == IF Wraps(r, length) THEN laps[r] + 1 ELSE laps[r]
    IN  /\ rows' = [rows EXCEPT ![r] =
                      [c \in SendColumn |-> IF pos <= c /\ c < pos + length
                                              THEN posts + 1 ELSE @[c]]]
        /\ marks' = [marks EXCEPT ![r] = pos + length]
        /\ laps' = [laps EXCEPT ![r] = lap]
        /\ rowIndex' = NextRowIndex(r)
        /\ inFlight' = inFlight \cup
              {[row |-> r, pos |-> pos, length |-> length, number |-> posts + 1, lap |-> lap]}
        /\ posts' = posts + 1

\* async_send_to has completed: the datagram's bytes are no longer needed.
Sent(number) ==
    /\ inFlight' = {d \in inFlight : d.number # number}
    /\ UNCHANGED <<rows, marks, rowIndex, laps, posts>>

-----------------------------------------------------------------------------
Whole(d) ==
    /\ d.pos + d.length <= SendRowSize
    /\ \A c \in d.pos .. d.pos + d.length - 1 : rows[d.row][c] = d.number

\* The row was begun anew since, and its mark is past the datagram's place.
Lapped(d) ==
    \/ laps[d.row] - d.lap > 1
    \/ laps[d.row] - d.lap = 1 /\ marks[d.row] > d.pos

(***************************************************************************)
(* "whether a packet sent before has completed is not examined, so the     *)
(* buffer should be rather large" (SFUDPSendBuffer.h:53-55): a datagram    *)
(* that is being sent keeps its bytes until as many more as there are rows *)
(* were posted and its own row was begun anew up to its place              *)
(* (SFUDPSendBuffer.h:49-84).                                              *)
(***************************************************************************)
WholeUntilLapped ==
    \A d \in inFlight : Whole(d) \/ (Lapped(d) /\ posts >= d.number + SendRows)
=============================================================================
