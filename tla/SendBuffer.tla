----------------------------- MODULE SendBuffer -----------------------------
(***************************************************************************)
(* Sending on one connection: TCPSocket::PostSend, Send and OnSend with    *)
(* BasicTCPSendBuffer. Threads post packets; one async_write at a time     *)
(* sends from the buffer; its completion starts the next. A byte is the    *)
(* number of its place in the stream of all posted bytes; 0 is memory that *)
(* was never written.                                                      *)
(***************************************************************************)
EXTENDS Integers, Sequences

CONSTANTS
    BufferSize,  \* m_nBufferSize
    MaxLength,   \* the longest packet that is posted
    MaxBacklog,  \* the application posts only up to so many unsent bytes
    MaxBytes,    \* bound: bytes posted in a run
    MaxQueued,   \* bound: packets that wait, which may be empty
    Posters,     \* threads that call PostSend
    Faults       \* whether a write may fail without ending the connection

ASSUME SendSizesAssumption ==
    /\ BufferSize \in Nat \ {0}
    /\ MaxLength \in 1 .. BufferSize
    /\ MaxBacklog \in Nat
    /\ MaxBytes \in Nat
    /\ MaxQueued \in Nat
    /\ Faults \in BOOLEAN

Place == 0 .. BufferSize - 1

\* Where a packet lies; first, the number of its first byte, is history. A
\* packet may be empty: SendTCP takes any length.
Region == [pos : 0 .. BufferSize, len : 0 .. MaxLength, first : Nat \ {0}]
NoRegion == [pos |-> -1, len |-> 0, first |-> 0]

VARIABLES
    buffer,      \* m_pBuffer
    markPos,     \* m_nWriteMarkPos
    remain,      \* m_nRemainPacketLength
    sending,     \* m_bIsSending
    sendPackets, \* m_SendPackets
    toSend,      \* per poster: the region GetPostBuffer gave it, or NoRegion
    next,        \* the region OnSend got from GetNextPostBuffer, or NoRegion
    writing,     \* regions of the async_writes in progress
    posted,      \* bytes accepted by GetPostBuffer
    wire,        \* bytes written to the socket
    stopped      \* whether a write failed or had no bytes: none follows it

bufferVars == <<buffer, markPos, remain, sending, sendPackets>>
vars == <<bufferVars, toSend, next, writing, posted, wire, stopped>>

TypeOK ==
    /\ buffer \in [Place -> Nat]
    /\ markPos \in 0 .. BufferSize
    /\ remain \in Nat
    /\ sending \in BOOLEAN
    /\ sendPackets \in Seq(Region)
    /\ toSend \in [Posters -> Region \cup {NoRegion}]
    /\ next \in Region \cup {NoRegion}
    /\ writing \subseteq Region
    /\ posted \in Nat
    /\ wire \in Seq(Nat)
    /\ stopped \in BOOLEAN

Init ==
    /\ buffer = [i \in Place |-> 0]
    /\ markPos = 0
    /\ remain = 0
    /\ sending = FALSE
    /\ sendPackets = <<>>
    /\ toSend = [p \in Posters |-> NoRegion]
    /\ next = NoRegion
    /\ writing = {}
    /\ posted = 0
    /\ wire = <<>>
    /\ stopped = FALSE

-----------------------------------------------------------------------------
\* Mutant of Wraps: one byte too late.
WrapsLate(len) == markPos + len > BufferSize + 1

\* GetPostBuffer: where the packet goes, or that it is refused. At the end of
\* the buffer the mark returns to its start when the unsent bytes, counted
\* from there, would end before it.
Wraps(len) == markPos + len > BufferSize
Refused(len) == Wraps(len) /\ len + remain > markPos
PostPlace(len) == IF Wraps(len) THEN 0 ELSE markPos

\* Mutant of MarkSending: m_bIsSending is not set.
MarkSendingNot == UNCHANGED sending

MarkSending == sending' = TRUE

\* PostSend by a poster that is not already in it.
GetPostBuffer(p, len) ==
    LET pos == PostPlace(len)
        region == [pos |-> pos, len |-> len, first |-> posted + 1]
    IN  /\ toSend[p] = NoRegion
        /\ remain + len <= MaxBacklog
        /\ posted + len <= MaxBytes
        /\ Len(sendPackets) < MaxQueued
        /\ ~Refused(len)
        /\ buffer' = [i \in Place |-> IF pos <= i /\ i < pos + len
                                        THEN posted + 1 + (i - pos) ELSE buffer[i]]
        /\ markPos' = pos + len
        /\ remain' = remain + len
        /\ posted' = posted + len
        /\ MarkSending
        /\ IF sending
             THEN sendPackets' = Append(sendPackets, region) /\ UNCHANGED toSend
             ELSE toSend' = [toSend EXCEPT ![p] = region] /\ UNCHANGED sendPackets
        /\ UNCHANGED <<next, writing, wire, stopped>>

\* Send after PostSend: async_write, outside of the buffer's lock.
Send(p) ==
    /\ toSend[p] # NoRegion
    /\ writing' = writing \cup {toSend[p]}
    /\ toSend' = [toSend EXCEPT ![p] = NoRegion]
    /\ UNCHANGED <<bufferVars, next, posted, wire, stopped>>

\* Mutant of GetNextPostBuffer: the newest packet is taken first.
GetNextPostBufferNewest ==
    /\ sending' = (sendPackets # <<>>)
    /\ next' = IF sendPackets = <<>> THEN next ELSE sendPackets[Len(sendPackets)]
    /\ sendPackets' = IF sendPackets = <<>> THEN <<>>
                      ELSE SubSeq(sendPackets, 1, Len(sendPackets) - 1)

\* Mutant of GetNextPostBuffer: m_bIsSending stays set when nothing is left.
GetNextPostBufferStaysSending ==
    /\ UNCHANGED sending
    /\ next' = IF sendPackets = <<>> THEN next ELSE Head(sendPackets)
    /\ sendPackets' = IF sendPackets = <<>> THEN <<>> ELSE Tail(sendPackets)

\* Mutant of GetNextPostBuffer: packets that wait are not looked for.
GetNextPostBufferStops ==
    /\ sending' = FALSE
    /\ UNCHANGED <<next, sendPackets>>

GetNextPostBuffer ==
    /\ sending' = (sendPackets # <<>>)
    /\ next' = IF sendPackets = <<>> THEN next ELSE Head(sendPackets)
    /\ sendPackets' = IF sendPackets = <<>> THEN <<>> ELSE Tail(sendPackets)

\* The first n bytes of a region, as the buffer holds them now.
BytesOf(w, n) == [i \in 1 .. n |-> buffer[w.pos + i - 1]]

\* A write completes; OnSend takes the next packet with GetNextPostBuffer. The
\* socket has taken the bytes from the buffer as they are now.
OnSend(w) ==
    /\ w \in writing
    /\ w.len > 0
    /\ next = NoRegion
    /\ wire' = wire \o BytesOf(w, w.len)
    /\ writing' = writing \ {w}
    /\ remain' = remain - w.len
    /\ GetNextPostBuffer
    /\ UNCHANGED <<buffer, markPos, toSend, posted, stopped>>

\* OnSend goes on with Send.
SendNext ==
    /\ next # NoRegion
    /\ writing' = writing \cup {next}
    /\ next' = NoRegion
    /\ UNCHANGED <<bufferVars, toSend, posted, wire, stopped>>

\* Mutant of OnSendError: it goes on with the next packet.
OnSendErrorGoesOn(w) ==
    /\ Faults
    /\ w \in writing
    /\ \E n \in 0 .. w.len - 1 : wire' = wire \o BytesOf(w, n)
    /\ writing' = writing \ {w}
    /\ remain' = remain - w.len
    /\ stopped' = TRUE
    /\ GetNextPostBuffer
    /\ UNCHANGED <<buffer, markPos, toSend, posted>>

\* OnSend with an error, after part of the bytes went out: it returns without
\* GetNextPostBuffer, whether it asks for a disconnect or not.
OnSendError(w) ==
    /\ Faults
    /\ w \in writing
    /\ \E n \in 0 .. w.len - 1 : wire' = wire \o BytesOf(w, n)
    /\ writing' = writing \ {w}
    /\ stopped' = TRUE
    /\ UNCHANGED <<bufferVars, toSend, next, posted>>

\* OnSend of an empty packet: it returns without GetNextPostBuffer, and
\* m_bIsSending stays set.
OnSendEmpty(w) ==
    /\ w \in writing
    /\ w.len = 0
    /\ writing' = writing \ {w}
    /\ stopped' = TRUE
    /\ UNCHANGED <<bufferVars, toSend, next, posted, wire>>

Complete(w) == OnSend(w) \/ OnSendEmpty(w) \/ OnSendError(w)

Next ==
    \/ \E p \in Posters, len \in 0 .. MaxLength : GetPostBuffer(p, len)
    \/ \E p \in Posters : Send(p)
    \/ \E w \in writing : Complete(w)
    \/ SendNext

Spec == Init /\ [][Next]_vars

\* Threads go on, and a write in progress completes.
Fairness ==
    /\ \A p \in Posters : WF_vars(Send(p))
    /\ WF_vars(\E w \in writing : Complete(w))
    /\ WF_vars(SendNext)

FairSpec == Spec /\ Fairness

-----------------------------------------------------------------------------
(***************************************************************************)
(* Two async_writes on one socket would mix their bytes: of all posters    *)
(* and OnSend at most one has a region that is being or will be written,   *)
(* and m_bIsSending says whether one has (SFTCPSendBuffer.h:73-81,         *)
(* 101-113; SFTCPSocket.h:161-173, 289-299).                               *)
(***************************************************************************)
OneWrite ==
    LET busy == {p \in Posters : toSend[p] # NoRegion}
    IN  /\ \A p, q \in busy : p = q
        /\ \A v, w \in writing : v = w
        /\ busy # {} => next = NoRegion /\ writing = {}
        /\ next # NoRegion => writing = {}
        /\ busy # {} \/ writing # {} \/ next # NoRegion => sending

(***************************************************************************)
(* The wire carries what was posted, in order and unchanged, as long as    *)
(* the application keeps no more unsent than MaxBacklog, which must be     *)
(* smaller than the buffer by a packet: the test at the end of the buffer  *)
(* is the only one, so more would be overwritten, as the comment at        *)
(* SFTCPSendBuffer.h:51 admits (SFTCPSendBuffer.h:49-118).                 *)
(***************************************************************************)
WireInOrder == \A i \in 1 .. Len(wire) : wire[i] = i

(***************************************************************************)
(* m_bIsSending stays set only while a write will complete and go on with  *)
(* m_SendPackets, as long as no write failed or was of an empty packet:    *)
(* OnSend returns then, and a connection that stays sends no more          *)
(* (SFTCPSocket.h:267-301).                                                *)
(***************************************************************************)
SendingMeansWriting ==
    sending /\ ~stopped => \/ \E p \in Posters : toSend[p] # NoRegion
                          \/ next # NoRegion
                          \/ writing # {}

(***************************************************************************)
(* Every byte that was posted is sent in the end, unless a write fails or  *)
(* was of an empty packet: posters and completions never leave a packet in *)
(* m_SendPackets with nobody to send it (SFTCPSocket.h:289-299,            *)
(* SFTCPSendBuffer.h:73-81, 94-118).                                       *)
(***************************************************************************)
AllSent == \A k \in 1 .. MaxBytes : posted >= k ~> Len(wire) >= k \/ stopped
=============================================================================
