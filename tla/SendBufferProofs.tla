-------------------------- MODULE SendBufferProofs --------------------------
(***************************************************************************)
(* Proofs about SendBuffer for every size of the buffer and every number   *)
(* of posters: its type invariant, that one write is in progress at a      *)
(* time, and that the wire carries what was posted when the application    *)
(* keeps its backlog below the buffer by a packet.                         *)
(***************************************************************************)
EXTENDS SendBufferStream, SequenceTheorems, TLAPS

Sent == Len(wire)

\* The number of the first byte of region r.
First(r) == r.first

InBuffer(r) == r.pos + r.len <= BufferSize

\* Region r of the buffer b holds consecutive bytes of the stream.
Holds(b, r) == \A j \in 0 .. r.len - 1 : b[r.pos + j] = First(r) + j

\* The region that is, or is about to be, written.
Active(r) ==
    /\ r # NoRegion
    /\ (\E p \in Posters : toSend[p] = r) \/ next = r \/ r \in writing

(***************************************************************************)
(* The unsent bytes end at the mark; those before the last wrap end at e.  *)
(***************************************************************************)
Layout(e) ==
    \A x \in Place : buffer[x] > Sent =>
       \/ x < markPos /\ buffer[x] = posted - (markPos - 1 - x)
       \/ markPos <= x /\ x < e /\ buffer[x] = posted - markPos - (e - 1 - x)

Ends == BufferSize - MaxLength + 1 .. BufferSize

\* The packets q follow one another in the stream, behind byte s, up to byte n.
Waiting(b, q, s, n) ==
    /\ \A i \in 1 .. Len(q) :
          /\ InBuffer(q[i])
          /\ Holds(b, q[i])
          /\ First(q[i]) > s
          /\ First(q[i]) + q[i].len <= n + 1
    /\ \A i, j \in 1 .. Len(q) : i < j => First(q[i]) + q[i].len <= First(q[j])
    /\ \A i \in 1 .. Len(q) - 1 : First(q[i + 1]) = First(q[i]) + q[i].len
    /\ Len(q) > 0 => First(q[Len(q)]) + q[Len(q)].len = n + 1

\* Region r is the next of the stream after byte s; the packets q follow it.
Writes(b, r, q, s, n) ==
    /\ InBuffer(r)
    /\ Holds(b, r)
    /\ First(r) = s + 1
    /\ s + r.len <= n
    /\ Len(q) = 0 => s + r.len = n
    /\ Len(q) > 0 => First(q[1]) = s + 1 + r.len

Running ==
    /\ remain = posted - Sent
    /\ remain <= MaxBacklog
    /\ \E e \in Ends : Layout(e)
    /\ Waiting(buffer, sendPackets, Sent, posted)
    /\ \A r \in Region : Active(r) => Writes(buffer, r, sendPackets, Sent, posted)
    /\ ~sending => sendPackets = <<>> /\ posted = Sent
    /\ sending => \E r \in Region : Active(r)

Stalled == sending /\ \A r \in Region : ~Active(r)

IInv ==
    /\ TypeOK
    /\ OneWrite
    /\ WireInOrder
    /\ IF stopped THEN Stalled ELSE Running

-----------------------------------------------------------------------------
(* One write at a time.                                                     *)

\* toSend is a function on the posters.
PerPoster == toSend = [p \in Posters |-> toSend[p]]

\* A poster is given the region only when nothing is being sent.
LEMMA PostKeepsOneWrite ==
    ASSUME PerPoster, OneWrite, NEW p \in Posters, NEW len \in 0 .. MaxLength,
           GetPostBuffer(p, len)
    PROVE  OneWrite'
<1>1. CASE sending
  <2>1. UNCHANGED <<toSend, next, writing>> /\ sending'
    BY <1>1 DEF GetPostBuffer, MarkSending
  <2> QED
    BY <2>1 DEF OneWrite
<1>2. CASE ~sending
  <2>1. /\ \A q \in Posters : toSend[q] = NoRegion
        /\ next = NoRegion
        /\ writing = {}
    BY <1>2 DEF OneWrite
  <2>2. /\ sending'
        /\ UNCHANGED <<next, writing>>
        /\ toSend' = [toSend EXCEPT ![p] = [pos |-> PostPlace(len), len |-> len, first |-> posted + 1]]
    BY <1>2 DEF GetPostBuffer, MarkSending
  <2>3. \A q \in Posters : toSend'[q] # NoRegion => q = p
    BY <2>1, <2>2 DEF PerPoster
  <2> QED
    BY <2>1, <2>2, <2>3 DEF OneWrite
<1> QED
  BY <1>1, <1>2

\* The region of a poster becomes the one write.
LEMMA SendKeepsOneWrite ==
    ASSUME PerPoster, OneWrite, NEW p \in Posters, Send(p)
    PROVE  OneWrite'
<1>1. /\ toSend[p] # NoRegion
      /\ writing' = writing \cup {toSend[p]}
      /\ toSend' = [toSend EXCEPT ![p] = NoRegion]
      /\ UNCHANGED <<next, sending>>
  BY DEF Send, bufferVars
<1>2. \A q \in Posters : toSend[q] # NoRegion => q = p
  BY <1>1 DEF OneWrite
<1>3. \A q \in Posters : toSend'[q] = NoRegion
  BY <1>1, <1>2 DEF PerPoster
<1>4. writing = {} /\ next = NoRegion /\ sending
  BY <1>1 DEF OneWrite
<1> QED
  BY <1>1, <1>3, <1>4 DEF OneWrite

\* A completion takes the write away before it may start the next.
LEMMA CompletionKeepsOneWrite ==
    ASSUME OneWrite, NEW w \in writing, Complete(w)
    PROVE  OneWrite'
<1>1. /\ writing' = {}
      /\ \A q \in Posters : toSend[q] = NoRegion
      /\ toSend' = toSend
      /\ next = NoRegion
      /\ sending
  BY DEF OneWrite, Complete, OnSend, OnSendEmpty, OnSendError, bufferVars
<1>2. next' # NoRegion => sending'
  BY <1>1 DEF Complete, OnSend, OnSendEmpty, OnSendError, bufferVars, GetNextPostBuffer
<1> QED
  BY <1>1, <1>2 DEF OneWrite

\* The region that was handed on becomes the write.
LEMMA SendNextKeepsOneWrite ==
    ASSUME OneWrite, SendNext
    PROVE  OneWrite'
BY DEF OneWrite, SendNext, bufferVars

\* A poster gets a region only when it has none.
LEMMA PerPosterKept ==
    ASSUME PerPoster, [Next]_vars
    PROVE  PerPoster'
BY DEF PerPoster, Next, GetPostBuffer, Send, Complete, OnSend, OnSendEmpty,
       OnSendError, SendNext, vars

(***************************************************************************)
(* Of all posters and OnSend at most one has a region that is being or     *)
(* will be written, however many threads post and whichever writes fail:   *)
(* m_bIsSending, tested and set under the buffer's lock, is enough.        *)
(***************************************************************************)
THEOREM OneWriteAlways == Spec => []OneWrite
<1>1. Init => PerPoster /\ OneWrite
  BY DEF Init, PerPoster, OneWrite
<1>2. PerPoster /\ OneWrite /\ [Next]_vars => PerPoster' /\ OneWrite'
  <2> SUFFICES ASSUME PerPoster, OneWrite, [Next]_vars
               PROVE  PerPoster' /\ OneWrite'
    OBVIOUS
  <2>1. PerPoster'
    BY PerPosterKept
  <2>2. OneWrite'
    <3>1. ASSUME NEW p \in Posters, NEW len \in 0 .. MaxLength, GetPostBuffer(p, len)
          PROVE  OneWrite'
      BY <3>1, PostKeepsOneWrite
    <3>2. ASSUME NEW p \in Posters, Send(p)
          PROVE  OneWrite'
      BY <3>2, SendKeepsOneWrite
    <3>3. ASSUME NEW w \in writing, Complete(w)
          PROVE  OneWrite'
      BY <3>3, CompletionKeepsOneWrite
    <3>4. CASE SendNext
      BY <3>4, SendNextKeepsOneWrite
    <3>5. CASE UNCHANGED vars
      BY <3>5 DEF vars, bufferVars, OneWrite
    <3> QED
      BY <3>1, <3>2, <3>3, <3>4, <3>5 DEF Next
  <2> QED
    BY <2>1, <2>2
<1> QED
  BY <1>1, <1>2, PTL DEF Spec

-----------------------------------------------------------------------------
(* What the wire carries. The application keeps no more unsent than the     *)
(* buffer less a packet.                                                    *)

BacklogFits == MaxBacklog <= BufferSize - MaxLength + 1

NewRegion(len) == [pos |-> PostPlace(len), len |-> len, first |-> posted + 1]

\* The region of a new packet lies in the buffer.
LEMMA NewRegionInside ==
    ASSUME TypeOK, NEW len \in 0 .. MaxLength
    PROVE  /\ NewRegion(len) \in Region
           /\ NewRegion(len) # NoRegion
           /\ InBuffer(NewRegion(len))
           /\ PostPlace(len) \in 0 .. BufferSize
           /\ PostPlace(len) + len <= BufferSize
           /\ len \in Nat
BY SendSizesAssumption
   DEF TypeOK, NewRegion, PostPlace, Wraps, Region, NoRegion, InBuffer

(***************************************************************************)
(* With such a backlog GetPostBuffer refuses nothing, so that it never     *)
(* logs with m_pLogger, which its constructor does not set                 *)
(* (SFTCPSendBuffer.h:15, 59-67).                                          *)
(***************************************************************************)
THEOREM NoneRefused ==
    ASSUME BacklogFits, TypeOK,
           NEW len \in 0 .. MaxLength, remain + len <= MaxBacklog
    PROVE  ~Refused(len)
BY SendSizesAssumption DEF BacklogFits, TypeOK, Refused, Wraps

\* What GetPostBuffer writes has the right types.
LEMMA PostKeepsTypes ==
    ASSUME TypeOK, NEW p \in Posters, NEW len \in 0 .. MaxLength, GetPostBuffer(p, len)
    PROVE  TypeOK'
<1> DEFINE pos == PostPlace(len)
<1>1. pos \in Nat /\ pos + len \in 0 .. BufferSize /\ len \in Nat
  BY NewRegionInside
<1>2. buffer' \in [Place -> Nat]
  <2>1. ASSUME NEW i \in Place
        PROVE  (IF pos <= i /\ i < pos + len THEN posted + 1 + (i - pos) ELSE buffer[i]) \in Nat
    BY <1>1 DEF TypeOK, Place
  <2>2. buffer' = [i \in Place |-> IF pos <= i /\ i < pos + len
                                     THEN posted + 1 + (i - pos) ELSE buffer[i]]
    BY DEF GetPostBuffer
  <2> HIDE DEF pos
  <2> QED
    BY <2>1, <2>2
<1>3. markPos' \in 0 .. BufferSize /\ remain' \in Nat /\ posted' \in Nat
  BY <1>1 DEF TypeOK, GetPostBuffer
<1>4. sendPackets' \in Seq(Region) /\ toSend' \in [Posters -> Region \cup {NoRegion}]
  <2>1. NewRegion(len) \in Region
    BY NewRegionInside
  <2>2. CASE sending
    <3>1. sendPackets' = Append(sendPackets, NewRegion(len)) /\ toSend' = toSend
      BY <2>2 DEF GetPostBuffer, NewRegion
    <3> QED
      BY <2>1, <3>1 DEF TypeOK
  <2>3. CASE ~sending
    <3>1. toSend' = [toSend EXCEPT ![p] = NewRegion(len)] /\ sendPackets' = sendPackets
      BY <2>3 DEF GetPostBuffer, NewRegion
    <3> QED
      BY <2>1, <3>1 DEF TypeOK
  <2> QED
    BY <2>2, <2>3
<1>5. UNCHANGED <<next, writing, wire, stopped>>
  BY DEF GetPostBuffer
<1>6. sending' \in BOOLEAN
  BY DEF GetPostBuffer, MarkSending
<1> QED
  BY <1>2, <1>3, <1>4, <1>5, <1>6 DEF TypeOK

\* So has what the next actions write.
LEMMA SendKeepsTypes ==
    ASSUME TypeOK, NEW p \in Posters, Send(p)
    PROVE  TypeOK'
BY DEF TypeOK, Send, bufferVars

\* SendNext moves a region.
LEMMA SendNextKeepsTypes ==
    ASSUME TypeOK, SendNext
    PROVE  TypeOK'
BY DEF TypeOK, SendNext, bufferVars

\* The bytes of a region in the buffer.
LEMMA BytesOfRegion ==
    ASSUME TypeOK, NEW w \in Region, InBuffer(w), NEW n \in 0 .. w.len
    PROVE  /\ BytesOf(w, n) \in Seq(Nat)
           /\ Len(BytesOf(w, n)) = n
           /\ \A i \in 1 .. n : BytesOf(w, n)[i] = buffer[w.pos + i - 1]
<1>1. \A i \in 1 .. n : w.pos + i - 1 \in Place
  BY SendSizesAssumption DEF Region, InBuffer, Place
<1>2. \A i \in 1 .. n : buffer[w.pos + i - 1] \in Nat
  BY <1>1 DEF TypeOK
<1>3. n \in Nat
  BY DEF Region
<1> QED
  BY <1>2, <1>3 DEF BytesOf

(***************************************************************************)
(* A new packet overwrites no unsent byte. Without a wrap it would have to *)
(* reach the unsent bytes in front of the mark, which begin remain bytes   *)
(* before e; with a wrap, those behind it. Both need a longer backlog.     *)
(***************************************************************************)
LEMMA PostKeepsLive ==
    ASSUME BacklogFits, TypeOK, remain = posted - Sent,
           NEW e \in Ends, Layout(e),
           NEW p \in Posters, NEW len \in 0 .. MaxLength, GetPostBuffer(p, len)
    PROVE  /\ \A x \in Place : buffer[x] > Sent => buffer'[x] = buffer[x]
           /\ \E f \in Ends : Layout(f)'
<1> DEFINE pos == PostPlace(len)
<1>1. /\ pos \in Nat /\ len \in Nat /\ len <= MaxLength
      /\ pos + len <= BufferSize
      /\ markPos \in Nat /\ posted \in Nat /\ remain \in Nat
      /\ BufferSize \in Nat /\ MaxLength \in Nat /\ MaxBacklog \in Nat
      /\ Sent \in Nat
  BY SendSizesAssumption, NewRegionInside DEF TypeOK, Sent
<1>2. /\ markPos' = pos + len
      /\ posted' = posted + len
      /\ Sent' = Sent
      /\ remain + len <= MaxBacklog
      /\ buffer' = [i \in Place |-> IF pos <= i /\ i < pos + len
                                     THEN posted + 1 + (i - pos) ELSE buffer[i]]
  BY DEF GetPostBuffer, Sent
<1>3. \A x \in Place : x \in Nat /\ x < BufferSize /\ buffer[x] \in Nat
  BY SendSizesAssumption DEF Place, TypeOK
<1>4. e \in Nat /\ e > BufferSize - MaxLength /\ e <= BufferSize
  BY SendSizesAssumption DEF Ends
<1>5. \A x \in Place : buffer[x] > Sent =>
         \/ x < markPos /\ buffer[x] = posted - (markPos - 1 - x)
         \/ markPos <= x /\ x < e /\ buffer[x] = posted - markPos - (e - 1 - x)
  BY DEF Layout
<1>6. MaxBacklog <= BufferSize - MaxLength + 1
  BY DEF BacklogFits
<1>7. \/ pos = markPos /\ markPos + len <= BufferSize
      \/ pos = 0 /\ markPos + len > BufferSize
  BY <1>1 DEF PostPlace, Wraps
<1> HIDE DEF pos
<1>8. ASSUME NEW x \in Place, buffer[x] > Sent
      PROVE  ~(pos <= x /\ x < pos + len)
  BY <1>1, <1>2, <1>3, <1>4, <1>5, <1>6, <1>7, <1>8
<1>9. \A x \in Place : buffer[x] > Sent => buffer'[x] = buffer[x]
  BY <1>2, <1>8
<1>10. CASE pos = markPos
  <2>1. ASSUME NEW x \in Place, buffer'[x] > Sent
        PROVE  \/ x < markPos' /\ buffer'[x] = posted' - (markPos' - 1 - x)
               \/ /\ markPos' <= x /\ x < e
                  /\ buffer'[x] = posted' - markPos' - (e - 1 - x)
    BY <1>1, <1>2, <1>3, <1>4, <1>5, <1>10, <2>1
  <2>2. Layout(e)'
    BY <1>2, <2>1 DEF Layout
  <2> QED
    BY <1>9, <2>2
<1>11. CASE pos = 0 /\ markPos + len > BufferSize
  <2>1. markPos \in Ends
    BY <1>1, <1>11, SendSizesAssumption DEF Ends, TypeOK
  <2>2. PICK f \in Ends : f = markPos
    BY <2>1
  <2>3. ASSUME NEW x \in Place, buffer'[x] > Sent
        PROVE  \/ x < markPos' /\ buffer'[x] = posted' - (markPos' - 1 - x)
               \/ /\ markPos' <= x /\ x < f
                  /\ buffer'[x] = posted' - markPos' - (f - 1 - x)
    BY <1>1, <1>2, <1>3, <1>4, <1>5, <1>6, <1>11, <2>2, <2>3
  <2>4. Layout(f)'
    BY <1>2, <2>3 DEF Layout
  <2> QED
    BY <1>9, <2>4
<1> QED
  BY <1>7, <1>10, <1>11

-----------------------------------------------------------------------------
(* The chain of packets that wait.                                          *)

\* The bytes of a region have places in the buffer.
LEMMA RegionPlaces ==
    ASSUME NEW r \in Region, InBuffer(r)
    PROVE  /\ r.len \in Nat /\ First(r) \in Nat
           /\ \A j \in 0 .. r.len - 1 : r.pos + j \in Place
<1>1. /\ r.pos \in Nat /\ r.len \in Nat /\ First(r) \in Nat
      /\ r.pos + r.len <= BufferSize
      /\ BufferSize \in Nat
  BY SendSizesAssumption DEF Region, InBuffer, First
<1>2. ASSUME NEW j \in 0 .. r.len - 1
      PROVE  r.pos + j \in 0 .. BufferSize - 1
  BY <1>1
<1> QED
  BY <1>1, <1>2 DEF Place

\* A region keeps its bytes when the buffer keeps the unsent ones.
LEMMA HoldsKept ==
    ASSUME NEW b \in [Place -> Nat], NEW c \in [Place -> Nat], NEW s \in Nat,
           \A x \in Place : b[x] > s => c[x] = b[x],
           NEW r \in Region, InBuffer(r), Holds(b, r), First(r) > s
    PROVE  Holds(c, r)
<1>1. First(r) \in Nat /\ \A j \in 0 .. r.len - 1 : r.pos + j \in Place
  BY RegionPlaces
<1>2. ASSUME NEW j \in 0 .. r.len - 1
      PROVE  c[r.pos + j] = First(r) + j
  <2>1. b[r.pos + j] = First(r) + j
    BY DEF Holds
  <2>2. First(r) + j > s
    BY <1>1
  <2> QED
    BY <1>1, <2>1, <2>2
<1> QED
  BY <1>2 DEF Holds

\* A packet at the end of the stream joins the chain.
LEMMA AppendWaiting ==
    ASSUME NEW b \in [Place -> Nat], NEW c \in [Place -> Nat],
           NEW s \in Nat, NEW n \in Nat, s <= n,
           \A x \in Place : b[x] > s => c[x] = b[x],
           NEW q \in Seq(Region), Waiting(b, q, s, n),
           NEW r \in Region, InBuffer(r), Holds(c, r), First(r) = n + 1
    PROVE  Waiting(c, Append(q, r), s, n + r.len)
<1> DEFINE p == Append(q, r)
<1>1. /\ p \in Seq(Region)
      /\ Len(q) \in Nat
      /\ Len(p) = Len(q) + 1
      /\ p[Len(q) + 1] = r
      /\ \A i \in 1 .. Len(q) : p[i] = q[i] /\ q[i] \in Region
  OBVIOUS
<1> HIDE DEF p
<1>2. \A t \in Region : t.len \in Nat
  BY DEF Region
<1>3. ASSUME NEW i \in 1 .. Len(q)
      PROVE  /\ InBuffer(q[i]) /\ Holds(c, q[i])
             /\ First(q[i]) > s
             /\ First(q[i]) + q[i].len <= n + 1
             /\ First(q[i]) \in Nat
  <2>1. /\ q[i] \in Region /\ InBuffer(q[i]) /\ Holds(b, q[i]) /\ First(q[i]) > s
        /\ First(q[i]) + q[i].len <= n + 1
    BY <1>1, <1>3 DEF Waiting
  <2>2. Holds(c, q[i]) /\ First(q[i]) \in Nat
    BY <2>1, HoldsKept, RegionPlaces
  <2> QED
    BY <2>1, <2>2
<1>4. \A i \in 1 .. Len(p) :
         /\ InBuffer(p[i]) /\ Holds(c, p[i]) /\ First(p[i]) > s
         /\ First(p[i]) + p[i].len <= n + r.len + 1
  <2> TAKE i \in 1 .. Len(p)
  <2>1. CASE i = Len(q) + 1
    BY <1>1, <1>2, <2>1
  <2>2. CASE i \in 1 .. Len(q)
    <3>1. p[i] = q[i] /\ q[i].len \in Nat /\ r.len \in Nat
      BY <1>1, <1>2, <2>2
    <3> QED
      BY <1>3, <2>2, <3>1
  <2> QED
    BY <1>1, <2>1, <2>2
<1>len. Len(q) \in Nat /\ Len(p) = Len(q) + 1
  BY <1>1
<1>5. \A i, j \in 1 .. Len(p) : i < j => First(p[i]) + p[i].len <= First(p[j])
  <2> SUFFICES ASSUME NEW i \in 1 .. Len(p), NEW j \in 1 .. Len(p), i < j
               PROVE  First(p[i]) + p[i].len <= First(p[j])
    OBVIOUS
  <2>1. i \in 1 .. Len(q)
    BY <1>1
  <2>2. CASE j = Len(q) + 1
    BY <1>1, <1>3, <2>1, <2>2
  <2>3. CASE j \in 1 .. Len(q)
    <3>1. First(q[i]) + q[i].len <= First(q[j])
      BY <2>1, <2>3 DEF Waiting
    <3> QED
      BY <1>1, <1>3, <2>1, <2>3, <3>1
  <2>4. j = Len(q) + 1 \/ j \in 1 .. Len(q)
    <3> DEFINE k == Len(q)
    <3>1. k \in Nat /\ Len(p) = k + 1
      BY <1>len
    <3>2. j \in 1 .. k + 1
      BY <3>1
    <3> HIDE DEF k
    <3>3. j = k + 1 \/ j \in 1 .. k
      BY ONLY <3>1, <3>2
    <3> QED
      BY <3>3 DEF k
  <2> QED
    BY <2>2, <2>3, <2>4
<1>6. \A i \in 1 .. Len(p) - 1 : First(p[i + 1]) = First(p[i]) + p[i].len
  <2> TAKE i \in 1 .. Len(p) - 1
  <2>1. i \in 1 .. Len(q)
    BY <1>1
  <2>2. CASE i = Len(q)
    <3>1. First(q[i]) + q[i].len = n + 1
      BY <2>1, <2>2 DEF Waiting
    <3> QED
      BY <1>1, <1>3, <2>1, <2>2, <3>1
  <2>3. CASE i # Len(q)
    <3>1. i \in 1 .. Len(q) - 1 /\ i + 1 \in 1 .. Len(q)
      BY <1>1, <2>1, <2>3
    <3>2. First(q[i + 1]) = First(q[i]) + q[i].len
      BY <3>1 DEF Waiting
    <3> QED
      BY <1>1, <1>3, <2>1, <3>1, <3>2
  <2> QED
    BY <2>2, <2>3
<1>7. First(p[Len(p)]) + p[Len(p)].len = n + r.len + 1
  <2>1. p[Len(p)] = r
    BY <1>1
  <2>2. r.len \in Nat
    BY <1>2
  <2>3. First(r) + r.len = n + r.len + 1
    BY <2>2
  <2> QED
    BY <2>1, <2>3, Zenon
<1> QED
  BY <1>4, <1>5, <1>6, <1>7 DEF Waiting, p

\* When the packets before it are sent, the first one is the next to be written.
LEMMA TailWaiting ==
    ASSUME NEW b \in [Place -> Nat], NEW s \in Nat, NEW n \in Nat,
           NEW q \in Seq(Region), q # <<>>, Waiting(b, q, s, n),
           First(q[1]) = s + 1
    PROVE  /\ Head(q) \in Region /\ Tail(q) \in Seq(Region)
           /\ Writes(b, Head(q), Tail(q), s, n)
           /\ Waiting(b, Tail(q), s, n)
<1> DEFINE p == Tail(q)
<1>1. /\ Head(q) = q[1] /\ q[1] \in Region
      /\ p \in Seq(Region)
      /\ Len(q) \in Nat /\ Len(q) >= 1
      /\ Len(p) = Len(q) - 1
      /\ \A i \in 1 .. Len(p) : /\ p[i] = q[i + 1]
                                 /\ i + 1 \in 1 .. Len(q)
  OBVIOUS
<1> HIDE DEF p
<1>2. ASSUME NEW i \in 1 .. Len(q)
      PROVE  /\ InBuffer(q[i])
             /\ Holds(b, q[i])
             /\ First(q[i]) > s
             /\ First(q[i]) + q[i].len <= n + 1
             /\ First(q[i]) \in Nat
             /\ q[i].len \in Nat
  <2>1. InBuffer(q[i]) /\ q[i] \in Region
    BY DEF Waiting
  <2>2. First(q[i]) \in Nat /\ q[i].len \in Nat
    BY <2>1, RegionPlaces
  <2> QED
    BY <2>2 DEF Waiting
<1>3. Writes(b, q[1], p, s, n)
  <2>1. 1 \in 1 .. Len(q)
    BY <1>1
  <2>2. InBuffer(q[1]) /\ Holds(b, q[1]) /\ s + q[1].len <= n
    <3>1. q[1].len \in Nat /\ (s + 1) + q[1].len <= n + 1
      BY <1>2, <2>1
    <3>2. s + q[1].len <= n
      BY <3>1
    <3> QED
      BY <1>2, <2>1, <3>2
  <2>3. ASSUME Len(p) = 0
        PROVE  s + q[1].len = n
    <3>1. Len(q) = 1
      BY <1>1, <2>3
    <3>2. First(q[1]) + q[1].len = n + 1
      BY <3>1 DEF Waiting
    <3> QED
      BY <1>2, <2>1, <3>2
  <2>4. ASSUME Len(p) > 0
        PROVE  First(p[1]) = s + 1 + q[1].len
    <3>1. 1 \in 1 .. Len(q) - 1 /\ p[1] = q[1 + 1]
      BY <1>1, <2>4
    <3>2. First(q[1 + 1]) = First(q[1]) + q[1].len
      BY <3>1 DEF Waiting
    <3> QED
      BY <3>1, <3>2
  <2> QED
    BY <2>2, <2>3, <2>4 DEF Writes
<1>4. \A i \in 1 .. Len(p) :
         /\ InBuffer(p[i]) /\ Holds(b, p[i]) /\ First(p[i]) > s
         /\ First(p[i]) + p[i].len <= n + 1
  BY <1>1, <1>2
<1>5. \A i, j \in 1 .. Len(p) : i < j => First(p[i]) + p[i].len <= First(p[j])
  <2> SUFFICES ASSUME NEW i \in 1 .. Len(p), NEW j \in 1 .. Len(p), i < j
               PROVE  First(p[i]) + p[i].len <= First(p[j])
    OBVIOUS
  <2>1. /\ p[i] = q[i + 1] /\ p[j] = q[j + 1] /\ i + 1 < j + 1
        /\ i + 1 \in 1 .. Len(q) /\ j + 1 \in 1 .. Len(q)
    BY <1>1
  <2>2. First(q[i + 1]) + q[i + 1].len <= First(q[j + 1])
    BY <2>1 DEF Waiting
  <2> QED
    BY <2>1, <2>2, Zenon
<1>6. \A i \in 1 .. Len(p) - 1 : First(p[i + 1]) = First(p[i]) + p[i].len
  <2> SUFFICES ASSUME NEW i \in 1 .. Len(p) - 1
               PROVE  First(p[i + 1]) = First(p[i]) + p[i].len
    OBVIOUS
  <2>1. /\ p[i] = q[i + 1] /\ p[i + 1] = q[i + 1 + 1]
        /\ i + 1 \in 1 .. Len(q) - 1
    BY <1>1
  <2>2. First(q[i + 1 + 1]) = First(q[i + 1]) + q[i + 1].len
    BY <2>1 DEF Waiting
  <2> QED
    BY <2>1, <2>2, Zenon
<1>7. Len(p) > 0 => First(p[Len(p)]) + p[Len(p)].len = n + 1
  <2> SUFFICES ASSUME Len(p) > 0
               PROVE  First(p[Len(p)]) + p[Len(p)].len = n + 1
    OBVIOUS
  <2>1. p[Len(p)] = q[Len(q)] /\ Len(q) > 0
    BY <1>1
  <2>2. First(q[Len(q)]) + q[Len(q)].len = n + 1
    BY <2>1 DEF Waiting
  <2> QED
    BY <2>1, <2>2, Zenon
<1>8. Waiting(b, p, s, n)
  BY <1>4, <1>5, <1>6, <1>7 DEF Waiting
<1> QED
  BY <1>1, <1>3, <1>8 DEF p

\* A chain behind byte s whose first packet begins at t + 1 is behind byte t.
LEMMA WaitingBehind ==
    ASSUME NEW b \in [Place -> Nat], NEW s \in Nat, NEW t \in Nat, NEW n \in Nat,
           NEW q \in Seq(Region), Waiting(b, q, s, n),
           Len(q) > 0 => First(q[1]) = t + 1
    PROVE  Waiting(b, q, t, n)
<1>1. ASSUME NEW i \in 1 .. Len(q)
      PROVE  First(q[i]) > t
  <2>1. 1 \in 1 .. Len(q) /\ Len(q) > 0
    OBVIOUS
  <2>2. \A j \in 1 .. Len(q) : First(q[j]) \in Nat /\ q[j].len \in Nat
    BY RegionPlaces DEF Waiting
  <2>3. First(q[1]) = t + 1
    BY <2>1
  <2>4. CASE i = 1
    BY <2>3, <2>4
  <2>5. CASE 1 < i
    <3>1. First(q[1]) + q[1].len <= First(q[i])
      BY <2>1, <2>5 DEF Waiting
    <3>2. First(q[i]) \in Nat /\ q[1].len \in Nat
      BY <2>1, <2>2
    <3> QED
      BY <2>3, <3>1, <3>2
  <2> QED
    BY <2>4, <2>5
<1> QED
  BY <1>1 DEF Waiting

-----------------------------------------------------------------------------
(* The invariant and the actions.                                           *)

\* Writing the first bytes of the next region keeps the wire in order.
LEMMA WireGrows ==
    ASSUME TypeOK, WireInOrder,
           NEW w \in Region, InBuffer(w), Holds(buffer, w), First(w) = Sent + 1,
           NEW n \in 0 .. w.len,
           wire' = wire \o BytesOf(w, n)
    PROVE  wire' \in Seq(Nat) /\ Sent' = Sent + n /\ WireInOrder'
<1>1. /\ BytesOf(w, n) \in Seq(Nat) /\ Len(BytesOf(w, n)) = n
      /\ \A i \in 1 .. n : BytesOf(w, n)[i] = buffer[w.pos + i - 1]
  BY BytesOfRegion
<1>2. wire \in Seq(Nat) /\ Len(wire) \in Nat
  BY DEF TypeOK
<1>3. w.len \in Nat /\ n \in Nat /\ w.pos \in Nat
  BY DEF Region
<1>4. /\ wire' \in Seq(Nat) /\ Len(wire') = Len(wire) + n
      /\ \A i \in 1 .. Len(wire) : wire'[i] = wire[i]
      /\ \A i \in Len(wire) + 1 .. Len(wire) + n : wire'[i] = BytesOf(w, n)[i - Len(wire)]
  BY <1>1, <1>2, <1>3
<1>5. ASSUME NEW i \in 1 .. n
      PROVE  buffer[w.pos + i - 1] = Len(wire) + i
  <2>1. i - 1 \in 0 .. w.len - 1 /\ w.pos + (i - 1) = w.pos + i - 1
    BY <1>3
  <2>2. buffer[w.pos + (i - 1)] = First(w) + (i - 1)
    BY <2>1 DEF Holds
  <2> QED
    BY <1>2, <1>3, <2>1, <2>2 DEF Sent
<1>6. ASSUME NEW i \in 1 .. Len(wire) + n
      PROVE  wire'[i] = i
  <2>1. CASE i <= Len(wire)
    BY <1>2, <1>4, <2>1 DEF WireInOrder
  <2>2. CASE i > Len(wire)
    <3>1. i - Len(wire) \in 1 .. n
      BY <1>2, <1>3, <2>2
    <3>2. wire'[i] = buffer[w.pos + (i - Len(wire)) - 1]
      BY <1>1, <1>2, <1>3, <1>4, <2>2, <3>1
    <3>3. buffer[w.pos + (i - Len(wire)) - 1] = Len(wire) + (i - Len(wire))
      BY <1>5, <3>1
    <3> QED
      BY <1>2, <1>3, <3>2, <3>3
  <2>3. i <= Len(wire) \/ i > Len(wire)
    BY <1>2
  <2> QED
    BY <2>1, <2>2, <2>3
<1> QED
  BY <1>4, <1>6 DEF WireInOrder, Sent

\* Whoever has a region is active, so nothing has failed.
LEMMA ActiveRuns ==
    ASSUME IInv, NEW r \in Region, Active(r)
    PROVE  ~stopped /\ Running /\ Writes(buffer, r, sendPackets, Sent, posted)
BY DEF IInv, Stalled, Running

\* A region is told from the absence of one.
LEMMA RegionIsSome ==
    ASSUME NEW r \in Region
    PROVE  r # NoRegion
BY DEF Region, NoRegion

\* Handing the region on changes nothing else.
LEMMA SendKeepsIInv ==
    ASSUME IInv, NEW p \in Posters, Send(p)
    PROVE  IInv'
<1>1. /\ toSend[p] # NoRegion
      /\ toSend[p] \in Region
      /\ writing' = writing \cup {toSend[p]}
      /\ toSend' = [toSend EXCEPT ![p] = NoRegion]
      /\ UNCHANGED <<bufferVars, next, posted, wire, stopped>>
  BY DEF Send, IInv, TypeOK
<1>2. Active(toSend[p])
  BY <1>1 DEF Active
<1>3. ~stopped /\ Running
  BY <1>1, <1>2, ActiveRuns
<1>4. TypeOK' /\ OneWrite'
  BY SendKeepsTypes, SendKeepsOneWrite DEF IInv, TypeOK, PerPoster
<1>5. \A r \in Region : Active(r)' <=> Active(r)
  <2>1. \A q \in Posters : q # p => toSend'[q] = toSend[q]
    BY <1>1 DEF IInv, TypeOK
  <2>2. toSend'[p] = NoRegion
    BY <1>1 DEF IInv, TypeOK
  <2> QED
    BY <1>1, <2>1, <2>2 DEF Active
<1>6. Running'
  BY <1>1, <1>3, <1>5 DEF Running, bufferVars, Sent, Layout
<1> QED
  BY <1>1, <1>3, <1>4, <1>6 DEF IInv, WireInOrder

\* The next write takes the place of the one that completed.
LEMMA SendNextKeepsIInv ==
    ASSUME IInv, SendNext
    PROVE  IInv'
<1>1. /\ next # NoRegion
      /\ next \in Region
      /\ writing' = writing \cup {next}
      /\ next' = NoRegion
      /\ UNCHANGED <<bufferVars, toSend, posted, wire, stopped>>
  BY DEF SendNext, IInv, TypeOK
<1>2. Active(next)
  BY <1>1 DEF Active
<1>3. ~stopped /\ Running
  BY <1>1, <1>2, ActiveRuns
<1>4. TypeOK' /\ OneWrite'
  BY SendNextKeepsTypes, SendNextKeepsOneWrite DEF IInv
<1>5. \A r \in Region : Active(r)' <=> Active(r)
  BY <1>1 DEF Active
<1>6. Running'
  BY <1>1, <1>3, <1>5 DEF Running, bufferVars, Sent, Layout
<1> QED
  BY <1>1, <1>3, <1>4, <1>6 DEF IInv, WireInOrder

\* A new packet overwrites nothing unsent and follows what was posted.
LEMMA PostKeepsIInv ==
    ASSUME BacklogFits, IInv,
           NEW p \in Posters, NEW len \in 0 .. MaxLength, GetPostBuffer(p, len)
    PROVE  IInv'
<1> DEFINE pos == PostPlace(len)
           r == NewRegion(len)
<1>1. TypeOK' /\ OneWrite'
  BY PostKeepsTypes, PostKeepsOneWrite DEF IInv, TypeOK, PerPoster
<1>2. /\ posted' = posted + len /\ remain' = remain + len
      /\ remain + len <= MaxBacklog
      /\ sending'
      /\ UNCHANGED <<next, writing, wire, stopped>>
      /\ Sent' = Sent
  BY DEF GetPostBuffer, MarkSending, Sent
<1>3. CASE stopped
  <2>1. Stalled
    BY <1>3 DEF IInv
  <2>2. UNCHANGED <<toSend, next, writing>>
    BY <2>1 DEF GetPostBuffer, Stalled
  <2>3. Stalled'
    BY <1>2, <2>1, <2>2 DEF Stalled, Active
  <2> QED
    BY <1>1, <1>2, <1>3, <2>3 DEF IInv, WireInOrder
<1>4. CASE ~stopped
  <2>1. TypeOK /\ Running
    BY <1>4 DEF IInv
  <2>2. PICK e \in Ends : Layout(e)
    BY <2>1 DEF Running
  <2>3. /\ \A x \in Place : buffer[x] > Sent => buffer'[x] = buffer[x]
        /\ \E f \in Ends : Layout(f)'
    BY <2>1, <2>2, PostKeepsLive DEF Running
  <2>4. /\ r \in Region /\ r # NoRegion /\ InBuffer(r)
        /\ r.pos = pos /\ r.len = len
        /\ len \in Nat /\ pos \in Nat
    BY <2>1, NewRegionInside DEF NewRegion
  <2>5. /\ Sent \in Nat /\ posted \in Nat /\ remain \in Nat /\ Sent <= posted
        /\ buffer \in [Place -> Nat] /\ buffer' \in [Place -> Nat]
        /\ sendPackets \in Seq(Region)
    BY <1>1, <2>1 DEF TypeOK, Running, Sent
  <2>6. \A j \in 0 .. len - 1 : buffer'[pos + j] = posted + 1 + j
    <3> SUFFICES ASSUME NEW j \in 0 .. len - 1
                 PROVE  buffer'[pos + j] = posted + 1 + j
      OBVIOUS
    <3>1. pos + j \in Place
      BY <2>4, RegionPlaces
    <3>2. pos \in Nat /\ j \in Nat /\ j < len /\ len \in Nat
      BY <2>4
    <3>3. buffer' = [i \in Place |-> IF pos <= i /\ i < pos + len
                                      THEN posted + 1 + (i - pos) ELSE buffer[i]]
      BY DEF GetPostBuffer
    <3> HIDE DEF pos
    <3>4. ASSUME NEW x \in Place, pos <= x, x < pos + len
          PROVE  buffer'[x] = posted + 1 + (x - pos)
      BY <3>3, <3>4
    <3>5. PICK x \in Place : x = pos + j
      BY <3>1
    <3>6. pos <= x /\ x < pos + len /\ x - pos = j
      BY <3>2, <3>5
    <3>7. buffer'[x] = posted + 1 + (x - pos)
      BY <3>4, <3>6
    <3> QED
      BY <3>5, <3>6, <3>7
  <2>7. First(r) = posted + 1
    BY DEF First, NewRegion
  <2>8. Holds(buffer', r)
    BY <2>4, <2>6, <2>7 DEF Holds
  <2> HIDE DEF pos, r
  <2>9. remain' = posted' - Sent' /\ remain' <= MaxBacklog
    BY <1>2, <2>1, <2>4, <2>5 DEF Running
  <2>10. CASE ~sending
    <3>1. /\ sendPackets' = sendPackets /\ sendPackets = <<>> /\ posted = Sent
          /\ toSend' = [toSend EXCEPT ![p] = r]
      BY <2>1, <2>10 DEF GetPostBuffer, NewRegion, Running, r
    <3>2. ASSUME NEW t \in Region
          PROVE  Active(t)' <=> t = r
      <4>1. toSend'[p] = r
        BY <2>1, <3>1 DEF TypeOK
      <4>2. (\A q \in Posters : toSend[q] = NoRegion) /\ next = NoRegion /\ writing = {}
        BY <2>10 DEF IInv, OneWrite
      <4>3. \A q \in Posters : q # p => toSend'[q] = NoRegion
        BY <2>1, <3>1, <4>2 DEF TypeOK
      <4> QED
        BY <1>2, <2>4, <4>1, <4>2, <4>3, RegionIsSome DEF Active
    <3>3. Writes(buffer', r, sendPackets', Sent', posted')
      BY <1>2, <2>4, <2>5, <2>7, <2>8, <3>1 DEF Writes
    <3>4. Waiting(buffer', sendPackets', Sent', posted')
      BY <3>1 DEF Waiting
    <3>5. Running'
      BY <1>2, <2>3, <2>4, <2>9, <3>2, <3>3, <3>4 DEF Running
    <3> QED
      BY <1>1, <1>2, <1>4, <3>5 DEF IInv, WireInOrder
  <2>11. CASE sending
    <3>1. sendPackets' = Append(sendPackets, r) /\ toSend' = toSend
      BY <2>11 DEF GetPostBuffer, NewRegion, r
    <3>2. \A t \in Region : Active(t)' <=> Active(t)
      BY <1>2, <3>1 DEF Active
    <3>3. Waiting(buffer', sendPackets', Sent', posted')
      <4>1. Waiting(buffer, sendPackets, Sent, posted)
        BY <2>1 DEF Running
      <4>2. Waiting(buffer', Append(sendPackets, r), Sent, posted + r.len)
        BY <2>3, <2>4, <2>5, <2>7, <2>8, <4>1, AppendWaiting
      <4> QED
        BY <1>2, <2>4, <3>1, <4>2
    <3>4. ASSUME NEW t \in Region, Active(t)
          PROVE  Writes(buffer', t, sendPackets', Sent', posted')
      <4>1. Writes(buffer, t, sendPackets, Sent, posted)
        BY <2>1, <3>4 DEF Running
      <4>2. Holds(buffer', t) /\ First(t) = Sent + 1
        <5>1. /\ InBuffer(t) /\ Holds(buffer, t)
              /\ First(t) = Sent + 1 /\ First(t) > Sent
          BY <2>5, <4>1 DEF Writes
        <5>2. Holds(buffer', t)
          BY <2>3, <2>5, <5>1, HoldsKept
        <5> QED
          BY <5>1, <5>2
      <4>3. /\ Len(sendPackets') > 0
            /\ IF Len(sendPackets) = 0 THEN sendPackets'[1] = r
               ELSE sendPackets'[1] = sendPackets[1] /\ 1 \in 1 .. Len(sendPackets)
        BY <2>4, <2>5, <3>1
      <4>4. First(sendPackets'[1]) = Sent + 1 + t.len
        <5>1. CASE Len(sendPackets) = 0
          <6>1. Sent + t.len = posted /\ t.len \in Nat
            BY <4>1, <5>1, RegionPlaces DEF Writes
          <6> QED
            BY <2>5, <2>7, <4>3, <5>1, <6>1
        <5>2. CASE Len(sendPackets) # 0
          <6>1. sendPackets[1] \in Region /\ Len(sendPackets) > 0
            BY <2>5, <5>2
          <6> QED
            BY <4>1, <4>3, <5>2, <6>1 DEF Writes
        <5> QED
          BY <5>1, <5>2
      <4>5. Sent + t.len <= posted + len
        BY <2>4, <2>5, <4>1, RegionPlaces DEF Writes
      <4> QED
        BY <1>2, <4>1, <4>2, <4>3, <4>4, <4>5 DEF Writes
    <3>5. \E t \in Region : Active(t)
      BY <2>1, <2>11 DEF Running
    <3>6. Running'
      BY <1>2, <2>3, <2>9, <3>2, <3>3, <3>4, <3>5 DEF Running
    <3> QED
      BY <1>1, <1>2, <1>4, <3>6 DEF IInv, WireInOrder
  <2> QED
    BY <2>10, <2>11
<1> QED
  BY <1>3, <1>4

\* A completed write extends the wire; the first waiting packet is next.
LEMMA OnSendKeepsIInv ==
    ASSUME IInv, NEW w \in writing, OnSend(w)
    PROVE  IInv'
<1>1. w \in Region /\ TypeOK /\ OneWrite /\ WireInOrder
  BY DEF IInv, TypeOK
<1>2. Active(w)
  BY <1>1, RegionIsSome DEF Active
<1>3. ~stopped /\ Running /\ Writes(buffer, w, sendPackets, Sent, posted)
  BY <1>1, <1>2, ActiveRuns
<1>4. /\ wire' = wire \o BytesOf(w, w.len)
      /\ remain' = remain - w.len
      /\ writing' = writing \ {w}
      /\ UNCHANGED <<buffer, markPos, toSend, posted, stopped>>
      /\ GetNextPostBuffer
  BY DEF OnSend
<1>5. /\ w.len \in Nat /\ w.len \in 0 .. w.len
      /\ Sent \in Nat /\ posted \in Nat /\ remain \in Nat /\ MaxBacklog \in Nat
      /\ buffer \in [Place -> Nat] /\ sendPackets \in Seq(Region)
      /\ Sent + w.len <= posted
      /\ InBuffer(w)
  BY <1>1, <1>3, RegionPlaces, SendSizesAssumption DEF TypeOK, Sent, Writes
<1>6. wire' \in Seq(Nat) /\ Sent' = Sent + w.len /\ WireInOrder'
  BY <1>1, <1>3, <1>4, <1>5, WireGrows DEF Writes
<1>7. /\ \A q \in Posters : toSend[q] = NoRegion
      /\ next = NoRegion
      /\ writing = {w}
      /\ sending
  BY <1>1 DEF OneWrite
<1>8. OneWrite'
  BY <1>1, CompletionKeepsOneWrite DEF Complete
<1>9. remain' = posted' - Sent' /\ remain' <= MaxBacklog /\ remain' \in Nat
  <2>1. remain = posted - Sent /\ remain <= MaxBacklog
    BY <1>3 DEF Running
  <2>2. remain' = remain - w.len /\ posted' = posted /\ Sent' = Sent + w.len
    BY <1>4, <1>6
  <2>3. \A k, l, m, n \in Nat :
           k = m - l /\ l + n <= m
              => k - n = m - (l + n) /\ k - n <= k /\ k - n \in Nat
    OBVIOUS
  <2>4. /\ remain - w.len = posted - (Sent + w.len)
        /\ remain - w.len <= remain
        /\ remain - w.len \in Nat
    BY <1>5, <2>1, <2>3
  <2> QED
    BY <1>5, <2>1, <2>2, <2>4
<1>10. \E e \in Ends : Layout(e)'
  <2>1. PICK e \in Ends : Layout(e)
    BY <1>3 DEF Running
  <2>2. ASSUME NEW x \in Place, buffer[x] > Sent + w.len
        PROVE  buffer[x] > Sent
    BY <1>5, <2>2
  <2>3. Layout(e)'
    BY <1>4, <1>6, <2>1, <2>2 DEF Layout
  <2> QED
    BY <2>3
<1>11. Waiting(buffer, sendPackets, Sent + w.len, posted)
  <2>1. Waiting(buffer, sendPackets, Sent, posted)
    BY <1>3 DEF Running
  <2>2. Len(sendPackets) > 0 => First(sendPackets[1]) = (Sent + w.len) + 1
    <3>1. Len(sendPackets) > 0 => First(sendPackets[1]) = Sent + 1 + w.len
      BY <1>3 DEF Writes
    <3>2. \A m, n \in Nat : m + 1 + n = (m + n) + 1
      OBVIOUS
    <3>3. Sent + 1 + w.len = (Sent + w.len) + 1
      BY <1>5, <3>2
    <3> QED
      BY <3>1, <3>3
  <2>3. Sent + w.len \in Nat
    BY <1>5
  <2> QED
    BY <1>5, <2>1, <2>2, <2>3, WaitingBehind
<1>12. CASE sendPackets = <<>>
  <2>1. next' = NoRegion /\ sending' = FALSE /\ sendPackets' = <<>>
    BY <1>4, <1>7, <1>12 DEF GetNextPostBuffer
  <2>2. TypeOK'
    <3>1. sending' \in BOOLEAN
      BY <2>1
    <3>2. sendPackets' \in Seq(Region)
      BY <1>5, <1>12, <2>1
    <3>3. next' \in Region \cup {NoRegion} /\ writing' \subseteq Region
      BY <1>1, <1>4, <2>1 DEF TypeOK
    <3> QED
      BY <1>1, <1>4, <1>6, <1>9, <3>1, <3>2, <3>3 DEF TypeOK
  <2>3. \A r \in Region : ~Active(r)'
    BY <1>4, <1>7, <2>1, RegionIsSome DEF Active
  <2>4. posted = Sent + w.len
    BY <1>3, <1>12 DEF Writes
  <2>5. Waiting(buffer', sendPackets', Sent', posted')
    BY <1>4, <1>6, <1>11, <1>12, <2>1
  <2>6. Running'
    BY <1>4, <1>6, <1>9, <1>10, <2>1, <2>3, <2>4, <2>5 DEF Running
  <2> QED
    BY <1>3, <1>4, <1>6, <1>8, <2>2, <2>6 DEF IInv
<1>13. CASE sendPackets # <<>>
  <2>1. /\ next' = Head(sendPackets) /\ sending' = TRUE
        /\ sendPackets' = Tail(sendPackets)
    BY <1>4, <1>13 DEF GetNextPostBuffer
  <2>2. First(sendPackets[1]) = Sent + w.len + 1
    <3>1. Len(sendPackets) > 0 /\ sendPackets[1] \in Region
      BY <1>5, <1>13
    <3>2. First(sendPackets[1]) = Sent + 1 + w.len
      BY <1>3, <3>1 DEF Writes
    <3> QED
      BY <1>5, <3>2
  <2>3. /\ Head(sendPackets) \in Region /\ Tail(sendPackets) \in Seq(Region)
        /\ Writes(buffer, Head(sendPackets), Tail(sendPackets), Sent + w.len, posted)
        /\ Waiting(buffer, Tail(sendPackets), Sent + w.len, posted)
    BY <1>5, <1>11, <1>13, <2>2, TailWaiting
  <2>4. TypeOK'
    BY <1>1, <1>4, <1>6, <1>9, <2>1, <2>3 DEF TypeOK
  <2>5. \A r \in Region : Active(r)' <=> r = next'
    BY <1>4, <1>7, <2>1, <2>3, RegionIsSome DEF Active
  <2>6. Waiting(buffer', sendPackets', Sent', posted')
    BY <1>4, <1>6, <2>1, <2>3
  <2>7. Writes(buffer', next', sendPackets', Sent', posted')
    BY <1>4, <1>6, <2>1, <2>3
  <2>8. Running'
    BY <1>9, <1>10, <2>1, <2>3, <2>5, <2>6, <2>7 DEF Running
  <2> QED
    BY <1>3, <1>4, <1>6, <1>8, <2>4, <2>8 DEF IInv
<1> QED
  BY <1>12, <1>13

\* A write without bytes leaves m_bIsSending set and nothing in progress.
LEMMA OnSendEmptyKeepsIInv ==
    ASSUME IInv, NEW w \in writing, OnSendEmpty(w)
    PROVE  IInv'
<1>1. w \in Region /\ TypeOK /\ OneWrite /\ WireInOrder
  BY DEF IInv, TypeOK
<1>2. /\ writing' = writing \ {w}
      /\ stopped'
      /\ stopped' \in BOOLEAN
      /\ UNCHANGED <<bufferVars, toSend, next, posted, wire>>
  BY DEF OnSendEmpty
<1>3. OneWrite'
  BY <1>1, CompletionKeepsOneWrite DEF Complete
<1>4. TypeOK' /\ WireInOrder'
  BY <1>1, <1>2 DEF TypeOK, bufferVars, WireInOrder
<1>5. Stalled'
  <2>1. /\ \A q \in Posters : toSend[q] = NoRegion
        /\ next = NoRegion
        /\ writing = {w}
        /\ sending
    BY <1>1 DEF OneWrite
  <2> QED
    BY <1>2, <2>1, RegionIsSome DEF Stalled, Active, bufferVars
<1> QED
  BY <1>2, <1>3, <1>4, <1>5 DEF IInv

\* A failed write leaves the connection with m_bIsSending set and no write.
LEMMA OnSendErrorKeepsIInv ==
    ASSUME IInv, NEW w \in writing, OnSendError(w)
    PROVE  IInv'
<1>1. w \in Region /\ TypeOK /\ OneWrite /\ WireInOrder
  BY DEF IInv, TypeOK
<1>2. Active(w)
  BY <1>1, RegionIsSome DEF Active
<1>3. Writes(buffer, w, sendPackets, Sent, posted)
  BY <1>1, <1>2, ActiveRuns
<1>4. PICK n \in 0 .. w.len - 1 : wire' = wire \o BytesOf(w, n)
  BY DEF OnSendError
<1>5. /\ writing' = writing \ {w}
      /\ stopped'
      /\ stopped' \in BOOLEAN
      /\ UNCHANGED <<bufferVars, toSend, next, posted>>
  BY DEF OnSendError
<1>6. n \in 0 .. w.len
  BY <1>1, RegionPlaces, <1>3 DEF Writes
<1>7. wire' \in Seq(Nat) /\ WireInOrder'
  BY <1>1, <1>3, <1>4, <1>6, WireGrows DEF Writes
<1>8. OneWrite'
  BY <1>1, CompletionKeepsOneWrite DEF Complete
<1>9. TypeOK'
  BY <1>1, <1>5, <1>7 DEF TypeOK, bufferVars
<1>10. Stalled'
  <2>1. /\ \A q \in Posters : toSend[q] = NoRegion
        /\ next = NoRegion
        /\ writing = {w}
        /\ sending
    BY <1>1 DEF OneWrite
  <2> QED
    BY <1>5, <2>1, RegionIsSome DEF Stalled, Active, bufferVars
<1> QED
  BY <1>5, <1>7, <1>8, <1>9, <1>10 DEF IInv

\* At first nothing is posted, and the buffer holds no byte of the stream.
LEMMA InitEstablishesIInv == Init => IInv
<1> SUFFICES ASSUME Init
             PROVE  IInv
  OBVIOUS
<1>1. TypeOK
  BY SendSizesAssumption DEF Init, TypeOK, Place
<1>2. OneWrite /\ WireInOrder /\ ~stopped
  BY DEF Init, OneWrite, WireInOrder
<1>3. BufferSize \in Ends /\ MaxBacklog \in Nat
  BY SendSizesAssumption DEF Ends
<1>4. \A e \in Ends : Layout(e)
  BY DEF Init, Layout, Sent
<1>5. \A r \in Region : ~Active(r)
  BY DEF Init, Active
<1>6. Waiting(buffer, sendPackets, Sent, posted)
  BY DEF Init, Waiting
<1>7. remain = posted - Sent /\ remain <= MaxBacklog /\ posted = Sent
  <2>1. remain = 0 /\ posted = 0 /\ Sent = 0
    BY DEF Init, Sent
  <2> QED
    BY <1>3, <2>1
<1>8. Running
  BY <1>3, <1>4, <1>5, <1>6, <1>7 DEF Running, Init
<1> QED
  BY <1>1, <1>2, <1>8 DEF IInv

\* Every step keeps the invariant while the backlog fits.
LEMMA NextKeepsIInv ==
    ASSUME BacklogFits, IInv, [Next]_vars
    PROVE  IInv'
<1>1. ASSUME NEW p \in Posters, NEW len \in 0 .. MaxLength, GetPostBuffer(p, len)
      PROVE  IInv'
  BY <1>1, PostKeepsIInv
<1>2. ASSUME NEW p \in Posters, Send(p)
      PROVE  IInv'
  BY <1>2, SendKeepsIInv
<1>3. ASSUME NEW w \in writing, OnSend(w)
      PROVE  IInv'
  BY <1>3, OnSendKeepsIInv
<1>4. ASSUME NEW w \in writing, OnSendError(w)
      PROVE  IInv'
  BY <1>4, OnSendErrorKeepsIInv
<1>5. CASE SendNext
  BY <1>5, SendNextKeepsIInv
<1>6. ASSUME NEW w \in writing, OnSendEmpty(w)
      PROVE  IInv'
  BY <1>6, OnSendEmptyKeepsIInv
<1>7. CASE UNCHANGED vars
  <2>1. \A r \in Region : Active(r)' <=> Active(r)
    BY <1>7 DEF vars, Active
  <2> QED
    BY <1>7, <2>1 DEF vars, bufferVars, IInv, TypeOK, OneWrite, WireInOrder, Stalled,
                      Running, Layout, Sent
<1> QED
  BY <1>1, <1>2, <1>3, <1>4, <1>5, <1>6, <1>7 DEF Next, Complete

\* The invariant implies that a set m_bIsSending has a write behind it.
LEMMA IInvImpliesWriting == IInv => SendingMeansWriting
<1> SUFFICES ASSUME IInv, sending, ~stopped
             PROVE  \/ \E p \in Posters : toSend[p] # NoRegion
                    \/ next # NoRegion
                    \/ writing # {}
  BY DEF SendingMeansWriting
<1>1. PICK r \in Region : Active(r)
  BY DEF IInv, Running
<1> QED
  BY <1>1 DEF Active

(***************************************************************************)
(* When the application keeps no more unsent than the buffer less a packet *)
(* (BacklogFits), the invariant holds in every state.                      *)
(***************************************************************************)
LEMMA IInvAlways == ASSUME BacklogFits PROVE Spec => []IInv
<1>1. Init => IInv
  BY InitEstablishesIInv
<1>2. IInv /\ [Next]_vars => IInv'
  BY NextKeepsIInv
<1> QED
  BY <1>1, <1>2, PTL DEF Spec

(***************************************************************************)
(* The values of the send buffer have the types of the code; the counter   *)
(* of unsent bytes, signed there, is never negative.                       *)
(***************************************************************************)
THEOREM TypesAlways == ASSUME BacklogFits PROVE Spec => []TypeOK
<1>1. IInv => TypeOK
  BY DEF IInv
<1> QED
  BY <1>1, IInvAlways, PTL

(***************************************************************************)
(* With such a backlog the one test of GetPostBuffer, at the end of the    *)
(* buffer, keeps every unsent byte from being overwritten: the wire        *)
(* carries what was posted, in order and unchanged, for every size of      *)
(* buffer and packets and any number of posters.                           *)
(***************************************************************************)
THEOREM WireInOrderAlways == ASSUME BacklogFits PROVE Spec => []WireInOrder
<1>1. IInv => WireInOrder
  BY DEF IInv
<1> QED
  BY <1>1, IInvAlways, PTL

(***************************************************************************)
(* With such a backlog m_bIsSending is set only while a write is or will   *)
(* be in progress, until a write fails or an empty packet's completes.     *)
(***************************************************************************)
THEOREM SendingMeansWritingAlways == ASSUME BacklogFits PROVE Spec => []SendingMeansWriting
BY IInvImpliesWriting, IInvAlways, PTL

-----------------------------------------------------------------------------
(* SendBuffer implements PacketStream.                                      *)

\* The bytes of the region r, and of the packets q, in the buffer b.
RegionBytes(b, r) == [j \in 1 .. r.len |-> b[r.pos + j - 1]]
Bytes(b, q) == [i \in 1 .. Len(q) |-> RegionBytes(b, q[i])]

\* What is pending is what the buffer holds for the packets to send.
LEMMA PendingBytes == Pending = Bytes(buffer, ToSend)
BY DEF Pending, Bytes, RegionBytes, BytesOf

\* Whoever has a region is active.
LEMMA InHandActive ==
    ASSUME TypeOK
    PROVE  /\ \A r \in InHand : r \in Region
           /\ \A r : r \in InHand <=> Active(r)
BY DEF InHand, Active, TypeOK

\* At most one has, so the packets to send are its own and those that wait.
ActiveIsFirst ==
    TypeOK /\ OneWrite =>
       \A r \in Region : Active(r) => InHand = {r} /\ ToSend = <<r>> \o sendPackets

LEMMA ActiveFirst == ActiveIsFirst
<1> SUFFICES ASSUME TypeOK, OneWrite, NEW r \in Region, Active(r)
             PROVE  InHand = {r} /\ ToSend = <<r>> \o sendPackets
  BY DEF ActiveIsFirst
<1>1. ASSUME NEW t, Active(t)
      PROVE  t = r
  BY <1>1 DEF Active, OneWrite
<1>2. InHand = {r}
  BY <1>1, InHandActive
<1>3. (CHOOSE t \in InHand : TRUE) = r
  BY <1>2
<1> QED
  BY <1>2, <1>3 DEF ToSend

\* So it is after a step.
LEMMA ActiveFirstNext == ActiveIsFirst'
BY ActiveFirst, PTL

\* When none has, nothing waits either.
LEMMA NoneActive ==
    ASSUME IInv, ~stopped, \A r \in Region : ~Active(r)
    PROVE  InHand = {} /\ sendPackets = <<>> /\ ToSend = <<>>
<1>1. TypeOK /\ Running
  BY DEF IInv
<1>2. InHand = {}
  BY <1>1, InHandActive
<1>3. sendPackets = <<>>
  BY <1>1 DEF Running
<1> QED
  BY <1>2, <1>3 DEF ToSend

\* The packets to send lie in the buffer, intact and unsent.
LEMMA ToSendHolds ==
    ASSUME IInv, ~stopped
    PROVE  /\ ToSend \in Seq(Region)
           /\ \A i \in 1 .. Len(ToSend) :
                 /\ InBuffer(ToSend[i])
                 /\ Holds(buffer, ToSend[i])
                 /\ First(ToSend[i]) > Sent
<1>1. TypeOK /\ OneWrite /\ Running
  BY DEF IInv
<1>2. sendPackets \in Seq(Region) /\ Sent \in Nat
  BY <1>1 DEF TypeOK, Sent
<1>3. CASE \A r \in Region : ~Active(r)
  <2>1. ToSend = <<>>
    BY <1>3, NoneActive
  <2>2. ToSend \in Seq(Region) /\ Len(ToSend) = 0
    BY <2>1, EmptySeq
  <2> QED
    BY <2>2
<1>4. ASSUME NEW r \in Region, Active(r)
      PROVE  /\ ToSend \in Seq(Region)
             /\ \A i \in 1 .. Len(ToSend) :
                   /\ InBuffer(ToSend[i])
                   /\ Holds(buffer, ToSend[i])
                   /\ First(ToSend[i]) > Sent
  <2>1. ToSend = <<r>> \o sendPackets
    BY <1>1, <1>4, ActiveFirst DEF ActiveIsFirst
  <2>2. /\ ToSend \in Seq(Region)
        /\ ToSend[1] = r
        /\ \A i \in 1 .. Len(ToSend) : i = 1 \/ (i - 1 \in 1 .. Len(sendPackets) /\ ToSend[i] = sendPackets[i - 1])
    BY <1>2, <1>4, <2>1
  <2>3. InBuffer(r) /\ Holds(buffer, r) /\ First(r) > Sent
    BY <1>1, <1>2, <1>4 DEF Running, Writes
  <2>4. \A i \in 1 .. Len(sendPackets) :
           InBuffer(sendPackets[i]) /\ Holds(buffer, sendPackets[i]) /\ First(sendPackets[i]) > Sent
    BY <1>1 DEF Running, Waiting
  <2> QED
    BY <2>2, <2>3, <2>4
<1> QED
  BY <1>3, <1>4

\* Packets whose unsent bytes the buffer keeps have the same bytes.
LEMMA BytesKept ==
    ASSUME NEW b \in [Place -> Nat], NEW c \in [Place -> Nat], NEW s \in Nat,
           \A x \in Place : b[x] > s => c[x] = b[x],
           NEW q \in Seq(Region),
           \A i \in 1 .. Len(q) : InBuffer(q[i]) /\ Holds(b, q[i]) /\ First(q[i]) > s
    PROVE  Bytes(c, q) = Bytes(b, q)
<1> SUFFICES ASSUME NEW i \in 1 .. Len(q), NEW j \in 1 .. q[i].len
             PROVE  c[q[i].pos + j - 1] = b[q[i].pos + j - 1]
  BY DEF Bytes, RegionBytes
<1>1. /\ q[i] \in Region /\ InBuffer(q[i]) /\ Holds(b, q[i]) /\ First(q[i]) > s
  OBVIOUS
<1>2. Holds(c, q[i])
  BY <1>1, HoldsKept
<1>3. j - 1 \in 0 .. q[i].len - 1 /\ q[i].pos + (j - 1) = q[i].pos + j - 1
  BY <1>1 DEF Region
<1>4. c[q[i].pos + (j - 1)] = First(q[i]) + (j - 1)
  BY <1>2, <1>3 DEF Holds
<1>5. b[q[i].pos + (j - 1)] = First(q[i]) + (j - 1)
  BY <1>1, <1>3 DEF Holds
<1> QED
  BY <1>2, <1>3, <1>4, <1>5

\* The bytes of packets are a sequence of what regions may hold.
LEMMA BytesSeq ==
    ASSUME NEW b, NEW q \in Seq(Region)
    PROVE  /\ Bytes(b, q) \in Seq({RegionBytes(b, r) : r \in Region})
           /\ Len(Bytes(b, q)) = Len(q)
           /\ \A i \in 1 .. Len(q) : Bytes(b, q)[i] = RegionBytes(b, q[i])
<1>1. Len(q) \in Nat /\ \A i \in 1 .. Len(q) : q[i] \in Region
  OBVIOUS
<1> QED
  BY <1>1 DEF Bytes

\* The bytes of a longer queue.
LEMMA BytesAppend ==
    ASSUME NEW b, NEW q \in Seq(Region), NEW r \in Region
    PROVE  Bytes(b, Append(q, r)) = Append(Bytes(b, q), RegionBytes(b, r))
<1> DEFINE S == {RegionBytes(b, x) : x \in Region}
           p == Append(q, r)
           new == RegionBytes(b, r)
<1>1. /\ p \in Seq(Region) /\ Len(p) = Len(q) + 1 /\ Len(q) \in Nat
      /\ p[Len(q) + 1] = r /\ \A i \in 1 .. Len(q) : p[i] = q[i]
  OBVIOUS
<1>2. new \in S
  OBVIOUS
<1>3. /\ Bytes(b, q) \in Seq(S) /\ Len(Bytes(b, q)) = Len(q)
      /\ \A i \in 1 .. Len(q) : Bytes(b, q)[i] = RegionBytes(b, q[i])
  BY BytesSeq
<1>4. /\ Bytes(b, p) \in Seq(S) /\ Len(Bytes(b, p)) = Len(p)
      /\ \A i \in 1 .. Len(p) : Bytes(b, p)[i] = RegionBytes(b, p[i])
  BY <1>1, BytesSeq
<1> HIDE DEF S, p, new
<1>5. /\ Append(Bytes(b, q), new) \in Seq(S)
      /\ Len(Append(Bytes(b, q), new)) = Len(q) + 1
      /\ \A i \in 1 .. Len(q) : Append(Bytes(b, q), new)[i] = Bytes(b, q)[i]
      /\ Append(Bytes(b, q), new)[Len(q) + 1] = new
  BY <1>2, <1>3, AppendProperties
<1>6. ASSUME NEW i \in 1 .. Len(q) + 1
      PROVE  Bytes(b, p)[i] = Append(Bytes(b, q), new)[i]
  <2>1. CASE i = Len(q) + 1
    BY <1>1, <1>4, <1>5, <2>1 DEF new
  <2>2. CASE i # Len(q) + 1
    <3>1. i \in 1 .. Len(q)
      BY <1>1, <2>2
    <3> QED
      BY <1>1, <1>3, <1>4, <1>5, <3>1
  <2> QED
    BY <2>1, <2>2
<1>7. Bytes(b, p) = Append(Bytes(b, q), new)
  BY <1>1, <1>4, <1>5, <1>6, SeqEqual
<1> QED
  BY <1>7 DEF p, new

\* The bytes of a queue behind one packet.
LEMMA BytesBehind ==
    ASSUME NEW b, NEW q \in Seq(Region), NEW r \in Region
    PROVE  /\ Bytes(b, <<r>> \o q) # <<>>
           /\ Head(Bytes(b, <<r>> \o q)) = RegionBytes(b, r)
           /\ Tail(Bytes(b, <<r>> \o q)) = Bytes(b, q)
<1> DEFINE S == {RegionBytes(b, x) : x \in Region}
           p == <<r>> \o q
<1>1. /\ p \in Seq(Region) /\ Len(p) = Len(q) + 1 /\ Len(q) \in Nat /\ p[1] = r
      /\ \A i \in 1 .. Len(q) : p[i + 1] = q[i]
  OBVIOUS
<1>2. /\ Bytes(b, q) \in Seq(S) /\ Len(Bytes(b, q)) = Len(q)
      /\ \A i \in 1 .. Len(q) : Bytes(b, q)[i] = RegionBytes(b, q[i])
  BY BytesSeq
<1>3. /\ Bytes(b, p) \in Seq(S) /\ Len(Bytes(b, p)) = Len(p)
      /\ \A i \in 1 .. Len(p) : Bytes(b, p)[i] = RegionBytes(b, p[i])
  BY <1>1, BytesSeq
<1> HIDE DEF S, p
<1>4. Bytes(b, p) # <<>>
  BY <1>1, <1>3, EmptySeq
<1>5. Head(Bytes(b, p)) = RegionBytes(b, r)
  <2>1. Head(Bytes(b, p)) = Bytes(b, p)[1]
    BY <1>3, <1>4
  <2> QED
    BY <1>1, <1>3, <2>1
<1>6. /\ Tail(Bytes(b, p)) \in Seq(S) /\ Len(Tail(Bytes(b, p))) = Len(q)
      /\ \A i \in 1 .. Len(q) : Tail(Bytes(b, p))[i] = Bytes(b, p)[i + 1]
  BY <1>1, <1>3, <1>4, HeadTailProperties
<1>7. \A i \in 1 .. Len(q) : Tail(Bytes(b, p))[i] = Bytes(b, q)[i]
  BY <1>1, <1>2, <1>3, <1>6
<1>8. Tail(Bytes(b, p)) = Bytes(b, q)
  BY <1>2, <1>6, <1>7, SeqEqual
<1> QED
  BY <1>4, <1>5, <1>8 DEF p

\* At first nothing is pending.
LEMMA InitIsStreamInit == Init => Stream!Init
<1> SUFFICES ASSUME Init
             PROVE  Stream!Init
  OBVIOUS
<1>1. \A r \in Region : ~Active(r)
  BY DEF Init, Active
<1>2. ToSend = <<>>
  BY <1>1, InitEstablishesIInv, NoneActive DEF Init
<1>3. Pending = <<>>
  BY <1>2 DEF Pending
<1> QED
  BY <1>3 DEF Init, Stream!Init

\* Handing a region on does not change what is pending.
LEMMA HandingOnStutters ==
    ASSUME \/ \E p \in Posters : Send(p)
           \/ SendNext
           \/ UNCHANGED vars,
           IInv, IInv'
    PROVE  UNCHANGED Stream!streamVars
<1>1. UNCHANGED <<bufferVars, wire, stopped>>
  BY DEF Send, SendNext, vars
<1>2. InHand' = InHand
  <2>1. TypeOK
    BY DEF IInv
  <2>2. ASSUME NEW p \in Posters, Send(p)
        PROVE  InHand' = InHand
    <3>1. toSend'[p] = NoRegion /\ \A q \in Posters : q # p => toSend'[q] = toSend[q]
      BY <2>1, <2>2 DEF TypeOK, Send
    <3> QED
      BY <2>2, <3>1 DEF InHand, Send
  <2>3. CASE SendNext
    BY <2>3 DEF InHand, SendNext
  <2>4. CASE UNCHANGED vars
    BY <2>4 DEF InHand, vars
  <2> QED
    BY <2>2, <2>3, <2>4
<1>3. ToSend' = ToSend
  BY <1>1, <1>2 DEF ToSend, bufferVars
<1>4. Pending' = Pending
  BY <1>1, <1>3 DEF Pending, BytesOf, bufferVars
<1> QED
  BY <1>1, <1>4 DEF Stream!streamVars

(***************************************************************************)
(* A post appends its bytes, and those of the packets that wait stay as    *)
(* they are. On a broken connection it goes nowhere.                       *)
(***************************************************************************)
LEMMA PostIsStreamPost ==
    ASSUME BacklogFits, IInv, IInv',
           NEW p \in Posters, NEW len \in 0 .. MaxLength, GetPostBuffer(p, len)
    PROVE  [Stream!Next]_(Stream!streamVars)
<1> DEFINE r == NewRegion(len)
           packet == RegionBytes(buffer', r)
<1>1. UNCHANGED <<next, writing, wire, stopped>>
  BY DEF GetPostBuffer
<1>2. CASE stopped
  BY <1>1, <1>2 DEF Stream!streamVars
<1>3. CASE ~stopped
  <2>1. TypeOK /\ TypeOK' /\ OneWrite /\ OneWrite' /\ Running
    BY <1>3 DEF IInv
  <2>2. r \in Region /\ InBuffer(r) /\ r.len = len /\ r # NoRegion
    BY <2>1, NewRegionInside DEF NewRegion
  <2> HIDE DEF r
  <2>3. ToSend' = Append(ToSend, r)
    <3>1. sendPackets \in Seq(Region)
      BY <2>1 DEF TypeOK
    <3>2. CASE ~sending
      <4>1. toSend' = [toSend EXCEPT ![p] = r] /\ sendPackets' = sendPackets
        BY <3>2 DEF GetPostBuffer, NewRegion, r
      <4>2. PICK t \in Region : t = r
        BY <2>2
      <4>3. Active(t)'
        BY <2>1, <4>1, <4>2, RegionIsSome DEF TypeOK, Active
      <4>4. ToSend' = <<t>> \o sendPackets'
        BY <2>1, <4>3, ActiveFirstNext DEF ActiveIsFirst
      <4>5. \A u \in Region : ~Active(u)
        BY <2>1, <3>2 DEF OneWrite, Active
      <4>6. sendPackets = <<>> /\ ToSend = <<>>
        BY <1>3, <4>5, NoneActive
      <4> QED
        BY <2>2, <4>1, <4>2, <4>4, <4>6
    <3>3. CASE sending
      <4>1. toSend' = toSend /\ sendPackets' = Append(sendPackets, r)
        BY <3>3 DEF GetPostBuffer, NewRegion, r
      <4>2. PICK t \in Region : Active(t)
        BY <2>1, <3>3 DEF Running
      <4>3. Active(t)'
        BY <1>1, <4>1, <4>2 DEF Active
      <4>4. ToSend = <<t>> \o sendPackets /\ ToSend' = <<t>> \o sendPackets'
        BY <2>1, <4>2, <4>3, ActiveFirst, ActiveFirstNext DEF ActiveIsFirst
      <4> QED
        BY <2>2, <3>1, <4>1, <4>4
    <3> QED
      BY <3>2, <3>3
  <2>4. PICK e \in Ends : Layout(e)
    BY <2>1 DEF Running
  <2>5. /\ buffer \in [Place -> Nat] /\ buffer' \in [Place -> Nat] /\ Sent \in Nat
        /\ \A x \in Place : buffer[x] > Sent => buffer'[x] = buffer[x]
    BY <2>1, <2>4, PostKeepsLive DEF Running, TypeOK, Sent
  <2>6. ToSend \in Seq(Region) /\ Bytes(buffer', ToSend) = Bytes(buffer, ToSend)
    BY <1>3, <2>5, ToSendHolds, BytesKept
  <2>7. Pending' = Bytes(buffer', ToSend')
    BY PendingBytes DEF Pending, Bytes, RegionBytes, BytesOf
  <2>8. Pending' = Append(Pending, packet)
    BY <2>2, <2>3, <2>6, <2>7, BytesAppend, PendingBytes
  <2>9. packet \in BytePackets
    <3>1. posted \in Nat /\ posted + len <= MaxBytes /\ len \in Nat
          /\ BufferSize \in Nat /\ MaxBytes \in Nat
      BY <2>1, SendSizesAssumption DEF TypeOK, GetPostBuffer
    <3>2. posted + 1 \in 1 .. MaxBytes + 1
      BY <3>1
    <3>3. ASSUME NEW j \in 1 .. len
          PROVE  buffer'[r.pos + j - 1] = (posted + 1) + j - 1
      <4> DEFINE x == r.pos + j - 1
      <4>1. r.pos \in Nat /\ r.pos = PostPlace(len) /\ r.pos + len <= BufferSize
        BY <2>2 DEF r, NewRegion, InBuffer, Region
      <4>2. x \in Place /\ r.pos <= x /\ x < r.pos + len /\ posted + 1 + (x - r.pos) = (posted + 1) + j - 1
        BY <3>1, <4>1 DEF Place
      <4>3. buffer' = [i \in Place |-> IF r.pos <= i /\ i < r.pos + len
                                        THEN posted + 1 + (i - r.pos) ELSE buffer[i]]
        BY <4>1 DEF GetPostBuffer
      <4> HIDE DEF x
      <4>4. buffer'[x] = posted + 1 + (x - r.pos)
        BY <4>2, <4>3
      <4> QED
        BY <4>2, <4>4 DEF x
    <3>4. packet = [j \in 1 .. len |-> (posted + 1) + j - 1]
      BY <2>2, <3>3 DEF RegionBytes
    <3> QED
      BY <3>2, <3>4 DEF BytePackets
  <2>10. stopped' = stopped /\ wire' = wire
    BY <1>1
  <2> HIDE DEF packet
  <2>11. Stream!Post(packet)
    BY <1>3, <2>8, <2>10 DEF Stream!Post
  <2> QED
    BY <2>9, <2>11 DEF Stream!Next
<1> QED
  BY <1>2, <1>3

\* A write that completes sends the first packet; the next one is taken.
LEMMA OnSendIsStreamSend ==
    ASSUME IInv, IInv', NEW w \in writing, OnSend(w)
    PROVE  Stream!Send
<1>1. w \in Region /\ TypeOK /\ TypeOK' /\ OneWrite /\ OneWrite' /\ sendPackets \in Seq(Region)
  BY DEF IInv, TypeOK
<1>2. Active(w)
  BY <1>1, RegionIsSome DEF Active
<1>3. ~stopped /\ ToSend = <<w>> \o sendPackets
  BY <1>1, <1>2, ActiveRuns, ActiveFirst DEF ActiveIsFirst
<1>4. /\ wire' = wire \o BytesOf(w, w.len)
      /\ UNCHANGED <<buffer, stopped, toSend>>
      /\ writing' = writing \ {w}
      /\ GetNextPostBuffer
  BY DEF OnSend
<1>5. (\A p \in Posters : toSend[p] = NoRegion) /\ next = NoRegion /\ writing = {w}
  BY <1>1 DEF OneWrite
<1>6. ToSend' = sendPackets
  <2>1. CASE sendPackets = <<>>
    <3>1. next' = NoRegion /\ sendPackets' = <<>>
      BY <1>4, <1>5, <2>1 DEF GetNextPostBuffer
    <3>2. InHand' = {}
      BY <1>4, <1>5, <3>1 DEF InHand
    <3> QED
      BY <2>1, <3>1, <3>2 DEF ToSend
  <2>2. CASE sendPackets # <<>>
    <3>1. next' = Head(sendPackets) /\ sendPackets' = Tail(sendPackets)
      BY <1>4, <2>2 DEF GetNextPostBuffer
    <3>2. Head(sendPackets) \in Region
      BY <1>1, <2>2
    <3>3. PICK r \in Region : r = Head(sendPackets)
      BY <3>2
    <3>4. Active(r)'
      BY <3>1, <3>3, RegionIsSome DEF Active
    <3>5. ToSend' = <<r>> \o Tail(sendPackets)
      BY <1>1, <3>1, <3>4, ActiveFirstNext DEF ActiveIsFirst
    <3> QED
      BY <1>1, <2>2, <3>3, <3>5
  <2> QED
    BY <2>1, <2>2
<1>7. Pending = Bytes(buffer, ToSend) /\ Pending' = Bytes(buffer, sendPackets)
  BY <1>4, <1>6, PendingBytes DEF Pending, Bytes, RegionBytes, BytesOf
<1>8. Pending # <<>> /\ Head(Pending) = RegionBytes(buffer, w) /\ Tail(Pending) = Pending'
  BY <1>1, <1>3, <1>7, BytesBehind
<1>9. BytesOf(w, w.len) = RegionBytes(buffer, w)
  BY DEF BytesOf, RegionBytes
<1>10. Head(Pending) # <<>>
  <2>1. w.len \in Nat /\ w.len > 0
    BY <1>1 DEF OnSend, Region
  <2>2. Len(BytesOf(w, w.len)) = w.len
    BY <2>1 DEF BytesOf
  <2> QED
    BY <1>8, <1>9, <2>1, <2>2, EmptySeq
<1> QED
  BY <1>3, <1>4, <1>8, <1>9, <1>10 DEF Stream!Send

\* Nothing follows an empty packet.
LEMMA OnSendEmptyIsStreamStop ==
    ASSUME IInv, NEW w \in writing, OnSendEmpty(w)
    PROVE  Stream!Stop
<1>1. w \in Region /\ TypeOK /\ OneWrite /\ sendPackets \in Seq(Region)
  BY DEF IInv, TypeOK
<1>2. Active(w)
  BY <1>1, RegionIsSome DEF Active
<1>3. ~stopped /\ ToSend = <<w>> \o sendPackets
  BY <1>1, <1>2, ActiveRuns, ActiveFirst DEF ActiveIsFirst
<1>4. w.len = 0 /\ stopped' /\ wire' = wire
  BY DEF OnSendEmpty
<1>5. Pending # <<>> /\ Head(Pending) = RegionBytes(buffer, w)
  BY <1>1, <1>3, PendingBytes, BytesBehind
<1>6. RegionBytes(buffer, w) = <<>>
  BY <1>4 DEF RegionBytes
<1> QED
  BY <1>3, <1>4, <1>5, <1>6 DEF Stream!Stop

\* A write that fails sends a part of the first packet, and nothing follows.
LEMMA OnSendErrorIsStreamFail ==
    ASSUME IInv, IInv', NEW w \in writing, OnSendError(w)
    PROVE  Stream!Fail
<1>1. w \in Region /\ TypeOK /\ OneWrite /\ sendPackets \in Seq(Region)
  BY DEF IInv, TypeOK
<1>2. Active(w)
  BY <1>1, RegionIsSome DEF Active
<1>3. ~stopped /\ ToSend = <<w>> \o sendPackets /\ Writes(buffer, w, sendPackets, Sent, posted)
  BY <1>1, <1>2, ActiveRuns, ActiveFirst DEF ActiveIsFirst
<1>4. PICK n \in 0 .. w.len - 1 : wire' = wire \o BytesOf(w, n)
  BY DEF OnSendError
<1>5. stopped'
  BY DEF OnSendError
<1>6. Pending # <<>> /\ Head(Pending) = RegionBytes(buffer, w)
  BY <1>1, <1>3, PendingBytes, BytesBehind
<1>7. w.len \in Nat /\ n \in Nat /\ n < w.len /\ InBuffer(w) /\ w.len \in 0 .. w.len /\ n \in 0 .. w.len
  BY <1>1, <1>3, RegionPlaces DEF Writes
<1>8. RegionBytes(buffer, w) = BytesOf(w, w.len)
  BY DEF BytesOf, RegionBytes
<1>9. /\ BytesOf(w, w.len) \in Seq(Nat) /\ Len(BytesOf(w, w.len)) = w.len
      /\ \A i \in 1 .. w.len : BytesOf(w, w.len)[i] = buffer[w.pos + i - 1]
      /\ BytesOf(w, n) \in Seq(Nat) /\ Len(BytesOf(w, n)) = n
      /\ \A i \in 1 .. n : BytesOf(w, n)[i] = buffer[w.pos + i - 1]
  BY <1>1, <1>7, BytesOfRegion
<1>10. SubSeq(BytesOf(w, w.len), 1, n) = BytesOf(w, n)
  <2> DEFINE whole == BytesOf(w, w.len)
             part == BytesOf(w, n)
  <2> HIDE DEF whole, part
  <2>1. /\ whole \in Seq(Nat) /\ Len(whole) = w.len
        /\ \A i \in 1 .. w.len : whole[i] = buffer[w.pos + i - 1]
    BY <1>9 DEF whole
  <2>2. /\ part \in Seq(Nat) /\ Len(part) = n
        /\ \A i \in 1 .. n : part[i] = buffer[w.pos + i - 1]
    BY <1>9 DEF part
  <2>3. \A i \in 1 .. n : i \in 1 .. w.len /\ whole[i] = part[i]
    <3> SUFFICES ASSUME NEW i \in 1 .. n
                 PROVE  i \in 1 .. w.len /\ whole[i] = part[i]
      OBVIOUS
    <3>1. i \in 1 .. w.len
      BY <1>7
    <3>2. whole[i] = buffer[w.pos + i - 1]
      BY <2>1, <3>1
    <3>3. part[i] = buffer[w.pos + i - 1]
      BY <2>2
    <3> QED
      BY <3>1, <3>2, <3>3
  <2>4. /\ SubSeq(whole, 1, n) \in Seq(Nat) /\ Len(SubSeq(whole, 1, n)) = n
        /\ \A i \in 1 .. n : SubSeq(whole, 1, n)[i] = whole[i]
    <3>1. \A i \in 1 .. n : whole[i] \in Nat
      BY <2>1, <2>3
    <3>2. n \in Nat /\ n - 1 + 1 = n /\ (~(1 <= n) => n = 0)
      BY <1>7
    <3>3. /\ SubSeq(whole, 1, n) \in Seq(Nat)
          /\ Len(SubSeq(whole, 1, n)) = IF 1 <= n THEN n - 1 + 1 ELSE 0
          /\ \A i \in 1 .. n - 1 + 1 : SubSeq(whole, 1, n)[i] = whole[1 + i - 1]
      BY <3>1, <3>2, SubSeqProperties
    <3>4. \A i \in 1 .. n : 1 + i - 1 = i
      OBVIOUS
    <3> QED
      BY <3>2, <3>3, <3>4
  <2>5. SubSeq(whole, 1, n) = part
    BY <2>2, <2>3, <2>4, SeqEqual
  <2> QED
    BY <2>5 DEF whole, part
<1>11. n \in 0 .. Len(Head(Pending)) - 1 /\ wire' = wire \o SubSeq(Head(Pending), 1, n)
  BY <1>4, <1>6, <1>8, <1>9, <1>10
<1> QED
  BY <1>3, <1>5, <1>6, <1>11 DEF Stream!Fail

LEMMA NextIsStreamNext ==
    ASSUME BacklogFits, IInv, IInv', [Next]_vars
    PROVE  [Stream!Next]_(Stream!streamVars)
<1>1. ASSUME NEW p \in Posters, NEW len \in 0 .. MaxLength, GetPostBuffer(p, len)
      PROVE  [Stream!Next]_(Stream!streamVars)
  BY <1>1, PostIsStreamPost
<1>2. ASSUME NEW w \in writing, OnSend(w)
      PROVE  Stream!Next
  BY <1>2, OnSendIsStreamSend DEF Stream!Next
<1>3. ASSUME NEW w \in writing, OnSendError(w)
      PROVE  Stream!Next
  BY <1>3, OnSendErrorIsStreamFail DEF Stream!Next
<1>4. ASSUME NEW w \in writing, OnSendEmpty(w)
      PROVE  Stream!Next
  BY <1>4, OnSendEmptyIsStreamStop DEF Stream!Next
<1> QED
  BY <1>1, <1>2, <1>3, <1>4, HandingOnStutters DEF Next, Complete

(***************************************************************************)
(* With such a backlog the send buffer is a stream of packets for every    *)
(* size of buffer and packets and any number of posters: each goes out     *)
(* whole, unchanged and in its turn, and nothing follows a failed write or *)
(* an empty packet.                                                        *)
(***************************************************************************)
THEOREM ImplementsStreamAlways == ASSUME BacklogFits PROVE Spec => ImplementsStream
<1>1. IInv /\ IInv' /\ [Next]_vars => [Stream!Next]_(Stream!streamVars)
  BY NextIsStreamNext
<1> QED
  BY <1>1, InitIsStreamInit, IInvAlways, PTL DEF Spec, ImplementsStream, Stream!Spec
=============================================================================
