------------------------- MODULE SessionSendProofs -------------------------
(***************************************************************************)
(* Proofs about SessionSend for every number of posters, packets and uses: *)
(* each of its safety properties. UseInv says what belongs to the present  *)
(* use; ChainInv that one packet at a time is on its way; StreamInv which  *)
(* packet that is; ErrorInv how many errors there can be.                  *)
(***************************************************************************)
EXTENDS SessionSendStream, SequenceTheorems, TLAPS

OfUse(h) == h.use = use

\* Nothing of this use has happened before its accept.
Fresh ==
    /\ state # "CONNECT"
    /\ \A p \in Posters : poster[p].use # use
    /\ \A h \in handlers : ~OfUse(h)
    /\ wire = <<>> /\ ~stopped
    /\ ~mixed => ~sending /\ accepted = <<>> /\ remain = 0

UseInv ==
    /\ accepting => Fresh
    /\ writes # {} => state = "CONNECT"
    /\ \A p \in Posters : poster[p].use <= use
    /\ \A h \in handlers :
          /\ h.use <= use
          /\ OfUse(h) /\ h.outcome = "aborted" => state = "CLOSE" /\ h.pc = "ready"
          /\ OfUse(h) /\ h.outcome \notin {"ok", "aborted"} => stopped
          /\ h.pc = "send" => h.outcome = "ok"

ChainInv ==
    ~mixed =>
       /\ OneWriteInUse
       /\ Busy => sending
       /\ stopped => sending /\ ~Busy
       /\ ~sending => sendPackets = <<>>

\* A packet that is taken, but not yet on the wire.
OnItsWay ==
    \/ PostersSending # {}
    \/ writes # {}
    \/ \E h \in HandlersOk : h.pc = "send"

\* How many packets come before those that wait.
Before == IF OnItsWay THEN Len(wire) + 1 ELSE Len(wire)

NextPacket == accepted[Len(wire) + 1]

WireInv ==
    /\ Len(wire) <= Len(accepted)
    /\ \A i \in 1 .. Len(wire) : wire[i] = accepted[i]

QueueInv ==
    /\ Len(accepted) = Before + Len(sendPackets)
    /\ \A i \in 1 .. Len(sendPackets) : sendPackets[i] = accepted[Before + i]
    /\ \A p \in PostersSending : poster[p].packet = NextPacket
    /\ \A packet \in writes : packet = NextPacket
    /\ \A h \in HandlersOk : h.pc = "send" => h.packet = NextPacket

StreamInv ==
    ~mixed => /\ WireInv
              /\ RemainIsUnsent
              /\ state = "CONNECT" /\ ~stopped => QueueInv

\* Errors of this connection's writes that are still to be counted.
ToCount == {h \in handlers : OfUse(h) /\ h.outcome = "bearable"}

ErrorInv ==
    ~mixed =>
       /\ \A g, h \in ToCount : g = h
       /\ errorCount <= (IF recvEnded THEN 1 ELSE 0) + (IF stopped /\ ToCount = {} THEN 1 ELSE 0)

Inv == UseInv /\ ChainInv /\ StreamInv /\ ErrorInv
-----------------------------------------------------------------------------
LEMMA NoPackets == <<>> \in Seq(Packet)
BY EmptySeq

LEMMA TypesInit == Init => TypeOK
<1>1. 1 \in Use /\ 0 \in 0 .. MaxPosts /\ 0 \in Int /\ 0 \in Nat
  BY SessionSendAssumption DEF Use
<1>2. [p \in Posters |-> Idle] \in [Posters -> Poster]
  BY DEF Poster
<1> SUFFICES ASSUME Init PROVE TypeOK
  OBVIOUS
<1>3. sendPackets \in Seq(Packet) /\ accepted \in Seq(Packet) /\ wire \in Seq(Packet)
  BY NoPackets, Zenon DEF Init
<1> QED
  BY <1>1, <1>2, <1>3, Zenon DEF Init, TypeOK

LEMMA TypesNext == TypeOK /\ [Next]_vars => TypeOK'
<1> SUFFICES ASSUME TypeOK, [Next]_vars
             PROVE  TypeOK'
  OBVIOUS
<1> USE SessionSendAssumption DEF TypeOK
<1>1. CASE UNCHANGED vars
  BY <1>1 DEF vars, sessionVars, bufferVars, postVars, socketVars, errorVars
<1>2. ASSUME CloseSocket
      PROVE  state' = "CLOSE" /\ blocked' = FALSE /\ writes' \subseteq Packet /\ handlers' \subseteq Handler
  BY <1>2 DEF CloseSocket, Handler, Outcome
<1>3. CASE Accept \/ SetTCPSendBlock
  BY <1>3 DEF Accept, SetTCPSendBlock, sessionVars, bufferVars, postVars, socketVars, errorVars
<1>4. CASE Disconnect \/ DisconnectRequested
  BY <1>2, <1>4 DEF Disconnect, DisconnectRequested, bufferVars, postVars, errorVars
<1>5. CASE Reset
  <2>1. sendPackets' \in Seq(Packet) /\ accepted' \in Seq(Packet) /\ wire' \in Seq(Packet)
    BY <1>5, NoPackets, Zenon DEF Reset, ClearSendBuffer
  <2>2. use' \in Use
    BY <1>5 DEF Reset, Use
  <2>3. 0 \in Int /\ 0 \in Nat
    OBVIOUS
  <2> QED
    BY <1>5, <2>1, <2>2, <2>3, Zenon DEF Reset, ClearErrors, ClearSendBuffer, postVars
<1>6. ASSUME NEW p \in Posters, PostSend(p)
      PROVE  TypeOK'
  <2>1. [pc |-> "post", use |-> use, packet |-> posts + 1] \in Poster
    BY <1>6 DEF PostSend, Poster, Packet
  <2> QED
    BY <1>6, <2>1 DEF PostSend, Packet, sessionVars, bufferVars, socketVars, errorVars
<1>7. ASSUME NEW p \in Posters, poster[p] # Idle
      PROVE  /\ poster[p].use \in Use /\ poster[p].packet \in Packet
             /\ [poster[p] EXCEPT !.pc = "send"] \in Poster
  BY <1>7 DEF Poster
<1>8. Idle \in Poster
  BY DEF Poster
<1>9. ASSUME NEW packet \in Packet, NEW u, Send(packet, u)
      PROVE  writes' \subseteq Packet /\ mixed' \in BOOLEAN
  BY <1>9 DEF Send, ActsIn
<1>10. ASSUME NEW p \in Posters, PosterStep(p)
       PROVE  TypeOK'
  <2>1. poster[p] # Idle
    BY <1>10 DEF PosterStep, GetPostBuffer, SendPosted, Idle
  <2>2. CASE GetPostBuffer(p)
    <3>1. poster' \in [Posters -> Poster]
      BY <1>7, <1>8, <2>1, <2>2 DEF GetPostBuffer
    <3>2. sendPackets' \in Seq(Packet) /\ accepted' \in Seq(Packet)
      <4>1. \A s \in Seq(Packet) : Append(s, poster[p].packet) \in Seq(Packet)
        BY <1>7, <2>1, AppendProperties, Zenon
      <4> QED
        BY <2>2, <4>1 DEF GetPostBuffer
    <3>3. remain' \in Int /\ sending' \in BOOLEAN /\ mixed' \in BOOLEAN
      BY <2>2 DEF GetPostBuffer, MarkSending, ActsIn
    <3> QED
      BY <2>2, <3>1, <3>2, <3>3 DEF GetPostBuffer, sessionVars, socketVars, errorVars
  <2>3. CASE SendPosted(p)
    BY <1>7, <1>8, <1>9, <2>1, <2>3 DEF SendPosted, sessionVars, bufferVars, errorVars
  <2> QED
    BY <1>10, <2>2, <2>3 DEF PosterStep
<1>11. ASSUME NEW packet \in writes, NEW outcome \in Outcome, Complete(packet, outcome)
       PROVE  TypeOK'
  <2>1. packet \in Packet
    OBVIOUS
  <2>2. handlers' \subseteq Handler
    BY <1>11, <2>1 DEF Complete, Handler
  <2>3. wire' \in Seq(Packet) /\ stopped' \in BOOLEAN /\ writes' \subseteq Packet
    BY <1>11, <2>1 DEF Complete
  <2> QED
    BY <1>11, <2>2, <2>3 DEF Complete, sessionVars, bufferVars, postVars, errorVars
<1>12. ASSUME NEW outcome, HandleError(outcome)
       PROVE  errorCount' \in Nat /\ request' \in BOOLEAN
  <2>1. CASE UNCHANGED errorCount /\ request' = TRUE
    BY <2>1
  <2>2. ASSUME NEW count \in {1, errorCount + 1}, NEW limit \in BearableErrors,
               errorCount' = count, request' = (request \/ count > limit)
        PROVE  errorCount' \in Nat /\ request' \in BOOLEAN
    <3>1. request' \in BOOLEAN
      BY <2>2, ZenonT(10)
    <3> QED
      BY <2>2, <3>1
  <2> QED
    BY <1>12, <2>1, <2>2 DEF HandleError, CountError
<1>13. ASSUME NEW h \in handlers, NEW pc \in {"ready", "next", "send"}
       PROVE  [h EXCEPT !.pc = pc] \in Handler
  BY DEF Handler
<1>14. ASSUME NEW h \in handlers, HandlerStep(h)
       PROVE  TypeOK'
  <2>1. CASE OnSend(h)
    BY <1>13, <2>1 DEF OnSend, sessionVars, bufferVars, postVars, socketVars, errorVars
  <2>2. CASE OnSendError(h)
    BY <1>12, <2>2 DEF OnSendError, ActsIn, sessionVars, bufferVars, postVars, socketVars
  <2>3. CASE GetNextPostBuffer(h)
    <3>1. ASSUME sendPackets # <<>>
          PROVE  [h EXCEPT !.pc = "send", !.packet = Head(sendPackets)] \in Handler
      BY <3>1, HeadTailProperties DEF Handler
    <3>2. handlers' \subseteq Handler /\ sendPackets' \in Seq(Packet)
      BY <2>3, <3>1, HeadTailProperties DEF GetNextPostBuffer, TakeNext
    <3>3. sending' \in BOOLEAN /\ remain' \in Int /\ mixed' \in BOOLEAN
      BY <2>3 DEF GetNextPostBuffer, ActsIn
    <3> QED
      BY <2>3, <3>2, <3>3 DEF GetNextPostBuffer, sessionVars, postVars, socketVars, errorVars
  <2>4. CASE SendNext(h)
    <3>1. h.packet \in Packet
      BY DEF Handler
    <3> QED
      BY <1>9, <2>4, <3>1 DEF SendNext, sessionVars, bufferVars, postVars, errorVars
  <2> QED
    BY <1>14, <2>1, <2>2, <2>3, <2>4 DEF HandlerStep
<1>15. ASSUME NEW outcome, OnRecvError(outcome)
       PROVE  TypeOK'
  BY <1>12, <1>15 DEF OnRecvError, EndReceiving, sessionVars, bufferVars, postVars, socketVars
<1>16. CASE RequestReceived
  BY <1>16 DEF RequestReceived, sessionVars, bufferVars, postVars, socketVars
<1> QED
  BY <1>1, <1>3, <1>4, <1>5, <1>6, <1>10, <1>11, <1>14, <1>15, <1>16 DEF Next, Completion

-----------------------------------------------------------------------------
\* Who acts without being late belongs to the present use.
LEMMA ActsInUse ==
    ASSUME NEW u, ActsIn(u), ~mixed'
    PROVE  ~mixed /\ u = use
BY Zenon DEF ActsIn

LEMMA UseInit == Init => UseInv
BY SessionSendAssumption DEF Init, UseInv, Fresh, Idle

LEMMA UsesAreNumbers ==
    ASSUME TypeOK
    PROVE  /\ use \in Int /\ use > 0
           /\ \A p \in Posters : poster[p].use \in Int
           /\ \A h \in handlers : h.use \in Int
BY DEF TypeOK, Use, Poster, Idle, Handler

\* Where a thread is changes its use only when it returns.
LEMMA PosterMoves ==
    ASSUME TypeOK, NEW p \in Posters, poster[p] # Idle,
           NEW next \in {Idle, [poster[p] EXCEPT !.pc = "send"]},
           poster' = [poster EXCEPT ![p] = next]
    PROVE  \A q \in Posters : poster'[q].use \in {poster[q].use, 0}
<1>1. poster[p] \in [pc : {"post", "send"}, use : Use, packet : Packet]
  BY DEF TypeOK, Poster
<1>2. next.use \in {poster[p].use, 0}
  BY <1>1 DEF Idle
<1> QED
  BY <1>2 DEF TypeOK

LEMMA UseNext == TypeOK /\ UseInv /\ [Next]_vars => UseInv'
<1> SUFFICES ASSUME TypeOK, UseInv, [Next]_vars
             PROVE  UseInv'
  OBVIOUS
<1> USE DEF UseInv, Fresh, OfUse
<1>t. /\ use \in Int /\ use > 0 /\ mixed \in BOOLEAN
      /\ \A p \in Posters : poster[p].use \in Int
      /\ \A h \in handlers : h.use \in Int
      /\ poster \in [Posters -> Poster]
      /\ \A h \in handlers : h \in Handler
  BY UsesAreNumbers DEF TypeOK
<1>1. CASE UNCHANGED vars
  BY <1>1 DEF vars, sessionVars, bufferVars, postVars, socketVars, errorVars
<1>2. CASE Accept \/ SetTCPSendBlock
  BY <1>2, <1>t DEF Accept, SetTCPSendBlock, sessionVars, bufferVars, postVars, socketVars, errorVars
<1>3. CASE CloseSocket /\ state = "CONNECT" /\ UNCHANGED <<accepting, use, poster, stopped, wire, mixed>>
  BY <1>3, <1>t DEF CloseSocket
<1>4. CASE Disconnect
  BY <1>3, <1>4 DEF Disconnect, postVars
<1>5. CASE DisconnectRequested
  <2>1. CASE state = "CONNECT"
    BY <1>3, <1>5, <2>1 DEF DisconnectRequested, postVars
  <2>2. CASE state # "CONNECT"
    BY <1>5, <2>2, <1>t DEF DisconnectRequested, bufferVars, postVars
  <2> QED
    BY <2>1, <2>2
<1>6. CASE Reset
  <2>1. /\ use' = use + 1 /\ ~sending' /\ remain' = 0 /\ state' = "INIT"
        /\ accepted' = <<>> /\ wire' = <<>> /\ ~stopped'
        /\ UNCHANGED <<poster, writes, handlers>> /\ state = "CLOSE"
    BY <1>6, Zenon DEF Reset, ClearSendBuffer, postVars
  <2>2. \A p \in Posters : poster'[p].use < use'
    BY <1>t, <2>1
  <2>3. \A h \in handlers' : h.use < use'
    BY <1>t, <2>1
  <2>4. writes' = {}
    BY <2>1
  <2> QED
    BY <1>t, <2>1, <2>2, <2>3, <2>4
<1>7. ASSUME NEW p \in Posters, PostSend(p)
      PROVE  UseInv'
  BY <1>7, <1>t DEF PostSend, sessionVars, bufferVars, socketVars, errorVars
<1>8. ASSUME NEW p \in Posters, GetPostBuffer(p)
      PROVE  UseInv'
  <2>1. /\ \A q \in Posters : poster'[q].use \in {poster[q].use, 0}
        /\ UNCHANGED <<state, accepting, use, handlers, writes, wire, stopped>>
    <3>1. poster[p] # Idle
      BY <1>8 DEF GetPostBuffer, Idle
    <3>2. \E next \in {Idle, [poster[p] EXCEPT !.pc = "send"]} : poster' = [poster EXCEPT ![p] = next]
      BY <1>8, Zenon DEF GetPostBuffer
    <3>3. \A q \in Posters : poster'[q].use \in {poster[q].use, 0}
      BY <3>1, <3>2, PosterMoves
    <3> QED
      BY <1>8, <3>3 DEF GetPostBuffer, sessionVars, socketVars
  <2>2. ~mixed' => poster[p].use = use
    BY <1>8, ActsInUse DEF GetPostBuffer
  <2> QED
    BY <1>t, <2>1, <2>2
<1>9. ASSUME NEW p \in Posters, SendPosted(p)
      PROVE  UseInv'
  BY <1>9, <1>t DEF SendPosted, Send, ActsIn, Idle, sessionVars, bufferVars
<1>10. ASSUME NEW packet \in writes, NEW outcome \in Outcome \ {"aborted"}, Complete(packet, outcome)
       PROVE  UseInv'
  <2>1. stopped' = (stopped \/ outcome # "ok") /\ state = "CONNECT"
    BY <1>10 DEF Complete
  <2>2. outcome # "ok" => stopped'
    BY <2>1, Zenon
  <2>3. stopped => stopped'
    BY <2>1, Zenon
  <2> QED
    BY <1>10, <1>t, <2>1, <2>2, <2>3 DEF Complete, sessionVars, bufferVars, postVars
<1>11. ASSUME NEW h \in handlers, OnSend(h)
       PROVE  UseInv'
  BY <1>11, <1>t DEF OnSend, Handler, sessionVars, bufferVars, postVars, socketVars
<1>12. ASSUME NEW h \in handlers, OnSendError(h)
       PROVE  UseInv'
  <2>1. ~mixed' => ~mixed
    BY <1>12, ActsInUse DEF OnSendError
  <2> QED
    BY <1>12, <1>t, <2>1 DEF OnSendError, sessionVars, bufferVars, postVars, socketVars
<1>13. ASSUME NEW h \in handlers, GetNextPostBuffer(h)
       PROVE  UseInv'
  <2>1. /\ \A g \in handlers' : g \in handlers \/ (g.use = h.use /\ g.outcome = "ok")
        /\ UNCHANGED <<state, accepting, use, poster, writes, wire, stopped, accepted>>
    BY <1>13, <1>t DEF GetNextPostBuffer, TakeNext, Handler, sessionVars, postVars, socketVars
  <2>2. ~mixed' => h.use = use
    BY <1>13, ActsInUse DEF GetNextPostBuffer
  <2> QED
    BY <1>13, <1>t, <2>1, <2>2 DEF GetNextPostBuffer
<1>14. ASSUME NEW h \in handlers, SendNext(h)
       PROVE  UseInv'
  BY <1>14, <1>t DEF SendNext, Send, ActsIn, sessionVars, bufferVars, postVars
<1>15. ASSUME NEW outcome, OnRecvError(outcome)
       PROVE  UseInv'
  BY <1>15, <1>t DEF OnRecvError, sessionVars, bufferVars, postVars, socketVars
<1>16. CASE RequestReceived
  BY <1>16, <1>t DEF RequestReceived, sessionVars, bufferVars, postVars, socketVars
<1> QED
  BY <1>1, <1>2, <1>4, <1>5, <1>6, <1>7, <1>8, <1>9, <1>10, <1>11, <1>12, <1>13, <1>14, <1>15,
     <1>16
  DEF Next, PosterStep, HandlerStep, Completion

-----------------------------------------------------------------------------
LEMMA ChainInit == Init => ChainInv
BY DEF Init, ChainInv, OneWriteInUse, Busy, PostersSending, HandlersOk, Idle

\* Threads and handlers that do not move.
LEMMA SamePosters ==
    ASSUME UNCHANGED <<poster, use>>
    PROVE  PostersSending' = PostersSending
BY DEF PostersSending

LEMMA SameHandlers ==
    ASSUME UNCHANGED <<handlers, use>>
    PROVE  HandlersOk' = HandlersOk
BY DEF HandlersOk

\* After a reset all threads and handlers belong to earlier uses.
LEMMA NobodyAfterReset ==
    ASSUME TypeOK, UseInv, use' = use + 1, UNCHANGED <<poster, handlers>>
    PROVE  PostersSending' = {} /\ HandlersOk' = {}
<1>1. /\ \A p \in Posters : poster[p].use # use'
      /\ \A h \in handlers : h.use # use'
  BY UsesAreNumbers DEF UseInv
<1> QED
  BY <1>1 DEF PostersSending, HandlersOk

\* A write that Close cancels has no handler that goes on.
LEMMA CloseSocketHandlers ==
    ASSUME CloseSocket, use' = use
    PROVE  HandlersOk' = HandlersOk
<1>1. \A h \in handlers' : h \in handlers \/ h.outcome = "aborted"
  BY DEF CloseSocket
<1>2. \A h \in handlers : h \in handlers'
  BY DEF CloseSocket
<1> QED
  BY <1>1, <1>2 DEF HandlersOk

LEMMA PostSendPosters ==
    ASSUME TypeOK, NEW p \in Posters, PostSend(p)
    PROVE  PostersSending' = PostersSending
BY DEF TypeOK, PostSend, PostersSending, Idle, sessionVars

\* GetPostBuffer returns the thread's packet or queues it.
LEMMA GetPostBufferPosters ==
    ASSUME TypeOK, NEW p \in Posters, GetPostBuffer(p), poster[p].use = use
    PROVE  /\ ~sending => PostersSending' = PostersSending \cup {p}
           /\ sending => PostersSending' = PostersSending
<1> USE DEF TypeOK, GetPostBuffer, PostersSending, Idle, sessionVars
<1>1. poster[p] \in [pc : {"post", "send"}, use : Use, packet : Packet]
  BY DEF Poster
<1>2. CASE ~sending
  <2>1. /\ poster'[p].pc = "send" /\ poster'[p].use = use'
        /\ \A q \in Posters \ {p} : poster'[q] = poster[q]
    BY <1>1, <1>2
  <2> QED
    BY <1>2, <2>1
<1>3. CASE sending
  <2>1. /\ poster'[p].pc = "idle" /\ poster[p].pc = "post"
        /\ \A q \in Posters \ {p} : poster'[q] = poster[q]
    BY <1>1, <1>3
  <2> QED
    BY <1>3, <2>1
<1> QED
  BY <1>2, <1>3

LEMMA SendPostedPosters ==
    ASSUME TypeOK, NEW p \in Posters, SendPosted(p)
    PROVE  PostersSending' = PostersSending \ {p}
BY DEF TypeOK, SendPosted, PostersSending, Idle, sessionVars

\* What the steps of a handler make of the handlers that go on.
LEMMA OnSendHandlers ==
    ASSUME TypeOK, NEW h \in handlers, OnSend(h)
    PROVE  \/ state # "CONNECT" /\ HandlersOk' \subseteq HandlersOk
           \/ h \notin HandlersOk /\ HandlersOk' = HandlersOk
           \/ h \in HandlersOk
              /\ HandlersOk' = (HandlersOk \ {h}) \cup {[h EXCEPT !.pc = "next"]}
<1> USE DEF OnSend, HandlersOk, sessionVars
<1>1. h \in Handler
  BY DEF TypeOK
<1>2. /\ [h EXCEPT !.pc = "next"].use = h.use
      /\ [h EXCEPT !.pc = "next"].outcome = h.outcome
  BY <1>1 DEF Handler
<1>3. CASE state # "CONNECT"
  BY <1>3
<1>4. CASE state = "CONNECT" /\ h.outcome \in {"connection reset", "no bytes"}
  BY <1>4
<1>5. CASE state = "CONNECT" /\ h.outcome \notin {"connection reset", "no bytes"}
  BY <1>2, <1>5
<1> QED
  BY <1>3, <1>4, <1>5

LEMMA OnSendErrorHandlers ==
    ASSUME NEW h \in handlers, OnSendError(h)
    PROVE  HandlersOk' = HandlersOk
BY DEF OnSendError, HandlersOk, sessionVars

LEMMA GetNextHandlers ==
    ASSUME TypeOK, NEW h \in handlers, GetNextPostBuffer(h), h.use = use
    PROVE  /\ h \in HandlersOk
           /\ sendPackets = <<>> => HandlersOk' = HandlersOk \ {h}
           /\ sendPackets # <<>> =>
                 HandlersOk' = (HandlersOk \ {h}) \cup
                                  {[h EXCEPT !.pc = "send", !.packet = Head(sendPackets)]}
<1> DEFINE next == [h EXCEPT !.pc = "send", !.packet = Head(sendPackets)]
<1>1. h \in Handler
  BY DEF TypeOK
<1>2. next.use = use /\ next.outcome = "ok"
  BY <1>1 DEF GetNextPostBuffer, Handler
<1>3. /\ sendPackets = <<>> => handlers' = handlers \ {h}
      /\ sendPackets # <<>> => handlers' = (handlers \ {h}) \cup {next}
  BY DEF GetNextPostBuffer, TakeNext
<1> HIDE DEF next
<1>4. HandlersOk' = {g \in handlers' : g.use = use /\ g.outcome = "ok"}
  BY DEF GetNextPostBuffer, HandlersOk, sessionVars
<1>5. h \in HandlersOk
  BY DEF GetNextPostBuffer, HandlersOk
<1>6. /\ sendPackets = <<>> => HandlersOk' = HandlersOk \ {h}
      /\ sendPackets # <<>> => HandlersOk' = (HandlersOk \ {h}) \cup {next}
  BY <1>2, <1>3, <1>4 DEF HandlersOk
<1> QED
  BY <1>5, <1>6 DEF next

LEMMA SendNextHandlers ==
    ASSUME NEW h \in handlers, SendNext(h)
    PROVE  HandlersOk' = HandlersOk \ {h}
BY DEF SendNext, HandlersOk, sessionVars

LEMMA CompleteHandlers ==
    ASSUME NEW packet, NEW outcome, Complete(packet, outcome)
    PROVE  HandlersOk' =
              IF outcome = "ok"
              THEN HandlersOk \cup {[pc |-> "ready", use |-> use, packet |-> packet, outcome |-> "ok"]}
              ELSE HandlersOk
BY DEF Complete, HandlersOk, sessionVars

LEMMA ChainNext == TypeOK /\ UseInv /\ ChainInv /\ [Next]_vars => ChainInv'
<1> SUFFICES ASSUME TypeOK, UseInv, ChainInv, [Next]_vars, ~mixed'
             PROVE  ChainInv'
  BY DEF ChainInv
<1> USE DEF ChainInv, OneWriteInUse, Busy
<1>1. ASSUME ~mixed, UNCHANGED <<sending, sendPackets, writes, stopped>>,
             PostersSending' = PostersSending, HandlersOk' = HandlersOk,
             state' = state \/ state' = "CLOSE"
      PROVE  ChainInv'
  BY <1>1
<1>2. CASE UNCHANGED vars
  BY <1>1, <1>2, SamePosters, SameHandlers
  DEF vars, sessionVars, bufferVars, postVars, socketVars
<1>3. CASE SetTCPSendBlock
  BY <1>1, <1>3, SamePosters, SameHandlers DEF SetTCPSendBlock, bufferVars, postVars, socketVars
<1>4. CASE Accept
  <2>1. /\ PostersSending = {} /\ HandlersOk = {} /\ writes = {} /\ ~sending /\ ~stopped
    BY <1>4 DEF Accept, UseInv, Fresh, PostersSending, HandlersOk, OfUse
  <2>2. /\ PostersSending' = PostersSending /\ HandlersOk' = HandlersOk
        /\ UNCHANGED <<writes, sending, sendPackets, stopped>> /\ ~mixed
    BY <1>4, SamePosters, SameHandlers DEF Accept, bufferVars, postVars, socketVars
  <2> QED
    BY <2>1, <2>2
<1>5. ASSUME CloseSocket, UNCHANGED <<use, poster, sending, sendPackets, stopped, mixed>>
      PROVE  ChainInv'
  <2>1. PostersSending' = PostersSending /\ HandlersOk' = HandlersOk
    BY <1>5, SamePosters, CloseSocketHandlers
  <2> QED
    BY <1>5, <2>1 DEF CloseSocket
<1>6. CASE Disconnect
  BY <1>5, <1>6 DEF Disconnect, bufferVars, postVars
<1>7. CASE DisconnectRequested
  BY <1>1, <1>5, <1>7, SamePosters, SameHandlers DEF DisconnectRequested, bufferVars, postVars
<1>8. CASE Reset
  <2>1. PostersSending' = {} /\ HandlersOk' = {}
    BY <1>8, NobodyAfterReset DEF Reset, postVars
  <2>2. writes' = {} /\ ~stopped' /\ state' = "INIT" /\ sendPackets' = <<>> /\ ~sending'
    BY <1>8 DEF Reset, ClearSendBuffer, UseInv
  <2> QED
    BY <2>1, <2>2
<1>9. ASSUME NEW p \in Posters, PostSend(p)
      PROVE  ChainInv'
  BY <1>1, <1>9, PostSendPosters, SameHandlers DEF PostSend, sessionVars, bufferVars, socketVars
<1>10. ASSUME NEW p \in Posters, GetPostBuffer(p)
       PROVE  ChainInv'
  <2>1. ~mixed /\ poster[p].use = use
    BY <1>10, ActsInUse DEF GetPostBuffer
  <2>2. HandlersOk' = HandlersOk /\ UNCHANGED <<writes, stopped, state>> /\ sending' = TRUE
    BY <1>10, SameHandlers DEF GetPostBuffer, MarkSending, sessionVars, socketVars
  <2>3. CASE sending
    BY <1>10, <2>1, <2>2, <2>3, GetPostBufferPosters
  <2>4. CASE ~sending
    BY <1>10, <2>1, <2>2, <2>4, GetPostBufferPosters
  <2> QED
    BY <2>3, <2>4
<1>11. ASSUME NEW p \in Posters, SendPosted(p)
       PROVE  ChainInv'
  <2>1. /\ PostersSending' = PostersSending \ {p} /\ HandlersOk' = HandlersOk
        /\ UNCHANGED <<sending, sendPackets, stopped, state>>
    BY <1>11, SendPostedPosters, SameHandlers DEF SendPosted, sessionVars, bufferVars
  <2>2. CASE state = "CONNECT"
    <3>1. ~mixed /\ poster[p].use = use /\ writes' = writes \cup {poster[p].packet}
      BY <1>11, <2>2, ActsInUse DEF SendPosted, Send
    <3>2. p \in PostersSending
      BY <1>11, <3>1 DEF SendPosted, PostersSending
    <3> QED
      BY <2>1, <2>2, <3>1, <3>2
  <2>3. CASE state # "CONNECT"
    <3>1. ~mixed /\ writes' = writes
      BY <1>11, <2>3 DEF SendPosted, Send
    <3> QED
      BY <2>1, <2>3, <3>1
  <2> QED
    BY <2>2, <2>3
<1>12. ASSUME NEW packet \in writes, NEW outcome \in Outcome \ {"aborted"}, Complete(packet, outcome)
       PROVE  ChainInv'
  <2>1. /\ PostersSending' = PostersSending /\ writes' = writes \ {packet} /\ ~mixed
        /\ UNCHANGED <<sending, sendPackets, state>>
        /\ stopped' = (stopped \/ outcome # "ok")
    BY <1>12, SamePosters DEF Complete, sessionVars, bufferVars, postVars
  <2>2. PostersSending = {} /\ HandlersOk = {} /\ writes' = {} /\ sending /\ ~stopped
    BY <2>1
  <2>3. CASE outcome = "ok"
    BY <1>12, <2>1, <2>2, <2>3, CompleteHandlers
  <2>4. CASE outcome # "ok"
    BY <1>12, <2>1, <2>2, <2>4, CompleteHandlers
  <2> QED
    BY <2>3, <2>4
<1>13. ASSUME NEW h \in handlers, OnSend(h)
       PROVE  ChainInv'
  <2>1. /\ PostersSending' = PostersSending /\ ~mixed
        /\ UNCHANGED <<sending, sendPackets, stopped, state, writes>>
    BY <1>13, SamePosters DEF OnSend, sessionVars, bufferVars, postVars, socketVars
  <2>2. CASE state # "CONNECT" /\ HandlersOk' \subseteq HandlersOk
    BY <2>1, <2>2
  <2>3. CASE HandlersOk' = HandlersOk
    BY <1>1, <2>1, <2>3
  <2>4. CASE h \in HandlersOk /\ HandlersOk' = (HandlersOk \ {h}) \cup {[h EXCEPT !.pc = "next"]}
    <3>1. HandlersOk' = {[h EXCEPT !.pc = "next"]}
      BY <2>1, <2>4
    <3> QED
      BY <2>1, <2>4, <3>1
  <2> QED
    BY <1>13, <2>2, <2>3, <2>4, OnSendHandlers
<1>14. ASSUME NEW h \in handlers, OnSendError(h)
       PROVE  ChainInv'
  <2>1. ~mixed
    BY <1>14, ActsInUse DEF OnSendError
  <2> QED
    BY <1>1, <1>14, <2>1, SamePosters, OnSendErrorHandlers
    DEF OnSendError, sessionVars, bufferVars, postVars, socketVars
<1>15. ASSUME NEW h \in handlers, GetNextPostBuffer(h)
       PROVE  ChainInv'
  <2>1. ~mixed /\ h.use = use
    BY <1>15, ActsInUse DEF GetNextPostBuffer
  <2>2. /\ PostersSending' = PostersSending
        /\ UNCHANGED <<stopped, state, writes>>
    BY <1>15, SamePosters DEF GetNextPostBuffer, sessionVars, postVars, socketVars
  <2>3. h \in HandlersOk /\ HandlersOk = {h} /\ PostersSending = {} /\ writes = {} /\ ~stopped
    BY <1>15, <2>1, GetNextHandlers
  <2>4. CASE sendPackets = <<>>
    <3>1. ~sending' /\ sendPackets' = <<>>
      BY <1>15, <2>4 DEF GetNextPostBuffer, TakeNext
    <3>2. HandlersOk' = {}
      BY <1>15, <2>1, <2>3, <2>4, GetNextHandlers
    <3> QED
      BY <2>2, <2>3, <3>1, <3>2
  <2>5. CASE sendPackets # <<>>
    <3>1. sending' = TRUE
      BY <1>15, <2>5 DEF GetNextPostBuffer
    <3>2. PICK next : HandlersOk' = (HandlersOk \ {h}) \cup {next}
      BY <1>15, <2>1, <2>5, GetNextHandlers, Zenon
    <3> QED
      BY <2>2, <2>3, <3>1, <3>2
  <2> QED
    BY <2>4, <2>5
<1>16. ASSUME NEW h \in handlers, SendNext(h)
       PROVE  ChainInv'
  <2>1. /\ PostersSending' = PostersSending /\ HandlersOk' = HandlersOk \ {h}
        /\ UNCHANGED <<sending, sendPackets, stopped, state>>
    BY <1>16, SamePosters, SendNextHandlers DEF SendNext, sessionVars, bufferVars, postVars
  <2>2. CASE state = "CONNECT"
    <3>1. ~mixed /\ h.use = use /\ writes' = writes \cup {h.packet}
      BY <1>16, <2>2, ActsInUse DEF SendNext, Send
    <3>2. h \in HandlersOk
      BY <1>16, <3>1 DEF SendNext, HandlersOk, UseInv
    <3> QED
      BY <2>1, <2>2, <3>1, <3>2
  <2>3. CASE state # "CONNECT"
    <3>1. ~mixed /\ writes' = writes
      BY <1>16, <2>3 DEF SendNext, Send
    <3> QED
      BY <2>1, <2>3, <3>1
  <2> QED
    BY <2>2, <2>3
<1>17. ASSUME NEW outcome, OnRecvError(outcome)
       PROVE  ChainInv'
  BY <1>1, <1>17, SamePosters, SameHandlers DEF OnRecvError, sessionVars, bufferVars, postVars, socketVars
<1>18. CASE RequestReceived
  BY <1>1, <1>18, SamePosters, SameHandlers
  DEF RequestReceived, sessionVars, bufferVars, postVars, socketVars
<1> QED
  BY <1>2, <1>3, <1>4, <1>6, <1>7, <1>8, <1>9, <1>10, <1>11, <1>12, <1>13, <1>14, <1>15, <1>16, <1>17,
     <1>18
  DEF Next, PosterStep, HandlerStep, Completion

-----------------------------------------------------------------------------
LEMMA ErrorInit == Init => ErrorInv
BY DEF Init, ErrorInv, ToCount

LEMMA SameToCount ==
    ASSUME UNCHANGED <<handlers, use>>
    PROVE  ToCount' = ToCount
BY DEF ToCount, OfUse

LEMMA ErrorNext == TypeOK /\ UseInv /\ ChainInv /\ ErrorInv /\ [Next]_vars => ErrorInv'
<1> SUFFICES ASSUME TypeOK, UseInv, ChainInv, ErrorInv, [Next]_vars, ~mixed'
             PROVE  ErrorInv'
  BY DEF ErrorInv
<1> USE DEF ErrorInv
<1>t. errorCount \in Nat /\ stopped \in BOOLEAN /\ recvEnded \in BOOLEAN /\ request \in BOOLEAN
  BY DEF TypeOK
<1>1. ASSUME ~mixed, UNCHANGED <<errorCount, stopped, recvEnded>>, ToCount' \subseteq ToCount
      PROVE  ErrorInv'
  BY <1>1, <1>t
<1>2. CASE UNCHANGED vars
  BY <1>1, <1>2, SameToCount DEF vars, sessionVars, socketVars, errorVars
<1>3. CASE SetTCPSendBlock \/ Accept
  BY <1>1, <1>3, SameToCount DEF SetTCPSendBlock, Accept, bufferVars, postVars, socketVars, errorVars
<1>4. ASSUME CloseSocket, UNCHANGED use
      PROVE  ToCount' \subseteq ToCount
  <2>1. \A h \in handlers' : h \in handlers \/ h.outcome = "aborted"
    BY <1>4 DEF CloseSocket
  <2> QED
    BY <1>4, <2>1 DEF ToCount, OfUse
<1>5. CASE Disconnect
  BY <1>1, <1>4, <1>5 DEF Disconnect, errorVars
<1>6. CASE DisconnectRequested
  BY <1>1, <1>4, <1>6, SameToCount DEF DisconnectRequested
<1>7. CASE Reset
  <2>1. \A h \in handlers' : h.use # use'
    BY <1>7, UsesAreNumbers DEF Reset, UseInv
  <2>2. ToCount' = {} /\ errorCount' = 0 /\ ~request'
    BY <1>7, <2>1 DEF Reset, ClearErrors, ToCount, OfUse
  <2> QED
    BY <2>2
<1>8. ASSUME NEW p \in Posters, PostSend(p)
      PROVE  ErrorInv'
  BY <1>1, <1>8, SameToCount DEF PostSend, sessionVars, socketVars, errorVars
<1>9. ASSUME NEW p \in Posters, PosterStep(p)
      PROVE  ErrorInv'
  <2>1. ~mixed
    BY <1>9, ActsInUse DEF PosterStep, GetPostBuffer, SendPosted, Send
  <2> QED
    BY <1>1, <1>9, <2>1, SameToCount
    DEF PosterStep, GetPostBuffer, SendPosted, sessionVars, socketVars, errorVars
<1>10. ASSUME NEW packet \in writes, NEW outcome \in Outcome \ {"aborted"}, Complete(packet, outcome)
       PROVE  ErrorInv'
  <2> DEFINE new == [pc |-> "ready", use |-> use, packet |-> packet, outcome |-> outcome]
  <2>1. /\ handlers' = handlers \cup {new} /\ use' = use /\ ~mixed
        /\ UNCHANGED <<errorCount, recvEnded, request>>
        /\ stopped' = (stopped \/ outcome # "ok")
    BY <1>10 DEF Complete, sessionVars, errorVars
  <2>2. ~stopped
    BY <2>1 DEF ChainInv, Busy
  <2>3. ToCount = {}
    BY <2>2 DEF ToCount, UseInv
  <2>4. CASE outcome = "bearable"
    <3>1. ToCount' \subseteq {new}
      BY <2>1, <2>3 DEF ToCount, OfUse
    <3> QED
      BY <1>t, <2>1, <2>2, <2>3, <2>4, <3>1
  <2>5. CASE outcome # "bearable"
    <3>1. ToCount' = {}
      BY <2>1, <2>3, <2>5 DEF ToCount, OfUse
    <3> QED
      BY <1>t, <2>1, <2>2, <2>3, <3>1
  <2> QED
    BY <2>4, <2>5
<1>11. ASSUME NEW h \in handlers, OnSend(h)
       PROVE  ErrorInv'
  <2> DEFINE next == [h EXCEPT !.pc = "next"]
  <2>1. next.use = h.use /\ next.outcome = h.outcome
    BY DEF TypeOK, Handler
  <2>2. /\ UNCHANGED <<errorCount, stopped, recvEnded, request, use>> /\ ~mixed
        /\ handlers' = handlers \ {h} \/ handlers' = (handlers \ {h}) \cup {next}
    BY <1>11 DEF OnSend, sessionVars, socketVars, errorVars
  <2> HIDE DEF next
  <2>3. ToCount' \subseteq ToCount \/ (h \in ToCount /\ ToCount' = (ToCount \ {h}) \cup {next})
    BY <2>1, <2>2 DEF ToCount, OfUse
  <2>4. CASE h \in ToCount /\ ToCount' = (ToCount \ {h}) \cup {next}
    <3>1. ToCount' = {next}
      BY <2>2, <2>4
    <3> QED
      BY <1>t, <2>2, <2>4, <3>1
  <2> QED
    BY <1>1, <2>2, <2>3, <2>4
<1>12. ASSUME NEW h \in handlers, OnSendError(h)
       PROVE  ErrorInv'
  <2>1. ~mixed /\ h.use = use
    BY <1>12, ActsInUse DEF OnSendError
  <2>2. stopped
    BY <1>12, <2>1 DEF OnSendError, UseInv, OfUse
  <2>3. /\ UNCHANGED <<stopped, recvEnded>>
        /\ ToCount' = ToCount \ {h}
    BY <1>12 DEF OnSendError, ToCount, OfUse, sessionVars, socketVars
  <2>4. CASE h.outcome = "bearable" /\ CountError
    <3>1. h \in ToCount
      BY <2>1, <2>4 DEF ToCount, OfUse
    <3>2. ToCount' = {} /\ errorCount' <= errorCount + 1
      BY <1>t, <2>1, <2>3, <2>4, <3>1 DEF CountError
    <3>3. errorCount' \in Nat
      BY <1>t, <2>4 DEF CountError
    <3> QED
      BY <1>t, <2>1, <2>2, <2>3, <3>1, <3>2, <3>3
  <2>5. CASE UNCHANGED errorCount
    BY <1>t, <2>1, <2>2, <2>3, <2>5
  <2> QED
    BY <1>12, <2>4, <2>5 DEF OnSendError, HandleError
<1>13. ASSUME NEW h \in handlers, GetNextPostBuffer(h)
       PROVE  ErrorInv'
  <2>1. ~mixed
    BY <1>13, ActsInUse DEF GetNextPostBuffer
  <2>2. \A g \in handlers' : g \in handlers \/ g.outcome = "ok"
    BY <1>13 DEF GetNextPostBuffer, TakeNext, TypeOK, Handler
  <2>3. ToCount' \subseteq ToCount
    BY <1>13, <2>2 DEF GetNextPostBuffer, ToCount, OfUse, sessionVars
  <2> QED
    BY <1>1, <1>13, <2>1, <2>3 DEF GetNextPostBuffer, socketVars, errorVars
<1>14. ASSUME NEW h \in handlers, SendNext(h)
       PROVE  ErrorInv'
  <2>1. ~mixed
    BY <1>14, ActsInUse DEF SendNext, Send
  <2>2. ToCount' \subseteq ToCount
    BY <1>14 DEF SendNext, ToCount, OfUse, sessionVars
  <2> QED
    BY <1>1, <1>14, <2>1, <2>2 DEF SendNext, errorVars
<1>15. ASSUME NEW outcome, OnRecvError(outcome)
       PROVE  ErrorInv'
  <2>1. /\ ~recvEnded /\ recvEnded' = TRUE /\ ~mixed /\ UNCHANGED stopped /\ ToCount' = ToCount
    BY <1>15, SameToCount DEF OnRecvError, EndReceiving, sessionVars, socketVars
  <2>2. errorCount' \in Nat /\ errorCount' <= errorCount + 1
    BY <1>15, <1>t DEF OnRecvError, HandleError, CountError
  <2> QED
    BY <1>t, <2>1, <2>2
<1>16. CASE RequestReceived
  BY <1>1, <1>16, SameToCount DEF RequestReceived, sessionVars, socketVars
<1> QED
  BY <1>2, <1>3, <1>5, <1>6, <1>7, <1>8, <1>9, <1>10, <1>11, <1>12, <1>13, <1>14, <1>15, <1>16
  DEF Next, HandlerStep, Completion

-----------------------------------------------------------------------------
LEMMA NoLength == Len(<<>>) = 0
OBVIOUS

LEMMA StreamInit == Init => StreamInv
<1> SUFFICES ASSUME Init PROVE StreamInv
  OBVIOUS
<1>1. Len(wire) = 0 /\ Len(accepted) = 0 /\ state = "INIT"
  BY NoLength, Zenon DEF Init
<1> QED
  BY <1>1 DEF StreamInv, WireInv, RemainIsUnsent

\* Handlers whose packet is written, but not yet taken off the count.
Acknowledging == {h \in HandlersOk : h.pc # "send"}

\* Steps that move no packet.
LEMMA SameStream ==
    ASSUME StreamInv, ~mixed,
           UNCHANGED <<wire, accepted, sendPackets, remain, writes>>,
           PostersSending' = PostersSending, HandlersOk' = HandlersOk,
           \A p \in PostersSending : poster'[p] = poster[p],
           stopped' = stopped \/ stopped' = TRUE,
           state' = state \/ state' = "CLOSE"
    PROVE  StreamInv'
<1>1. WireInv /\ RemainIsUnsent /\ (state = "CONNECT" /\ ~stopped => QueueInv)
  BY DEF StreamInv
<1>2. WireInv'
  BY <1>1 DEF WireInv
<1>3. RemainIsUnsent'
  BY <1>1 DEF RemainIsUnsent
<1>4. ASSUME state' = "CONNECT", ~stopped'
      PROVE  QueueInv'
  <2>1. QueueInv
    BY <1>1, <1>4
  <2>2. Before' = Before /\ NextPacket' = NextPacket
    BY DEF Before, OnItsWay, NextPacket
  <2> QED
    BY <2>1, <2>2 DEF QueueInv
<1> QED
  BY <1>2, <1>3, <1>4 DEF StreamInv

\* Nothing is said of the queue once the socket is closed.
LEMMA ClosedStream ==
    ASSUME StreamInv, ~mixed, UNCHANGED <<wire, accepted>>, state' # "CONNECT"
    PROVE  StreamInv'
BY DEF StreamInv, WireInv, RemainIsUnsent

\* The packet on its way passes from one holder to another.
LEMMA PacketMoves ==
    ASSUME StreamInv, ~mixed, state = "CONNECT", ~stopped, OnItsWay, OnItsWay',
           UNCHANGED <<wire, accepted, sendPackets, remain>>,
           PostersSending' = {}, Acknowledging' = Acknowledging,
           \A packet \in writes' : packet = NextPacket,
           \A h \in HandlersOk' : h.pc = "send" => h.packet = NextPacket
    PROVE  StreamInv'
<1>1. WireInv /\ RemainIsUnsent /\ QueueInv
  BY DEF StreamInv
<1>2. WireInv'
  BY <1>1 DEF WireInv
<1>3. RemainIsUnsent'
  BY <1>1 DEF RemainIsUnsent, Acknowledging
<1>4. Before' = Before /\ NextPacket' = NextPacket
  BY DEF Before, NextPacket
<1>5. QueueInv'
  BY <1>1, <1>4 DEF QueueInv
<1> QED
  BY <1>2, <1>3, <1>5 DEF StreamInv

LEMMA GetPostBufferStream ==
    ASSUME TypeOK, UseInv, ChainInv, StreamInv, ~mixed',
           NEW p \in Posters, GetPostBuffer(p)
    PROVE  StreamInv'
<1> DEFINE packet == poster[p].packet
<1>1. ~mixed /\ poster[p].use = use
  BY ActsInUse DEF GetPostBuffer
<1>2. packet \in Packet
  BY DEF GetPostBuffer, TypeOK, Poster, Idle
<1> HIDE DEF packet
<1>3. /\ accepted' = Append(accepted, packet) /\ remain' = remain + 1
      /\ HandlersOk' = HandlersOk
      /\ UNCHANGED <<wire, writes, state, stopped>>
  BY SameHandlers DEF GetPostBuffer, packet, sessionVars, socketVars
<1>4. /\ wire \in Seq(Packet) /\ accepted \in Seq(Packet) /\ sendPackets \in Seq(Packet)
      /\ remain \in Int
  BY DEF TypeOK
<1>5. /\ Len(accepted') = Len(accepted) + 1
      /\ \A i \in 1 .. Len(accepted) : accepted'[i] = accepted[i]
      /\ accepted'[Len(accepted) + 1] = packet
  BY <1>2, <1>3, <1>4, AppendProperties
<1>6. WireInv /\ RemainIsUnsent /\ (state = "CONNECT" /\ ~stopped => QueueInv)
  BY <1>1 DEF StreamInv
<1>7. Len(wire) \in Nat /\ Len(accepted) \in Nat /\ Len(sendPackets) \in Nat
  BY <1>4
<1>8. WireInv'
  BY <1>3, <1>5, <1>6, <1>7 DEF WireInv
<1>9. RemainIsUnsent'
  BY <1>1, <1>3, <1>4, <1>5, <1>6, <1>7 DEF RemainIsUnsent
<1>10. ASSUME state = "CONNECT", ~stopped, sending
       PROVE  QueueInv'
  <2>1. sendPackets' = Append(sendPackets, packet) /\ PostersSending' = PostersSending
    BY <1>1, <1>10, GetPostBufferPosters DEF GetPostBuffer, packet
  <2>2. /\ Len(sendPackets') = Len(sendPackets) + 1
        /\ \A i \in 1 .. Len(sendPackets) : sendPackets'[i] = sendPackets[i]
        /\ sendPackets'[Len(sendPackets) + 1] = packet
    BY <1>2, <1>4, <2>1, AppendProperties
  <2>3. QueueInv
    BY <1>6, <1>10
  <2>4. Before' = Before /\ Before \in Nat /\ Before >= Len(wire)
    BY <1>3, <1>7, <2>1 DEF Before, OnItsWay
  <2>5. \A i \in 1 .. Len(sendPackets') : sendPackets'[i] = accepted'[Before' + i]
    <3> SUFFICES ASSUME NEW i \in 1 .. Len(sendPackets')
                 PROVE  sendPackets'[i] = accepted'[Before' + i]
      OBVIOUS
    <3>1. CASE i = Len(sendPackets) + 1
      BY <1>5, <1>7, <2>2, <2>3, <2>4, <3>1 DEF QueueInv
    <3>2. CASE i # Len(sendPackets) + 1
      <4>1. i \in 1 .. Len(sendPackets) /\ Before + i \in 1 .. Len(accepted)
        BY <1>7, <2>2, <2>3, <2>4, <3>2 DEF QueueInv
      <4> QED
        BY <1>5, <2>2, <2>3, <2>4, <4>1 DEF QueueInv
    <3> QED
      BY <3>1, <3>2
  <2>6. OnItsWay => NextPacket' = NextPacket
    <3>1. OnItsWay => Len(wire) + 1 \in 1 .. Len(accepted)
      BY <1>7, <2>3 DEF QueueInv, Before
    <3> QED
      BY <1>3, <1>5, <3>1 DEF NextPacket
  <2>7. \A q \in PostersSending : poster'[q] = poster[q]
    BY DEF GetPostBuffer, PostersSending, TypeOK
  <2>8. Len(accepted') = Before' + Len(sendPackets')
    BY <1>5, <1>7, <2>2, <2>3, <2>4 DEF QueueInv
  <2>9. \A q \in PostersSending' : poster'[q].packet = NextPacket'
    BY <2>1, <2>3, <2>6, <2>7 DEF QueueInv, OnItsWay
  <2>10. \A w \in writes' : w = NextPacket'
    BY <1>3, <2>3, <2>6 DEF QueueInv, OnItsWay
  <2>11. \A h \in HandlersOk' : h.pc = "send" => h.packet = NextPacket'
    BY <1>3, <2>3, <2>6 DEF QueueInv, OnItsWay
  <2> QED
    BY <2>5, <2>8, <2>9, <2>10, <2>11 DEF QueueInv
<1>11. ASSUME state = "CONNECT", ~stopped, ~sending
       PROVE  QueueInv'
  <2>1. PostersSending = {} /\ writes = {} /\ HandlersOk = {} /\ sendPackets = <<>>
    BY <1>1, <1>11 DEF ChainInv, Busy
  <2>2. PostersSending' = {p} /\ sendPackets' = sendPackets
    BY <1>1, <1>11, <2>1, GetPostBufferPosters DEF GetPostBuffer
  <2>3. Len(sendPackets) = 0
    BY <2>1, NoLength
  <2>4. Len(accepted) = Len(wire)
    BY <1>6, <1>7, <1>11, <2>1, <2>3 DEF QueueInv, Before, OnItsWay
  <2>5. Before' = Len(wire) + 1 /\ NextPacket' = packet
    BY <1>3, <1>5, <2>2, <2>4 DEF Before, OnItsWay, NextPacket
  <2>6. poster'[p].packet = packet
    <3>1. poster[p] \in [pc : {"post", "send"}, use : Use, packet : Packet]
      BY DEF GetPostBuffer, TypeOK, Poster, Idle
    <3> QED
      BY <1>11, <3>1 DEF GetPostBuffer, TypeOK, packet
  <2>7. HandlersOk' = {} /\ writes' = {} /\ Len(sendPackets') = 0
    BY <1>3, <2>1, <2>2, <2>3
  <2> QED
    BY <1>5, <1>7, <2>2, <2>4, <2>5, <2>6, <2>7 DEF QueueInv
<1> QED
  BY <1>3, <1>8, <1>9, <1>10, <1>11 DEF StreamInv

LEMMA CompleteStream ==
    ASSUME TypeOK, UseInv, ChainInv, StreamInv, ~mixed', NEW packet \in writes,
           NEW outcome \in Outcome \ {"aborted"}, Complete(packet, outcome)
    PROVE  StreamInv'
<1>1. /\ ~mixed /\ state = "CONNECT" /\ writes' = writes \ {packet}
      /\ UNCHANGED <<accepted, sendPackets, remain, state>>
      /\ PostersSending' = PostersSending
  BY SamePosters DEF Complete, UseInv, sessionVars, bufferVars, postVars
<1>2. /\ PostersSending = {} /\ HandlersOk = {} /\ writes = {packet} /\ ~stopped
  BY <1>1 DEF ChainInv, OneWriteInUse, Busy
<1>3. WireInv /\ RemainIsUnsent /\ QueueInv
  BY <1>1, <1>2 DEF StreamInv
<1>4. wire \in Seq(Packet) /\ packet \in Packet /\ remain \in Int
      /\ Len(accepted) \in Nat /\ Len(sendPackets) \in Nat
  BY DEF TypeOK
<1>5. CASE outcome # "ok"
  <2>1. HandlersOk' = HandlersOk /\ wire' = wire
    BY <1>5, CompleteHandlers DEF Complete
  <2>2. stopped'
    BY <1>5 DEF Complete
  <2>3. WireInv' /\ RemainIsUnsent'
    BY <1>1, <1>3, <2>1 DEF WireInv, RemainIsUnsent
  <2> QED
    BY <2>2, <2>3 DEF StreamInv
<1>6. CASE outcome = "ok"
  <2> DEFINE new == [pc |-> "ready", use |-> use, packet |-> packet, outcome |-> "ok"]
  <2>1. HandlersOk' = {new} /\ new.pc = "ready" /\ wire' = Append(wire, packet)
    BY <1>2, <1>6, CompleteHandlers DEF Complete
  <2> HIDE DEF new
  <2>2. /\ Len(wire') = Len(wire) + 1 /\ Len(wire) \in Nat
        /\ \A i \in 1 .. Len(wire) : wire'[i] = wire[i]
        /\ wire'[Len(wire) + 1] = packet
    BY <1>4, <2>1, AppendProperties
  <2>3. Before = Len(wire) + 1 /\ Before' = Len(wire) + 1
    BY <1>1, <1>2, <2>1, <2>2 DEF Before, OnItsWay
  <2>4. packet = accepted[Len(wire) + 1] /\ Len(wire) + 1 <= Len(accepted)
    BY <1>2, <1>3, <1>4, <2>2, <2>3 DEF QueueInv, NextPacket
  <2>5. WireInv'
    <3> SUFFICES ASSUME NEW i \in 1 .. Len(wire) + 1
                 PROVE  wire'[i] = accepted[i]
      BY <1>1, <2>2, <2>4 DEF WireInv
    <3>1. CASE i = Len(wire) + 1
      BY <2>2, <2>4, <3>1
    <3>2. CASE i # Len(wire) + 1
      BY <1>3, <2>2, <3>2 DEF WireInv
    <3> QED
      BY <3>1, <3>2
  <2>6. RemainIsUnsent'
    BY <1>1, <1>2, <1>3, <1>4, <2>1, <2>2 DEF RemainIsUnsent
  <2>7. QueueInv'
    BY <1>1, <1>2, <1>3, <2>1, <2>3 DEF QueueInv
  <2> QED
    BY <2>5, <2>6, <2>7 DEF StreamInv
<1> QED
  BY <1>5, <1>6

LEMMA GetNextStream ==
    ASSUME TypeOK, UseInv, ChainInv, StreamInv, ~mixed',
           NEW h \in handlers, GetNextPostBuffer(h)
    PROVE  StreamInv'
<1>1. ~mixed /\ h.use = use
  BY ActsInUse DEF GetNextPostBuffer
<1>2. /\ PostersSending' = PostersSending /\ remain' = remain - 1 /\ h.pc = "next"
      /\ UNCHANGED <<wire, accepted, writes, state, stopped>>
  BY SamePosters DEF GetNextPostBuffer, sessionVars, postVars, socketVars
<1>3. /\ HandlersOk = {h} /\ PostersSending = {} /\ writes = {}
  BY <1>1, GetNextHandlers DEF ChainInv, OneWriteInUse
<1>4. /\ sendPackets \in Seq(Packet) /\ remain \in Int /\ Len(wire) \in Nat
      /\ Len(accepted) \in Nat /\ Len(sendPackets) \in Nat
  BY DEF TypeOK
<1>5. WireInv /\ RemainIsUnsent /\ (state = "CONNECT" /\ ~stopped => QueueInv)
  BY <1>1 DEF StreamInv
<1>6. Before = Len(wire)
  BY <1>2, <1>3 DEF Before, OnItsWay
<1>7. WireInv'
  BY <1>2, <1>5 DEF WireInv
<1>8. CASE sendPackets = <<>>
  <2>1. HandlersOk' = {} /\ sendPackets' = sendPackets
    BY <1>1, <1>3, <1>8, GetNextHandlers DEF GetNextPostBuffer, TakeNext
  <2>2. RemainIsUnsent'
    BY <1>1, <1>2, <1>3, <1>4, <1>5, <2>1 DEF RemainIsUnsent
  <2>3. Before' = Before
    BY <1>2, <1>3, <1>6, <2>1 DEF Before, OnItsWay
  <2>4. state' = "CONNECT" /\ ~stopped' => QueueInv'
    BY <1>2, <1>3, <1>5, <2>1, <2>3 DEF QueueInv
  <2> QED
    BY <1>7, <2>2, <2>4 DEF StreamInv
<1>9. CASE sendPackets # <<>>
  <2> DEFINE next == [h EXCEPT !.pc = "send", !.packet = Head(sendPackets)]
  <2>1. HandlersOk' = {next} /\ sendPackets' = Tail(sendPackets)
    <3>1. HandlersOk' = (HandlersOk \ {h}) \cup {next}
      BY <1>1, <1>9, GetNextHandlers
    <3> QED
      BY <1>3, <1>9, <3>1 DEF GetNextPostBuffer, TakeNext
  <2>2. next.pc = "send" /\ next.packet = sendPackets[1]
    BY <1>4, <1>9 DEF TypeOK, Handler
  <2> HIDE DEF next
  <2>3. /\ Len(sendPackets') = Len(sendPackets) - 1 /\ Len(sendPackets) >= 1
        /\ \A i \in 1 .. Len(sendPackets') : sendPackets'[i] = sendPackets[i + 1]
    <3>1. Len(sendPackets) >= 1
      BY <1>4, <1>9, EmptySeq
    <3> QED
      BY <1>4, <1>9, <2>1, <3>1, HeadTailProperties
  <2>4. RemainIsUnsent'
    BY <1>1, <1>2, <1>3, <1>4, <1>5, <2>1, <2>2 DEF RemainIsUnsent
  <2>5. Before' = Len(wire) + 1
    BY <1>2, <2>1, <2>2 DEF Before, OnItsWay
  <2>6. ASSUME state = "CONNECT", ~stopped
        PROVE  QueueInv'
    <3>1. QueueInv
      BY <1>5, <2>6
    <3>2. Len(accepted') = Before' + Len(sendPackets')
      BY <1>2, <1>4, <1>6, <2>3, <2>5, <3>1 DEF QueueInv
    <3>3. next.packet = NextPacket'
      BY <1>2, <1>4, <1>6, <2>2, <2>3, <3>1 DEF QueueInv, NextPacket
    <3>4. \A i \in 1 .. Len(sendPackets') : sendPackets'[i] = accepted'[Before' + i]
      <4> SUFFICES ASSUME NEW i \in 1 .. Len(sendPackets')
                   PROVE  sendPackets'[i] = accepted'[Before' + i]
        OBVIOUS
      <4>1. i + 1 \in 1 .. Len(sendPackets) /\ Before + (i + 1) = Before' + i
        BY <1>4, <1>6, <2>3, <2>5
      <4> QED
        BY <1>2, <2>3, <3>1, <4>1 DEF QueueInv
    <3> QED
      BY <1>2, <1>3, <2>1, <3>2, <3>3, <3>4 DEF QueueInv
  <2> QED
    BY <1>2, <1>7, <2>4, <2>6 DEF StreamInv
<1> QED
  BY <1>8, <1>9

\* Send by the thread or handler that has the packet.
LEMMA SendStream ==
    ASSUME ChainInv, StreamInv, ~mixed', NEW packet, NEW u, Send(packet, u),
           UNCHANGED <<wire, accepted, sendPackets, remain, state, stopped>>,
           u = use =>
              /\ PostersSending # {} \/ \E h \in HandlersOk : h.pc = "send"
              /\ writes = {} /\ PostersSending' = {} /\ HandlersOk' = {}
              /\ \A h \in HandlersOk : h.pc = "send"
              /\ (QueueInv => packet = NextPacket)
    PROVE  StreamInv'
<1>1. CASE state = "CONNECT"
  <2>1. ~mixed /\ u = use /\ writes' = writes \cup {packet}
    BY <1>1, ActsInUse DEF Send
  <2>2. /\ OnItsWay /\ OnItsWay' /\ ~stopped
        /\ Acknowledging' = Acknowledging
    BY <2>1 DEF OnItsWay, Acknowledging, ChainInv, Busy
  <2>3. QueueInv
    BY <1>1, <2>1, <2>2 DEF StreamInv
  <2> QED
    BY <1>1, <2>1, <2>2, <2>3, PacketMoves
<1>2. CASE state # "CONNECT"
  <2>1. ~mixed
    BY <1>2 DEF Send
  <2> QED
    BY <1>2, <2>1, ClosedStream
<1> QED
  BY <1>1, <1>2

LEMMA StreamNext ==
    TypeOK /\ UseInv /\ ChainInv /\ StreamInv /\ [Next]_vars => StreamInv'
<1> SUFFICES ASSUME TypeOK, UseInv, ChainInv, StreamInv, [Next]_vars, ~mixed'
             PROVE  StreamInv'
  BY DEF StreamInv
<1>1. CASE UNCHANGED vars
  BY <1>1, SameStream, SamePosters, SameHandlers
  DEF vars, sessionVars, bufferVars, postVars, socketVars
<1>2. CASE SetTCPSendBlock
  BY <1>2, SameStream, SamePosters, SameHandlers DEF SetTCPSendBlock, bufferVars, postVars, socketVars
<1>3. CASE Accept
  <2>1. /\ PostersSending = {} /\ HandlersOk = {} /\ writes = {} /\ ~mixed
        /\ wire = <<>> /\ accepted = <<>> /\ remain = 0 /\ sendPackets = <<>>
    BY <1>3 DEF Accept, UseInv, Fresh, ChainInv, PostersSending, HandlersOk, OfUse
  <2>2. Len(wire) = 0 /\ Len(accepted) = 0 /\ Len(sendPackets) = 0
    BY <2>1, NoLength, Zenon
  <2>3. /\ PostersSending' = {} /\ HandlersOk' = {} /\ writes' = {}
        /\ UNCHANGED <<wire, accepted, remain, sendPackets>>
    BY <1>3, <2>1, SamePosters, SameHandlers DEF Accept, bufferVars, postVars, socketVars
  <2>4. Len(wire') = 0 /\ Len(accepted') = 0 /\ Len(sendPackets') = 0 /\ remain' = 0
    BY <2>1, <2>2, <2>3, Zenon
  <2> QED
    BY <2>3, <2>4 DEF StreamInv, WireInv, RemainIsUnsent, QueueInv, Before, OnItsWay
<1>4. CASE Disconnect
  BY <1>4, ClosedStream DEF Disconnect, CloseSocket, bufferVars
<1>5. CASE DisconnectRequested
  BY <1>5, ClosedStream DEF DisconnectRequested, CloseSocket, bufferVars
<1>6. CASE Reset
  <2>1. Len(wire') = 0 /\ Len(accepted') = 0 /\ state' = "INIT"
    BY <1>6, NoLength, Zenon DEF Reset
  <2> QED
    BY <2>1 DEF StreamInv, WireInv, RemainIsUnsent
<1>7. ASSUME NEW p \in Posters, PostSend(p)
      PROVE  StreamInv'
  <2>1. \A q \in PostersSending : poster'[q] = poster[q]
    BY <1>7 DEF PostSend, PostersSending, TypeOK, Idle
  <2> QED
    BY <1>7, <2>1, SameStream, PostSendPosters, SameHandlers
    DEF PostSend, sessionVars, bufferVars, socketVars
<1>8. ASSUME NEW p \in Posters, SendPosted(p)
      PROVE  StreamInv'
  <2>1. /\ PostersSending' = PostersSending \ {p} /\ HandlersOk' = HandlersOk
        /\ UNCHANGED <<wire, accepted, sendPackets, remain, state, stopped>>
    BY <1>8, SendPostedPosters, SameHandlers DEF SendPosted, sessionVars, bufferVars
  <2>2. ASSUME poster[p].use = use, ~mixed
        PROVE  /\ PostersSending = {p} /\ writes = {} /\ HandlersOk = {}
    <3>1. p \in PostersSending
      BY <1>8, <2>2 DEF SendPosted, PostersSending
    <3> QED
      BY <2>2, <3>1 DEF ChainInv, OneWriteInUse
  <2>3. ~mixed
    BY <1>8, ActsInUse DEF SendPosted, Send
  <2>4. ASSUME poster[p].use = use, QueueInv
        PROVE  poster[p].packet = NextPacket
    BY <2>2, <2>3, <2>4 DEF QueueInv
  <2>5. Send(poster[p].packet, poster[p].use)
    BY <1>8 DEF SendPosted
  <2> QED
    BY <2>1, <2>2, <2>3, <2>4, <2>5, SendStream
<1>9. ASSUME NEW h \in handlers, OnSend(h)
      PROVE  StreamInv'
  <2> DEFINE next == [h EXCEPT !.pc = "next"]
  <2>1. /\ PostersSending' = PostersSending /\ ~mixed
        /\ UNCHANGED <<wire, accepted, sendPackets, remain, writes, stopped, state, poster>>
    BY <1>9, SamePosters DEF OnSend, sessionVars, bufferVars, postVars, socketVars
  <2>2. CASE state # "CONNECT"
    BY <2>1, <2>2, ClosedStream
  <2>3. CASE HandlersOk' = HandlersOk
    BY <2>1, <2>3, SameStream
  <2>4. CASE h \in HandlersOk /\ HandlersOk' = (HandlersOk \ {h}) \cup {next}
    <3>1. next.pc = "next" /\ h.pc = "ready"
      BY <1>9 DEF OnSend, TypeOK, Handler
    <3> HIDE DEF next
    <3>2. HandlersOk = {h} /\ HandlersOk' = {next}
      BY <2>1, <2>4 DEF ChainInv, OneWriteInUse
    <3>3. Before' = Before /\ NextPacket' = NextPacket
      BY <2>1, <3>1, <3>2 DEF Before, OnItsWay, NextPacket
    <3>4. QueueInv => QueueInv'
      BY <2>1, <3>1, <3>2, <3>3 DEF QueueInv
    <3>5. WireInv => WireInv'
      BY <2>1 DEF WireInv
    <3>6. RemainIsUnsent => RemainIsUnsent'
      BY <2>1, <3>1, <3>2 DEF RemainIsUnsent
    <3> QED
      BY <2>1, <3>4, <3>5, <3>6 DEF StreamInv
  <2> QED
    BY <1>9, <2>2, <2>3, <2>4, OnSendHandlers
<1>10. ASSUME NEW h \in handlers, OnSendError(h)
       PROVE  StreamInv'
  <2>1. ~mixed
    BY <1>10, ActsInUse DEF OnSendError
  <2> QED
    BY <1>10, <2>1, SameStream, SamePosters, OnSendErrorHandlers
    DEF OnSendError, sessionVars, bufferVars, postVars, socketVars
<1>11. ASSUME NEW h \in handlers, SendNext(h)
       PROVE  StreamInv'
  <2>1. /\ PostersSending' = PostersSending /\ HandlersOk' = HandlersOk \ {h}
        /\ UNCHANGED <<wire, accepted, sendPackets, remain, state, stopped>>
        /\ h.pc = "send" /\ Send(h.packet, h.use)
    BY <1>11, SamePosters, SendNextHandlers DEF SendNext, sessionVars, bufferVars, postVars
  <2>2. ~mixed
    BY <2>1, ActsInUse DEF Send
  <2>3. ASSUME h.use = use
        PROVE  HandlersOk = {h} /\ PostersSending = {} /\ writes = {}
    <3>1. h \in HandlersOk
      BY <2>1, <2>3 DEF UseInv, HandlersOk
    <3> QED
      BY <2>2, <3>1 DEF ChainInv, OneWriteInUse
  <2>4. ASSUME h.use = use, QueueInv
        PROVE  h.packet = NextPacket
    BY <2>1, <2>3, <2>4 DEF QueueInv
  <2> QED
    BY <2>1, <2>3, <2>4, SendStream
<1>12. ASSUME NEW outcome, OnRecvError(outcome)
       PROVE  StreamInv'
  BY <1>12, SameStream, SamePosters, SameHandlers
  DEF OnRecvError, sessionVars, bufferVars, postVars, socketVars
<1>13. CASE RequestReceived
  BY <1>13, SameStream, SamePosters, SameHandlers
  DEF RequestReceived, sessionVars, bufferVars, postVars, socketVars
<1> QED
  BY <1>1, <1>2, <1>3, <1>4, <1>5, <1>6, <1>7, <1>8, <1>9, <1>10, <1>11, <1>12, <1>13,
     GetPostBufferStream, CompleteStream, GetNextStream
  DEF Next, PosterStep, HandlerStep, Completion

-----------------------------------------------------------------------------
(***************************************************************************)
(* The invariant holds in every state of every use of the session          *)
(* (SFTCPSocket.h:34-48, 130-173, 245-331, SFTCPSendBuffer.h:37-118).      *)
(***************************************************************************)
THEOREM InvAlways == Spec => [](TypeOK /\ Inv)
<1>1. Init => TypeOK /\ Inv
  BY TypesInit, UseInit, ChainInit, StreamInit, ErrorInit DEF Inv
<1>2. TypeOK /\ Inv /\ [Next]_vars => (TypeOK /\ Inv)'
  BY TypesNext, UseNext, ChainNext, StreamNext, ErrorNext DEF Inv
<1> QED
  BY <1>1, <1>2, PTL DEF Spec

(***************************************************************************)
(* One write at a time through all connections of a session, however many  *)
(* threads send, as long as nobody acts in a later use                     *)
(* (SFTCPSocket.h:161-173, SFTCPSendBuffer.h:76-113).                      *)
(***************************************************************************)
THEOREM OneWriteInUseAlways == Spec => []OneWriteInUse
<1>1. Inv => OneWriteInUse
  BY DEF Inv, ChainInv, OneWriteInUse
<1> QED
  BY <1>1, InvAlways, PTL

(***************************************************************************)
(* A peer receives what was posted on its own connection, in order         *)
(* (SFTCPSocket.h:34-48, SFTCPSendBuffer.h:94-118).                        *)
(***************************************************************************)
THEOREM WireOfThisUseAlways == Spec => []WireOfThisUse
<1>1. TypeOK /\ Inv => WireOfThisUse
  <2> SUFFICES ASSUME TypeOK, Inv, ~mixed
               PROVE  IsPrefix(wire, accepted)
    BY DEF WireOfThisUse
  <2>1. WireInv
    BY DEF Inv, StreamInv
  <2>2. wire \in Seq(Packet) /\ accepted \in Seq(Packet)
    BY DEF TypeOK
  <2>3. SubSeq(wire, 1, Len(wire)) = SubSeq(accepted, 1, Len(wire))
    BY <2>1, <2>2 DEF WireInv
  <2> QED
    BY <2>1, <2>3 DEF IsPrefix, WireInv
<1> QED
  BY <1>1, InvAlways, PTL

(***************************************************************************)
(* The count of what is unsent does not drift from one connection to the   *)
(* next (SFTCPSendBuffer.h:41-45, 88, 101).                                *)
(***************************************************************************)
THEOREM RemainIsUnsentAlways == Spec => []RemainIsUnsent
<1>1. Inv => RemainIsUnsent
  BY DEF Inv, StreamInv, RemainIsUnsent
<1> QED
  BY <1>1, InvAlways, PTL

(***************************************************************************)
(* However often a session is used, at most two errors of a connection are *)
(* counted (SFTCPSocket.h:280-286, 308-318, 373-408).                      *)
(***************************************************************************)
THEOREM ErrorsBorneAlways == Spec => []ErrorsBorne
<1>1. TypeOK /\ Inv => ErrorsBorne
  BY DEF TypeOK, Inv, ErrorInv, ErrorsBorne
<1> QED
  BY <1>1, InvAlways, PTL

-----------------------------------------------------------------------------
(* SessionSend implements PacketStream, connection by connection.           *)

\* What was accepted on this connection and is not on its wire.
Unsent == [i \in 1 .. Len(accepted) - Len(wire) |-> <<accepted[Len(wire) + i]>>]

\* While the connection is open, that is what is pending.
PendingIsUnsent ==
    TypeOK /\ Inv /\ ~mixed /\ Phase = "open" => Len(wire) <= Len(accepted) /\ Pending = Unsent

LEMMA OpenIsUnsent == PendingIsUnsent
<1> SUFFICES ASSUME TypeOK, Inv, ~mixed, Phase = "open"
             PROVE  Len(wire) <= Len(accepted) /\ Pending = Unsent
  BY DEF PendingIsUnsent
<1>1. state = "CONNECT" /\ ~stopped
  BY DEF Phase
<1>2. QueueInv /\ WireInv
  BY <1>1 DEF Inv, StreamInv
<1>3. /\ sendPackets \in Seq(Packet) /\ accepted \in Seq(Packet) /\ wire \in Seq(Packet)
      /\ Len(sendPackets) \in Nat /\ Len(accepted) \in Nat /\ Len(wire) \in Nat
  BY DEF TypeOK
<1>4. Len(ToSend) = Len(accepted) - Len(wire)
      /\ \A i \in 1 .. Len(ToSend) : ToSend[i] = accepted[Len(wire) + i]
  <2>1. CASE ~OnItsWay
    <3>1. InHand = {}
      BY <2>1 DEF InHand, OnItsWay
    <3>2. ToSend = sendPackets /\ Before = Len(wire)
      BY <2>1, <3>1 DEF ToSend, Before
    <3> QED
      BY <1>2, <1>3, <3>2 DEF QueueInv
  <2>2. CASE OnItsWay
    <3>1. InHand # {} /\ \A packet \in InHand : packet = NextPacket
      BY <1>2, <2>2 DEF InHand, OnItsWay, QueueInv
    <3>2. (CHOOSE packet \in InHand : TRUE) = NextPacket
      BY <3>1
    <3>3. ToSend = <<NextPacket>> \o sendPackets /\ Before = Len(wire) + 1
      BY <2>2, <3>1, <3>2 DEF ToSend, Before
    <3>4. /\ Len(accepted) = Len(wire) + 1 + Len(sendPackets)
          /\ \A i \in 1 .. Len(sendPackets) : sendPackets[i] = accepted[Len(wire) + 1 + i]
      BY <1>2, <3>3 DEF QueueInv
    <3>5. NextPacket = accepted[Len(wire) + 1] /\ NextPacket \in Packet
      <4>1. Len(wire) + 1 \in 1 .. Len(accepted)
        BY <1>3, <3>4
      <4> QED
        BY <1>3, <4>1 DEF NextPacket
    <3>6. /\ Len(ToSend) = 1 + Len(sendPackets)
          /\ ToSend[1] = NextPacket
          /\ \A i \in 2 .. Len(ToSend) : ToSend[i] = sendPackets[i - 1]
      BY <1>3, <3>3, <3>5
    <3>7. ASSUME NEW i \in 1 .. Len(ToSend)
          PROVE  ToSend[i] = accepted[Len(wire) + i]
      <4>1. CASE i = 1
        BY <3>5, <3>6, <4>1
      <4>2. CASE i # 1
        <5>1. i - 1 \in 1 .. Len(sendPackets) /\ i \in 2 .. Len(ToSend)
              /\ Len(wire) + 1 + (i - 1) = Len(wire) + i
          BY <1>3, <3>6, <4>2
        <5> QED
          BY <3>4, <3>6, <5>1
      <4> QED
        BY <4>1, <4>2
    <3> QED
      BY <1>3, <3>4, <3>6, <3>7
  <2> QED
    BY <2>1, <2>2
<1>5. Pending = Unsent
  BY <1>4 DEF Pending, Unsent
<1> QED
  BY <1>2, <1>5 DEF WireInv

LEMMA OpenIsUnsentNext == PendingIsUnsent'
BY OpenIsUnsent, PTL

\* What is unsent is a sequence of packets of one element.
LEMMA UnsentSeq ==
    ASSUME NEW a \in Seq(Packet), NEW w \in Nat, w <= Len(a)
    PROVE  LET u == [i \in 1 .. Len(a) - w |-> <<a[w + i]>>]
           IN  /\ u \in Seq({<<packet>> : packet \in Packet})
               /\ Len(u) = Len(a) - w
               /\ \A i \in 1 .. Len(a) - w : u[i] = <<a[w + i]>>
<1>1. Len(a) - w \in Nat /\ \A i \in 1 .. Len(a) - w : w + i \in 1 .. Len(a)
  OBVIOUS
<1>2. \A i \in 1 .. Len(a) - w : a[w + i] \in Packet
  BY <1>1
<1> QED
  BY <1>1, <1>2

\* Once somebody acted in a later use, it stays so.
LEMMA MixedStays == [Next]_vars /\ mixed => mixed'
BY Zenon DEF Next, vars, sessionVars, bufferVars, postVars, socketVars, errorVars, ActsIn,
       Accept, Disconnect, DisconnectRequested, Reset, SetTCPSendBlock, PostSend, PosterStep,
       GetPostBuffer, SendPosted, Send, Completion, Complete, HandlerStep, OnSend,
       OnSendError, GetNextPostBuffer, SendNext, OnRecvError, RequestReceived

\* Steps that neither accept a packet nor write one nor end the connection.
LEMMA NothingMoves ==
    ASSUME TypeOK /\ Inv, (TypeOK /\ Inv)', ~mixed, ~mixed',
           UNCHANGED <<state, stopped, accepted, wire>>
    PROVE  UNCHANGED Stream!streamVars
<1>1. Phase' = Phase /\ Carried' = Carried
  BY DEF Phase, Carried
<1>2. CASE Phase = "open"
  <2>1. Pending = Unsent /\ Pending' = Unsent'
    BY <1>1, <1>2, OpenIsUnsent, OpenIsUnsentNext DEF PendingIsUnsent
  <2>2. Unsent' = Unsent
    BY DEF Unsent
  <2> QED
    BY <1>1, <2>1, <2>2 DEF Stream!streamVars
<1>3. CASE Phase # "open"
  BY <1>1, <1>3 DEF Pending, Stream!streamVars
<1> QED
  BY <1>2, <1>3

\* A closed session has no stream.
LEMMA ClosedIsEmpty == Phase = "closed" => Pending = <<>> /\ Carried = <<>>
BY DEF Pending, Carried

\* Closing ends the stream; a session that is closed stays so.
LEMMA ClosingCloses ==
    ASSUME state' # "CONNECT"
    PROVE  [Stream!Close]_(Stream!streamVars)
<1>1. Phase' = "closed" /\ Pending' = <<>> /\ Carried' = <<>>
  BY DEF Phase, Pending, Carried
<1>2. CASE Phase = "closed"
  BY <1>1, <1>2, ClosedIsEmpty DEF Stream!streamVars
<1>3. CASE Phase # "closed"
  BY <1>1, <1>3 DEF Stream!Close
<1> QED
  BY <1>2, <1>3

\* The next connection begins with nothing.
LEMMA AcceptOpens ==
    ASSUME TypeOK /\ Inv, (TypeOK /\ Inv)', ~mixed, ~mixed', Accept
    PROVE  Stream!Open
<1>1. Fresh /\ UNCHANGED <<wire, accepted, stopped>> /\ state' = "CONNECT"
  BY DEF Accept, Inv, UseInv, bufferVars, socketVars
<1>2. Phase = "closed" /\ Phase' = "open"
  BY <1>1 DEF Fresh, Phase
<1>3. wire' = <<>> /\ accepted' = <<>> /\ Len(wire') = 0 /\ Len(accepted') = 0
  BY <1>1, NoLength, Zenon DEF Fresh
<1>4. Pending' = Unsent'
  BY <1>2, OpenIsUnsentNext DEF PendingIsUnsent
<1>5. Unsent' = <<>>
  BY <1>3 DEF Unsent
<1>6. Carried' = <<>>
  BY <1>2, <1>3 DEF Carried
<1> QED
  BY <1>2, <1>4, <1>5, <1>6, ClosedIsEmpty DEF Stream!Open

\* A packet that is accepted comes last.
LEMMA GetPostBufferPosts ==
    ASSUME TypeOK /\ Inv, (TypeOK /\ Inv)', ~mixed, ~mixed',
           NEW p \in Posters, GetPostBuffer(p)
    PROVE  [Stream!Next]_(Stream!streamVars)
<1>1. /\ UNCHANGED <<state, stopped, wire>>
      /\ accepted' = Append(accepted, poster[p].packet)
  BY DEF GetPostBuffer, sessionVars, socketVars
<1>2. Phase' = Phase /\ Carried' = Carried
  BY <1>1 DEF Phase, Carried
<1>3. CASE Phase = "open"
  <2>1. PICK packet \in Packet : packet = poster[p].packet
    BY DEF GetPostBuffer, TypeOK, Poster, Idle
  <2>2. /\ Pending = Unsent /\ Pending' = Unsent'
        /\ Len(wire) <= Len(accepted)
    BY <1>2, <1>3, OpenIsUnsent, OpenIsUnsentNext DEF PendingIsUnsent
  <2> DEFINE S == {<<k>> : k \in Packet}
             n == Len(accepted) - Len(wire)
  <2>3. /\ accepted \in Seq(Packet) /\ wire \in Seq(Packet)
        /\ Len(accepted) \in Nat /\ Len(wire) \in Nat /\ n \in Nat
    BY <2>2 DEF TypeOK
  <2>4. /\ accepted' \in Seq(Packet) /\ Len(accepted') = Len(accepted) + 1
        /\ accepted'[Len(accepted) + 1] = packet
        /\ \A i \in 1 .. Len(accepted) : accepted'[i] = accepted[i]
    BY <1>1, <2>1, <2>3
  <2>5. /\ Unsent \in Seq(S) /\ Len(Unsent) = n
        /\ \A i \in 1 .. n : Unsent[i] = <<accepted[Len(wire) + i]>>
    BY <2>2, <2>3, UnsentSeq DEF Unsent
  <2>6. /\ Unsent' \in Seq(S) /\ Len(Unsent') = n + 1
        /\ \A i \in 1 .. n + 1 : Unsent'[i] = <<accepted'[Len(wire) + i]>>
    <3>1. Len(wire) <= Len(accepted') /\ Len(accepted') - Len(wire) = n + 1
      BY <2>2, <2>3, <2>4
    <3>2. Unsent' = [i \in 1 .. Len(accepted') - Len(wire) |-> <<accepted'[Len(wire) + i]>>]
      BY <1>1 DEF Unsent
    <3> HIDE DEF n
    <3> QED
      BY <2>3, <2>4, <3>1, <3>2, UnsentSeq
  <2> HIDE DEF n, S
  <2>7. <<packet>> \in S
    BY DEF S
  <2>8. /\ Append(Unsent, <<packet>>) \in Seq(S) /\ Len(Append(Unsent, <<packet>>)) = n + 1
        /\ \A i \in 1 .. n : Append(Unsent, <<packet>>)[i] = Unsent[i]
        /\ Append(Unsent, <<packet>>)[n + 1] = <<packet>>
    BY <2>5, <2>7, AppendProperties
  <2>9. ASSUME NEW i \in 1 .. n + 1
        PROVE  Unsent'[i] = Append(Unsent, <<packet>>)[i]
    <3>1. CASE i = n + 1
      <4>1. Len(wire) + i = Len(accepted) + 1
        BY <2>3, <3>1 DEF n
      <4> QED
        BY <2>4, <2>6, <2>8, <3>1, <4>1
    <3>2. CASE i # n + 1
      <4>1. i \in 1 .. n /\ Len(wire) + i \in 1 .. Len(accepted)
        BY <2>2, <2>3, <3>2 DEF n
      <4> QED
        BY <2>4, <2>5, <2>6, <2>8, <4>1
    <3> QED
      BY <3>1, <3>2
  <2>10. Unsent' = Append(Unsent, <<packet>>)
    BY <2>6, <2>8, <2>9, SeqEqual
  <2>11. Stream!Post(<<packet>>)
    BY <1>2, <1>3, <2>2, <2>10 DEF Stream!Post
  <2> QED
    BY <2>11 DEF Stream!Next
<1>4. CASE Phase # "open"
  BY <1>2, <1>4 DEF Pending, Stream!streamVars
<1> QED
  BY <1>3, <1>4

\* A write in progress has the first packet of what is unsent.
LEMMA WriteHasFirst ==
    ASSUME TypeOK, Inv, ~mixed, NEW packet \in writes
    PROVE  /\ Phase = "open" /\ packet \in Packet
           /\ Len(wire) + 1 \in 1 .. Len(accepted)
           /\ packet = accepted[Len(wire) + 1]
<1>1. state = "CONNECT" /\ ~stopped
  BY DEF Inv, UseInv, ChainInv, Busy
<1>2. QueueInv
  BY <1>1 DEF Inv, StreamInv
<1>3. packet = NextPacket /\ OnItsWay
  BY <1>2 DEF QueueInv, OnItsWay
<1>4. Len(accepted) = Len(wire) + 1 + Len(sendPackets)
  BY <1>2, <1>3 DEF QueueInv, Before
<1>5. Len(accepted) \in Nat /\ Len(wire) \in Nat /\ Len(sendPackets) \in Nat /\ packet \in Packet
  BY DEF TypeOK
<1> QED
  BY <1>1, <1>3, <1>4, <1>5 DEF Phase, NextPacket

\* A write that completes sends it; one that fails ends the stream.
LEMMA CompleteSends ==
    ASSUME TypeOK /\ Inv, (TypeOK /\ Inv)', ~mixed, ~mixed',
           NEW packet \in writes, NEW outcome \in Outcome, Complete(packet, outcome)
    PROVE  Stream!Send \/ Stream!Fail
<1> DEFINE S == {<<k>> : k \in Packet}
           n == Len(accepted) - Len(wire)
<1>1. /\ Phase = "open" /\ packet \in Packet
      /\ Len(wire) + 1 \in 1 .. Len(accepted)
      /\ packet = accepted[Len(wire) + 1]
  BY WriteHasFirst
<1>2. /\ UNCHANGED <<state, accepted>>
      /\ wire' = IF outcome = "ok" THEN Append(wire, packet) ELSE wire
      /\ stopped' = (stopped \/ outcome # "ok")
  BY DEF Complete, sessionVars, bufferVars
<1>3. /\ accepted \in Seq(Packet) /\ wire \in Seq(Packet)
      /\ Len(accepted) \in Nat /\ Len(wire) \in Nat /\ n \in Nat /\ n >= 1
  BY <1>1 DEF TypeOK
<1>4. Pending = Unsent /\ Carried = wire /\ state = "CONNECT" /\ ~stopped
  BY <1>1, OpenIsUnsent DEF PendingIsUnsent, Carried, Phase
<1>5. /\ Unsent \in Seq(S) /\ Len(Unsent) = n
      /\ \A i \in 1 .. n : Unsent[i] = <<accepted[Len(wire) + i]>>
  BY <1>1, <1>3, UnsentSeq DEF Unsent
<1>6. Pending # <<>> /\ Head(Pending) = <<packet>>
  <2> HIDE DEF S, n
  <2>1. Unsent # <<>> /\ Head(Unsent) = Unsent[1] /\ 1 \in 1 .. n
    BY <1>3, <1>5
  <2> QED
    BY <1>1, <1>4, <1>5, <2>1
<1>7. CASE outcome = "ok"
  <2>1. Phase' = "open" /\ wire' = Append(wire, packet) /\ Carried' = wire'
    BY <1>2, <1>4, <1>7 DEF Phase, Carried
  <2>2. Carried' = Carried \o <<packet>>
    BY <1>1, <1>3, <1>4, <2>1, AppendIsConcat
  <2>3. Pending' = Unsent'
    BY <2>1, OpenIsUnsentNext DEF PendingIsUnsent
  <2>4. Len(wire') = Len(wire) + 1 /\ Len(wire') \in Nat /\ Len(wire') <= Len(accepted)
    BY <1>1, <1>3, <2>1
  <2>5. /\ Unsent' \in Seq(S) /\ Len(Unsent') = n - 1
        /\ \A i \in 1 .. n - 1 : Unsent'[i] = <<accepted[Len(wire) + 1 + i]>>
    <3>1. Len(accepted) - Len(wire') = n - 1
      BY <1>3, <2>4
    <3>2. Unsent' = [i \in 1 .. Len(accepted) - Len(wire') |-> <<accepted[Len(wire') + i]>>]
      BY <1>2 DEF Unsent
    <3> HIDE DEF n
    <3> QED
      BY <1>3, <2>4, <3>1, <3>2, UnsentSeq
  <2> HIDE DEF S, n
  <2>6. /\ Tail(Unsent) \in Seq(S) /\ Len(Tail(Unsent)) = n - 1
        /\ \A i \in 1 .. n - 1 : Tail(Unsent)[i] = Unsent[i + 1]
    BY <1>4, <1>5, <1>6, HeadTailProperties
  <2>7. ASSUME NEW i \in 1 .. n - 1
        PROVE  Unsent'[i] = Tail(Unsent)[i]
    <3>1. i + 1 \in 1 .. n /\ Len(wire) + 1 + i = Len(wire) + (i + 1)
      BY <1>3
    <3> QED
      BY <1>5, <2>5, <2>6, <3>1
  <2>8. Unsent' = Tail(Unsent)
    BY <2>5, <2>6, <2>7, SeqEqual
  <2>9. Head(Pending) # <<>>
    <3>1. <<packet>> # <<>>
      OBVIOUS
    <3> QED
      BY <1>6, <3>1
  <2> QED
    BY <1>1, <1>4, <1>6, <2>1, <2>2, <2>3, <2>8, <2>9 DEF Stream!Send
<1>8. CASE outcome # "ok"
  <2>1. Phase' = "broken" /\ Pending' = <<>> /\ Carried' = Carried
    BY <1>2, <1>4, <1>8 DEF Phase, Pending, Carried
  <2>2. SubSeq(<<packet>>, 1, 0) = <<>>
    BY SubSeqEmpty
  <2>3. Carried \o <<>> = Carried
    BY <1>3, <1>4, ConcatEmptySeq
  <2>4. Len(Head(Pending)) = 1
    <3>1. Len(<<packet>>) = 1
      OBVIOUS
    <3> QED
      BY <1>6, <3>1, Zenon
  <2>5. 0 \in 0 .. Len(Head(Pending)) - 1
    <3>1. 0 \in 0 .. 1 - 1
      OBVIOUS
    <3> QED
      BY <2>4, <3>1, Zenon
  <2> QED
    BY <1>1, <1>6, <2>1, <2>2, <2>3, <2>5 DEF Stream!Fail
<1> QED
  BY <1>7, <1>8

LEMMA NextIsStreamNext ==
    ASSUME TypeOK /\ Inv, (TypeOK /\ Inv)', [Next]_vars
    PROVE  [Stream!Next \/ mixed']_(Stream!streamVars)
<1> SUFFICES ASSUME ~mixed'
             PROVE  [Stream!Next]_(Stream!streamVars)
  OBVIOUS
<1>1. ~mixed
  BY MixedStays
<1>2. CASE UNCHANGED vars
  BY <1>1, <1>2, NothingMoves DEF vars, sessionVars, bufferVars, socketVars
<1>3. CASE Accept
  BY <1>1, <1>3, AcceptOpens DEF Stream!Next
<1>4. CASE Disconnect \/ DisconnectRequested \/ Reset
  <2>1. state' # "CONNECT"
    BY <1>4 DEF Disconnect, DisconnectRequested, CloseSocket, Reset
  <2> QED
    BY <2>1, ClosingCloses DEF Stream!Next
<1>5. CASE SetTCPSendBlock
  BY <1>1, <1>5, NothingMoves DEF SetTCPSendBlock, bufferVars, socketVars
<1>6. ASSUME NEW p \in Posters, PostSend(p) \/ SendPosted(p)
      PROVE  [Stream!Next]_(Stream!streamVars)
  <2>1. UNCHANGED <<state, stopped, accepted, wire>>
    BY <1>6 DEF PostSend, SendPosted, sessionVars, bufferVars, socketVars
  <2> QED
    BY <1>1, <2>1, NothingMoves
<1>7. ASSUME NEW p \in Posters, GetPostBuffer(p)
      PROVE  [Stream!Next]_(Stream!streamVars)
  BY <1>1, <1>7, GetPostBufferPosts
<1>8. CASE Completion
  <2>1. PICK packet \in writes, outcome \in Outcome : Complete(packet, outcome)
    BY <1>8 DEF Completion
  <2> QED
    BY <1>1, <2>1, CompleteSends DEF Stream!Next
<1>9. ASSUME NEW h \in handlers, HandlerStep(h)
      PROVE  [Stream!Next]_(Stream!streamVars)
  <2>1. UNCHANGED <<state, stopped, accepted, wire>>
    BY <1>9, Zenon DEF HandlerStep, OnSend, OnSendError, GetNextPostBuffer, SendNext,
                       sessionVars, bufferVars, socketVars
  <2> QED
    BY <1>1, <2>1, NothingMoves
<1>10. ASSUME NEW outcome, OnRecvError(outcome)
       PROVE  [Stream!Next]_(Stream!streamVars)
  <2>1. UNCHANGED <<state, stopped, accepted, wire>>
    BY <1>10 DEF OnRecvError, sessionVars, bufferVars, socketVars
  <2> QED
    BY <1>1, <2>1, NothingMoves
<1>11. CASE RequestReceived
  BY <1>1, <1>11, NothingMoves DEF RequestReceived, sessionVars, bufferVars, socketVars
<1> QED
  BY <1>2, <1>3, <1>4, <1>5, <1>6, <1>7, <1>8, <1>9, <1>10, <1>11 DEF Next, PosterStep

(***************************************************************************)
(* Until a thread or handler acts in a later use than its own, every       *)
(* connection of a session is a stream of its own, for every number of     *)
(* posters, packets and uses: packets go out once and in order, what one   *)
(* connection left does not reach the next, and nothing follows a failed    *)
(* write or an empty packet.                                               *)
(***************************************************************************)
THEOREM ImplementsStreamAlways == Spec => ImplementsStream
<1>1. Init => Stream!Init
  BY DEF Init, Stream!Init, Phase, Pending, Carried
<1>2. (TypeOK /\ Inv) /\ (TypeOK /\ Inv)' /\ [Next]_vars =>
         [Stream!Next \/ mixed']_(Stream!streamVars)
  BY NextIsStreamNext
<1> QED
  BY <1>1, <1>2, InvAlways, PTL DEF Spec, ImplementsStream
=============================================================================
