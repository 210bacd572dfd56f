---------------------------- MODULE SessionSend ----------------------------
(***************************************************************************)
(* Sending on a session that is used for one connection after another:     *)
(* PostSend, OnSend and the send buffer together with Close, Reset and     *)
(* accept. Threads in PostSend and handlers of writes may act later, when  *)
(* the session has been reset for the next connection: each carries the    *)
(* use of the session it belongs to, and mixed says that one has acted in  *)
(* a later use. Packets are numbers, of any length; where they lie, and    *)
(* whether there is room, is SendBuffer's: here GetPostBuffer takes every  *)
(* packet and overwrites none.                                             *)
(***************************************************************************)
EXTENDS Integers, Sequences, SequencesExt

CONSTANTS
    Posters,         \* threads that send on the session
    BearableErrors,  \* the limits of the client and of the server side
    MaxPosts,        \* bound: calls of PostSend in a run
    MaxUses          \* bound: times the session is reset

ASSUME SessionSendAssumption ==
    /\ BearableErrors \subseteq {n \in Nat : n >= 2}
    /\ MaxPosts \in Nat
    /\ MaxUses \in Nat \ {0}

Use == 1 .. MaxUses
Packet == 1 .. MaxPosts

\* How a write ends. Without bytes it ends when its packet is empty.
Outcome == {"ok", "no bytes", "aborted", "critical", "bearable", "connection reset"}

VARIABLES
    state,       \* m_nSocketState; the socket is open in CONNECT
    accepting,   \* async_accept is posted
    use,         \* how often the session was reset
    blocked,     \* m_IsTCPSendBlock
    sending,     \* m_bIsSending
    sendPackets, \* m_SendPackets
    remain,      \* m_nRemainPacketLength, in packets
    poster,      \* per thread: where it is in PostSend, the use, its packet
    writes,      \* packets of the async_writes in progress
    handlers,    \* OnSend: waiting to run, past the state test, or in Send
    errorCount,  \* m_ErrorCount.nErrorCount
    recvEnded,   \* a receive failed with some bytes: none was posted again
    request,     \* a REQ_CLOSE of the session waits in the packet queue
    posts,       \* calls of PostSend that passed its state test
    accepted,    \* packets GetPostBuffer took since the reset
    wire,        \* packets written to the socket of this use
    stopped,     \* whether a write of this use failed or had no bytes
    mixed        \* whether a thread or handler acted in a later use

sessionVars == <<state, accepting, use, blocked>>
bufferVars == <<sending, sendPackets, remain, accepted>>
postVars == <<poster, posts>>
socketVars == <<writes, wire, stopped>>
errorVars == <<errorCount, recvEnded, request>>
vars == <<sessionVars, bufferVars, postVars, socketVars, handlers, errorVars, mixed>>

Idle == [pc |-> "idle", use |-> 0, packet |-> 0]
Poster == {Idle} \cup [pc : {"post", "send"}, use : Use, packet : Packet]
Handler == [pc : {"ready", "next", "send"}, use : Use, packet : Packet, outcome : Outcome]

TypeOK ==
    /\ state \in {"INIT", "CONNECT", "CLOSE"}
    /\ accepting \in BOOLEAN
    /\ use \in Use
    /\ blocked \in BOOLEAN
    /\ sending \in BOOLEAN
    /\ sendPackets \in Seq(Packet)
    /\ remain \in Int
    /\ poster \in [Posters -> Poster]
    /\ writes \subseteq Packet
    /\ handlers \subseteq Handler
    /\ errorCount \in Nat
    /\ recvEnded \in BOOLEAN
    /\ request \in BOOLEAN
    /\ posts \in 0 .. MaxPosts
    /\ accepted \in Seq(Packet)
    /\ wire \in Seq(Packet)
    /\ stopped \in BOOLEAN
    /\ mixed \in BOOLEAN

\* The session after the first Reset, with an accept posted.
Init ==
    /\ state = "INIT"
    /\ accepting = TRUE
    /\ use = 1
    /\ blocked = FALSE
    /\ sending = FALSE
    /\ sendPackets = <<>>
    /\ remain = 0
    /\ poster = [p \in Posters |-> Idle]
    /\ writes = {}
    /\ handlers = {}
    /\ errorCount = 0
    /\ recvEnded = FALSE
    /\ request = FALSE
    /\ posts = 0
    /\ accepted = <<>>
    /\ wire = <<>>
    /\ stopped = FALSE
    /\ mixed = FALSE

ActsIn(u) == mixed' = (mixed \/ u # use)

-----------------------------------------------------------------------------
(* The session's life; ServerNet has its details.                           *)

Accept ==
    /\ accepting
    /\ accepting' = FALSE
    /\ state' = "CONNECT"
    /\ UNCHANGED <<use, blocked, bufferVars, postVars, socketVars, handlers, errorVars, mixed>>

\* The socket is closed, and its writes are aborted.
CloseSocket ==
    /\ state' = "CLOSE"
    /\ writes' = {}
    /\ handlers' = handlers \cup
          [pc : {"ready"}, use : {use}, packet : writes, outcome : {"aborted"}]
    /\ blocked' = FALSE

\* Disconnect: a receive failed without bytes, or the application's wish.
Disconnect ==
    /\ state = "CONNECT"
    /\ CloseSocket
    /\ UNCHANGED <<accepting, use, bufferVars, postVars, wire, stopped, errorVars, mixed>>

\* Main takes REQ_CLOSE and disconnects the session.
DisconnectRequested ==
    /\ request
    /\ request' = FALSE
    /\ \/ state = "CONNECT" /\ CloseSocket
       \/ state # "CONNECT" /\ state' = "CLOSE" /\ blocked' = FALSE
          /\ UNCHANGED <<writes, handlers>>
    /\ UNCHANGED <<accepting, use, bufferVars, postVars, wire, stopped, errorCount, recvEnded, mixed>>

\* Mutant of ClearSendBuffer: m_nRemainPacketLength is kept.
ClearSendBufferRemain ==
    /\ UNCHANGED remain
    /\ sending' = FALSE
    /\ sendPackets' = <<>>

\* Mutant of ClearSendBuffer: m_SendPackets is kept.
ClearSendBufferPackets ==
    /\ UNCHANGED sendPackets
    /\ sending' = FALSE
    /\ remain' = 0

\* BasicTCPSendBuffer::Clear.
ClearSendBuffer ==
    /\ sending' = FALSE
    /\ remain' = 0
    /\ sendPackets' = <<>>

\* Mutant of ClearErrors: m_ErrorCount is kept.
ClearErrorsNot == UNCHANGED errorCount

ClearErrors == errorCount' = 0

\* Main reuses the session after its CLOSE: Reset, which also clears the
\* packet queue and with it a REQ_CLOSE. A receive that ended with some bytes
\* never brings a CLOSE.
Reset ==
    /\ state = "CLOSE"
    /\ ~accepting
    /\ ~recvEnded
    /\ use < MaxUses
    /\ use' = use + 1
    /\ state' = "INIT"
    /\ accepting' = TRUE
    /\ blocked' = FALSE
    /\ ClearErrors
    /\ ClearSendBuffer
    /\ request' = FALSE
    /\ accepted' = <<>>
    /\ wire' = <<>>
    /\ stopped' = FALSE
    /\ UNCHANGED <<postVars, writes, handlers, recvEnded, mixed>>

SetTCPSendBlock ==
    /\ state = "CONNECT" /\ ~blocked
    /\ blocked' = TRUE
    /\ UNCHANGED <<state, accepting, use, bufferVars, postVars, socketVars, handlers, errorVars, mixed>>

-----------------------------------------------------------------------------
(* PostSend.                                                                *)

\* SendTCP and PostSend up to its state test.
PostSend(p) ==
    /\ poster[p] = Idle
    /\ ~blocked
    /\ state = "CONNECT"
    /\ posts < MaxPosts
    /\ posts' = posts + 1
    /\ poster' = [poster EXCEPT ![p] = [pc |-> "post", use |-> use, packet |-> posts + 1]]
    /\ UNCHANGED <<sessionVars, bufferVars, socketVars, handlers, errorVars, mixed>>

\* Mutant of MarkSending: m_bIsSending is not set.
MarkSendingNot == UNCHANGED sending

MarkSending == sending' = TRUE

GetPostBuffer(p) ==
    /\ poster[p].pc = "post"
    /\ accepted' = Append(accepted, poster[p].packet)
    /\ remain' = remain + 1
    /\ MarkSending
    /\ \/ /\ ~sending
          /\ poster' = [poster EXCEPT ![p].pc = "send"]
          /\ UNCHANGED sendPackets
       \/ /\ sending
          /\ sendPackets' = Append(sendPackets, poster[p].packet)
          /\ poster' = [poster EXCEPT ![p] = Idle]
    /\ ActsIn(poster[p].use)
    /\ UNCHANGED <<sessionVars, posts, socketVars, handlers, errorVars>>

\* Send: async_write on the socket as it is now, or nothing. A write has the
\* number of its packet.
Send(packet, u) ==
    \/ /\ state = "CONNECT"
       /\ writes' = writes \cup {packet}
       /\ ActsIn(u)
    \/ /\ state # "CONNECT"
       /\ UNCHANGED <<writes, mixed>>

SendPosted(p) ==
    /\ poster[p].pc = "send"
    /\ Send(poster[p].packet, poster[p].use)
    /\ poster' = [poster EXCEPT ![p] = Idle]
    /\ UNCHANGED <<sessionVars, bufferVars, posts, wire, stopped, handlers, errorVars>>

-----------------------------------------------------------------------------
(* Completions.                                                             *)

\* A write comes to its end; its handler waits for a thread.
Complete(packet, outcome) ==
    /\ packet \in writes
    /\ writes' = writes \ {packet}
    /\ handlers' = handlers \cup
          {[pc |-> "ready", use |-> use, packet |-> packet, outcome |-> outcome]}
    /\ wire' = IF outcome = "ok" THEN Append(wire, packet) ELSE wire
    /\ stopped' = (stopped \/ outcome # "ok")
    /\ UNCHANGED <<sessionVars, bufferVars, postVars, errorVars, mixed>>

\* OnSend up to its state test, and its returns on a connection reset and when
\* no bytes were sent: m_bIsSending stays set.
OnSend(h) ==
    /\ h.pc = "ready"
    /\ handlers' = IF state # "CONNECT" \/ h.outcome \in {"connection reset", "no bytes"}
                   THEN handlers \ {h}
                   ELSE (handlers \ {h}) \cup {[h EXCEPT !.pc = "next"]}
    /\ UNCHANGED <<sessionVars, bufferVars, postVars, socketVars, errorVars, mixed>>

\* IsSocketErrorMaxOver: too much time since the last error begins the count
\* anew; m_bClientConnection, which is never set, chooses the limit.
CountError ==
    \E count \in {1, errorCount + 1}, limit \in BearableErrors :
       /\ errorCount' = count
       /\ request' = (request \/ count > limit)

\* An error: critical unless it is one of a few. An aborted write is critical.
HandleError(outcome) ==
    \/ outcome = "bearable" /\ CountError
    \/ outcome \in {"critical", "aborted"} /\ request' = TRUE /\ UNCHANGED errorCount

OnSendError(h) ==
    /\ h.pc = "next" /\ h.outcome # "ok"
    /\ HandleError(h.outcome)
    /\ handlers' = handlers \ {h}
    /\ ActsIn(h.use)
    /\ UNCHANGED <<sessionVars, bufferVars, postVars, socketVars, recvEnded>>

\* Mutant of TakeNext: the newest packet first.
TakeNextNewest(h) ==
    /\ sendPackets' = IF sendPackets = <<>> THEN <<>> ELSE Front(sendPackets)
    /\ handlers' = IF sendPackets = <<>> THEN handlers \ {h}
                   ELSE (handlers \ {h}) \cup
                           {[h EXCEPT !.pc = "send", !.packet = Last(sendPackets)]}

\* Mutant of TakeNext: packets that wait are not looked for.
TakeNextNothing(h) == handlers' = handlers \ {h} /\ UNCHANGED sendPackets

\* The packet that was queued first goes to Send.
TakeNext(h) ==
    /\ sendPackets' = IF sendPackets = <<>> THEN <<>> ELSE Tail(sendPackets)
    /\ handlers' = IF sendPackets = <<>> THEN handlers \ {h}
                   ELSE (handlers \ {h}) \cup
                           {[h EXCEPT !.pc = "send", !.packet = Head(sendPackets)]}

GetNextPostBuffer(h) ==
    /\ h.pc = "next" /\ h.outcome = "ok"
    /\ remain' = remain - 1
    /\ sending' = (sendPackets # <<>>)
    /\ TakeNext(h)
    /\ ActsIn(h.use)
    /\ UNCHANGED <<sessionVars, accepted, postVars, socketVars, errorVars>>

SendNext(h) ==
    /\ h.pc = "send"
    /\ Send(h.packet, h.use)
    /\ handlers' = handlers \ {h}
    /\ UNCHANGED <<sessionVars, bufferVars, postVars, wire, stopped, errorVars>>

EndReceiving == recvEnded' = TRUE

\* OnRecv with an error and some bytes: the socket is not closed.
OnRecvError(outcome) ==
    /\ state = "CONNECT" /\ ~recvEnded
    /\ HandleError(outcome)
    /\ EndReceiving
    /\ UNCHANGED <<sessionVars, bufferVars, postVars, socketVars, handlers, mixed>>

\* A received packet that the store refuses, or a peer's own REQ_CLOSE: the
\* receive goes on.
RequestReceived ==
    /\ state = "CONNECT" /\ ~recvEnded
    /\ request' = TRUE
    /\ UNCHANGED <<sessionVars, bufferVars, postVars, socketVars, handlers,
                   errorCount, recvEnded, mixed>>

-----------------------------------------------------------------------------
HandlerStep(h) == OnSend(h) \/ OnSendError(h) \/ GetNextPostBuffer(h) \/ SendNext(h)

PosterStep(p) == GetPostBuffer(p) \/ SendPosted(p)

Completion ==
    \E packet \in writes, outcome \in Outcome \ {"aborted"} : Complete(packet, outcome)

Next ==
    \/ Accept
    \/ Disconnect
    \/ DisconnectRequested
    \/ Reset
    \/ SetTCPSendBlock
    \/ \E p \in Posters : PostSend(p) \/ PosterStep(p)
    \/ Completion
    \/ \E h \in handlers : HandlerStep(h)
    \/ \E outcome \in {"critical", "bearable"} : OnRecvError(outcome)
    \/ RequestReceived

\* Threads go on, and a write in progress completes.
Fairness ==
    /\ \A p \in Posters : WF_vars(PosterStep(p))
    /\ WF_vars(Completion)
    /\ WF_vars(\E h \in handlers : HandlerStep(h))

Spec == Init /\ [][Next]_vars /\ Fairness

-----------------------------------------------------------------------------
\* Threads and handlers of this use that have or will have a write.
PostersSending == {p \in Posters : poster[p].pc = "send" /\ poster[p].use = use}
HandlersOk == {h \in handlers : h.use = use /\ h.outcome = "ok"}

Busy == PostersSending # {} \/ writes # {} \/ HandlersOk # {}

(***************************************************************************)
(* As long as no thread or handler of an earlier use acts on it, the       *)
(* session has one write at a time through all its connections, and        *)
(* m_bIsSending says whether there is one until a write fails or an empty  *)
(* packet's completes (SFTCPSocket.h:161-173, 245-301,                     *)
(* SFTCPSendBuffer.h:37-46, 76-113).                                       *)
(***************************************************************************)
OneWriteInUse ==
    ~mixed =>
       /\ \A p, q \in PostersSending : p = q
       /\ \A g, h \in HandlersOk : g = h
       /\ \A v, w \in writes : v = w
       /\ PostersSending # {} => writes = {} /\ HandlersOk = {}
       /\ writes # {} => HandlersOk = {}
       /\ state = "CONNECT" /\ ~stopped => (sending <=> Busy)

(***************************************************************************)
(* A peer receives what was posted on its own connection, in order and     *)
(* without gaps, although buffer and queue were used by others before it   *)
(* (SFTCPSocket.h:34-48, SFTCPSendBuffer.h:37-46, 94-118).                 *)
(***************************************************************************)
WireOfThisUse == ~mixed => IsPrefix(wire, accepted)

(***************************************************************************)
(* m_nRemainPacketLength, on which the next post's place depends, is what  *)
(* was accepted and not yet acknowledged, and does not drift from one      *)
(* connection to the next (SFTCPSendBuffer.h:41-45, 88, 101).              *)
(***************************************************************************)
RemainIsUnsent ==
    ~mixed /\ state = "CONNECT" =>
       LET acknowledging == {h \in HandlersOk : h.pc # "send"}
       IN  remain = IF acknowledging = {} THEN Len(accepted) - Len(wire)
                    ELSE Len(accepted) - Len(wire) + 1

(***************************************************************************)
(* Of a connection at most two errors are counted, one of a write and one  *)
(* of a receive, because either chain ends with it: the limits, between    *)
(* which an uninitialised flag chooses, are never reached                  *)
(* (SFTCPSocket.h:280-286, 308-318, 373-408).                              *)
(***************************************************************************)
ErrorsBorne == ~mixed => errorCount <= 2

(***************************************************************************)
(* A packet that was accepted is sent, unless its connection ends, one of  *)
(* its writes fails or a packet of it is empty, on every connection the    *)
(* session is used for (SFTCPSocket.h:289-299, SFTCPSendBuffer.h:94-118).  *)
(***************************************************************************)
AllSentInUse ==
    \A u \in Use, k \in Packet :
       use = u /\ state = "CONNECT" /\ Len(accepted) >= k ~>
          Len(wire) >= k \/ state # "CONNECT" \/ use # u \/ stopped \/ mixed
=============================================================================
