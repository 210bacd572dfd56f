------------------------- MODULE SessionSendStream --------------------------
(***************************************************************************)
(* SessionSend implements PacketStream, one connection after the other:    *)
(* the packets that are pending are the one that a thread, a handler or a  *)
(* write of this use has, and those of m_SendPackets. A write without      *)
(* bytes is to it as one that failed: the connection carries no more.      *)
(***************************************************************************)
EXTENDS SessionSend

InHand ==
    {poster[p].packet : p \in PostersSending}
      \cup writes
      \cup {h.packet : h \in {h \in HandlersOk : h.pc = "send"}}

ToSend == IF InHand = {} THEN sendPackets
          ELSE <<CHOOSE packet \in InHand : TRUE>> \o sendPackets

Phase == IF state # "CONNECT" THEN "closed" ELSE IF stopped THEN "broken" ELSE "open"

Pending == IF Phase = "open" THEN [i \in 1 .. Len(ToSend) |-> <<ToSend[i]>>] ELSE <<>>

Carried == IF Phase = "closed" THEN <<>> ELSE wire

Stream == INSTANCE PacketStream WITH
              Packets <- {<<packet>> : packet \in Packet},
              phase   <- Phase,
              pending <- Pending,
              wire    <- Carried

(***************************************************************************)
(* Until a thread or handler acts in a later use than its own, every       *)
(* connection of the session is a stream of its own: it begins with        *)
(* nothing of the one before, no packet of it is lost, doubled or          *)
(* overtaken, and nothing follows a failed write or an empty packet        *)
(* (SFTCPSocket.h:34-48, 161-173, 245-301; SFTCPSendBuffer.h:37-46,        *)
(* 73-118).                                                                *)
(***************************************************************************)
ImplementsStream == Stream!Init /\ [][Stream!Next \/ mixed']_(Stream!streamVars)
=============================================================================
