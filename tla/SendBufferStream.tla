-------------------------- MODULE SendBufferStream --------------------------
(***************************************************************************)
(* SendBuffer implements PacketStream: the packets that are pending are    *)
(* the region that is or will be written and those of m_SendPackets, with  *)
(* the bytes the buffer holds for them now.                                *)
(***************************************************************************)
EXTENDS SendBuffer

\* The regions that a poster, OnSend or an async_write has.
InHand == ({toSend[p] : p \in Posters} \cup {next} \cup writing) \ {NoRegion}

ToSend == IF InHand = {} THEN sendPackets
          ELSE <<CHOOSE r \in InHand : TRUE>> \o sendPackets

Pending == [i \in 1 .. Len(ToSend) |-> BytesOf(ToSend[i], ToSend[i].len)]

\* Consecutive bytes of the stream.
BytePackets ==
    {[i \in 1 .. len |-> first + i - 1] : first \in 1 .. MaxBytes + 1, len \in 0 .. MaxLength}

Stream == INSTANCE PacketStream WITH
              Packets <- BytePackets,
              phase   <- IF stopped THEN "broken" ELSE "open",
              pending <- IF stopped THEN <<>> ELSE Pending

(***************************************************************************)
(* No post changes a byte of a packet that waits, no packet is sent twice, *)
(* skipped or overtaken by another thread's, what goes out is what was     *)
(* posted, and nothing follows a failed write or an empty packet, as long  *)
(* as the backlog is kept below the buffer by a packet                     *)
(* (SFTCPSendBuffer.h:49-118, SFTCPSocket.h:161-173, 245-301).             *)
(***************************************************************************)
ImplementsStream == Stream!Spec
=============================================================================
