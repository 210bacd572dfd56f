---------------------------- MODULE PacketStream ----------------------------
(***************************************************************************)
(* What sending on a connection promises: packets go out one at a time, in *)
(* the order in which they were posted, whole and unchanged, until a write *)
(* fails or an empty packet's turn comes; a failed write may have sent a   *)
(* part of its packet, and nothing follows either. The next connection     *)
(* begins with nothing.                                                    *)
(***************************************************************************)
EXTENDS Integers, Sequences

CONSTANT Packets  \* what may be posted: sequences of what the wire carries

VARIABLES
    phase,    \* of the connection
    pending,  \* the packets that were posted and are not yet sent
    wire      \* what the connection has carried

streamVars == <<phase, pending, wire>>

Init ==
    /\ phase \in {"closed", "open"}
    /\ pending = <<>>
    /\ wire = <<>>

Open ==
    /\ phase = "closed"
    /\ phase' = "open"
    /\ UNCHANGED <<pending, wire>>

Post(packet) ==
    /\ phase = "open"
    /\ pending' = Append(pending, packet)
    /\ UNCHANGED <<phase, wire>>

Send ==
    /\ phase = "open"
    /\ pending # <<>>
    /\ Head(pending) # <<>>
    /\ wire' = wire \o Head(pending)
    /\ pending' = Tail(pending)
    /\ UNCHANGED phase

Fail ==
    /\ phase = "open"
    /\ pending # <<>>
    /\ \E n \in 0 .. Len(Head(pending)) - 1 : wire' = wire \o SubSeq(Head(pending), 1, n)
    /\ phase' = "broken"
    /\ pending' = <<>>

Stop ==
    /\ phase = "open"
    /\ pending # <<>>
    /\ Head(pending) = <<>>
    /\ phase' = "broken"
    /\ pending' = <<>>
    /\ UNCHANGED wire

Close ==
    /\ phase # "closed"
    /\ phase' = "closed"
    /\ pending' = <<>>
    /\ wire' = <<>>

Next ==
    \/ Open \/ Send \/ Fail \/ Stop \/ Close
    \/ \E packet \in Packets : Post(packet)

Spec == Init /\ [][Next]_streamVars
=============================================================================
