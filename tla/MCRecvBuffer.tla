---------------------------- MODULE MCRecvBuffer ----------------------------
(* Values of the constants of RecvBuffer for TLC.                           *)
EXTENDS RecvBuffer

SmallPackets == {1, 2}
OddSizes == {1, 3}
=============================================================================
