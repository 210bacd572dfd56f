------------------------------ MODULE MCUdpNet ------------------------------
(* Values of the constants of UdpNet for TLC.                               *)
EXTENDS UdpNet

TwoHosts == {"host 1", "host 2"}
TwoIds == {7, 8}
OneKey == {5}
=============================================================================
