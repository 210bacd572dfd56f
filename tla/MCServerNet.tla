---------------------------- MODULE MCServerNet ----------------------------
(* Values of the constants of ServerNet for TLC.                            *)
EXTENDS ServerNetPool, ServerNetClaims, TLC

CONSTANTS io1, io2, main

TwoThreads == {io1, io2}
OneThread == {io1}
OneEach == [s \in Session |-> 1]
TwoEach == [s \in Session |-> 2]
\* Session 0 is connected to once, the others twice.
OnceThenTwice == [s \in Session |-> IF s = 0 THEN 1 ELSE 2]
NoImitation == [s \in AcceptSession |-> 0]
\* The peers of session 0 imitate an inner id once.
OfTheFirst == [s \in AcceptSession |-> IF s = 0 THEN 1 ELSE 0]
NoFaults == {}
ErrorsAndThrows == {"acceptError", "remoteGone"}
AllFaults == {"acceptError", "remoteGone", "readBytes"}
ThreadSymmetry == Permutations(TwoThreads)
=============================================================================
