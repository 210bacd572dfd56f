--------------------------- MODULE MCReceivePath ---------------------------
(* Values of the constants of ReceivePath for TLC.                          *)
EXTENDS ReceivePath

SmallAndTooBig == {1, 3}
\* In an INT16 whose greatest value is 3, 4 comes out as -4 and 8 as 0.
OneAndWrapped == {1, 4, 8}
=============================================================================
