--------------------------- MODULE MCSessionSend ---------------------------
(* Values of the constants of SessionSend for TLC.                          *)
EXTENDS SessionSendStream

\* TCP_BEARABLE_MAX_SOCKET_ERROR_COUNT of the client and the server side.
Limits == {5, 20}
=============================================================================
