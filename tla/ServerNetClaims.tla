-------------------------- MODULE ServerNetClaims --------------------------
(***************************************************************************)
(* Statements of the comments of the source that the code does not keep.   *)
(***************************************************************************)
EXTENDS ServerNet

(***************************************************************************)
(* A session in use after Start always has something that will bring it    *)
(* back to Accept: "reuse of a session, it is hung on Accept again"        *)
(* (SFServerNet.h:179).                                                    *)
(***************************************************************************)
EverySessionComesBack ==
    ~MainAt("start") /\ ~MainAt("done") /\ ~shutdown =>
       \A s \in AcceptSession : Owners(s) # {}

(***************************************************************************)
(* Close "disconnects" (SFTCPSocket.h:117): when an IO thread reports the  *)
(* session closed, its socket is closed.                                   *)
(***************************************************************************)
CloseClosesSocket ==
    \A t \in IOThreads : at[t].pc = "notify" => ~sockOpen[at[t].s]

(***************************************************************************)
(* The packet with the inner id CLOSE "reports that the session has been   *)
(* disconnected" (SFDefaultPacketHandler.h:184): when Main reuses the      *)
(* session that it names, the session is not connected.                    *)
(***************************************************************************)
CloseMeansDisconnected ==
    MainAt("reuse") => sockState[at[Main].s] # "CONNECT"
=============================================================================
