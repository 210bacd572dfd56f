--------------------------- MODULE ServerNetPool ---------------------------
(***************************************************************************)
(* ServerNet implements SessionPool: the phase of a session is read off    *)
(* whatever owns it (ServerNet!Owners).                                    *)
(***************************************************************************)
EXTENDS ServerNet

IsWaiting(s) ==
    \/ at[Main] = Loc("async", s)
    \/ \E k \in {"accept", "acceptOk", "acceptErr"} : ops[s][k] > 0
    \/ \E t \in IOThreads :
          Owns(t, s) /\ (at[t].pc \in {"acceptOk", "acceptErr"} \/ at[t].why = "ACCEPT_FAILED")

IsConnected(s) ==
    \/ \E k \in {"recv", "recvOk", "recvErr"} : ops[s][k] > 0
    \/ \E t \in IOThreads :
          Owns(t, s) /\ (at[t].pc \in {"announce", "process", "postRecv"}
                           \/ at[t].why = "NETWORK_ON_CLOSE")

IsClosed(s) ==
    \/ at[Main] \in {Loc("reuse", s), Loc("reset", s)}
    \/ \E i \in DOMAIN packets : Awaits(i, s)

PhaseOf(s) ==
    IF MainAt("start") THEN "new"
    ELSE IF ~Undisturbed(s) THEN "disturbed"
    ELSE CASE IsWaiting(s)   -> "waiting"
           [] IsConnected(s) -> "connected"
           [] IsClosed(s)    -> "closed"
           [] OTHER          -> "lost"

Pool == INSTANCE SessionPool WITH
            Sessions <- AcceptSession,
            phase    <- [s \in AcceptSession |-> PhaseOf(s)],
            stopped  <- shutdown

(***************************************************************************)
(* Every step of the server moves at most one session on, in the order of  *)
(* its life cycle; no step revives a session that was lost, closes one     *)
(* twice, or accepts on one that has not been closed                       *)
(* (SFServerNet.h:180-209, 336-392; SFTCPSocket.h:118-158, 304-337). What  *)
(* happens to a session that a peer's inner id or a connection of the      *)
(* server's own has disturbed moves no other session.                      *)
(***************************************************************************)
ImplementsPool == Pool!Spec
=============================================================================
