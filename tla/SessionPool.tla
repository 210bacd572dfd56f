---------------------------- MODULE SessionPool ----------------------------
(***************************************************************************)
(* What the pool of accept sessions promises its server: every session     *)
(* goes round waiting -> connected -> closed -> waiting, one step at a     *)
(* time. Reusing one session may lose others that are closed (the packet   *)
(* queue is emptied), and a lost session never comes back. Nothing is      *)
(* promised of a session once it has been disturbed, but that the others   *)
(* are not: they keep their phase, or are lost when they were closed.      *)
(***************************************************************************)
CONSTANT Sessions

VARIABLES
    phase,   \* what becomes of each session next
    stopped  \* the server is being released

poolVars == <<phase, stopped>>

Phase == {"new", "waiting", "connected", "closed", "lost", "disturbed"}

Closed == {s \in Sessions : phase[s] = "closed"}

\* Session s moves to phase p while the closed sessions of lost are forgotten.
Step(s, p, lost) ==
    /\ phase' = [r \in Sessions |-> IF r = s THEN p
                                    ELSE IF r \in lost THEN "lost" ELSE phase[r]]
    /\ UNCHANGED stopped

Init ==
    /\ phase = [s \in Sessions |-> "new"]
    /\ stopped = FALSE

\* Sessions are posted from the first on; the first that cannot be ends it.
Open ==
    /\ phase = [s \in Sessions |-> "new"]
    /\ phase' \in [Sessions -> {"waiting", "lost"}]
    /\ UNCHANGED stopped

Accept(s) ==
    /\ phase[s] = "waiting"
    /\ Step(s, "connected", {})

Close(s) ==
    /\ phase[s] \in {"waiting", "connected"}
    /\ \E lost \in SUBSET Closed : Step(s, "closed", lost)

Reuse(s) ==
    /\ phase[s] = "closed"
    /\ \E lost \in SUBSET Closed : Step(s, "waiting", lost)

\* A full queue forgets its oldest packet.
Overflow ==
    /\ \E lost \in SUBSET Closed :
          phase' = [s \in Sessions |-> IF s \in lost THEN "lost" ELSE phase[s]]
    /\ UNCHANGED stopped

\* Once the server stops, accepts that complete are dropped.
Drop(s) ==
    /\ stopped
    /\ phase[s] = "waiting"
    /\ Step(s, "lost", {})

\* A receive that fails after some bytes ends the connection unreported.
Break(s) ==
    /\ phase[s] = "connected"
    /\ \E lost \in SUBSET Closed : Step(s, "lost", lost)

\* The session is taken for closed although it is not.
Disturb(s) ==
    /\ phase[s] \notin {"new", "disturbed"}
    /\ \E lost \in SUBSET Closed : Step(s, "disturbed", lost)

Stop ==
    /\ ~stopped
    /\ stopped' = TRUE
    /\ UNCHANGED phase

Next ==
    \/ Open \/ Overflow \/ Stop
    \/ \E s \in Sessions : Accept(s) \/ Close(s) \/ Reuse(s) \/ Break(s) \/ Drop(s) \/ Disturb(s)

Spec == Init /\ [][Next]_poolVars
=============================================================================
