---------------------------- MODULE UdpSessions ----------------------------
(***************************************************************************)
(* UDPSessionMgr: UDPSession objects are taken from the front of a pool,   *)
(* registered under an address and a session id, and put back at its end.  *)
(* The container has a unique index on either: it refuses an object whose  *)
(* id is taken, and nobody looks at the refusal.                           *)
(***************************************************************************)
EXTENDS Integers, Sequences, SequencesExt, FiniteSets

CONSTANTS
    MaxSessions,  \* nMaxSessionCount of Init
    Addresses,    \* of remote hosts, with the port
    Ids,          \* session ids
    Keys          \* crypter keys other than the initial 0

ASSUME UdpSessionsAssumption ==
    /\ MaxSessions \in Nat
    /\ Ids \subseteq Nat
    /\ Keys \subseteq Nat \ {0}

Session == 1 .. MaxSessions
NoAddress == "none"
Info == [id : Ids \cup {-1}, address : Addresses \cup {NoAddress}, key : Keys \cup {0}]

VARIABLES
    pool,        \* m_SessionPool
    registered,  \* m_UDPSessions
    info,        \* what the objects hold
    refusals     \* inserts the container refused since the pool was filled

sessionsVars == <<pool, registered, info, refusals>>

NoSessions == pool = <<>> /\ registered = {} /\ refusals = 0

SessionsInit ==
    /\ NoSessions
    /\ info = [s \in Session |-> [id |-> -1, address |-> NoAddress, key |-> 0]]

-----------------------------------------------------------------------------
\* Init, on a manager whose pool is empty: new objects.
FillPool ==
    /\ pool' = [i \in Session |-> i]
    /\ info' = [s \in Session |-> [id |-> -1, address |-> NoAddress, key |-> 0]]
    /\ UNCHANGED <<registered, refusals>>

WithAddress(address) == {s \in registered : info[s].address = address}
WithId(id) == {s \in registered : info[s].id = id}

GetUDPID(address) ==
    IF WithAddress(address) = {} THEN -1
    ELSE info[CHOOSE s \in WithAddress(address) : TRUE].id

\* Mutant of SetInfo: m_nCrypterKey is not reset.
SetInfoKeepsKey(s, id, address) ==
    info' = [info EXCEPT ![s].id = id, ![s].address = address]

SetInfo(s, id, address) ==
    info' = [info EXCEPT ![s] = [id |-> id, address |-> address, key |-> 0]]

\* AddSession of an address that is not registered, with an object in the pool.
AddSession(address, id) ==
    /\ WithAddress(address) = {}
    /\ pool # <<>>
    /\ pool' = Tail(pool)
    /\ SetInfo(Head(pool), id, address)
    /\ \/ /\ WithId(id) = {}
          /\ registered' = registered \cup {Head(pool)}
          /\ UNCHANGED refusals
       \/ /\ WithId(id) # {}
          /\ refusals' = refusals + 1
          /\ UNCHANGED registered

\* Mutant of RemoveFound: the object is not erased from the container.
RemoveFoundNotErased(s) ==
    /\ pool' = Append(pool, s)
    /\ UNCHANGED <<registered, info, refusals>>

\* Both RemoveSession functions, for the object they find.
RemoveFound(s) ==
    /\ s \in registered
    /\ pool' = Append(pool, s)
    /\ registered' = registered \ {s}
    /\ UNCHANGED <<info, refusals>>

RemoveSessionByAddress(address) == \E s \in WithAddress(address) : RemoveFound(s)

RemoveSessionById(id) == \E s \in WithId(id) : RemoveFound(s)

SetUDPPacketCrypter(id, key) ==
    /\ \E s \in WithId(id) : info' = [info EXCEPT ![s].key = key]
    /\ UNCHANGED <<pool, registered, refusals>>

\* The destructor deletes what is registered and what is in the pool.
DestroySessions ==
    /\ pool' = <<>>
    /\ registered' = {}
    /\ refusals' = 0
    /\ UNCHANGED info

-----------------------------------------------------------------------------
(***************************************************************************)
(* An object is in the pool once or registered, never both, and is missing *)
(* only for an insert that was refused, which AddSession reports as        *)
(* success: such objects are what the manager leaks                        *)
(* (SFUDPSessionMgr.h:165-171, 180-208, 246-261).                          *)
(***************************************************************************)
EverySessionOnce ==
    LET pooled == {pool[i] : i \in DOMAIN pool}
    IN  /\ IsInjective(pool)
        /\ pooled \cap registered = {}
        /\ pool # <<>> \/ registered # {} =>
              Cardinality(pooled) + Cardinality(registered) + refusals = MaxSessions

\* The registry the objects make up.
Registry ==
    [a \in {info[s].address : s \in registered} |->
        LET s == CHOOSE s \in WithAddress(a) : TRUE
        IN  [id |-> info[s].id, key |-> info[s].key]]

Abstract == INSTANCE UdpRegistry WITH registry <- Registry

(***************************************************************************)
(* Objects that are used again and again, two indices and an insert that   *)
(* may fail make up a registry in which address and id determine each      *)
(* other and no session inherits a key (SFUDPSessionMgr.h:116-208).        *)
(***************************************************************************)
ImplementsRegistry == Abstract!RegistrySpec
=============================================================================
