---------------------------- MODULE UdpRegistry ----------------------------
(***************************************************************************)
(* What the users of UDPSessionMgr rely on: a registry of remote addresses *)
(* in which an address has one session id and a session id one address. A  *)
(* key belongs to an entry and ends with it.                               *)
(***************************************************************************)
EXTENDS Integers

CONSTANTS
    Addresses,
    Ids,
    Keys

VARIABLE registry  \* address -> id and key of its session, where it has one

Entry == [id : Ids, key : Keys \cup {0}]

RegistryInit == registry = <<>>

Register(address, id) ==
    /\ address \notin DOMAIN registry
    /\ \A a \in DOMAIN registry : registry[a].id # id
    /\ registry' = [a \in DOMAIN registry \cup {address} |->
                      IF a = address THEN [id |-> id, key |-> 0] ELSE registry[a]]

SetKey(address, key) ==
    /\ address \in DOMAIN registry
    /\ registry' = [registry EXCEPT ![address].key = key]

Unregister(address) ==
    /\ address \in DOMAIN registry
    /\ registry' = [a \in DOMAIN registry \ {address} |-> registry[a]]

UnregisterAll == registry' = <<>>

RegistryNext ==
    \/ \E a \in Addresses :
          \/ \E id \in Ids : Register(a, id)
          \/ \E key \in Keys : SetKey(a, key)
          \/ Unregister(a)
    \/ UnregisterAll

RegistrySpec == RegistryInit /\ [][RegistryNext]_registry
=============================================================================
