--------------------------- MODULE ClientRegistry ---------------------------
(***************************************************************************)
(* What the WireGuard charm promises its operator, without processes,      *)
(* files or interfaces: a registry that leases tunnel addresses to client  *)
(* keys and that serves them under one server key.                         *)
(*                                                                         *)
(* lease    the address each client holds (NoAddr: none);                  *)
(* key      the private key the server answers with;                       *)
(* durable  whether the registry would survive the tunnel being cycled.    *)
(*                                                                         *)
(* WireguardServer implements this module; see Registry there.             *)
(***************************************************************************)
CONSTANTS Client, Addr, NoAddr, Key, NoKey

VARIABLES lease, key, durable

vars == <<lease, key, durable>>

NoLease == [c \in Client |-> NoAddr]

Init == lease = NoLease /\ key = NoKey /\ durable = FALSE

(* A client is given an address nobody holds; it may hold another one,     *)
(* which it then gives up.                                                 *)
Grant(k, a) ==
    /\ \A c \in Client : lease[c] # a
    /\ lease' = [lease EXCEPT ![k] = a]
    /\ UNCHANGED <<key, durable>>

Revoke(k) ==
    /\ lease' = [lease EXCEPT ![k] = NoAddr]
    /\ UNCHANGED <<key, durable>>

(* A server without clients and without a key gets a key.                  *)
Configure(n) ==
    /\ lease = NoLease
    /\ key = NoKey
    /\ key' = n
    /\ durable' = TRUE
    /\ UNCHANGED lease

(* The durable copy is lost, or is written, under a server that runs.      *)
Detach == durable' = FALSE /\ UNCHANGED <<lease, key>>
Attach == durable' = TRUE /\ UNCHANGED <<lease, key>>

(* Everything goes at once: every lease and the key.                       *)
Wipe == lease' = NoLease /\ key' = NoKey /\ durable' = FALSE

Next ==
    \/ \E k \in Client, a \in Addr : Grant(k, a)
    \/ \E k \in Client : Revoke(k)
    \/ \E n \in Key : Configure(n)
    \/ Detach
    \/ Attach
    \/ Wipe

Spec == Init /\ [][Next]_vars

(* No address is held by two clients.                                      *)
DistinctLeases ==
    \A c, d \in Client : c # d /\ lease[c] # NoAddr => lease[c] # lease[d]

LeaseType == lease \in [Client -> Addr \cup {NoAddr}]
=============================================================================
