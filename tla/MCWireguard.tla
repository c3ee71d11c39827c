----------------------------- MODULE MCWireguard -----------------------------
(***************************************************************************)
(* The instance of WireguardServer that TLC checks: two addresses for      *)
(* three clients, so that the pool runs out and addresses are reused, and  *)
(* three server keys, so that the file, the configuration and the          *)
(* interface can each hold another one.                                    *)
(***************************************************************************)
EXTENDS WireguardServer, TLC

CONSTANTS c1, c2, c3, k1, k2, k3

MCClient    == {c1, c2, c3}
MCServerKey == {k1, k2, k3}
AllFaults   == {"kill", "restart", "upfail"}
Symmetry    == Permutations(MCClient) \cup Permutations(MCServerKey)
=============================================================================
