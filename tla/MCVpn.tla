-------------------------------- MODULE MCVpn --------------------------------
(***************************************************************************)
(* The instance of VpnPki that TLC checks: two clients, two authorities    *)
(* one after the other, each of which can sign twice for a client, and an  *)
(* easyrsa of either kind.  Clients are interchangeable, and so are the    *)
(* domains: no definition names one.                                       *)
(***************************************************************************)
EXTENDS VpnPki, TLC

CONSTANTS vpn1, vpn2, alice, bob, none

TwoDomains == {vpn1, vpn2}
OneDomain  == {vpn1}
TwoNames   == {alice, bob}
Either     == BOOLEAN
AllFaults  == {"kill", "restart", "recreate", "die", "command"}
NoFault    == {}

Swaps == Permutations(TwoNames) \cup Permutations(TwoDomains)
=============================================================================
