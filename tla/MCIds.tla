-------------------------------- MODULE MCIds --------------------------------
(***************************************************************************)
(* The instance of IdsService that TLC checks: a unit of either charm, a   *)
(* rule of one line and one of two, an image's file of one line, and room  *)
(* for two sensors, so that OneSensor is not the bound's doing.            *)
(***************************************************************************)
EXTENDS IdsService

CONSTANTS short, long

MCRules    == {short, long}
MCHeight   == [r \in MCRules |-> IF r = long THEN 2 ELSE 1]
BothCharms == {"snort", "suricata"}
SnortOnly  == {"snort"}
AllFaults  == {"kill", "restart", "die", "command"}
NoFault    == {}
=============================================================================
