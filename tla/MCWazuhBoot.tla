----------------------------- MODULE MCWazuhBoot -----------------------------
(***************************************************************************)
(* The instance of WazuhBoot that TLC checks: the two directories the      *)
(* boot scripts write into and one more, two passwords, two releases, one  *)
(* agent, and up to MaxFaults stops, crashes and failures in any place.    *)
(***************************************************************************)
EXTENDS WazuhBoot

MCDirs     == <<"api", "etc", "logs">>
MCSecrets  == {"secret1", "secret2"}
MCAgents   == {"agent1"}
MCFaults   == {"crash", "fail", "userfail"}
OnlyCrash  == {"crash"}
OnlyUser   == {"userfail"}
=============================================================================
