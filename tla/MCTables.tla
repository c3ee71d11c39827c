------------------------------ MODULE MCTables ------------------------------
(***************************************************************************)
(* The two tables that rules of the Snort image keep for all streams: a    *)
(* sensor that sees DNS traffic fills the one of DnsSpoof, one that sees   *)
(* logons the one of SmbReflex.  They share nothing, so that a behaviour   *)
(* has traffic of one kind.                                                *)
(***************************************************************************)
EXTENDS DnsSpoof

CONSTANTS Size, Wrap, Challenges, Sources

VARIABLES
    traffic,                            \* the kind of traffic
    list, place, heard, asks, reported  \* the variables of SmbReflex

reflexVars == <<list, place, heard, asks, reported>>

Reflex == INSTANCE SmbReflex
            WITH index <- place, last <- asks, verdict <- reported

ASSUME ReflexAssumption == /\ Reflex!SizeAssumption
                           /\ Reflex!ChallengesAssumption
                           /\ Reflex!SourcesAssumption

TablesInit == traffic \in {"dns", "logon"} /\ Init /\ Reflex!Init

TablesNext ==
    \/ traffic = "dns" /\ Next /\ UNCHANGED <<traffic, reflexVars>>
    \/ traffic = "logon" /\ Reflex!Next /\ UNCHANGED <<traffic, vars>>

TablesSpec == TablesInit /\ [][TablesNext]_<<traffic, vars, reflexVars>>

-----------------------------------------------------------------------------
(* The instances of the properties that SmbReflex states.                  *)
ReflectionIsReported == Reflex!ReflectionIsReported

MCSymbols   == {"a", "b", "c"}
MCQuestions == {<<>>, <<"a">>, <<"a", "b">>, <<"b", "a", "c">>}
MCTxIds     == {1, 256, 257}
=============================================================================
