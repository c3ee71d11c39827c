----------------------------- MODULE StreamData -----------------------------
(***************************************************************************)
(* The data that a shared-object rule of the Snort image keeps for a       *)
(* stream.  A rule asks Snort for its block (getRuleData); where there is  *)
(* none yet it allocates one and has Snort store it (allocRuleData,        *)
(* storeRuleData), and it stays until the stream ends.                     *)
(*                                                                         *)
(* A behaviour is that of one rule, or of the pair of rules that share a   *)
(* block, on one stream after another.  It begins with the packets that    *)
(* the flow and content options of the rule let through.  RepeatRules and  *)
(* HandshakeRules say what rules do with a packet, and StreamRules puts    *)
(* them together.                                                          *)
(***************************************************************************)
EXTENDS Naturals, Integers, Sequences

CONSTANTS
    Rules,      \* the rules to model
    Packets,    \* for each of them, what its packets hold
    MaxPackets  \* bound: for each of them, the length of the history

ASSUME RulesAssumption == /\ Rules \subseteq Nat
                          /\ DOMAIN Packets = Rules
                          /\ MaxPackets \in [Rules -> Nat]

VARIABLES
    rule,       \* the rule
    data,       \* its block for this stream, or NoData
    clock,      \* the seconds from the start of the stream to this packet
    seen,       \* history: what was evaluated with a block, or could be
    verdict     \* what the rule returned for the last packet

vars == <<rule, data, clock, seen, verdict>>

NoData == [state |-> "none"]

(* The block of a packet's evaluation: a new one has been filled with new. *)
Or(new) == IF data = NoData THEN new ELSE data

Verdict(alert) == IF alert THEN "match" ELSE "nomatch"

Init ==
    /\ rule \in Rules
    /\ data = NoData
    /\ clock = 0
    /\ seen = <<>>
    /\ verdict = "none"

(* No memory for the block, or Snort does not store it: the packet is let  *)
(* go, and the next one tries again.                                       *)
NotStored ==
    /\ data = NoData
    /\ verdict' = "nomatch"
    /\ UNCHANGED <<rule, data, clock, seen>>

(* Variant of NewStream: the block outlives its stream.                    *)
NewStreamKeeps ==
    /\ data' = data
    /\ clock' = 0
    /\ seen' = <<>>
    /\ verdict' = "none"
    /\ UNCHANGED rule

(* Another stream; the block is freed with the old one.                    *)
NewStream ==
    /\ data' = NoData
    /\ clock' = 0
    /\ seen' = <<>>
    /\ verdict' = "none"
    /\ UNCHANGED rule
=============================================================================
