----------------------------- MODULE StreamRules -----------------------------
(***************************************************************************)
(* The rules of RepeatRules and HandshakeRules on the streams of a sensor. *)
(* Rules share nothing and a block is that of one stream, so that one rule *)
(* on one stream after another is all there is to see.                     *)
(***************************************************************************)
EXTENDS RepeatRules, HandshakeRules

Eval(p) ==
    /\ Len(seen) < MaxPackets[rule]
    /\ Count(p) \/ Compare(p)
    /\ UNCHANGED rule

Next == (\E p \in Packets[rule] : Eval(p)) \/ NotStored \/ NewStream

Spec == Init /\ [][Next]_vars

-----------------------------------------------------------------------------
TypeOK ==
    /\ rule \in Rules
    /\ clock \in 0..MaxClock
    /\ verdict \in {"none", "match", "nomatch"}
    /\ RepeatTypeOK
    /\ HandshakeTypeOK
=============================================================================
