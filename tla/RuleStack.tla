------------------------------ MODULE RuleStack ------------------------------
(***************************************************************************)
(* What add-rule and del-rule promise of an IDS's local.rules              *)
(* (juju-charms/ids/{snort,suricata}/src/charm.py): the file is a stack of *)
(* lines over the image's own.  An add puts a rule on top, a del takes the *)
(* first line off, each at once.  A stop in the middle of one may lose the *)
(* whole file, never a part of it, and a new container starts with the     *)
(* image's file again.                                                     *)
(***************************************************************************)
EXTENDS Sequences, Naturals

CONSTANTS
    Texts,      \* the rules that can be added, each a sequence of lines
    Shipped     \* the lines of the image's file

VARIABLE stack

Init == stack = Shipped

Push(r) == stack' = r \o stack

Pop == stack # <<>> /\ stack' = Tail(stack)

Lose == stack' = <<>>

Reset == stack' = Shipped

Next ==
    \/ \E r \in Texts : Push(r)
    \/ Pop
    \/ Lose
    \/ Reset

Spec == Init /\ [][Next]_stack
=============================================================================
