---------------------------- MODULE RecentRecords ----------------------------
(***************************************************************************)
(* What a table that rules fill "round robin" promises: it holds the last  *)
(* Capacity records stored since the sensor started, each with its age,    *)
(* and nothing else.  DnsSpoof has a rule that keeps such a table.         *)
(***************************************************************************)
EXTENDS Naturals

CONSTANTS
    Capacity,   \* how many records are kept
    Records,    \* what can be stored
    Empty       \* the content of a place that nothing was stored in

VARIABLE recent \* by age: recent[0] is the record stored last

Ages    == 0..(Capacity - 1)
Nothing == [a \in Ages |-> Empty]

(* Every record gets older by one; the oldest one is forgotten.            *)
After(r) == [a \in Ages |-> IF a = 0 THEN r ELSE recent[a - 1]]

Init == recent = Nothing

Store(r) == recent' = After(r)

Forget == recent' = Nothing

Next == (\E r \in Records : Store(r)) \/ Forget

Spec == Init /\ [][Next]_recent
=============================================================================
