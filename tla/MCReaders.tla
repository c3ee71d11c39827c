------------------------------ MODULE MCReaders ------------------------------
(* Every text, element, name and list up to a few bytes or entries.        *)
EXTENDS Readers

UpTo(S, n) == UNION {[1..m -> S] : m \in 0..n}

MCHeaders == UpTo({CR, LF, SP, "x"}, 5)

MCDatas == UpTo({0, 90, 255}, 4)

(* Sizes that are none, that fit or do not fit an integer of two bytes,    *)
(* and that overflow when those of the head are added.                     *)
MCElements ==
    {e \in [type : {<<2>>, <<31, 128, 5>>, <<31, 130, 5>>, <<63, 130, 129, 5>>},
            want : {2, 5, 261},
            k : 0..3, n : {0, 1, 2, 3, 127, 255, 65532, 65535, 65536},
            first : {0, 1}, present : 0..3, tail : 0..2] :
        /\ e.k = 0 => e.n < 128
        /\ e.k > 0 => e.n < Weight[e.k]
        /\ e.present <= e.n
        /\ e.present = 0 => e.first = 0}

MCNames == [labels : UpTo({1, 2}, 2), end : {<<0>>, <<192, 9>>}, length : 0..9]

MCHosts == UpTo([family : {4, 6}, host : {1, 2}, network : {FALSE}], 5)

MCDumps == UpTo({"<rra>", "row"}, 7)
=============================================================================
