----------------------------- MODULE CharmLoops -----------------------------
(***************************************************************************)
(* Loops of the charms that shorten the list they walk: the HOME_NET of    *)
(* the Snort, Suricata and combined charms (_on_start_configuration_action *)
(* in each) and two reports of the ntopng charm (_on_rrd_action and        *)
(* _on_get_top_talkers_action).                                            *)
(***************************************************************************)
EXTENDS Naturals, Integers, Sequences, SequencesExt

CONSTANTS
    HeadLines,  \* the lines that a dump of a file begins with: 22
    TailLines   \* the lines that are taken from its end: 1500

ASSUME LinesAssumption == HeadLines \in Nat /\ TailLines \in Nat \ {0}

Failed == <<"failed">>

(***************************************************************************)
(* The addresses that "hostname -I" names, [family, host, network]: the    *)
(* code takes those with an "f" in them for IPv6, and writes the network   *)
(* of each other one in its place. The iterator of "for value in output"   *)
(* and index count alike, so removing an IPv6 address moves the next one   *)
(* to a place that both have passed.                                       *)
(***************************************************************************)
Network(a) == [a EXCEPT !.network = TRUE]

(* Variant of Visit: the last address is taken out, not the IPv6 one.      *)
VisitPops(list, i) ==
    IF i > Len(list) THEN list
    ELSE IF list[i].family = 6 THEN RemoveAt(list, Len(list))
    ELSE [list EXCEPT ![i] = Network(list[i])]

Visit(list, i) ==
    IF i > Len(list) THEN list
    ELSE IF list[i].family = 6 THEN RemoveAt(list, i)
    ELSE [list EXCEPT ![i] = Network(list[i])]

HomeNet(list) == FoldLeft(Visit, list, [i \in DOMAIN list |-> i])

(***************************************************************************)
(* "Get the last 3 top talkers": rows are taken from the end until three   *)
(* are left, and there is an exception where there are no more to take.    *)
(***************************************************************************)
TopTalkers(rows) ==
    LET taken[n \in 0..Len(rows)] ==
            IF n = 0 THEN Failed
            ELSE IF n - 1 = 3 THEN <<rows[n]>>
            ELSE IF taken[n - 1] = Failed THEN Failed
            ELSE Append(taken[n - 1], rows[n])
    IN  taken[Len(rows)]

(***************************************************************************)
(* The head of a dump, and its lines from the last "<rra>" on, or the last *)
(* TailLines; the head is not taken out, so it can be there twice.         *)
(***************************************************************************)
Rrd(lines) ==
    LET taken[n \in 0..TailLines] ==
            LET at == Len(lines) - TailLines + n IN
            IF n = 0 THEN <<>>
            ELSE IF at < 1 THEN Failed
            ELSE IF lines[at] = "<rra>" THEN <<lines[at]>>
            ELSE IF taken[n - 1] = Failed THEN Failed
            ELSE Append(taken[n - 1], lines[at])
    IN  IF Len(lines) < HeadLines \/ taken[TailLines] = Failed THEN Failed
        ELSE SubSeq(lines, 1, HeadLines) \o taken[TailLines]

=============================================================================
