----------------------------- MODULE RepeatRules -----------------------------
(***************************************************************************)
(* The shared-object rules of the Snort image that count in a stream       *)
(* (so_rules/src):                                                         *)
(*   13835  LDAP searches that repeat a cookie                             *)
(*            (os-windows_kb953235-active-directory-ldap-cookie.c)         *)
(*   13667  DNS responses that repeat each other                           *)
(*            (protocol-dns_kb945553-dns-cache-poison.c)                   *)
(*   13803  RTF control words                                              *)
(*            (file-office_kb951207-ms-word-rtf.c)                         *)
(*   15125  unpaired group ends in RTF drawings                            *)
(*            (file-office_kb957173-dpendgroup-rtf.c)                      *)
(* A packet is the checksum of its cookie or response, the number of its   *)
(* control words, or the sequence of its drawing words.                    *)
(***************************************************************************)
EXTENDS StreamData, SequencesExt, FiniteSets

CONSTANT Limit  \* the thresholds of the first three: 50, 50 and 150

RepeatRuleIds == {13835, 13667, 13803, 15125}
Words         == {"do", "dpgroup", "dpendgroup", "dpline", "cut"}

ASSUME LimitAssumption == Limit \in [{13835, 13667, 13803} -> 3..254]
ASSUME RepeatPacketsAssumption ==
    /\ \A r \in {13835, 13667, 13803} \cap Rules : Packets[r] \subseteq Nat
    /\ 15125 \in Rules => Packets[15125] \subseteq Seq(Words)

(* A new block is all zeros.                                               *)
NewBlock == [sum |-> 0, count |-> 0]
Block    == Or(NewBlock)

Returns(block, alert) == data' = block /\ verdict' = Verdict(alert)

(* Variant of Cookie: the threshold's count starts over at 0.              *)
CookieFromZero(sum) ==
    LET next == (Block.count + 1) % 256 IN
    IF sum # Block.sum THEN Returns([sum |-> sum, count |-> 1], FALSE)
    ELSE IF Block.count = 2
         THEN Returns([Block EXCEPT !.count = next], TRUE)
         ELSE IF next > Limit[13835]
              THEN Returns([Block EXCEPT !.count = 0], TRUE)
              ELSE Returns([Block EXCEPT !.count = next], FALSE)

(* rule13835eval: the third time, and then "ghetto thresholding".          *)
Cookie(sum) ==
    LET next == (Block.count + 1) % 256 IN
    IF sum # Block.sum THEN Returns([sum |-> sum, count |-> 1], FALSE)
    ELSE IF Block.count = 2
         THEN Returns([Block EXCEPT !.count = next], TRUE)
         ELSE IF next > Limit[13835]
              THEN Returns([Block EXCEPT !.count = 1], TRUE)
              ELSE Returns([Block EXCEPT !.count = next], FALSE)

(* Variant of DnsResponse: the threshold's count does not start over.      *)
DnsResponseGrows(sum) ==
    LET next == (Block.count + 1) % 256 IN
    IF sum # Block.sum THEN Returns([sum |-> sum, count |-> 0], FALSE)
    ELSE Returns([Block EXCEPT !.count = next], next > Limit[13667])

(* rule13667eval.                                                          *)
DnsResponse(sum) ==
    LET next == (Block.count + 1) % 256 IN
    IF sum # Block.sum THEN Returns([sum |-> sum, count |-> 0], FALSE)
    ELSE IF next > Limit[13667]
         THEN Returns([Block EXCEPT !.count = 0], TRUE)
         ELSE Returns([Block EXCEPT !.count = next], FALSE)

(* rule13803eval: a stream whose count has reached the limit is left alone *)
ControlWords(n) ==
    LET total == Block.count + n IN
    IF Block.count >= Limit[13803]
    THEN Returns(Block, FALSE)
    ELSE Returns([Block EXCEPT !.count = total], total >= Limit[13803])

(* rule15125eval looks for a group word only after the first "\dp": where  *)
(* that is another word, the packet is left, the groups after it included. *)
Skipped(text) ==
    \E i \in DOMAIN text :
        /\ text[i] = "dpline"
        /\ \A j \in 1..(i - 1) : text[j] \notin {"dpgroup", "dpendgroup"}

(* The walk over the words of a packet; "cut" is a "\d" at its very end.   *)
Walk(acc, word) ==
    IF acc.stop THEN acc
    ELSE CASE word = "do"         -> [acc EXCEPT !.tally = 0]
           [] word = "dpgroup"    -> [acc EXCEPT !.tally = @ + 1]
           [] word = "dpendgroup" -> [tally |-> acc.tally - 1,
                                      stop  |-> acc.tally - 1 < 0,
                                      alert |-> acc.tally - 1 < 0]
           [] word = "dpline"     -> acc
           [] word = "cut"        -> [acc EXCEPT !.stop = TRUE]

(* Variant of Drawing: the tally of the stream is not kept.                *)
DrawingAlone(text) ==
    LET end == FoldLeft(Walk, [tally |-> 0, stop |-> FALSE, alert |-> FALSE],
                        text)
    IN IF Skipped(text) THEN Returns(data, FALSE)
       ELSE Returns([Block EXCEPT !.count = end.tally], end.alert)

Drawing(text) ==
    LET end == FoldLeft(Walk, [tally |-> Block.count, stop |-> FALSE,
                               alert |-> FALSE], text)
    IN IF Skipped(text) THEN Returns(data, FALSE)
       ELSE Returns([Block EXCEPT !.count = end.tally], end.alert)

Count(p) ==
    /\ \/ rule = 13835 /\ Cookie(p)
       \/ rule = 13667 /\ DnsResponse(p)
       \/ rule = 13803 /\ ControlWords(p)
       \/ rule = 15125 /\ Drawing(p)
    /\ seen' = Append(seen, p)
    /\ UNCHANGED clock

-----------------------------------------------------------------------------
RepeatTypeOK ==
    rule \in RepeatRuleIds =>
        /\ data \in [sum : Nat, count : Int] \cup {NoData}
        /\ rule \in {13835, 13667} /\ data # NoData =>
                data.count \in 0..Limit[rule]
        /\ seen \in Seq(Packets[rule])

(* How often the last packet has been repeated without another between.    *)
RunLength ==
    Cardinality({i \in DOMAIN seen :
                    \A j \in i..Len(seen) : seen[j] = Last(seen)})

(* What the thresholds come to, in terms of the packets of the stream.  A  *)
(* cookie is reported the third time and then twice in each Limit          *)
(* repetitions, because the count starts over at 1 and comes by 2 again.   *)
CookieAlerts ==
    verdict = "match" <=> /\ RunLength >= 3
                          /\ (RunLength - 1) % Limit[13835] \in {0, 2}

(* A repeated response is reported once in Limit + 1 repetitions.  The     *)
(* zeros of a new block count as one for a checksum of 0.                  *)
DnsAlerts ==
    LET zero == Last(seen) = 0 /\ RunLength = Len(seen)
        n    == IF zero THEN RunLength ELSE RunLength - 1
    IN  verdict = "match" <=> n > 0 /\ n % (Limit[13667] + 1) = 0

Total(ns) == FoldLeft(+, 0, ns)

(* The packet with which the stream's control words reach the limit is     *)
(* reported, and no other of that stream.                                  *)
WordAlerts ==
    verdict = "match" <=> /\ Total(seen) >= Limit[13803]
                          /\ Total(Front(seen)) < Limit[13803]

RepeatsAreCounted ==
    seen # <<>> => /\ rule = 13835 => CookieAlerts
                   /\ rule = 13667 => DnsAlerts
                   /\ rule = 13803 => WordAlerts

(* The words of a packet that the rule comes to.                           *)
Read(text) ==
    LET cuts == {i \in DOMAIN text : text[i] = "cut"}
    IN  IF Skipped(text) THEN <<>>
        ELSE IF cuts = {} THEN text
        ELSE SubSeq(text, 1, (CHOOSE i \in cuts : \A j \in cuts : i <= j) - 1)

(* All of them that a stream's packets had.                                *)
WordsRead(texts) == FlattenSeq([i \in 1..Len(texts) |-> Read(texts[i])])

(* The k-th word ends a group that was not begun since the last "\do".     *)
Unpaired(words, k) ==
    /\ words[k] = "dpendgroup"
    /\ LET since == {i \in 1..k : \A j \in i..k : words[j] # "do"}
           Of(w) == Cardinality({i \in since : words[i] = w})
       IN  Of("dpendgroup") > Of("dpgroup")

(* As long as a stream had no unpaired end, a packet is reported if, and   *)
(* only if, it holds one, wherever the group was begun: in this packet or  *)
(* in an earlier one ("fire if count is ever negative", line 321).         *)
GroupsArePaired ==
    (rule = 15125 /\ seen # <<>>) =>
        LET before == WordsRead(Front(seen))
            all    == WordsRead(seen)
        IN  (\A k \in DOMAIN before : ~Unpaired(before, k)) =>
                (verdict = "match" <=>
                    \E k \in (Len(before) + 1)..Len(all) : Unpaired(all, k))
=============================================================================
