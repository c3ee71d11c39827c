----------------------------- MODULE StreamProofs -----------------------------
(***************************************************************************)
(* Proofs about StreamRules, for any thresholds, packets and sizes that    *)
(* the assumptions admit, and streams of any length.  What a rule reports  *)
(* of a stream is stated in terms of the stream's packets; the invariants  *)
(* here say what its block has to be for that.                             *)
(***************************************************************************)
EXTENDS StreamRules, DataInduction

(* What is logged of a fragment, and what the table keeps of it.           *)
Logged  == [type : {"hello", "keyx", "cipher", "server"}, alert : BOOLEAN,
            seq : 0..(TableLen - 1), total : Nat, time : Nat]
Entries == [type : {"none", "hello", "keyx", "cipher", "server"},
            total : Nat, time : Nat]
Tables  == [entry : [0..(TableLen - 1) -> Entries]]

SrpBlocks == [state : {"srphello", "serverkeyx", "clientkeyx"}, prime : Nat]

(* The types of the blocks and of the histories, rule by rule.             *)
Types ==
    /\ rule \in Rules
    /\ clock \in 0..MaxClock
    /\ verdict \in {"none", "match", "nomatch"}
    /\ rule \in {13835, 13667} =>
            /\ data \in [sum : Nat, count : 0..Limit[rule]] \cup {NoData}
            /\ seen \in Seq(Nat) /\ seen \in Seq(Packets[rule])
    /\ rule = 13803 => /\ data \in [sum : Nat, count : Nat] \cup {NoData}
                       /\ seen \in Seq(Nat) /\ seen \in Seq(Packets[rule])
    /\ rule = 15125 =>
            /\ data \in [sum : Nat, count : Int] \cup {NoData}
            /\ seen \in Seq(Seq(Words)) /\ seen \in Seq(Packets[rule])
    /\ rule = 59879 =>
            data \in SrpBlocks \cup {NoData} /\ seen \in Seq(Messages)
    /\ rule = 41547 =>
            /\ data \in [state : {"session"}, len : 1..31, msb : Nat]
                            \cup {NoData}
            /\ seen \in Seq(Hellos)
    /\ rule = 13475 =>
            /\ data \in [state : {"page"}, page : Seq(Nat), sort : Seq(Nat)]
                            \cup {NoData}
            /\ seen \in Seq(Searches)
    /\ rule = 31361 => data \in Tables \cup {NoData} /\ seen \in Seq(Logged)

-----------------------------------------------------------------------------
(* What a packet does, rule by rule.                                       *)
LEMMA EvalIs ==
    ASSUME rule \in Rules, NEW p \in Packets[rule], Eval(p)
    PROVE  /\ rule' = rule
           /\ rule \in RepeatRuleIds \cup HandshakeRuleIds
           /\ rule \in RepeatRuleIds => seen' = Append(seen, p)
           /\ rule # 31361 => clock' = clock
           /\ rule = 13835 => Cookie(p) /\ p \in Nat
           /\ rule = 13667 => DnsResponse(p) /\ p \in Nat
           /\ rule = 13803 => ControlWords(p) /\ p \in Nat
           /\ rule = 15125 => Drawing(p) /\ p \in Seq(Words)
           /\ rule = 59879 => Srp(p) /\ p \in Seq(Messages)
           /\ rule = 41547 => Session(p) /\ p \in Hellos
           /\ rule = 13475 => SearchPage(p) /\ p \in Searches
           /\ rule = 31361 => Datagram(p) /\ p \in Datagrams
<1>1. Count(p) => rule \in RepeatRuleIds /\ seen' = Append(seen, p)
    BY DEF Count, RepeatRuleIds
<1>2. Compare(p) => rule \in HandshakeRuleIds
    BY DEF Compare, HandshakeRuleIds
<1>3. rule \notin RepeatRuleIds \/ rule \notin HandshakeRuleIds
    BY DEF RepeatRuleIds, HandshakeRuleIds
<1>4. CASE Count(p)
    BY <1>1, <1>3, <1>4, RepeatPacketsAssumption
    DEF Eval, Count, RepeatRuleIds, HandshakeRuleIds
<1>5. CASE Compare(p)
    BY <1>2, <1>3, <1>5, HandshakePacketsAssumption
    DEF Eval, Compare, RepeatRuleIds, HandshakeRuleIds
<1> QED BY <1>4, <1>5 DEF Eval

(* The thresholds of the rules, one by one.                                *)
LEMMA LimitIs ==
    /\ Limit[13835] \in 3..254 /\ Limit[13667] \in 3..254
    /\ Limit[13803] \in 3..254
BY LimitAssumption

(* The byte that counts does not wrap below a threshold.                   *)
LEMMA NextIs ==
    ASSUME NEW n \in 0..254
    PROVE  (n + 1) % 256 = n + 1
OBVIOUS

-----------------------------------------------------------------------------
(***************************************************************************)
(* Repetitions of the last packet.                                         *)
(***************************************************************************)
Repeats(s) == {i \in DOMAIN s : \A j \in i..Len(s) : s[j] = Last(s)}

(* A packet goes on with the repetition at the end, or begins another.     *)
LEMMA RepeatsGrow ==
    ASSUME NEW E, NEW s \in Seq(E), NEW x \in E
    PROVE  Repeats(Append(s, x)) = IF s # <<>> /\ Last(s) = x
                                   THEN Repeats(s) \cup {Len(s) + 1}
                                   ELSE {Len(s) + 1}
<1> DEFINE n == Len(s)
           l == Append(s, x)
<1>1. /\ n \in Nat /\ DOMAIN s = 1..n /\ DOMAIN l = 1..(n + 1)
      /\ Len(l) = n + 1 /\ l[n + 1] = x /\ Last(l) = x
      /\ \A i \in 1..n : l[i] = s[i]
    BY DEF Last
<1>2. s # <<>> => n >= 1 /\ Last(s) = s[n]
    BY DEF Last
<1>3. n + 1 \in Repeats(l)
    BY <1>1 DEF Repeats
<1> HIDE DEF n, l
<1>4. ASSUME NEW i \in 1..n PROVE i \in Repeats(l) <=>
                                    i \in Repeats(s) /\ Last(s) = x
    <2>1. s # <<>> /\ n \in i..n
        BY <1>1 DEF n
    <2>2. ASSUME i \in Repeats(l) PROVE i \in Repeats(s) /\ Last(s) = x
        <3>1. \A j \in i..n : l[j] = x /\ l[j] = s[j]
            BY <1>1, <2>2 DEF Repeats
        <3> QED BY <1>1, <1>2, <2>1, <3>1 DEF Repeats, n
    <2>3. ASSUME i \in Repeats(s), Last(s) = x PROVE i \in Repeats(l)
        <3>1. ASSUME NEW j \in i..(n + 1) PROVE l[j] = x
            <4>1. CASE j = n + 1
                BY <1>1, <4>1
            <4>2. CASE j # n + 1
                <5>1. j \in i..n /\ j \in 1..n
                    BY <1>1, <4>2
                <5> QED BY <1>1, <2>3, <5>1 DEF Repeats, n
            <4> QED BY <4>1, <4>2
        <3> QED BY <1>1, <3>1 DEF Repeats
    <2> QED BY <2>2, <2>3
<1>5. \A i \in Repeats(l) : i \in 1..n \/ i = n + 1
    BY <1>1 DEF Repeats
<1>6. \A i \in Repeats(s) : i \in 1..n /\ s # <<>>
    BY <1>1 DEF Repeats
<1> QED BY <1>3, <1>4, <1>5, <1>6 DEF n, l

(* The same, for the length of the repetition.                             *)
LEMMA RunLengthIs ==
    ASSUME NEW E, NEW s \in Seq(E), NEW x \in E
    PROVE  /\ Cardinality(Repeats(s)) \in Nat
           /\ Cardinality(Repeats(Append(s, x))) =
                IF s # <<>> /\ Last(s) = x THEN Cardinality(Repeats(s)) + 1
                ELSE 1
           /\ s # <<>> => Cardinality(Repeats(s)) >= 1
<1>1. Len(s) \in Nat /\ DOMAIN s = 1..Len(s)
    OBVIOUS
<1>2. IsFiniteSet(Repeats(s)) /\ Cardinality(Repeats(s)) \in Nat
    <2>1. IsFiniteSet(1..Len(s)) /\ Repeats(s) \subseteq 1..Len(s)
        BY <1>1, FS_Interval DEF Repeats
    <2> QED BY <2>1, FS_Subset, FS_CardinalityType
<1>3. Len(s) + 1 \notin Repeats(s)
    BY <1>1 DEF Repeats
<1>4. Cardinality(Repeats(s) \cup {Len(s) + 1}) = Cardinality(Repeats(s)) + 1
    BY <1>2, <1>3, FS_AddElement
<1>5. Cardinality({Len(s) + 1}) = 1
    BY FS_Singleton
<1>6. s # <<>> => Repeats(s) # {}
    <2>1. s # <<>> => Len(s) \in Repeats(s)
        BY <1>1 DEF Repeats, Last
    <2> QED BY <2>1
<1>7. Repeats(s) # {} => Cardinality(Repeats(s)) # 0
    BY <1>2, FS_EmptySet
<1>8. Repeats(Append(s, x)) = IF s # <<>> /\ Last(s) = x
                              THEN Repeats(s) \cup {Len(s) + 1}
                              ELSE {Len(s) + 1}
    BY RepeatsGrow
<1>9. s # <<>> => Cardinality(Repeats(s)) >= 1
    BY <1>2, <1>6, <1>7
<1>10. Cardinality(Repeats(Append(s, x))) =
            IF s # <<>> /\ Last(s) = x THEN Cardinality(Repeats(s)) + 1 ELSE 1
    BY <1>4, <1>5, <1>8
<1> QED BY <1>2, <1>9, <1>10

-----------------------------------------------------------------------------
(***************************************************************************)
(* The counts.                                                             *)
(***************************************************************************)

(* The cookie's count goes from 1 to the limit and around; the repetitions *)
(* of a response, or of the zeros of a new block, are counted from 0.      *)
CookieCounted ==
    rule = 13835 =>
        IF seen = <<>> THEN data = NoData
        ELSE /\ data # NoData
             /\ data.sum = Last(seen)
             /\ data.count = ((RunLength - 1) % Limit[13835]) + 1
             /\ CookieAlerts

FromZero(s) == Last(s) = 0 /\ Cardinality(Repeats(s)) = Len(s)

Repetitions(s) == IF FromZero(s) THEN Cardinality(Repeats(s))
                  ELSE Cardinality(Repeats(s)) - 1

ResponseCounted ==
    rule = 13667 =>
        IF seen = <<>> THEN data = NoData
        ELSE /\ data # NoData
             /\ data.sum = Last(seen)
             /\ data.count = Repetitions(seen) % (Limit[13667] + 1)
             /\ DnsAlerts

(* The words of the stream, until they have reached the limit.             *)
WordsCounted ==
    rule = 13803 =>
        /\ seen = <<>> => data = NoData
        /\ seen # <<>> => data # NoData /\ WordAlerts
        /\ IF Block.count < Limit[13803] THEN Block.count = Total(seen)
           ELSE Total(seen) >= Limit[13803]

(* A step that no packet makes.                                            *)
Other == NotStored \/ NewStream \/ UNCHANGED vars

(* The steps, in the order in which the proofs take them.                  *)
LEMMA NextIsEvalOrOther ==
    ASSUME [Next]_vars
    PROVE  (\E p \in Packets[rule] : Eval(p)) \/ Other
BY DEF Next, Other

(* A sequence to which an element was appended.                            *)
LEMMA LastIs ==
    ASSUME NEW E, NEW s \in Seq(E), NEW x \in E
    PROVE  /\ Append(s, x) # <<>> /\ Last(Append(s, x)) = x
           /\ Len(Append(s, x)) = Len(s) + 1 /\ Len(s) \in Nat
           /\ Front(Append(s, x)) = s
           /\ s # <<>> <=> Len(s) # 0
<1>1. Append(s, x) # <<>> /\ Last(Append(s, x)) = x
    BY DEF Last
<1>2. Len(Append(s, x)) = Len(s) + 1 /\ Len(s) \in Nat
    OBVIOUS
<1>3. Front(Append(s, x)) = s
    <2> DEFINE l == Append(s, x)
    <2>1. /\ l \in Seq(E) /\ Len(l) - 1 = Len(s) /\ Len(s) \in 0..Len(l)
          /\ \A i \in 1..Len(s) : l[i] = s[i]
        OBVIOUS
    <2> HIDE DEF l
    <2>2. /\ SubSeq(l, 1, Len(s)) \in Seq(E)
          /\ Len(SubSeq(l, 1, Len(s))) = Len(s)
          /\ \A i \in 1..Len(s) : SubSeq(l, 1, Len(s))[i] = s[i]
        BY <2>1, PrefixIs
    <2>3. SubSeq(l, 1, Len(s)) = s
        BY <2>2, SeqEqual
    <2> QED BY <2>1, <2>3 DEF Front, l
<1> QED BY <1>1, <1>2, <1>3, EmptySeq

(* Rule 13835: the count is the length of the repetition, modulo what the  *)
(* threshold starts it over at.                                            *)
LEMMA CookieStep ==
    ASSUME Types, CookieCounted, [Next]_vars
    PROVE  CookieCounted'
<1> SUFFICES ASSUME rule = 13835 PROVE CookieCounted'
    BY NextIsEvalOrOther, EvalIs
    DEF Types, CookieCounted, Other, NotStored, NewStream, vars
<1> DEFINE L == Limit[13835]
           n == Cardinality(Repeats(seen))
           m == Cardinality(Repeats(seen'))
<1>1. L \in 3..254
    BY LimitIs
<1>2. ASSUME NEW p \in Packets[rule], Eval(p) PROVE CookieCounted'
    <2>1. /\ rule' = 13835 /\ p \in Nat /\ seen' = Append(seen, p)
          /\ seen \in Seq(Nat) /\ Cookie(p)
        BY <1>2, EvalIs DEF Types, RepeatRuleIds
    <2>2. /\ seen' # <<>> /\ Last(seen') = p
        BY <2>1, LastIs
    <2>3. /\ n \in Nat /\ m = IF seen # <<>> /\ Last(seen) = p THEN n + 1 ELSE 1
          /\ seen # <<>> => n >= 1
        BY <2>1, RunLengthIs
    <2>4. RunLength = n /\ RunLength' = m
        BY DEF RunLength, Repeats
    <2> HIDE DEF L, n, m
    <2>5. SUFFICES /\ data' # NoData /\ data'.sum = p
                   /\ data'.count = ((m - 1) % L) + 1
                   /\ verdict' = "match" <=> m >= 3 /\ (m - 1) % L \in {0, 2}
        BY <2>1, <2>2, <2>4 DEF CookieCounted, CookieAlerts, L
    <2>6. 0 % L = 0 /\ 1 % L = 1
        BY <1>1, ModSmall
    <2>7. CASE p # Block.sum \/ seen = <<>>
        <3>1. m = 1
            BY <2>3, <2>7 DEF CookieCounted, Block, Or
        <3>2. /\ data' = [sum |-> p, count |-> 1] /\ verdict' = "nomatch"
            <4>1. CASE p # Block.sum
                BY <2>1, <4>1 DEF Cookie, Returns, Verdict
            <4>2. CASE p = Block.sum
                <5>1. Block = [sum |-> 0, count |-> 0]
                    BY <2>7, <4>2 DEF CookieCounted, Block, Or, NewBlock
                <5>2. (0 + 1) % 256 = 1 /\ ~(1 > L)
                    BY <1>1
                <5> QED BY <2>1, <4>2, <5>1, <5>2
                        DEF Cookie, Returns, Verdict, L
            <4> QED BY <4>1, <4>2
        <3>3. data'.count = 1 /\ data'.sum = p /\ data' # NoData
            BY <3>2 DEF NoData
        <3> QED BY <2>6, <3>1, <3>2, <3>3
    <2>8. CASE p = Block.sum /\ seen # <<>>
        <3>1. /\ data # NoData /\ Block = data /\ data.sum = Last(seen)
              /\ data.count = ((n - 1) % L) + 1
            BY <2>4, <2>8 DEF CookieCounted, Block, Or, L
        <3>2. m = n + 1 /\ n >= 1 /\ n \in Nat
            BY <2>3, <2>8, <3>1
        <3>3. n % L = IF (n - 1) % L = L - 1 THEN 0 ELSE ((n - 1) % L) + 1
            <4> DEFINE k == n - 1
            <4>1. k \in Int /\ n \in Int /\ n = k + 1 /\ L \in Nat \ {0}
                BY <1>1, <3>2
            <4> HIDE DEF k
            <4>2. n % L = IF k % L = L - 1 THEN 0 ELSE (k % L) + 1
                <5>1. Follows(n, k, L)
                    BY <4>1, ModNext
                <5> QED BY <5>1 DEF Follows
            <4> QED BY <4>2 DEF k
        <3> DEFINE r == (n - 1) % L
        <3>4. r \in 0..(L - 1)
            BY <1>1, <3>2, DivMod
        <3>5. r = n - 1 \/ n > L
            BY <1>1, <3>2, ModSmall
        <3> HIDE DEF r
        <3>6. n % L = IF r = L - 1 THEN 0 ELSE r + 1
            BY <3>3 DEF r
        <3>7. data.count = r + 1 /\ ((r + 1) + 1) % 256 = r + 2
            BY <1>1, <3>1, <3>4, NextIs DEF r
        <3>8. data \in [sum : Nat, count : 0..L]
            BY <3>1 DEF Types, L
        <3>9. /\ data' = [data EXCEPT !.count = IF r + 2 > L THEN 1 ELSE r + 2]
              /\ verdict' = IF r + 1 = 2 \/ r + 2 > L THEN "match"
                            ELSE "nomatch"
            <4>1. r + 1 = 2 => ~(r + 2 > L)
                BY <1>1, <3>4
            <4>2. (Block.count + 1) % 256 = r + 2
                BY <3>1, <3>7
            <4> QED BY <1>1, <2>1, <2>8, <3>1, <3>7, <4>1, <4>2
                    DEF Cookie, Returns, Verdict, L
        <3>10. data'.sum = p /\ data' # NoData
               /\ data'.count = IF r + 2 > L THEN 1 ELSE r + 2
            BY <2>8, <3>1, <3>8, <3>9 DEF NoData
        <3>11. m - 1 = n
            BY <3>2
        <3>12. data'.count = (n % L) + 1
            BY <1>1, <3>4, <3>6, <3>10
        <3>13. verdict' = "match" <=> m >= 3 /\ n % L \in {0, 2}
            BY <1>1, <3>2, <3>4, <3>5, <3>6, <3>9
        <3> QED BY <3>10, <3>11, <3>12, <3>13
    <2> QED BY <2>7, <2>8
<1>3. CASE Other
    <2>1. CASE NotStored
        BY <2>1 DEF NotStored, CookieCounted
    <2>2. CASE NewStream
        BY <2>2 DEF NewStream, CookieCounted
    <2>3. CASE UNCHANGED vars
        BY <2>3 DEF vars, CookieCounted, CookieAlerts, RunLength
    <2> QED BY <1>3, <2>1, <2>2, <2>3 DEF Other
<1> QED BY <1>2, <1>3, NextIsEvalOrOther

(* Rule 13667: the same, for its own threshold.                            *)
LEMMA ResponseStep ==
    ASSUME Types, ResponseCounted, [Next]_vars
    PROVE  ResponseCounted'
<1> SUFFICES ASSUME rule = 13667 PROVE ResponseCounted'
    BY NextIsEvalOrOther, EvalIs
    DEF Types, ResponseCounted, Other, NotStored, NewStream, vars
<1> DEFINE L == Limit[13667]
           n == Repetitions(seen)
           m == Repetitions(seen')
<1>1. L \in 3..254
    BY LimitIs
<1>2. ASSUME NEW p \in Packets[rule], Eval(p) PROVE ResponseCounted'
    <2>1. /\ rule' = 13667 /\ p \in Nat /\ seen' = Append(seen, p)
          /\ seen \in Seq(Nat) /\ DnsResponse(p)
        BY <1>2, EvalIs DEF Types, RepeatRuleIds
    <2>2. /\ seen' # <<>> /\ Last(seen') = p /\ Len(seen') = Len(seen) + 1
          /\ Len(seen) \in Nat /\ (seen # <<>> <=> Len(seen) # 0)
        BY <2>1, LastIs
    <2> DEFINE a == Cardinality(Repeats(seen))
               b == Cardinality(Repeats(seen'))
    <2>3. /\ a \in Nat /\ b = IF seen # <<>> /\ Last(seen) = p THEN a + 1 ELSE 1
          /\ seen # <<>> => a >= 1
        BY <2>1, RunLengthIs
    <2> HIDE DEF a, b
    <2>4. /\ n = IF Last(seen) = 0 /\ a = Len(seen) THEN a ELSE a - 1
          /\ m = IF Last(seen') = 0 /\ b = Len(seen') THEN b ELSE b - 1
        BY DEF Repetitions, FromZero, a, b
    <2>5. DnsAlerts' <=>
                (verdict' = "match" <=> m > 0 /\ m % (L + 1) = 0)
        BY DEF DnsAlerts, RunLength, Repeats, Repetitions, FromZero
    <2> HIDE DEF L, n, m
    <2>6. SUFFICES /\ data' # NoData /\ data'.sum = p
                   /\ data'.count = m % (L + 1)
                   /\ verdict' = "match" <=> m > 0 /\ m % (L + 1) = 0
        BY <2>1, <2>2, <2>5 DEF ResponseCounted, L, m
    <2>7. 0 % (L + 1) = 0 /\ 1 % (L + 1) = 1
        BY <1>1, ModSmall
    <2>8. CASE p # Block.sum
        <3>1. data' = [sum |-> p, count |-> 0] /\ verdict' = "nomatch"
            BY <2>1, <2>8 DEF DnsResponse, Returns, Verdict
        <3>2. m = 0
            <4>1. CASE seen = <<>>
                <5>1. p # 0
                    BY <2>8, <4>1
                    DEF ResponseCounted, Block, Or, NewBlock
                <5> QED BY <2>2, <2>3, <2>4, <4>1, <5>1
            <4>2. CASE seen # <<>>
                <5>1. Last(seen) # p
                    BY <2>8, <4>2 DEF ResponseCounted, Block, Or
                <5> QED BY <2>2, <2>3, <2>4, <4>2, <5>1
            <4> QED BY <4>1, <4>2
        <3>3. data'.count = 0 /\ data'.sum = p /\ data' # NoData
            BY <3>1 DEF NoData
        <3> QED BY <2>7, <3>1, <3>2, <3>3
    <2>9. CASE p = Block.sum
        <3> DEFINE k == IF seen = <<>> THEN 0 ELSE n
        <3>1. /\ k \in Nat /\ m = k + 1
            <4>1. CASE seen = <<>>
                <5>1. p = 0
                    BY <2>9, <4>1
                    DEF ResponseCounted, Block, Or, NewBlock
                <5> QED BY <2>2, <2>3, <2>4, <4>1, <5>1
            <4>2. CASE seen # <<>>
                <5>1. Last(seen) = p
                    BY <2>9, <4>2 DEF ResponseCounted, Block, Or
                <5> QED BY <2>2, <2>3, <2>4, <4>2, <5>1
            <4> QED BY <4>1, <4>2
        <3>2. /\ Block \in [sum : Nat, count : Nat]
              /\ Block.count = k % (L + 1)
            <4>1. CASE seen = <<>>
                BY <2>7, <4>1 DEF ResponseCounted, Block, Or, NewBlock
            <4>2. CASE seen # <<>>
                BY <4>2 DEF ResponseCounted, Block, Or, Types, L, n
            <4> QED BY <4>1, <4>2
        <3> HIDE DEF k
        <3> DEFINE r == k % (L + 1)
        <3>3. /\ r \in 0..L
              /\ m % (L + 1) = IF r = L THEN 0 ELSE r + 1
            <4> DEFINE M == L + 1
            <4>1. k \in Int /\ M \in Nat \ {0} /\ M - 1 = L
                BY <1>1, <3>1
            <4> HIDE DEF M
            <4>2. k % M \in 0..(M - 1)
                BY <4>1
            <4>3. m % M = IF k % M = M - 1 THEN 0 ELSE (k % M) + 1
                <5>1. m \in Int /\ m = k + 1
                    BY <3>1
                <5>2. Follows(m, k, M)
                    BY <4>1, <5>1, ModNext
                <5> QED BY <5>2 DEF Follows
            <4> QED BY <3>1, <4>1, <4>2, <4>3 DEF M
        <3>4. Block.count = r
            BY <3>2
        <3> HIDE DEF r
        <3>5. (r + 1) % 256 = r + 1
            BY <1>1, <3>3, NextIs
        <3>6. /\ data' = [Block EXCEPT !.count = IF r + 1 > L THEN 0 ELSE r + 1]
              /\ verdict' = IF r + 1 > L THEN "match" ELSE "nomatch"
            <4>1. (Block.count + 1) % 256 = r + 1
                BY <3>4, <3>5
            <4> QED BY <1>1, <2>1, <2>9, <3>3, <4>1
                    DEF DnsResponse, Returns, Verdict, L
        <3>7. /\ data'.sum = p /\ data' # NoData
              /\ data'.count = IF r + 1 > L THEN 0 ELSE r + 1
            BY <2>9, <3>2, <3>6 DEF NoData
        <3> QED BY <1>1, <3>1, <3>3, <3>6, <3>7
    <2> QED BY <2>8, <2>9
<1>3. CASE Other
    <2>1. CASE NotStored
        BY <2>1 DEF NotStored, ResponseCounted
    <2>2. CASE NewStream
        BY <2>2 DEF NewStream, ResponseCounted
    <2>3. CASE UNCHANGED vars
        BY <2>3
        DEF vars, ResponseCounted, DnsAlerts, RunLength, Repetitions, FromZero
    <2> QED BY <1>3, <2>1, <2>2, <2>3 DEF Other
<1> QED BY <1>2, <1>3, NextIsEvalOrOther

-----------------------------------------------------------------------------
(* A sum, from left to right.                                              *)
LEMMA TotalRuns ==
    ASSUME NEW s \in Seq(Nat)
    PROVE  \E h \in [0..Len(s) -> Nat] :
                /\ h[0] = 0
                /\ \A i \in 1..Len(s) : h[i] = h[i - 1] + s[i]
                /\ FoldLeft(+, 0, s) = h[Len(s)]
<1> DEFINE op == [p \in (Nat) \X Nat |-> p[1] + p[2]]
           Body(f) == [t \in SUBSET DOMAIN s |->
                        IF t = {} THEN 0 ELSE f[t \ {Max(t)}] + s[Max(t)]]
           F == CHOOSE f : f = Body(f)
           v == [t \in SUBSET DOMAIN s |-> F[t \ {Max(t)}] + s[Max(t)]]
<1>1. FoldLeft(+, 0, s) = F[DOMAIN s]
    BY Zenon DEF FoldLeft, MapThenFoldSet
<1>2. op \in [(Nat) \X Nat -> Nat] /\ 0 \in Nat
    OBVIOUS
<1>3. \A a \in Nat, e \in Nat : op[<<a, e>>] = a + e
    OBVIOUS
<1> HIDE DEF op
<1>4. PICK f \in [SUBSET DOMAIN s -> Nat] : FoldsBy(f, op, 0, s)
    BY <1>2, FoldExists
<1>41. /\ Len(s) \in Nat /\ DOMAIN s = 1..Len(s)
       /\ \A i \in 1..Len(s) : s[i] \in Nat
    OBVIOUS
<1>42. ASSUME NEW t \in SUBSET DOMAIN s, t # {}
       PROVE  s[Max(t)] \in Nat /\ t \ {Max(t)} \in SUBSET DOMAIN s
    <2>1. Max(t) \in t
        BY <1>41, <1>42, MaxIs
    <2> QED BY <1>41, <2>1
<1>5. ASSUME NEW t \in SUBSET DOMAIN s PROVE f[t] = Body(f)[t]
    <2>1. f[t] = IF t = {} THEN 0
                 ELSE op[<<f[t \ {Max(t)}], s[Max(t)]>>]
        BY <1>4 DEF FoldsBy
    <2>2. t # {} => f[t \ {Max(t)}] \in Nat /\ s[Max(t)] \in Nat
        BY <1>4, <1>42
    <2> QED BY <1>3, <2>1, <2>2
<1>6. F = Body(F)
    <2>1. f = Body(f)
        BY <1>5 DEF FoldsBy
    <2> HIDE DEF Body
    <2> QED BY <2>1
<1> HIDE DEF F
<1>7. ASSUME NEW t \in SUBSET DOMAIN s, t # {}, F[t \ {Max(t)}] \in Nat
      PROVE  v[t] = op[<<F[t \ {Max(t)}], s[Max(t)]>>]
    BY <1>3, <1>42, <1>7
<1>8. F = [t \in SUBSET DOMAIN s |-> IF t = {} THEN 0 ELSE v[t]]
    BY <1>6
<1>9. PICK h \in [0..Len(s) -> Nat] :
            /\ h[0] = 0
            /\ \A i \in 1..Len(s) : h[i] = op[<<h[i - 1], s[i]>>]
            /\ F[DOMAIN s] = h[Len(s)]
    <2> HIDE DEF v
    <2>1. FoldsWith(F, v, Nat, op, 0, s)
        BY <1>7, <1>8 DEF FoldsWith
    <2>2. Runs(F, Nat, op, 0, s)
        BY <1>2, <2>1, FoldRuns
    <2> QED BY <2>2 DEF Runs
<1>10. ASSUME NEW i \in 1..Len(s) PROVE h[i] = h[i - 1] + s[i]
    <2>1. h[i - 1] \in Nat /\ s[i] \in Nat
        <3>1. i - 1 \in 0..Len(s)
            BY <1>41
        <3> QED BY <1>41, <3>1
    <2> QED BY <1>3, <1>9, <2>1
<1> QED BY <1>1, <1>9, <1>10

(* The total is what an addition from packet to packet gives.              *)
LEMMA TotalOfNone == Total(<<>>) = 0
<1>1. <<>> \in Seq(Nat) /\ Len(<<>>) = 0
    OBVIOUS
<1>2. PICK h \in [0..Len(<<>>) -> Nat] :
            h[0] = 0 /\ FoldLeft(+, 0, <<>>) = h[Len(<<>>)]
    BY <1>1, TotalRuns
<1> QED BY <1>1, <1>2 DEF Total

LEMMA TotalIs ==
    ASSUME NEW s \in Seq(Nat), NEW x \in Nat
    PROVE  /\ Total(s) \in Nat
           /\ Total(Append(s, x)) = Total(s) + x
<1> DEFINE n == Len(s)
           l == Append(s, x)
<1>1. /\ n \in Nat /\ l \in Seq(Nat) /\ Len(l) = n + 1 /\ l[n + 1] = x
      /\ \A i \in 1..n : l[i] = s[i]
    OBVIOUS
<1>3. PICK h \in [0..n -> Nat] :
            /\ h[0] = 0 /\ \A i \in 1..n : h[i] = h[i - 1] + s[i]
            /\ Total(s) = h[n]
    BY TotalRuns DEF Total
<1> HIDE DEF l, n
<1>4. PICK k \in [0..(n + 1) -> Nat] :
            /\ k[0] = 0 /\ \A i \in 1..(n + 1) : k[i] = k[i - 1] + l[i]
            /\ Total(l) = k[n + 1]
    <2>1. PICK k \in [0..Len(l) -> Nat] :
            /\ k[0] = 0 /\ \A i \in 1..Len(l) : k[i] = k[i - 1] + l[i]
            /\ FoldLeft(+, 0, l) = k[Len(l)]
        BY <1>1, TotalRuns
    <2> QED BY <1>1, <2>1 DEF Total
<1>5. h[n] = k[n]
    <2> DEFINE U == {i \in 0..n : h[i] = k[i]}
    <2>1. 0 \in U
        BY <1>1, <1>3, <1>4
    <2>2. ASSUME NEW i \in 0..(n - 1), i \in U PROVE i + 1 \in U
        <3>1. i + 1 \in 1..n /\ i + 1 \in 1..(n + 1) /\ (i + 1) - 1 = i
              /\ i + 1 \in 0..n
            BY <1>1
        <3>2. h[i + 1] = h[i] + s[i + 1] /\ k[i + 1] = k[i] + l[i + 1]
            BY <1>3, <1>4, <3>1
        <3> QED BY <1>1, <2>2, <3>1, <3>2
    <2> HIDE DEF U
    <2>3. \A i \in 0..n : i \in U
        BY <1>1, <2>1, <2>2, InductionTo
    <2> QED BY <1>1, <2>3 DEF U
<1>6. k[n + 1] = k[n] + x
    <2>1. n + 1 \in 1..(n + 1) /\ (n + 1) - 1 = n
        BY <1>1
    <2> QED BY <1>1, <1>4, <2>1
<1>7. h[n] \in Nat
    BY <1>1
<1> QED BY <1>3, <1>4, <1>5, <1>6, <1>7 DEF l

(* Rule 13803: below its limit the count is the total of the stream.       *)
LEMMA WordsStep ==
    ASSUME Types, WordsCounted, [Next]_vars
    PROVE  WordsCounted'
<1> SUFFICES ASSUME rule = 13803 PROVE WordsCounted'
    BY NextIsEvalOrOther, EvalIs
    DEF Types, WordsCounted, Other, NotStored, NewStream, vars
<1>1. Limit[13803] \in 3..254
    BY LimitIs
<1>2. Total(<<>>) = 0
    BY TotalOfNone
<1>3. ASSUME NEW p \in Packets[rule], Eval(p) PROVE WordsCounted'
    <2>1. /\ rule' = 13803 /\ p \in Nat /\ seen' = Append(seen, p)
          /\ seen \in Seq(Nat) /\ ControlWords(p)
        BY <1>3, EvalIs DEF Types, RepeatRuleIds
    <2>2. seen' # <<>> /\ Front(seen') = seen
        BY <2>1, LastIs
    <2>3. /\ Total(seen) \in Nat /\ Total(seen') = Total(seen) + p
        BY <2>1, TotalIs
    <2>4. Block \in [sum : Nat, count : Nat]
        BY DEF Block, Or, NewBlock, Types
    <2>5. WordAlerts' <=> (verdict' = "match" <=>
                                /\ Total(seen') >= Limit[13803]
                                /\ Total(seen) < Limit[13803])
        BY <2>2 DEF WordAlerts
    <2>6. CASE Block.count >= Limit[13803]
        <3>1. data' = Block /\ verdict' = "nomatch"
            BY <2>1, <2>6 DEF ControlWords, Returns, Verdict
        <3>2. Block' = Block /\ data' # NoData
            BY <2>4, <3>1 DEF Block, Or, NoData
        <3>3. Total(seen) >= Limit[13803]
            BY <1>1, <2>4, <2>6 DEF WordsCounted
        <3>4. Total(seen') >= Limit[13803] /\ ~(Total(seen) < Limit[13803])
            <4> DEFINE T == Total(seen)
                       l == Limit[13803]
            <4>1. T \in Nat /\ l \in Nat /\ T >= l /\ Total(seen') = T + p
                BY <1>1, <2>3, <3>3
            <4> HIDE DEF T, l
            <4>2. T + p >= l /\ ~(T < l)
                BY <2>1, <4>1
            <4> QED BY <4>1, <4>2 DEF T, l
        <3>41. WordAlerts'
            BY <2>5, <3>1, <3>4
        <3>5. ~(Block' .count < Limit[13803])
            BY <1>1, <2>4, <2>6, <3>2
        <3> QED BY <2>1, <2>2, <3>2, <3>4, <3>41, <3>5 DEF WordsCounted
    <2>7. CASE ~(Block.count >= Limit[13803])
        <3>1. /\ data' = [Block EXCEPT !.count = Block.count + p]
              /\ verdict' = IF Block.count + p >= Limit[13803] THEN "match"
                            ELSE "nomatch"
            BY <2>1, <2>7 DEF ControlWords, Returns, Verdict
        <3>2. /\ data' # NoData /\ data'.count = Block.count + p
            BY <2>4, <3>1 DEF NoData
        <3>3. Block' = data'
            BY <3>2 DEF Block, Or
        <3>4. Total(seen) = Block.count
            <4>1. Block.count < Limit[13803]
                BY <1>1, <2>4, <2>7
            <4> QED BY <4>1 DEF WordsCounted
        <3>5. Total(seen') = data'.count
            BY <2>3, <3>2, <3>4
        <3>6. WordAlerts'
            BY <1>1, <2>3, <2>4, <2>5, <2>7, <3>1, <3>4
        <3>7. IF Block' .count < Limit[13803] THEN Block' .count = Total(seen')
              ELSE Total(seen') >= Limit[13803]
            <4>1. data'.count \in Nat
                BY <2>1, <2>4, <3>2
            <4> QED BY <1>1, <3>3, <3>5, <4>1
        <3> QED BY <2>1, <2>2, <3>2, <3>6, <3>7 DEF WordsCounted
    <2> QED BY <2>6, <2>7
<1>4. CASE Other
    <2>1. CASE NotStored
        <3>1. seen = <<>>
            BY <2>1 DEF NotStored, WordsCounted
        <3> QED BY <2>1, <3>1 DEF NotStored, WordsCounted, Block, Or
    <2>2. CASE NewStream
        <3>1. Block' = [sum |-> 0, count |-> 0]
            BY <2>2 DEF NewStream, Block, Or, NewBlock
        <3>2. Block' .count = 0 /\ 0 < Limit[13803] /\ Total(<<>>) = 0
            <4>1. 0 < Limit[13803]
                BY <1>1
            <4> QED BY <1>2, <3>1, <4>1
        <3> QED BY <2>2, <3>2 DEF NewStream, WordsCounted
    <2>3. CASE UNCHANGED vars
        BY <2>3 DEF vars, WordsCounted, WordAlerts, Block, Or
    <2> QED BY <1>4, <2>1, <2>2, <2>3 DEF Other
<1> QED BY <1>3, <1>4, NextIsEvalOrOther

-----------------------------------------------------------------------------
(***************************************************************************)
(* Groups.  The groups that are open at a word are those begun, less those *)
(* ended, since the last "\do".                                            *)
(***************************************************************************)
Marks(words, k, w) ==
    {i \in {i \in 1..k : \A j \in i..k : words[j] # "do"} : words[i] = w}

Balance(words, k) == Cardinality(Marks(words, k, "dpgroup"))
                        - Cardinality(Marks(words, k, "dpendgroup"))

(* The marks of a kind since the last "do" are finitely many ...           *)
LEMMA MarksAre ==
    ASSUME NEW words, NEW k \in Nat, NEW w
    PROVE  /\ IsFiniteSet(Marks(words, k, w))
           /\ Cardinality(Marks(words, k, w)) \in Nat
           /\ \A i \in Marks(words, k, w) : i \in 1..k
<1>1. Marks(words, k, w) \subseteq 1..k
    BY DEF Marks
<1>2. IsFiniteSet(1..k)
    BY FS_Interval
<1> QED BY <1>1, <1>2, FS_Subset, FS_CardinalityType

(* ... and a word adds itself to those of its kind, or clears them all.    *)
LEMMA MarksStep ==
    ASSUME NEW words, NEW k \in Nat, NEW w
    PROVE  /\ words[k + 1] = "do" => Marks(words, k + 1, w) = {}
           /\ words[k + 1] # "do" /\ words[k + 1] # w =>
                Marks(words, k + 1, w) = Marks(words, k, w)
           /\ words[k + 1] # "do" /\ words[k + 1] = w =>
                Marks(words, k + 1, w) = Marks(words, k, w) \cup {k + 1}
<1>1. \A i \in 1..(k + 1) : k + 1 \in i..(k + 1)
    OBVIOUS
<1>2. \A i \in 1..(k + 1) : i \in 1..k \/ i = k + 1
    OBVIOUS
<1>3. \A i \in 1..k : \A j \in i..(k + 1) : j \in i..k \/ j = k + 1
    OBVIOUS
<1>4. \A j \in (k + 1)..(k + 1) : j = k + 1
    OBVIOUS
<1>5. \A i \in 1..k : \A j \in i..k : j \in i..(k + 1) /\ i \in 1..(k + 1)
    OBVIOUS
<1>6. \A i \in Marks(words, k, w) : i \in 1..(k + 1)
    BY DEF Marks
<1>7. words[k + 1] = "do" => Marks(words, k + 1, w) = {}
    BY <1>1 DEF Marks
<1>8. ASSUME words[k + 1] # "do", NEW i \in 1..k
      PROVE  i \in Marks(words, k + 1, w) <=> i \in Marks(words, k, w)
    <2>1. (\A j \in i..(k + 1) : words[j] # "do") <=>
                \A j \in i..k : words[j] # "do"
        BY <1>3, <1>5, <1>8
    <2> QED BY <1>5, <2>1 DEF Marks
<1>9. ASSUME words[k + 1] # "do"
      PROVE  k + 1 \in Marks(words, k + 1, w) <=> words[k + 1] = w
    BY <1>4, <1>9 DEF Marks
<1>10. \A i \in Marks(words, k + 1, w) : i \in 1..k \/ i = k + 1
    BY <1>2 DEF Marks
<1>11. \A i \in Marks(words, k, w) : i \in 1..k
    BY DEF Marks
<1> QED BY <1>7, <1>8, <1>9, <1>10, <1>11

(* Which groups are open after a word.                                     *)
Opens(w, x, y) ==
    /\ w = "do" => y = 0
    /\ w = "dpgroup" => y = x + 1
    /\ w = "dpendgroup" => y = x - 1
    /\ w \notin {"do", "dpgroup", "dpendgroup"} => y = x

(* So the balance of the groups changes by at most one.                    *)
LEMMA BalanceStep ==
    ASSUME NEW words, NEW k \in Nat
    PROVE  /\ Balance(words, k) \in Int
           /\ Opens(words[k + 1], Balance(words, k), Balance(words, k + 1))
<1> DEFINE g == Marks(words, k, "dpgroup")
           e == Marks(words, k, "dpendgroup")
           gg == Marks(words, k + 1, "dpgroup")
           ee == Marks(words, k + 1, "dpendgroup")
<1>1. /\ IsFiniteSet(g) /\ Cardinality(g) \in Nat
      /\ IsFiniteSet(e) /\ Cardinality(e) \in Nat
      /\ k + 1 \notin g /\ k + 1 \notin e
    <2>1. ASSUME NEW w
          PROVE  /\ IsFiniteSet(Marks(words, k, w))
                 /\ Cardinality(Marks(words, k, w)) \in Nat
                 /\ k + 1 \notin Marks(words, k, w)
        <3>1. /\ IsFiniteSet(Marks(words, k, w))
              /\ Cardinality(Marks(words, k, w)) \in Nat
              /\ \A i \in Marks(words, k, w) : i \in 1..k
            BY MarksAre
        <3>2. k + 1 \notin 1..k
            OBVIOUS
        <3> QED BY <3>1, <3>2
    <2> QED BY <2>1
<1>2. /\ Cardinality(g \cup {k + 1}) = Cardinality(g) + 1
      /\ Cardinality(e \cup {k + 1}) = Cardinality(e) + 1
      /\ Cardinality({}) = 0
    BY <1>1, FS_AddElement, FS_EmptySet
<1> HIDE DEF g, e, gg, ee
<1>3. Balance(words, k) = Cardinality(g) - Cardinality(e)
    BY DEF Balance, g, e
<1>4. Balance(words, k + 1) = Cardinality(gg) - Cardinality(ee)
    BY DEF Balance, gg, ee
<1>5. CASE words[k + 1] = "do"
    <2>1. gg = {} /\ ee = {}
        BY <1>5, MarksStep DEF gg, ee
    <2>2. Balance(words, k + 1) = 0
        BY <1>2, <1>4, <2>1
    <2> QED BY <1>1, <1>3, <1>5, <2>2 DEF Opens
<1>6. CASE words[k + 1] = "dpgroup"
    <2>1. gg = g \cup {k + 1} /\ ee = e
        BY <1>6, MarksStep DEF gg, ee, g, e
    <2> QED BY <1>1, <1>2, <1>3, <1>4, <1>6, <2>1
            DEF Opens
<1>7. CASE words[k + 1] = "dpendgroup"
    <2>1. gg = g /\ ee = e \cup {k + 1}
        BY <1>7, MarksStep DEF gg, ee, g, e
    <2> QED BY <1>1, <1>2, <1>3, <1>4, <1>7, <2>1
            DEF Opens
<1>8. CASE words[k + 1] \notin {"do", "dpgroup", "dpendgroup"}
    <2>1. gg = g /\ ee = e
        BY <1>8, MarksStep DEF gg, ee, g, e
    <2> QED BY <1>1, <1>3, <1>4, <1>8, <2>1 DEF Opens
<1> QED BY <1>5, <1>6, <1>7, <1>8

(* There is nothing to balance before the first word.                      *)
LEMMA BalanceOfNone ==
    ASSUME NEW words
    PROVE  Balance(words, 0) = 0
<1>1. Marks(words, 0, "dpgroup") = {} /\ Marks(words, 0, "dpendgroup") = {}
    BY DEF Marks
<1> QED BY <1>1, FS_EmptySet DEF Balance

(* What the words up to one of them come to does not depend on the rest.   *)
LEMMA BalanceIsLocal ==
    ASSUME NEW v, NEW words, NEW k \in Nat,
           \A i \in 1..k : v[i] = words[i]
    PROVE  Balance(v, k) = Balance(words, k)
<1>1. \A w : Marks(v, k, w) = Marks(words, k, w)
    BY DEF Marks
<1> QED BY <1>1 DEF Balance

(* An end is unpaired when it takes the balance below zero.                *)
LEMMA UnpairedIs ==
    ASSUME NEW words, NEW k \in Nat
    PROVE  Unpaired(words, k) <=>
                words[k] = "dpendgroup" /\ Balance(words, k) < 0
<1>1. /\ Cardinality(Marks(words, k, "dpgroup")) \in Nat
      /\ Cardinality(Marks(words, k, "dpendgroup")) \in Nat
    BY MarksAre
<1>2. Unpaired(words, k) <=>
        /\ words[k] = "dpendgroup"
        /\ Cardinality(Marks(words, k, "dpendgroup"))
                > Cardinality(Marks(words, k, "dpgroup"))
    BY DEF Unpaired, Marks
<1> QED BY <1>1, <1>2 DEF Balance

-----------------------------------------------------------------------------
(* What is read of a text is its beginning, up to the first cut.           *)
LEMMA ReadIs ==
    ASSUME NEW text \in Seq(Words)
    PROVE  /\ Read(text) \in Seq(Words)
           /\ Skipped(text) => Read(text) = <<>>
           /\ ~Skipped(text) =>
                LET m == Len(Read(text)) IN
                /\ m \in 0..Len(text)
                /\ \A i \in 1..m : Read(text)[i] = text[i] /\ text[i] # "cut"
                /\ m < Len(text) => text[m + 1] = "cut"
<1> DEFINE cuts == {i \in DOMAIN text : text[i] = "cut"}
           c == CHOOSE i \in cuts : \A j \in cuts : i <= j
<1>1. Len(text) \in Nat /\ DOMAIN text = 1..Len(text)
    OBVIOUS
<1>2. CASE Skipped(text)
    BY <1>2 DEF Read
<1>3. CASE ~Skipped(text) /\ cuts = {}
    <2>1. Read(text) = text
        BY <1>3 DEF Read
    <2> QED BY <1>1, <1>3, <2>1
<1>4. CASE ~Skipped(text) /\ cuts # {}
    <2>1. Read(text) = SubSeq(text, 1, c - 1)
        BY <1>4 DEF Read
    <2>2. cuts \in SUBSET Nat
        BY <1>1
    <2>3. c \in cuts /\ \A j \in cuts : c <= j
        <3>1. \E i \in cuts : \A j \in cuts : i <= j
            <4> HIDE DEF cuts
            <4> QED BY <1>4, <2>2, LeastNat
        <3> QED BY <3>1
    <2> HIDE DEF c
    <2>4. c - 1 \in 0..Len(text) /\ c \in 1..Len(text) /\ text[c] = "cut"
        BY <1>1, <2>3
    <2>5. /\ Read(text) \in Seq(Words) /\ Len(Read(text)) = c - 1
          /\ \A i \in 1..(c - 1) : Read(text)[i] = text[i]
        BY <2>1, <2>4, PrefixIs
    <2>6. ASSUME NEW i \in 1..(c - 1) PROVE text[i] # "cut"
        <3>1. i \in DOMAIN text /\ ~(c <= i)
            BY <1>1, <2>4
        <3> QED BY <2>3, <3>1
    <2> QED BY <1>4, <2>4, <2>5, <2>6
<1> QED BY <1>2, <1>3, <1>4

(* What the walk does with a word.                                        *)
LEMMA WalkCases ==
    ASSUME NEW acc, NEW w
    PROVE  /\ acc.stop => Walk(acc, w) = acc
           /\ ~acc.stop /\ w = "do" => Walk(acc, w) = [acc EXCEPT !.tally = 0]
           /\ ~acc.stop /\ w = "dpgroup" =>
                Walk(acc, w) = [acc EXCEPT !.tally = @ + 1]
           /\ ~acc.stop /\ w = "dpendgroup" =>
                Walk(acc, w) = [tally |-> acc.tally - 1,
                                stop  |-> acc.tally - 1 < 0,
                                alert |-> acc.tally - 1 < 0]
           /\ ~acc.stop /\ w = "dpline" => Walk(acc, w) = acc
           /\ ~acc.stop /\ w = "cut" => Walk(acc, w) = [acc EXCEPT !.stop = TRUE]
<1>1. acc.stop => Walk(acc, w) = acc
    BY Zenon DEF Walk
<1>2. ~acc.stop /\ w = "do" => Walk(acc, w) = [acc EXCEPT !.tally = 0]
    BY Zenon DEF Walk
<1>3. ~acc.stop /\ w = "dpgroup" =>
                Walk(acc, w) = [acc EXCEPT !.tally = @ + 1]
    BY Zenon DEF Walk
<1>4. ~acc.stop /\ w = "dpendgroup" =>
                Walk(acc, w) = [tally |-> acc.tally - 1,
                                stop  |-> acc.tally - 1 < 0,
                                alert |-> acc.tally - 1 < 0]
    BY Zenon DEF Walk
<1>5. ~acc.stop /\ w = "dpline" => Walk(acc, w) = acc
    BY Zenon DEF Walk
<1>6. ~acc.stop /\ w = "cut" => Walk(acc, w) = [acc EXCEPT !.stop = TRUE]
    BY Zenon DEF Walk
<1> QED BY <1>1, <1>2, <1>3, <1>4, <1>5, <1>6

Accs == [tally : Int, stop : BOOLEAN, alert : BOOLEAN]

Walks(b, s) == \E h \in [0..Len(s) -> Accs] :
                    /\ h[0] = b
                    /\ \A i \in 1..Len(s) : h[i] = Walk(h[i - 1], s[i])
                    /\ FoldLeft(Walk, b, s) = h[Len(s)]

(* A packet's evaluation is a run through its words.                       *)
LEMMA WalkRuns ==
    ASSUME NEW b \in Accs, NEW s \in Seq(Words)
    PROVE  Walks(b, s)
<1> DEFINE op == [p \in (Accs) \X Words |-> Walk(p[1], p[2])]
           Body(f) == [t \in SUBSET DOMAIN s |->
                        IF t = {} THEN b ELSE Walk(f[t \ {Max(t)}], s[Max(t)])]
           F == CHOOSE f : f = Body(f)
           v == [t \in SUBSET DOMAIN s |-> Walk(F[t \ {Max(t)}], s[Max(t)])]
<1>1. FoldLeft(Walk, b, s) = F[DOMAIN s]
    BY Zenon DEF FoldLeft, MapThenFoldSet
<1>2. op \in [(Accs) \X Words -> Accs] /\ b \in Accs
    <2>1. \A a \in Accs, e \in Words : Walk(a, e) \in Accs
        <3> SUFFICES ASSUME NEW a \in Accs, NEW e \in Words
                     PROVE  Walk(a, e) \in Accs
            OBVIOUS
        <3>1. CASE a.stop
            BY <3>1, WalkCases
        <3>2. CASE ~a.stop
            <4>1. e \in {"do", "dpgroup", "dpendgroup", "dpline", "cut"}
                BY DEF Words
            <4>2. CASE e = "do"
                <5>1. Walk(a, e) = [a EXCEPT !.tally = 0]
                    BY <3>2, <4>2, WalkCases
                <5> QED BY <5>1 DEF Accs
            <4>3. CASE e = "dpgroup"
                <5>1. Walk(a, e) = [a EXCEPT !.tally = @ + 1]
                    BY <3>2, <4>3, WalkCases
                <5> QED BY <5>1 DEF Accs
            <4>4. CASE e = "dpendgroup"
                <5>1. Walk(a, e) = [tally |-> a.tally - 1,
                                    stop  |-> a.tally - 1 < 0,
                                    alert |-> a.tally - 1 < 0]
                    BY <3>2, <4>4, WalkCases
                <5> QED BY <5>1 DEF Accs
            <4>5. CASE e = "dpline"
                BY <3>2, <4>5, WalkCases
            <4>6. CASE e = "cut"
                <5>1. Walk(a, e) = [a EXCEPT !.stop = TRUE]
                    BY <3>2, <4>6, WalkCases
                <5> QED BY <5>1 DEF Accs
            <4> QED BY <4>1, <4>2, <4>3, <4>4, <4>5, <4>6
        <3> QED BY <3>1, <3>2
    <2> QED BY <2>1
<1>3. \A a \in Accs, e \in Words : op[<<a, e>>] = Walk(a, e)
    OBVIOUS
<1> HIDE DEF op
<1>4. PICK f \in [SUBSET DOMAIN s -> Accs] : FoldsBy(f, op, b, s)
    BY <1>2, FoldExists
<1>41. /\ Len(s) \in Nat /\ DOMAIN s = 1..Len(s)
       /\ \A i \in 1..Len(s) : s[i] \in Words
    OBVIOUS
<1>42. ASSUME NEW t \in SUBSET DOMAIN s, t # {}
       PROVE  s[Max(t)] \in Words /\ t \ {Max(t)} \in SUBSET DOMAIN s
    <2>1. Max(t) \in t
        BY <1>41, <1>42, MaxIs
    <2> QED BY <1>41, <2>1
<1>5. ASSUME NEW t \in SUBSET DOMAIN s PROVE f[t] = Body(f)[t]
    <2>1. f[t] = IF t = {} THEN b
                 ELSE op[<<f[t \ {Max(t)}], s[Max(t)]>>]
        BY <1>4 DEF FoldsBy
    <2>2. t # {} => f[t \ {Max(t)}] \in Accs /\ s[Max(t)] \in Words
        BY <1>4, <1>42
    <2> QED BY <1>3, <2>1, <2>2
<1>6. F = Body(F)
    <2>1. f = Body(f)
        BY <1>5 DEF FoldsBy
    <2> HIDE DEF Body
    <2> QED BY <2>1
<1> HIDE DEF F
<1>7. ASSUME NEW t \in SUBSET DOMAIN s, t # {}, F[t \ {Max(t)}] \in Accs
      PROVE  v[t] = op[<<F[t \ {Max(t)}], s[Max(t)]>>]
    BY <1>3, <1>42, <1>7
<1>8. F = [t \in SUBSET DOMAIN s |-> IF t = {} THEN b ELSE v[t]]
    BY <1>6
<1>9. PICK h \in [0..Len(s) -> Accs] :
            /\ h[0] = b
            /\ \A i \in 1..Len(s) : h[i] = op[<<h[i - 1], s[i]>>]
            /\ F[DOMAIN s] = h[Len(s)]
    <2> HIDE DEF v
    <2>1. FoldsWith(F, v, Accs, op, b, s)
        BY <1>7, <1>8 DEF FoldsWith
    <2>2. Runs(F, Accs, op, b, s)
        BY <1>2, <2>1, FoldRuns
    <2> QED BY <2>2 DEF Runs
<1>10. ASSUME NEW i \in 1..Len(s) PROVE h[i] = Walk(h[i - 1], s[i])
    <2>1. h[i - 1] \in Accs /\ s[i] \in Words
        <3>1. i - 1 \in 0..Len(s)
            BY <1>41
        <3> QED BY <1>41, <3>1
    <2> QED BY <1>3, <1>9, <2>1
<1> QED BY <1>1, <1>9, <1>10 DEF Walks

StartsAt(b, before) ==
    b \in Accs /\ ~b.stop /\ ~b.alert /\ b.tally = Balance(before, Len(before))

WalkOver(b, s) == FoldLeft(Walk, b, s)

WalkSays(before, all, end) ==
    /\ end.alert <=> \E k \in (Len(before) + 1)..Len(all) : Unpaired(all, k)
    /\ ~end.alert => end.tally = Balance(all, Len(all))

(* The walk over a packet's words, from the groups that the stream has     *)
(* open, alerts at an unpaired end and otherwise comes to the groups that  *)
(* are open then.                                                          *)
LEMMA WalkIs ==
    ASSUME NEW before \in Seq(Words), NEW text \in Seq(Words), ~Skipped(text),
           NEW b, StartsAt(b, before)
    PROVE  WalkSays(before, before \o Read(text), WalkOver(b, text))
<1> DEFINE all == before \o Read(text)
           end == WalkOver(b, text)
           n == Len(before)
           m == Len(Read(text))
           l == Len(text)
<1>0. /\ b \in Accs /\ ~b.stop /\ ~b.alert
      /\ b.tally = Balance(before, Len(before))
    BY DEF StartsAt
<1>1. PICK h \in [0..l -> Accs] :
            /\ h[0] = b
            /\ \A i \in 1..l : h[i] = Walk(h[i - 1], text[i])
            /\ end = h[l]
    <2>1. Walks(b, text)
        BY <1>0, WalkRuns
    <2> QED BY <2>1 DEF Walks, WalkOver
<1>2. /\ Read(text) \in Seq(Words) /\ m \in 0..l
      /\ \A i \in 1..m : Read(text)[i] = text[i] /\ text[i] # "cut"
      /\ m < l => text[m + 1] = "cut"
    BY ReadIs
<1>3. n \in Nat /\ l \in Nat /\ m \in Nat /\ \A i \in 1..l : text[i] \in Words
    BY <1>2
<1>4. /\ all \in Seq(Words) /\ Len(all) = n + m
      /\ \A i \in 1..n : all[i] = before[i]
      /\ \A i \in 1..m : all[n + i] = text[i]
    <2>1. /\ all \in Seq(Words) /\ Len(all) = n + m
          /\ \A i \in 1..(n + m) :
                all[i] = IF i <= n THEN before[i] ELSE Read(text)[i - n]
        BY <1>2, ConcatProperties
    <2>2. ASSUME NEW i \in 1..m PROVE all[n + i] = text[i]
        <3>1. n + i \in 1..(n + m) /\ ~(n + i <= n) /\ (n + i) - n = i
            BY <1>3
        <3> QED BY <1>2, <2>1, <3>1
    <2> QED BY <1>3, <2>1, <2>2
<1>5. Balance(all, n) = b.tally
    BY <1>0, <1>3, <1>4, BalanceIsLocal
<1> HIDE DEF n, m, l, all, end
<1> DEFINE Clear(i) == \A k \in (n + 1)..(n + i) : ~Unpaired(all, k)
           T == {i \in 0..m :
                    IF Clear(i)
                    THEN ~h[i].stop /\ ~h[i].alert
                            /\ h[i].tally = Balance(all, n + i)
                    ELSE h[i].stop /\ h[i].alert}
<1>6. 0 \in T
    <2>1. Clear(0) /\ n + 0 = n /\ 0 \in 0..m
        BY <1>3
    <2> QED BY <1>0, <1>1, <1>5, <2>1
<1>7. ASSUME NEW i \in 0..(m - 1), i \in T PROVE i + 1 \in T
    <2>1. /\ i + 1 \in 1..m /\ i + 1 \in 0..m /\ (i + 1) - 1 = i
          /\ i + 1 \in 1..l /\ n + (i + 1) = (n + i) + 1 /\ n + i \in Nat
          /\ i \in 0..l
        BY <1>2, <1>3
    <2>2. /\ all[(n + i) + 1] = text[i + 1] /\ text[i + 1] \in Words
          /\ text[i + 1] # "cut"
        BY <1>2, <1>3, <1>4, <2>1
    <2>3. h[i + 1] = Walk(h[i], text[i + 1]) /\ h[i] \in Accs
        BY <1>1, <2>1
    <2>4. Clear(i + 1) <=> Clear(i) /\ ~Unpaired(all, (n + i) + 1)
        <3>1. (n + i) + 1 \in (n + 1)..(n + (i + 1))
            BY <1>3, <2>1
        <3>2. \A k \in (n + 1)..(n + (i + 1)) :
                k \in (n + 1)..(n + i) \/ k = (n + i) + 1
            BY <1>3, <2>1
        <3>3. \A k \in (n + 1)..(n + i) : k \in (n + 1)..(n + (i + 1))
            BY <1>3, <2>1
        <3> QED BY <3>1, <3>2, <3>3
    <2>5. /\ Balance(all, n + i) \in Int
          /\ Opens(text[i + 1], Balance(all, n + i),
                   Balance(all, (n + i) + 1))
        BY <2>1, <2>2, BalanceStep
    <2>6. Unpaired(all, (n + i) + 1) <=>
            text[i + 1] = "dpendgroup" /\ Balance(all, (n + i) + 1) < 0
        <3> DEFINE k == (n + i) + 1
        <3>1. k \in Nat /\ all[k] = text[i + 1]
            BY <2>1, <2>2
        <3> HIDE DEF k
        <3>2. Unpaired(all, k) <=> all[k] = "dpendgroup" /\ Balance(all, k) < 0
            BY <3>1, UnpairedIs
        <3> QED BY <3>1, <3>2 DEF k
    <2> DEFINE w == text[i + 1]
               x == Balance(all, n + i)
               y == Balance(all, (n + i) + 1)
    <2> HIDE DEF Clear, w, x, y
    <2>7. CASE ~Clear(i)
        <3>1. h[i].stop /\ h[i].alert
            BY <1>7, <2>7
        <3> QED BY <2>1, <2>3, <2>4, <2>7, <3>1, WalkCases
    <2>8. CASE Clear(i)
        <3>1. ~h[i].stop /\ ~h[i].alert /\ h[i].tally = x
            BY <1>7, <2>8 DEF x
        <3>2. w \in Words /\ w # "cut" /\ x \in Int
            BY <2>2, <2>5 DEF w, x
        <3>3. Opens(w, x, y)
            BY <2>5 DEF w, x, y
        <3>4. Clear(i + 1) <=> ~(w = "dpendgroup" /\ y < 0)
            BY <2>4, <2>6, <2>8 DEF w, y
        <3>5. h[i + 1] = Walk(h[i], w) /\ h[i] \in Accs
            BY <2>3 DEF w
        <3>6. IF Clear(i + 1)
              THEN ~h[i + 1].stop /\ ~h[i + 1].alert /\ h[i + 1].tally = y
              ELSE h[i + 1].stop /\ h[i + 1].alert
            <4>1. w \in {"do", "dpgroup", "dpendgroup", "dpline"}
                BY <3>2 DEF Words
            <4>2. CASE w = "do"
                <5>1. h[i + 1] = [h[i] EXCEPT !.tally = 0]
                    BY <3>1, <3>5, <4>2, WalkCases
                <5> QED BY <3>1, <3>3, <3>4, <3>5, <4>2, <5>1 DEF Opens, Accs
            <4>3. CASE w = "dpgroup"
                <5>1. h[i + 1] = [h[i] EXCEPT !.tally = @ + 1]
                    BY <3>1, <3>5, <4>3, WalkCases
                <5> QED BY <3>1, <3>3, <3>4, <3>5, <4>3, <5>1 DEF Opens, Accs
            <4>4. CASE w = "dpendgroup"
                <5>1. h[i + 1] = [tally |-> h[i].tally - 1,
                                  stop  |-> h[i].tally - 1 < 0,
                                  alert |-> h[i].tally - 1 < 0]
                    BY <3>1, <3>5, <4>4, WalkCases
                <5>2. /\ h[i + 1].tally = h[i].tally - 1
                      /\ h[i + 1].stop = (h[i].tally - 1 < 0)
                      /\ h[i + 1].alert = (h[i].tally - 1 < 0)
                    <6>1. \A t, c, r : r = [tally |-> t, stop |-> c, alert |-> c]
                            => r.tally = t /\ r.stop = c /\ r.alert = c
                        OBVIOUS
                    <6> QED BY <5>1, <6>1
                <5>3. y = x - 1 /\ (Clear(i + 1) <=> ~(x - 1 < 0))
                    BY <3>3, <3>4, <4>4 DEF Opens
                <5> QED BY <3>1, <5>2, <5>3
            <4>5. CASE w = "dpline"
                <5>1. h[i + 1] = h[i]
                    BY <3>1, <3>5, <4>5, WalkCases
                <5> QED BY <3>1, <3>3, <3>4, <4>5, <5>1 DEF Opens
            <4> QED BY <4>1, <4>2, <4>3, <4>4, <4>5
        <3> QED BY <2>1, <3>6 DEF y
    <2> QED BY <2>7, <2>8
<1>8. m \in T
    <2> HIDE DEF T
    <2>1. \A i \in 0..m : i \in T
        BY <1>3, <1>6, <1>7, InductionTo
    <2> QED BY <1>3, <2>1
<1>9. end.alert = h[m].alert /\ end.tally = h[m].tally
    <2>1. CASE m = l
        BY <1>1, <2>1
    <2>2. CASE m < l
        <3> DEFINE U == {i \in 0..(l - m - 1) :
                            /\ h[m + 1 + i].stop
                            /\ h[m + 1 + i].alert = h[m].alert
                            /\ h[m + 1 + i].tally = h[m].tally}
        <3>1. 0 \in U
            <4>1. /\ m + 1 \in 1..l /\ (m + 1) - 1 = m /\ m \in 0..l
                  /\ 0 \in 0..(l - m - 1) /\ m + 1 + 0 = m + 1
                BY <1>3, <2>2
            <4>2. h[m + 1] = Walk(h[m], "cut") /\ h[m] \in Accs
                BY <1>1, <1>2, <2>2, <4>1
            <4>3. /\ h[m + 1].stop /\ h[m + 1].alert = h[m].alert
                  /\ h[m + 1].tally = h[m].tally
                BY <4>2, WalkCases DEF Accs
            <4> QED BY <4>1, <4>3
        <3>2. ASSUME NEW i \in 0..((l - m - 1) - 1), i \in U PROVE i + 1 \in U
            <4> DEFINE j == m + 1 + i
            <4>1. /\ j + 1 \in 1..l /\ (j + 1) - 1 = j
                  /\ m + 1 + (i + 1) = j + 1 /\ i + 1 \in 0..(l - m - 1)
                BY <1>3, <2>2
            <4> HIDE DEF j
            <4>2. h[j + 1] = Walk(h[j], text[j + 1])
                BY <1>1, <4>1
            <4>3. /\ h[j].stop /\ h[j].alert = h[m].alert
                  /\ h[j].tally = h[m].tally
                BY <3>2 DEF j
            <4>4. h[j + 1] = h[j]
                BY <4>2, <4>3, WalkCases
            <4> QED BY <4>1, <4>3, <4>4
        <3>3. l - m - 1 \in Nat
            BY <1>3, <2>2
        <3> DEFINE d == l - m - 1
        <3>4. d \in U
            <4> HIDE DEF U, d
            <4>1. \A i \in 0..d : i \in U
                BY <3>1, <3>2, <3>3, InductionTo DEF d
            <4>2. d \in 0..d
                BY <3>3 DEF d
            <4> QED BY <4>1, <4>2
        <3>5. m + 1 + d = l
            BY <1>3
        <3> HIDE DEF d
        <3> QED BY <1>1, <3>4, <3>5
    <2> QED BY <1>2, <1>3, <2>1, <2>2
<1>10. /\ Clear(m) => ~end.alert /\ end.tally = Balance(all, n + m)
       /\ ~Clear(m) => end.alert
    BY <1>8, <1>9
<1>11. Clear(m) <=> ~ \E k \in (n + 1)..Len(all) : Unpaired(all, k)
    BY <1>4
<1> HIDE DEF Clear
<1> QED BY <1>4, <1>10, <1>11 DEF WalkSays, n, all, end

-----------------------------------------------------------------------------
NoUnpaired(words) == \A k \in DOMAIN words : ~Unpaired(words, k)

(* What has been read of a stream grows by what is read of a packet.       *)
LEMMA ReadOfNone ==
    WordsRead(<<>>) = <<>>
<1>1. [i \in 1..Len(<<>>) |-> Read(<<>>[i])] = <<>>
    OBVIOUS
<1> QED BY <1>1 DEF WordsRead, FlattenSeq

LEMMA ReadAppend ==
    ASSUME NEW s \in Seq(Seq(Words)), NEW p \in Seq(Words)
    PROVE  /\ WordsRead(s) \in Seq(Words)
           /\ WordsRead(Append(s, p)) = WordsRead(s) \o Read(p)
<1> DEFINE n == Len(s)
           l == Append(s, p)
           r == [i \in 1..n |-> Read(s[i])]
<1>1. /\ n \in Nat /\ Len(l) = n + 1 /\ l[n + 1] = p
      /\ \A i \in 1..n : s[i] \in Seq(Words) /\ l[i] = s[i]
    OBVIOUS
<1>2. r \in Seq(Seq(Words)) /\ Len(r) = n /\ Read(p) \in Seq(Words)
    <2>1. Read(p) \in Seq(Words)
        BY ReadIs
    <2>2. \A i \in 1..n : Read(s[i]) \in Seq(Words)
        BY <1>1, ReadIs
    <2> QED BY <1>1, <2>1, <2>2
<1>3. PICK h \in [0..Len(r) -> Seq(Words)] : Flattens(h, r)
    BY <1>2, FlattenExists
<1>4. FlattenSeq(r) \in Seq(Words)
    BY <1>2, <1>3, FlattenIs
<1>6. [i \in 1..Len(l) |-> Read(l[i])] = Append(r, Read(p))
    <2> HIDE DEF l
    <2>1. \A i \in 1..Len(l) : Read(l[i]) = Append(r, Read(p))[i]
        BY <1>1, <1>2
    <2>2. Append(r, Read(p)) = [i \in 1..(n + 1) |-> Append(r, Read(p))[i]]
        BY <1>1, <1>2
    <2> QED BY <1>1, <2>1, <2>2
<1>7. FlattenSeq(Append(r, Read(p))) = FlattenSeq(r) \o Read(p)
    BY <1>2, FlattenAppend
<1> QED BY <1>4, <1>6, <1>7 DEF WordsRead

(* What is unpaired in the words of the first packets stays so.            *)
LEMMA UnpairedIsLocal ==
    ASSUME NEW b \in Seq(Words), NEW r \in Seq(Words)
    PROVE  /\ Len(b \o r) = Len(b) + Len(r)
           /\ \A k \in 1..Len(b) : Unpaired(b \o r, k) <=> Unpaired(b, k)
           /\ NoUnpaired(b \o r) <=>
                /\ NoUnpaired(b)
                /\ ~ \E k \in (Len(b) + 1)..Len(b \o r) : Unpaired(b \o r, k)
<1> DEFINE w == b \o r
<1>1. /\ w \in Seq(Words) /\ Len(w) = Len(b) + Len(r)
      /\ \A i \in 1..Len(b) : w[i] = b[i]
      /\ Len(b) \in Nat /\ Len(r) \in Nat
      /\ DOMAIN b = 1..Len(b) /\ DOMAIN w = 1..Len(w)
    BY ConcatProperties
<1> HIDE DEF w
<1>2. ASSUME NEW k \in 1..Len(b) PROVE Unpaired(w, k) <=> Unpaired(b, k)
    <2>1. k \in Nat /\ (\A i \in 1..k : w[i] = b[i]) /\ w[k] = b[k]
        BY <1>1
    <2>2. Balance(w, k) = Balance(b, k)
        BY <2>1, BalanceIsLocal
    <2>3. /\ Unpaired(w, k) <=> w[k] = "dpendgroup" /\ Balance(w, k) < 0
          /\ Unpaired(b, k) <=> b[k] = "dpendgroup" /\ Balance(b, k) < 0
        BY <2>1, UnpairedIs
    <2> QED BY <2>1, <2>2, <2>3
<1>3. \A k \in DOMAIN w : k \in DOMAIN b \/ k \in (Len(b) + 1)..Len(w)
    BY <1>1
<1>4. \A k \in (Len(b) + 1)..Len(w) : k \in DOMAIN w
    BY <1>1
<1>5. \A k \in DOMAIN b : k \in DOMAIN w
    BY <1>1
<1>6. NoUnpaired(w) <=> /\ NoUnpaired(b)
                        /\ ~ \E k \in (Len(b) + 1)..Len(w) : Unpaired(w, k)
    BY <1>1, <1>2, <1>3, <1>4, <1>5 DEF NoUnpaired
<1> QED BY <1>1, <1>2, <1>6 DEF w

(* A sequence that is not empty ends with its last element.                *)
LEMMA EndsWithLast ==
    ASSUME NEW E, NEW s \in Seq(E), s # <<>>
    PROVE  /\ Front(s) \in Seq(E) /\ Last(s) \in E
           /\ s = Append(Front(s), Last(s))
<1> DEFINE n == Len(s)
           q == SubSeq(s, 1, n - 1)
<1>1. n \in Nat /\ n # 0 /\ n - 1 \in 0..n /\ n \in 1..n
    BY EmptySeq
<1>2. /\ q \in Seq(E) /\ Len(q) = n - 1
      /\ \A i \in 1..(n - 1) : q[i] = s[i]
    BY <1>1, PrefixIs
<1>3. s[n] \in E
    BY <1>1
<1> HIDE DEF q
<1>4. /\ Append(q, s[n]) \in Seq(E) /\ Len(Append(q, s[n])) = n
      /\ \A i \in 1..n : Append(q, s[n])[i] = s[i]
    <2>1. /\ Append(q, s[n]) \in Seq(E) /\ Len(Append(q, s[n])) = (n - 1) + 1
          /\ Append(q, s[n])[(n - 1) + 1] = s[n]
          /\ \A i \in 1..(n - 1) : Append(q, s[n])[i] = q[i]
        BY <1>2, <1>3
    <2>2. (n - 1) + 1 = n /\ \A i \in 1..n : i \in 1..(n - 1) \/ i = n
        BY <1>1
    <2> QED BY <1>2, <2>1, <2>2
<1>5. s = Append(q, s[n])
    BY <1>4, SeqEqual
<1> QED BY <1>2, <1>3, <1>5 DEF Front, Last, q

(* As long as a stream had no unpaired end, its count is that of the       *)
(* groups that are open.                                                   *)
GroupsCounted ==
    rule = 15125 =>
        /\ data = NoData => WordsRead(seen) = <<>>
        /\ NoUnpaired(WordsRead(seen)) =>
                Block.count = Balance(WordsRead(seen), Len(WordsRead(seen)))
        /\ GroupsArePaired

(* Rule 15125: the count is the balance of the words read so far.          *)
LEMMA GroupsStep ==
    ASSUME Types, GroupsCounted, [Next]_vars
    PROVE  GroupsCounted'
<1> SUFFICES ASSUME rule = 15125 PROVE GroupsCounted'
    BY NextIsEvalOrOther, EvalIs
    DEF Types, GroupsCounted, Other, NotStored, NewStream, vars
<1> DEFINE w == WordsRead(seen)
           v == WordsRead(seen')
<1>1. ASSUME NEW p \in Packets[rule], Eval(p) PROVE GroupsCounted'
    <2>1. /\ rule' = 15125 /\ p \in Seq(Words) /\ seen' = Append(seen, p)
          /\ seen \in Seq(Seq(Words)) /\ Drawing(p)
        BY <1>1, EvalIs DEF Types, RepeatRuleIds
    <2>2. /\ w \in Seq(Words) /\ Read(p) \in Seq(Words)
          /\ v = w \o Read(p)
        <3>1. p \in Seq(Words) /\ seen \in Seq(Seq(Words))
            BY <2>1
        <3>2. Read(p) \in Seq(Words)
            BY <3>1, ReadIs
        <3>3. /\ WordsRead(seen) \in Seq(Words)
              /\ WordsRead(Append(seen, p)) = WordsRead(seen) \o Read(p)
            BY <3>1, ReadAppend
        <3> QED BY <2>1, <3>2, <3>3
    <2>3. GroupsArePaired' <=>
            (NoUnpaired(w) => (verdict' = "match" <=>
                                \E k \in (Len(w) + 1)..Len(v) : Unpaired(v, k)))
        <3>1. seen' # <<>> /\ Front(seen') = seen
            BY <2>1, LastIs
        <3> QED BY <2>1, <3>1 DEF GroupsArePaired, NoUnpaired
    <2>4. /\ Len(w) \in Nat
          /\ NoUnpaired(v) <=>
                /\ NoUnpaired(w)
                /\ ~ \E k \in (Len(w) + 1)..Len(v) : Unpaired(v, k)
        BY <2>2, UnpairedIsLocal
    <2>5. Block \in [sum : Nat, count : Int]
        BY DEF Block, Or, NewBlock, Types
    <2> HIDE DEF w, v
    <2>6. SUFFICES /\ data' = NoData => v = <<>>
                   /\ NoUnpaired(v) => Block' .count = Balance(v, Len(v))
                   /\ GroupsArePaired'
        BY DEF GroupsCounted, v
    <2>7. CASE Skipped(p)
        <3>1. data' = data /\ verdict' = "nomatch" /\ Block' = Block
            BY <2>1, <2>7 DEF Drawing, Returns, Verdict, Block, Or
        <3>2. v = w
            <4>1. Read(p) = <<>>
                BY <2>1, <2>7, ReadIs
            <4> QED BY <2>2, <4>1, ConcatEmptySeq
        <3>3. (Len(w) + 1)..Len(v) = {}
            BY <2>4, <3>2
        <3>4. GroupsArePaired'
            BY <2>3, <3>1, <3>3
        <3> QED BY <3>1, <3>2, <3>4 DEF GroupsCounted, w
    <2>8. CASE ~Skipped(p)
        <3> DEFINE b == [tally |-> Block.count, stop |-> FALSE, alert |-> FALSE]
                   end == FoldLeft(Walk, b, p)
        <3>1. /\ data' = [Block EXCEPT !.count = end.tally]
              /\ verdict' = Verdict(end.alert)
            BY <2>1, <2>8 DEF Drawing, Returns
        <3>2. b \in Accs /\ ~b.stop /\ ~b.alert /\ b.tally = Block.count
            BY <2>5 DEF Accs
        <3>3. NoUnpaired(w) => WalkSays(w, v, end)
            <4> SUFFICES ASSUME NoUnpaired(w) PROVE WalkSays(w, v, end)
                OBVIOUS
            <4>1. StartsAt(b, w)
                BY <3>2 DEF GroupsCounted, StartsAt, w
            <4>2. end = WalkOver(b, p) /\ p \in Seq(Words)
                BY <2>1 DEF WalkOver
            <4> HIDE DEF b, end
            <4>3. WalkSays(w, w \o Read(p), WalkOver(b, p))
                BY <2>2, <2>8, <4>1, <4>2, WalkIs
            <4> QED BY <2>2, <4>2, <4>3
        <3> HIDE DEF b, end
        <3>4. data' # NoData /\ data'.count = end.tally
            BY <2>5, <3>1 DEF NoData
        <3>5. Block' = data'
            BY <3>4 DEF Block, Or
        <3>6. GroupsArePaired'
            BY <2>3, <3>1, <3>3 DEF Verdict, WalkSays
        <3>7. NoUnpaired(v) => end.tally = Balance(v, Len(v))
            BY <2>4, <3>3 DEF WalkSays
        <3> QED BY <3>4, <3>5, <3>6, <3>7
    <2> QED BY <2>7, <2>8
<1>2. CASE Other
    <2>1. CASE NotStored
        <3>1. UNCHANGED <<rule, data, seen>> /\ data = NoData /\ w = <<>>
            BY <2>1 DEF NotStored, GroupsCounted
        <3>2. GroupsArePaired'
            <4>1. CASE seen = <<>>
                BY <3>1, <4>1 DEF GroupsArePaired
            <4>2. CASE seen # <<>>
                <5> DEFINE q == Front(seen)
                           x == Last(seen)
                <5>1. seen \in Seq(Seq(Words))
                    BY DEF Types
                <5>11. /\ q \in Seq(Seq(Words)) /\ x \in Seq(Words)
                       /\ seen = Append(q, x)
                    <6> DEFINE texts == Seq(Words)
                    <6>1. seen \in Seq(texts)
                        BY <5>1
                    <6> HIDE DEF texts, q, x
                    <6>2. /\ Front(seen) \in Seq(texts) /\ Last(seen) \in texts
                          /\ seen = Append(Front(seen), Last(seen))
                        BY <4>2, <6>1, EndsWithLast
                    <6> QED BY <6>2 DEF texts, q, x
                <5> HIDE DEF q, x
                <5>2. Read(x) \in Seq(Words)
                    BY <5>11, ReadIs
                <5>21. /\ WordsRead(q) \in Seq(Words)
                       /\ w = WordsRead(q) \o Read(x)
                    BY <5>11, ReadAppend
                <5>3. Len(WordsRead(q)) = 0
                    <6>1. Len(w) = Len(WordsRead(q)) + Len(Read(x))
                        BY <5>2, <5>21, ConcatProperties
                    <6>2. Len(w) = 0 /\ Len(Read(x)) \in Nat
                        BY <3>1, <5>2, EmptySeq
                    <6>3. Len(WordsRead(q)) \in Nat
                        BY <5>21
                    <6> HIDE DEF w
                    <6> QED BY <6>1, <6>2, <6>3
                <5>4. verdict' = "nomatch"
                    BY <2>1 DEF NotStored
                <5>5. Len(w) = 0
                    BY <3>1
                <5> HIDE DEF w
                <5>6. GroupsArePaired' <=>
                        (NoUnpaired(WordsRead(q)) =>
                            (verdict' = "match" <=>
                                \E k \in (Len(WordsRead(q)) + 1)..Len(w) :
                                    Unpaired(w, k)))
                    BY <3>1, <4>2 DEF GroupsArePaired, NoUnpaired, w, q
                <5> QED BY <5>3, <5>4, <5>5, <5>6
            <4> QED BY <4>1, <4>2
        <3> QED BY <3>1, <3>2 DEF GroupsCounted, Block, Or
    <2>2. CASE NewStream
        <3>1. /\ rule' = rule /\ data' = NoData /\ seen' = <<>>
              /\ Block' .count = 0
            BY <2>2 DEF NewStream, Block, Or, NewBlock
        <3>2. v = <<>>
            BY <3>1, ReadOfNone
        <3>3. Balance(<<>>, Len(<<>>)) = 0
            BY BalanceOfNone
        <3> QED BY <3>1, <3>2, <3>3 DEF GroupsCounted, GroupsArePaired
    <2>3. CASE UNCHANGED vars
        BY <2>3 DEF vars, GroupsCounted, GroupsArePaired, Block, Or
    <2> QED BY <1>2, <2>1, <2>2, <2>3 DEF Other
<1> QED BY <1>1, <1>2, NextIsEvalOrOther

-----------------------------------------------------------------------------
(***************************************************************************)
(* Places of a history, and the first and the last of them.                *)
(***************************************************************************)
Places(s, G) == {i \in DOMAIN s : s[i] \in G}

(* The latest and the earliest of some places are what they are called,    *)
(* and are determined by it.                                               *)
LEMMA LatestIs ==
    ASSUME NEW n \in Nat, NEW T \in SUBSET (1..n), T # {}
    PROVE  Latest(T) \in T /\ \A j \in T : j <= Latest(T)
<1>1. Max(T) \in T /\ \A j \in T : j <= Max(T)
    BY MaxIs
<1>2. \E i \in T : \A j \in T : j <= i
    BY <1>1
<1> QED BY <1>2 DEF Latest

LEMMA LatestUnique ==
    ASSUME NEW T \in SUBSET Nat, NEW m \in T, \A j \in T : j <= m
    PROVE  Latest(T) = m
<1>1. Latest(T) \in T /\ \A j \in T : j <= Latest(T)
    BY DEF Latest
<1>2. Latest(T) <= m /\ m <= Latest(T) /\ Latest(T) \in Nat
    BY <1>1
<1> QED BY <1>2

LEMMA EarliestIs ==
    ASSUME NEW T \in SUBSET Nat, T # {}
    PROVE  Earliest(T) \in T /\ \A j \in T : Earliest(T) <= j
BY LeastNat DEF Earliest

LEMMA EarliestUnique ==
    ASSUME NEW T \in SUBSET Nat, NEW m \in T, \A j \in T : m <= j
    PROVE  Earliest(T) = m
<1>1. Earliest(T) \in T /\ \A j \in T : Earliest(T) <= j
    BY DEF Earliest
<1>2. Earliest(T) <= m /\ m <= Earliest(T) /\ Earliest(T) \in Nat
    BY <1>1
<1> QED BY <1>2

(* The places at which a stream has something of a kind ...                *)
LEMMA PlacesAre ==
    ASSUME NEW E, NEW s \in Seq(E), NEW G
    PROVE  /\ Places(s, G) \in SUBSET (1..Len(s))
           /\ Places(s, G) # {} =>
                /\ Latest(Places(s, G)) \in 1..Len(s)
                /\ s[Latest(Places(s, G))] \in G
                /\ Earliest(Places(s, G)) \in 1..Len(s)
                /\ s[Earliest(Places(s, G))] \in G
<1> DEFINE T == Places(s, G)
<1>1. Len(s) \in Nat /\ T \in SUBSET (1..Len(s)) /\ \A i \in T : s[i] \in G
    BY DEF Places
<1> HIDE DEF T
<1>2. T # {} => Latest(T) \in T /\ Earliest(T) \in T
    <2>1. T \in SUBSET Nat
        BY <1>1
    <2> QED BY <1>1, <2>1, LatestIs, EarliestIs
<1>3. T # {} => /\ Latest(T) \in 1..Len(s) /\ s[Latest(T)] \in G
                /\ Earliest(T) \in 1..Len(s) /\ s[Earliest(T)] \in G
    BY <1>1, <1>2
<1> QED BY <1>1, <1>3 DEF T

(* ... and what an element that is appended does to them.                  *)
LEMMA PlacesAppend ==
    ASSUME NEW E, NEW s \in Seq(E), NEW x \in E, NEW G
    PROVE  /\ Places(Append(s, x), G) =
                IF x \in G THEN Places(s, G) \cup {Len(s) + 1} ELSE Places(s, G)
           /\ x \in G => Latest(Places(Append(s, x), G)) = Len(s) + 1
           /\ x \in G /\ Places(s, G) = {} =>
                Earliest(Places(Append(s, x), G)) = Len(s) + 1
           /\ Places(s, G) # {} =>
                Earliest(Places(Append(s, x), G)) = Earliest(Places(s, G))
<1> DEFINE n == Len(s)
           l == Append(s, x)
           T == Places(s, G)
           U == Places(l, G)
<1>1. /\ n \in Nat /\ DOMAIN s = 1..n /\ DOMAIN l = 1..(n + 1)
      /\ l[n + 1] = x /\ \A i \in 1..n : l[i] = s[i]
    OBVIOUS
<1> HIDE DEF l, n
<1>2. U = IF x \in G THEN T \cup {n + 1} ELSE T
    <2>1. \A i \in 1..(n + 1) : i \in 1..n \/ i = n + 1
        BY <1>1
    <2>2. \A i \in 1..n : i \in 1..(n + 1) /\ i # n + 1
        BY <1>1
    <2>3. n + 1 \in 1..(n + 1)
        BY <1>1
    <2> QED BY <1>1, <2>1, <2>2, <2>3 DEF Places
<1>3. T \in SUBSET (1..n) /\ T \in SUBSET Nat /\ \A j \in T : j <= n + 1
    BY <1>1 DEF Places
<1>31. U \in SUBSET Nat
    BY <1>1, <1>2, <1>3
<1> HIDE DEF T, U
<1>4. x \in G => Latest(U) = n + 1
    <2> SUFFICES ASSUME x \in G PROVE Latest(U) = n + 1
        OBVIOUS
    <2>1. n + 1 \in U /\ \A j \in U : j <= n + 1
        BY <1>1, <1>2, <1>3
    <2> QED BY <1>31, <2>1, LatestUnique
<1>5. x \in G /\ T = {} => Earliest(U) = n + 1
    <2> SUFFICES ASSUME x \in G, T = {} PROVE Earliest(U) = n + 1
        OBVIOUS
    <2>1. n + 1 \in U /\ \A j \in U : n + 1 <= j
        BY <1>1, <1>2
    <2> QED BY <1>31, <2>1, EarliestUnique
<1>6. T # {} => Earliest(U) = Earliest(T)
    <2> SUFFICES ASSUME T # {} PROVE Earliest(U) = Earliest(T)
        OBVIOUS
    <2>1. Earliest(T) \in T /\ \A j \in T : Earliest(T) <= j
        BY <1>3, EarliestIs
    <2>2. Earliest(T) \in U /\ \A j \in U : Earliest(T) <= j
        BY <1>1, <1>2, <1>3, <2>1
    <2> QED BY <1>31, <2>2, EarliestUnique
<1> QED BY <1>2, <1>4, <1>5, <1>6 DEF T, U, l, n

-----------------------------------------------------------------------------
(***************************************************************************)
(* What the rules of sessions and searches keep: the id that was given     *)
(* last, and the first search that could be stored.                        *)
(***************************************************************************)
GivenIds         == {h \in Hellos : h.from = "client" /\ h.len \in 1..31}
StorableSearches == {s \in Searches : Storable(s)}

Id(h) == [state |-> "session", len |-> h.len, msb |-> h.msb]

SessionKept ==
    rule = 41547 =>
        /\ data = IF Places(seen, GivenIds) = {} THEN NoData
                  ELSE Id(seen[Latest(Places(seen, GivenIds))])
        /\ SessionIsResumed

PagesKept ==
    rule = 13475 =>
        /\ data = IF Places(seen, StorableSearches) = {} THEN NoData
                  ELSE FirstPage(seen[Earliest(Places(seen, StorableSearches))])
        /\ PagesKeepSort

(* What the properties say after a step, in terms of the places.           *)
SessionSays(s, v) ==
    s # <<>> /\ Last(s).from = "server" =>
        (v = "match" <=>
            /\ Last(s).len = 32
            /\ Places(s, GivenIds) # {}
            /\ s[Latest(Places(s, GivenIds))].msb = Last(s).msb)

PageSays(s, v) ==
    s # <<>> =>
        LET first == Places(s, StorableSearches)
            f     == s[Earliest(first)]
        IN  (v = "match" <=>
                /\ first # {} /\ Last(s).pageWhole /\ Last(s).page = f.page
                /\ Last(s).sort # f.sort
                /\ Last(s).sortWhole \/ Len(Last(s).sort) # Len(f.sort))

(* The properties of sessions and searches, in terms of places.            *)
LEMMA ResumedIs ==
    ASSUME seen' \in Seq(Hellos), rule' = 41547
    PROVE  SessionIsResumed' <=> SessionSays(seen', verdict')
<1>1. \A i \in DOMAIN seen' : seen'[i] \in Hellos
    OBVIOUS
<1>2. Places(seen', GivenIds) = {i \in DOMAIN seen' : seen'[i].from = "client"
                                                /\ seen'[i].len \in 1..31}
    BY <1>1 DEF Places, GivenIds
<1> QED BY <1>2 DEF SessionIsResumed, SessionSays, At

LEMMA PagesAre ==
    ASSUME seen' \in Seq(Searches), rule' = 13475
    PROVE  PagesKeepSort' <=> PageSays(seen', verdict')
<1>1. \A i \in DOMAIN seen' : seen'[i] \in Searches
    OBVIOUS
<1>2. Places(seen', StorableSearches) = {i \in DOMAIN seen' : Storable(seen'[i])}
    BY <1>1 DEF Places, StorableSearches
<1> QED BY <1>2 DEF PagesKeepSort, PageSays, At

(* Rules 41547 and 41548: the block is the last id that was given.         *)
LEMMA SessionStep ==
    ASSUME Types, SessionKept, [Next]_vars
    PROVE  SessionKept'
<1> SUFFICES ASSUME rule = 41547 PROVE SessionKept'
    BY NextIsEvalOrOther, EvalIs
    DEF Types, SessionKept, Other, NotStored, NewStream, vars
<1> DEFINE T == Places(seen, GivenIds)
           U == Places(seen', GivenIds)
<1>1. ASSUME NEW h \in Packets[rule], Eval(h) PROVE SessionKept'
    <2>1. /\ rule' = 41547 /\ h \in Hellos /\ seen' = Append(seen, h)
          /\ seen \in Seq(Hellos) /\ Session(h)
        BY <1>1, EvalIs DEF Types, Session
    <2>2. /\ U = IF h \in GivenIds THEN T \cup {Len(seen) + 1} ELSE T
          /\ h \in GivenIds => Latest(U) = Len(seen) + 1
        BY <2>1, PlacesAppend
    <2>3. /\ seen'[Len(seen) + 1] = h /\ Last(seen') = h /\ seen' # <<>>
          /\ Len(seen) \in Nat /\ \A i \in 1..Len(seen) : seen'[i] = seen[i]
          /\ seen' \in Seq(Hellos)
        BY <2>1, LastIs
    <2>4. T # {} => Latest(T) \in 1..Len(seen)
        BY <2>1, PlacesAre
    <2>5. SessionIsResumed' <=> SessionSays(seen', verdict')
        BY <2>1, <2>3, ResumedIs
    <2> HIDE DEF T, U
    <2>6. data = IF T = {} THEN NoData ELSE Id(seen[Latest(T)])
        BY DEF SessionKept, T
    <2>7. SUFFICES /\ data' = IF U = {} THEN NoData ELSE Id(seen'[Latest(U)])
                   /\ SessionSays(seen', verdict')
        BY <2>5 DEF SessionKept, U
    <2>8. CASE h.from = "client"
        <3>1. data' = SessionHello(h)
            BY <2>1, <2>8 DEF Session
        <3>2. SessionSays(seen', verdict')
            BY <2>3, <2>8 DEF SessionSays
        <3>3. h.len \in 0..255
            BY <2>1 DEF Hellos
        <3>4. CASE h \in GivenIds
            <4>1. data' = Id(h)
                BY <3>1, <3>4 DEF SessionHello, GivenIds, Id
            <4> QED BY <2>2, <2>3, <3>2, <3>4, <4>1
        <3>5. CASE h \notin GivenIds
            <4>0. ~(h.len \in 1..31)
                BY <2>1, <2>8, <3>5 DEF GivenIds
            <4>1. h.len = 0 \/ h.len >= 32
                BY <3>3, <4>0
            <4>2. data' = data
                BY <3>1, <4>1 DEF SessionHello
            <4> QED BY <2>2, <2>3, <2>4, <2>6, <3>2, <3>5, <4>2
        <3> QED BY <3>4, <3>5
    <2>9. CASE h.from = "server"
        <3>1. data' = data /\ verdict' = Verdict(Resumed(h))
            BY <2>1, <2>9 DEF Session
        <3>2. h \notin GivenIds /\ U = T
            BY <2>2, <2>9 DEF GivenIds
        <3>3. T # {} => /\ seen'[Latest(T)] = seen[Latest(T)]
                        /\ seen[Latest(T)] \in GivenIds
            BY <2>1, <2>3, <2>4, PlacesAre DEF T
        <3>4. Resumed(h) <=> /\ h.len = 32 /\ T # {}
                             /\ seen[Latest(T)].msb = h.msb
            <4>1. CASE T = {}
                BY <2>6, <4>1 DEF Resumed
            <4>2. CASE T # {}
                <5>1. /\ data = Id(seen[Latest(T)]) /\ data # NoData
                      /\ data.len \in 1..31
                      /\ data.msb = seen[Latest(T)].msb
                    BY <2>6, <3>3, <4>2 DEF GivenIds, Id, NoData
                <5> QED BY <4>2, <5>1 DEF Resumed
            <4> QED BY <4>1, <4>2
        <3>5. SessionSays(seen', verdict') <=>
                (verdict' = "match" <=> /\ h.len = 32 /\ T # {}
                                        /\ seen'[Latest(T)].msb = h.msb)
            BY <2>3, <2>9, <3>2 DEF SessionSays, U
        <3> QED BY <2>6, <3>1, <3>2, <3>3, <3>4, <3>5 DEF Verdict
    <2>10. h.from \in {"client", "server"}
        BY <2>1 DEF Hellos
    <2> QED BY <2>8, <2>9, <2>10
<1>2. CASE Other
    <2>1. CASE NotStored
        <3>1. /\ UNCHANGED <<rule, data, seen>> /\ data = NoData
              /\ verdict' = "nomatch" /\ seen' \in Seq(Hellos)
            BY <2>1 DEF NotStored, Types
        <3>2. T = {}
            <4>1. \A h : Id(h) # NoData
                BY DEF Id, NoData
            <4> QED BY <3>1, <4>1 DEF SessionKept
        <3>3. SessionIsResumed' <=> SessionSays(seen', verdict')
            BY <3>1, ResumedIs
        <3>4. SessionSays(seen', verdict')
            BY <3>1, <3>2 DEF SessionSays
        <3> QED BY <3>1, <3>3, <3>4 DEF SessionKept
    <2>2. CASE NewStream
        <3>1. Places(<<>>, GivenIds) = {}
            BY DEF Places
        <3> QED BY <2>2, <3>1 DEF NewStream, SessionKept, SessionIsResumed
    <2>3. CASE UNCHANGED vars
        BY <2>3 DEF vars, SessionKept, SessionIsResumed, At
    <2> QED BY <1>2, <2>1, <2>2, <2>3 DEF Other
<1> QED BY <1>1, <1>2, NextIsEvalOrOther

(* Rule 13475: the block is the first search that could be stored.         *)
LEMMA PagesStep ==
    ASSUME Types, PagesKept, [Next]_vars
    PROVE  PagesKept'
<1> SUFFICES ASSUME rule = 13475 PROVE PagesKept'
    BY NextIsEvalOrOther, EvalIs
    DEF Types, PagesKept, Other, NotStored, NewStream, vars
<1> DEFINE T == Places(seen, StorableSearches)
           U == Places(seen', StorableSearches)
<1>0. \A s : FirstPage(s) # NoData
    BY DEF FirstPage, NoData
<1>1. ASSUME NEW s \in Packets[rule], Eval(s) PROVE PagesKept'
    <2>1. /\ rule' = 13475 /\ s \in Searches /\ seen' = Append(seen, s)
          /\ seen \in Seq(Searches) /\ Search(s)
        BY <1>1, EvalIs DEF Types, SearchPage
    <2>2. /\ U = IF s \in StorableSearches THEN T \cup {Len(seen) + 1} ELSE T
          /\ s \in StorableSearches /\ T = {} => Earliest(U) = Len(seen) + 1
          /\ T # {} => Earliest(U) = Earliest(T)
        BY <2>1, PlacesAppend
    <2>3. /\ seen'[Len(seen) + 1] = s /\ Last(seen') = s /\ seen' # <<>>
          /\ Len(seen) \in Nat /\ \A i \in 1..Len(seen) : seen'[i] = seen[i]
          /\ seen' \in Seq(Searches)
        BY <2>1, LastIs
    <2>4. T # {} => /\ Earliest(T) \in 1..Len(seen)
                    /\ seen'[Earliest(T)] = seen[Earliest(T)]
        BY <2>1, <2>3, PlacesAre
    <2>5. PagesKeepSort' <=> PageSays(seen', verdict')
        BY <2>1, <2>3, PagesAre
    <2>6. s \in StorableSearches <=> Storable(s)
        BY <2>1 DEF StorableSearches
    <2> HIDE DEF T, U
    <2>7. data = IF T = {} THEN NoData ELSE FirstPage(seen[Earliest(T)])
        BY DEF PagesKept, T
    <2>8. SUFFICES
            /\ data' = IF U = {} THEN NoData ELSE FirstPage(seen'[Earliest(U)])
            /\ PageSays(seen', verdict')
        BY <2>5 DEF PagesKept, U
    <2>9. PageSays(seen', verdict') <=>
            (verdict' = "match" <=>
                /\ U # {} /\ s.pageWhole /\ s.page = seen'[Earliest(U)].page
                /\ s.sort # seen'[Earliest(U)].sort
                /\ s.sortWhole \/ Len(s.sort) # Len(seen'[Earliest(U)].sort))
        BY <2>3 DEF PageSays, U
    <2>10. CASE T = {}
        <3>1. /\ data = NoData /\ verdict' = "nomatch"
              /\ data' = IF Storable(s) THEN FirstPage(s) ELSE data
            BY <2>1, <2>7, <2>10 DEF Search, Verdict
        <3>2. U # {} => seen'[Earliest(U)] = s /\ Storable(s)
            BY <2>2, <2>3, <2>6, <2>10
        <3> QED BY <2>2, <2>6, <2>9, <2>10, <3>1, <3>2
    <2>11. CASE T # {}
        <3> DEFINE f == seen[Earliest(T)]
        <3>1. U # {} /\ seen'[Earliest(U)] = f
            BY <2>2, <2>4, <2>11
        <3>2. /\ data = FirstPage(f) /\ data # NoData
              /\ data.page = f.page /\ data.sort = f.sort
            BY <1>0, <2>7, <2>11 DEF FirstPage
        <3> HIDE DEF f
        <3>3. /\ data' = data
              /\ verdict' = "match" <=>
                    s.pageWhole /\ s.page = f.page /\ OtherSort(s)
            BY <2>1, <3>2 DEF Search, Verdict
        <3>4. OtherSort(s) <=>
                /\ s.sort # f.sort
                /\ s.sortWhole \/ Len(s.sort) # Len(f.sort)
            BY <3>2 DEF OtherSort
        <3> QED BY <2>9, <3>1, <3>2, <3>3, <3>4
    <2> QED BY <2>10, <2>11
<1>2. CASE Other
    <2>1. CASE NotStored
        <3>1. /\ UNCHANGED <<rule, data, seen>> /\ data = NoData
              /\ verdict' = "nomatch" /\ seen' \in Seq(Searches)
            BY <2>1 DEF NotStored, Types
        <3>2. T = {}
            BY <1>0, <3>1 DEF PagesKept
        <3>3. PagesKeepSort' <=> PageSays(seen', verdict')
            BY <3>1, PagesAre
        <3>4. PageSays(seen', verdict')
            BY <3>1, <3>2 DEF PageSays
        <3> QED BY <3>1, <3>3, <3>4 DEF PagesKept
    <2>2. CASE NewStream
        <3>1. Places(<<>>, StorableSearches) = {}
            BY DEF Places
        <3> QED BY <2>2, <3>1 DEF NewStream, PagesKept, PagesKeepSort
    <2>3. CASE UNCHANGED vars
        BY <2>3 DEF vars, PagesKept, PagesKeepSort, At, OtherSort
    <2> QED BY <1>2, <2>1, <2>2, <2>3 DEF Other
<1> QED BY <1>1, <1>2, NextIsEvalOrOther

-----------------------------------------------------------------------------
(***************************************************************************)
(* SRP.  What the block has to be after the messages s of a stream.        *)
(***************************************************************************)
Greetings(s) == {i \in DOMAIN s : s[i].type = "srphello"}

Answers(s) == {i \in DOMAIN s : s[i].type = "serverkeyx"
                                    /\ i > Latest(Greetings(s))}

ClientsIn(s, k, n) == {i \in (k + 1)..n : s[i].type = "clientkeyx"}

(* The prime that was read last.                                           *)
Answering(s, i) == \E h \in 1..(i - 1) :
                        /\ s[h].type = "srphello"
                        /\ \A j \in (h + 1)..(i - 1) : s[j].type # "serverkeyx"

ReadsIn(s) == {i \in DOMAIN s : /\ s[i].type = "serverkeyx"
                                /\ s[i].len # -1
                                /\ Answering(s, i)}

PrimeIn(s) == IF ReadsIn(s) = {} THEN 0 ELSE s[Latest(ReadsIn(s))].len

SrpBlockIs(s, d) ==
    IF Greetings(s) = {} THEN d = NoData
    ELSE /\ d \in SrpBlocks
         /\ Answers(s) = {} => d.state = "srphello"
         /\ Answers(s) # {} =>
                /\ d.state = IF ClientsIn(s, Earliest(Answers(s)), Len(s)) = {}
                             THEN "serverkeyx" ELSE "clientkeyx"
                /\ s[Earliest(Answers(s))].len # -1 =>
                        d.prime = s[Earliest(Answers(s))].len
         /\ d.prime = PrimeIn(s)

(* No hello without SRP since the SRP hello.                               *)
NoPlainIn(s) == \A i \in (Latest(Greetings(s)) + 1)..(Len(s) - 1) :
                    s[i].type # "hello"

SrpSays(s, v) ==
    s # <<>> /\ Last(s).type = "clientkeyx" /\ v # "none" =>
        LET k == Earliest(Answers(s))
            answered == /\ Greetings(s) # {} /\ Answers(s) # {} /\ k < Len(s)
                        /\ ClientsIn(s, k, Len(s) - 1) = {}
            own == s[k].len # -1 /\ NoPlainIn(s)
        IN  /\ ~answered => v = "nomatch"
            /\ answered /\ own => (v = "match" <=> Last(s).len > s[k].len)
            /\ answered /\ v = "match" => Last(s).len > PrimeIn(s)

(* The property of SRP handshakes, in terms of places.                     *)
LEMMA SrpIs ==
    ASSUME rule' = 59879
    PROVE  SrpFollowsHandshake' <=> SrpSays(seen', verdict')
BY DEF SrpFollowsHandshake, SrpSays, At, Greetings, Answers, ClientsIn,
       PrimeRead, PrimeIn, ReadsIn, Answering, NoPlainIn

LEMMA SrpIsNow ==
    ASSUME rule = 59879
    PROVE  SrpFollowsHandshake <=> SrpSays(seen, verdict)
BY DEF SrpFollowsHandshake, SrpSays, At, Greetings, Answers, ClientsIn,
       PrimeRead, PrimeIn, ReadsIn, Answering, NoPlainIn

(* The places of greetings and of their answers in a stream.               *)
LEMMA PlacesOfMessages ==
    ASSUME NEW s \in Seq(Messages)
    PROVE  /\ Len(s) \in Nat
           /\ Greetings(s) \in SUBSET (1..Len(s))
           /\ Greetings(s) # {} => /\ Latest(Greetings(s)) \in Greetings(s)
                                   /\ \A j \in Greetings(s) :
                                        j <= Latest(Greetings(s))
           /\ Answers(s) \in SUBSET (1..Len(s))
           /\ Answers(s) # {} => /\ Earliest(Answers(s)) \in Answers(s)
                                 /\ \A j \in Answers(s) :
                                        Earliest(Answers(s)) <= j
<1>1. /\ Len(s) \in Nat /\ DOMAIN s = 1..Len(s)
      /\ Greetings(s) \in SUBSET (1..Len(s))
      /\ Answers(s) \in SUBSET (1..Len(s)) /\ Answers(s) \in SUBSET Nat
    BY DEF Greetings, Answers
<1>2. Greetings(s) # {} => /\ Latest(Greetings(s)) \in Greetings(s)
                           /\ \A j \in Greetings(s) : j <= Latest(Greetings(s))
    <2> DEFINE T == Greetings(s)
    <2> HIDE DEF T
    <2>1. T # {} => Latest(T) \in T /\ \A j \in T : j <= Latest(T)
        BY <1>1, LatestIs DEF T
    <2> QED BY <2>1 DEF T
<1>3. Answers(s) # {} => /\ Earliest(Answers(s)) \in Answers(s)
                         /\ \A j \in Answers(s) : Earliest(Answers(s)) <= j
    <2> DEFINE T == Answers(s)
    <2>1. T \in SUBSET Nat
        BY <1>1
    <2> HIDE DEF T
    <2>2. T # {} => Earliest(T) \in T /\ \A j \in T : Earliest(T) <= j
        BY <2>1, EarliestIs
    <2> QED BY <2>2 DEF T
<1> QED BY <1>1, <1>2, <1>3

(* The prime that was read last is that of a place in the stream.          *)
LEMMA ReadsAre ==
    ASSUME NEW s \in Seq(Messages)
    PROVE  /\ ReadsIn(s) \in SUBSET (1..Len(s))
           /\ ReadsIn(s) # {} => Latest(ReadsIn(s)) \in 1..Len(s)
           /\ Greetings(s) = {} => PrimeIn(s) = 0
<1>1. Len(s) \in Nat /\ DOMAIN s = 1..Len(s) /\ ReadsIn(s) \in SUBSET (1..Len(s))
    BY DEF ReadsIn
<1>2. ReadsIn(s) # {} => Latest(ReadsIn(s)) \in 1..Len(s)
    <2> DEFINE T == ReadsIn(s)
    <2> HIDE DEF T
    <2>1. T \in SUBSET (1..Len(s)) => (T # {} => Latest(T) \in 1..Len(s))
        BY <1>1, LatestIs
    <2> QED BY <1>1, <2>1 DEF T
<1>3. Greetings(s) = {} => PrimeIn(s) = 0
    <2> SUFFICES ASSUME Greetings(s) = {}, NEW i \in ReadsIn(s) PROVE FALSE
        BY DEF PrimeIn
    <2>1. PICK h \in 1..(i - 1) : s[h].type = "srphello"
        BY DEF ReadsIn, Answering
    <2>2. i \in 1..Len(s) /\ h \in DOMAIN s
        BY <1>1
    <2> QED BY <2>1, <2>2 DEF Greetings
<1> QED BY <1>1, <1>2, <1>3

(* Messages that are no key exchange of the server leave it.               *)
LEMMA PrimeStays ==
    ASSUME NEW s \in Seq(Messages), NEW l \in Seq(Messages),
           Len(s) <= Len(l), \A i \in 1..Len(s) : l[i] = s[i],
           \A i \in 1..Len(l) : l[i].type = "serverkeyx" => i \in 1..Len(s)
    PROVE  PrimeIn(l) = PrimeIn(s)
<1> DEFINE n == Len(s)
<1>1. /\ n \in Nat /\ DOMAIN s = 1..n /\ DOMAIN l = 1..Len(l)
      /\ \A i \in 1..n : i \in 1..Len(l)
    OBVIOUS
<1> HIDE DEF n
<1>2. ASSUME NEW i \in 1..n PROVE Answering(l, i) <=> Answering(s, i)
    <2>1. \A h \in 1..(i - 1) : /\ l[h] = s[h]
                               /\ \A j \in (h + 1)..(i - 1) : l[j] = s[j]
        BY <1>1 DEF n
    <2> QED BY <2>1 DEF Answering
<1>3. ReadsIn(l) = ReadsIn(s)
    BY <1>1, <1>2 DEF ReadsIn, n
<1>4. ReadsIn(s) # {} => l[Latest(ReadsIn(s))] = s[Latest(ReadsIn(s))]
    BY ReadsAre
<1> QED BY <1>3, <1>4 DEF PrimeIn

(* One that comes first after an SRP hello replaces it, if it can be read. *)
LEMMA PrimeReplaced ==
    ASSUME NEW s \in Seq(Messages), NEW m \in Messages,
           m.type = "serverkeyx", Greetings(s) # {}
    PROVE  PrimeIn(Append(s, m)) =
                IF m.len # -1 /\ Answers(s) = {} THEN m.len ELSE PrimeIn(s)
<1> DEFINE n == Len(s)
           l == Append(s, m)
           g == Latest(Greetings(s))
<1>1. /\ n \in Nat /\ DOMAIN s = 1..n /\ DOMAIN l = 1..(n + 1)
      /\ l[n + 1] = m /\ \A i \in 1..n : l[i] = s[i]
    OBVIOUS
<1>11. /\ \A i \in 1..(n + 1) : i \in 1..n \/ i = n + 1
       /\ \A i \in 1..n : i \in 1..(n + 1) /\ i # n + 1
       /\ n + 1 \in 1..(n + 1) /\ (n + 1) - 1 = n
    BY <1>1
<1> HIDE DEF l, n
<1>2. ASSUME NEW i \in 1..n PROVE Answering(l, i) <=> Answering(s, i)
    <2>1. \A h \in 1..(i - 1) : /\ l[h] = s[h]
                               /\ \A j \in (h + 1)..(i - 1) : l[j] = s[j]
        BY <1>1
    <2> QED BY <2>1 DEF Answering
<1>3. Answering(l, n + 1) <=> Answers(s) = {}
    <2>1. g \in 1..n /\ s[g].type = "srphello" /\ \A h \in Greetings(s) : h <= g
        <3>1. g \in Greetings(s) /\ Greetings(s) \in SUBSET (1..n)
            BY PlacesOfMessages DEF n
        <3> QED BY <3>1, PlacesOfMessages DEF Greetings
    <2> HIDE DEF g
    <2>2. ASSUME Answers(s) = {} PROVE Answering(l, n + 1)
        <3>1. ASSUME NEW j \in (g + 1)..n PROVE l[j].type # "serverkeyx"
            <4>1. j \in 1..n /\ j > g
                BY <1>1, <2>1
            <4> QED BY <1>1, <2>2, <4>1 DEF Answers, g
        <3> QED BY <1>1, <1>11, <2>1, <3>1 DEF Answering
    <2>3. ASSUME Answering(l, n + 1), NEW j \in Answers(s) PROVE FALSE
        <3>1. PICK h \in 1..n :
                    /\ l[h].type = "srphello"
                    /\ \A i \in (h + 1)..n : l[i].type # "serverkeyx"
            BY <1>11, <2>3 DEF Answering
        <3>2. h \in Greetings(s)
            BY <1>1, <3>1 DEF Greetings
        <3>3. j \in 1..n /\ s[j].type = "serverkeyx" /\ j > g
            BY <1>1 DEF Answers, g
        <3>4. j \in (h + 1)..n
            BY <1>1, <2>1, <3>2, <3>3
        <3> QED BY <1>1, <3>1, <3>3, <3>4
    <2> QED BY <2>2, <2>3
<1>4. CASE m.len # -1 /\ Answers(s) = {}
    <2> DEFINE T == ReadsIn(l)
    <2>1. n + 1 \in T /\ T \in SUBSET (1..(n + 1))
        BY <1>1, <1>3, <1>4, <1>11 DEF ReadsIn
    <2> HIDE DEF T
    <2>2. T \in SUBSET Nat /\ \A j \in T : j <= n + 1
        BY <1>1, <2>1
    <2>3. Latest(T) = n + 1
        BY <2>1, <2>2, LatestUnique
    <2> QED BY <1>1, <1>4, <2>1, <2>3 DEF PrimeIn, T, l
<1>5. CASE ~(m.len # -1 /\ Answers(s) = {})
    <2>1. ReadsIn(l) = ReadsIn(s)
        BY <1>1, <1>11, <1>2, <1>3, <1>5 DEF ReadsIn
    <2>2. ReadsIn(s) # {} => l[Latest(ReadsIn(s))] = s[Latest(ReadsIn(s))]
        BY <1>1, ReadsAre DEF n
    <2> QED BY <1>5, <2>1, <2>2 DEF PrimeIn, l
<1> QED BY <1>4, <1>5

(* A key exchange of the server.                                           *)
LEMMA SrpServer ==
    ASSUME NEW s \in Seq(Messages), NEW d, SrpBlockIs(s, d),
           NEW m \in Messages, m.type = "serverkeyx"
    PROVE  SrpBlockIs(Append(s, m), ServerKeyX(d, m))
<1> DEFINE n == Len(s)
           l == Append(s, m)
           e == Earliest(Answers(s))
<1>1. /\ n \in Nat /\ DOMAIN s = 1..n /\ DOMAIN l = 1..(n + 1)
      /\ Len(l) = n + 1 /\ l[n + 1] = m /\ \A i \in 1..n : l[i] = s[i]
    OBVIOUS
<1>11. /\ \A i \in 1..(n + 1) : i \in 1..n \/ i = n + 1
       /\ \A i \in 1..n : i \in 1..(n + 1) /\ i # n + 1
       /\ n + 1 \in 1..(n + 1)
    BY <1>1
<1> HIDE DEF l, n
<1>2. Greetings(l) = Greetings(s)
    BY <1>1, <1>11 DEF Greetings
<1>3. CASE Greetings(s) = {}
    <2>1. ServerKeyX(d, m) = NoData
        BY <1>3 DEF SrpBlockIs, ServerKeyX, NoData
    <2> QED BY <1>2, <1>3, <2>1 DEF SrpBlockIs, l
<1>4. CASE Greetings(s) # {}
    <2>1. Latest(Greetings(s)) \in 1..n
        BY <1>4, PlacesOfMessages DEF n
    <2>2. Answers(l) = Answers(s) \cup {n + 1}
        <3>1. n + 1 > Latest(Greetings(s))
            BY <1>1, <2>1
        <3> QED BY <1>1, <1>11, <1>2, <3>1 DEF Answers
    <2>3. Answers(l) # {}
        BY <2>2
    <2>31. PrimeIn(l) = IF m.len # -1 /\ Answers(s) = {} THEN m.len
                        ELSE PrimeIn(s)
        BY <1>4, PrimeReplaced DEF l
    <2>32. d.prime = PrimeIn(s)
        BY <1>4 DEF SrpBlockIs
    <2>4. CASE Answers(s) = {}
        <3>1. Answers(l) = {n + 1} /\ Earliest(Answers(l)) = n + 1
            BY <2>2, <2>4 DEF Earliest
        <3>2. ClientsIn(l, n + 1, n + 1) = {}
            BY <1>1 DEF ClientsIn
        <3>3. d \in SrpBlocks /\ d.state = "srphello"
            BY <1>4, <2>4 DEF SrpBlockIs
        <3>4. /\ ServerKeyX(d, m).state = "serverkeyx"
              /\ ServerKeyX(d, m) \in SrpBlocks
              /\ m.len # -1 => ServerKeyX(d, m).prime = m.len
              /\ ServerKeyX(d, m).prime = PrimeIn(l)
            <4>1. m.len \in Nat \cup {-1} /\ d.prime \in Nat
                BY <3>3 DEF Messages, SrpBlocks
            <4> QED BY <2>4, <2>31, <2>32, <3>3, <4>1 DEF ServerKeyX, SrpBlocks
        <3> QED BY <1>1, <1>2, <1>4, <2>3, <3>1, <3>2, <3>4 DEF SrpBlockIs, l
    <2>5. CASE Answers(s) # {}
        <3>1. /\ e \in Answers(s) /\ \A j \in Answers(s) : e <= j
              /\ Answers(s) \in SUBSET (1..n)
            BY <2>5, PlacesOfMessages DEF n
        <3>2. Earliest(Answers(l)) = e
            <4>1. Answers(l) \in SUBSET Nat
                BY <1>1, <2>2, <3>1
            <4>2. e \in Answers(l) /\ \A j \in Answers(l) : e <= j
                BY <1>1, <2>2, <3>1
            <4> QED BY <4>1, <4>2, EarliestUnique
        <3>3. ClientsIn(l, e, n + 1) = ClientsIn(s, e, n)
            <4>1. \A i \in (e + 1)..(n + 1) : i \in (e + 1)..n \/ i = n + 1
                BY <1>1, <3>1
            <4>2. \A i \in (e + 1)..n : i \in (e + 1)..(n + 1) /\ i \in 1..n
                BY <1>1, <3>1
            <4>3. l[n + 1].type # "clientkeyx"
                BY <1>1
            <4> HIDE DEF e
            <4> QED BY <1>1, <4>1, <4>2, <4>3 DEF ClientsIn
        <3>4. /\ d \in SrpBlocks
              /\ d.state = IF ClientsIn(s, e, n) = {} THEN "serverkeyx"
                           ELSE "clientkeyx"
              /\ s[e].len # -1 => d.prime = s[e].len
            BY <1>4, <2>5 DEF SrpBlockIs, n
        <3>5. ServerKeyX(d, m) = d /\ l[e] = s[e]
            BY <1>1, <3>1, <3>4 DEF ServerKeyX
        <3>6. d.prime = PrimeIn(l)
            BY <2>5, <2>31, <2>32
        <3> HIDE DEF e
        <3> QED BY <1>1, <1>2, <1>4, <2>3, <3>2, <3>3, <3>4, <3>5, <3>6
                DEF SrpBlockIs, l
    <2> QED BY <2>4, <2>5
<1> QED BY <1>3, <1>4

(* A key exchange of the client: what is reported, and what is kept.       *)
LEMMA SrpClient ==
    ASSUME NEW s \in Seq(Messages), NEW d, SrpBlockIs(s, d),
           NEW m \in Messages, m.type = "clientkeyx"
    PROVE  /\ SrpBlockIs(Append(s, m), ClientKeyX(d, m).block)
           /\ SrpSays(Append(s, m), Verdict(ClientKeyX(d, m).alert))
<1> DEFINE n == Len(s)
           l == Append(s, m)
           e == Earliest(Answers(s))
           r == ClientKeyX(d, m)
<1>1. /\ n \in Nat /\ DOMAIN s = 1..n /\ DOMAIN l = 1..(n + 1)
      /\ Len(l) = n + 1 /\ l[n + 1] = m /\ \A i \in 1..n : l[i] = s[i]
    OBVIOUS
<1>11. /\ \A i \in 1..(n + 1) : i \in 1..n \/ i = n + 1
       /\ \A i \in 1..n : i \in 1..(n + 1) /\ i # n + 1
       /\ n + 1 \in 1..(n + 1) /\ (n + 1) - 1 = n
    BY <1>1
<1>12. Last(l) = m
    BY LastIs
<1> HIDE DEF l, n
<1>2. Greetings(l) = Greetings(s)
    BY <1>1, <1>11 DEF Greetings
<1>3. Answers(l) = Answers(s)
    BY <1>1, <1>11, <1>2 DEF Answers
<1>31. PrimeIn(l) = PrimeIn(s)
    <2>1. l \in Seq(Messages) /\ n <= n + 1
        BY <1>1 DEF l
    <2>2. \A i \in 1..(n + 1) : l[i].type = "serverkeyx" => i \in 1..n
        BY <1>1, <1>11
    <2> QED BY <1>1, <2>1, <2>2, PrimeStays DEF n
<1>4. r = IF d.state # "serverkeyx" THEN [block |-> d, alert |-> FALSE]
          ELSE [block |-> [d EXCEPT !.state = "clientkeyx"],
                alert |-> m.len > d.prime]
    BY DEF ClientKeyX
<1> HIDE DEF r
<1>5. CASE Greetings(s) = {}
    <2>1. d = NoData /\ d.state # "serverkeyx"
        BY <1>5 DEF SrpBlockIs, NoData
    <2>2. r.block = NoData /\ ~r.alert
        BY <1>4, <2>1
    <2>3. Verdict(r.alert) = "nomatch"
        BY <2>2 DEF Verdict
    <2> QED BY <1>2, <1>5, <2>2, <2>3 DEF SrpBlockIs, SrpSays, l, r
<1>6. CASE Greetings(s) # {} /\ Answers(s) = {}
    <2>1. d \in SrpBlocks /\ d.state = "srphello"
        BY <1>6 DEF SrpBlockIs
    <2>2. r.block = d /\ ~r.alert
        BY <1>4, <2>1
    <2>3. Verdict(r.alert) = "nomatch"
        BY <2>2 DEF Verdict
    <2>4. d.prime = PrimeIn(l)
        BY <1>6, <1>31 DEF SrpBlockIs
    <2>5. SrpBlockIs(l, r.block)
        BY <1>2, <1>3, <1>6, <2>1, <2>2, <2>4 DEF SrpBlockIs
    <2> QED BY <1>2, <1>3, <1>6, <2>3, <2>5 DEF SrpSays, l, r
<1>7. CASE Greetings(s) # {} /\ Answers(s) # {}
    <2>1. e \in 1..n
        BY <1>7, PlacesOfMessages DEF n
    <2>2. l[e] = s[e] /\ e < n + 1
        BY <1>1, <2>1
    <2>3. ClientsIn(l, e, n) = ClientsIn(s, e, n)
        <3>1. \A i \in (e + 1)..n : i \in 1..n
            BY <1>1, <2>1
        <3> HIDE DEF e
        <3> QED BY <1>1, <3>1 DEF ClientsIn
    <2>4. ClientsIn(l, e, n + 1) # {}
        <3>1. n + 1 \in (e + 1)..(n + 1)
            BY <1>1, <2>1
        <3> HIDE DEF e
        <3> QED BY <1>1, <3>1 DEF ClientsIn
    <2>5. /\ d \in SrpBlocks
          /\ d.state = IF ClientsIn(s, e, n) = {} THEN "serverkeyx"
                       ELSE "clientkeyx"
          /\ s[e].len # -1 => d.prime = s[e].len
          /\ d.prime = PrimeIn(s)
        BY <1>7 DEF SrpBlockIs, n
    <2> DEFINE c == ClientsIn(s, e, n) = {}
    <2>6. c => /\ r.block = [d EXCEPT !.state = "clientkeyx"]
               /\ r.alert = (m.len > d.prime)
        BY <1>4, <2>5
    <2>7. ~c => r.block = d /\ ~r.alert
        BY <1>4, <2>5
    <2>8. /\ r.block \in SrpBlocks /\ r.block.state = "clientkeyx"
          /\ r.block.prime = d.prime
        BY <2>5, <2>6, <2>7 DEF SrpBlocks
    <2> HIDE DEF e, c
    <2>9. SrpBlockIs(l, r.block)
        BY <1>1, <1>2, <1>3, <1>7, <1>31, <2>2, <2>4, <2>5, <2>8
        DEF SrpBlockIs, e
    <2>10. /\ ~c => Verdict(r.alert) = "nomatch"
           /\ c /\ s[e].len # -1 =>
                (Verdict(r.alert) = "match" <=> m.len > s[e].len)
           /\ c /\ Verdict(r.alert) = "match" => m.len > PrimeIn(s)
        BY <2>5, <2>6, <2>7 DEF Verdict
    <2>11. SrpSays(l, Verdict(r.alert))
        <3>1. ClientsIn(l, e, Len(l) - 1) = {} <=> c
            BY <1>1, <1>11, <2>3 DEF c
        <3>2. Earliest(Answers(l)) = e
            BY <1>3 DEF e
        <3> QED BY <1>1, <1>2, <1>3, <1>7, <1>12, <1>31, <2>2, <2>10, <3>1,
                   <3>2
                DEF SrpSays
    <2> QED BY <2>9, <2>11 DEF l, r
<1> QED BY <1>5, <1>6, <1>7

(* Messages that are no key exchange: only an SRP hello is of account.     *)
LEMMA SrpQuiet ==
    ASSUME NEW s \in Seq(Messages), NEW d, SrpBlockIs(s, d),
           NEW r \in Seq(Messages),
           \A i \in DOMAIN r : r[i].type \notin {"serverkeyx", "clientkeyx"},
           NEW c, c = IF \E i \in DOMAIN r : r[i].type = "srphello"
                      THEN [state |-> "srphello",
                            prime |-> IF d = NoData THEN 0 ELSE d.prime]
                      ELSE d
    PROVE  SrpBlockIs(s \o r, c)
<1> DEFINE n == Len(s)
           k == Len(r)
           l == s \o r
           e == Earliest(Answers(s))
<1>1. n \in Nat /\ k \in Nat /\ DOMAIN s = 1..n /\ DOMAIN r = 1..k
    OBVIOUS
<1>2. /\ l \in Seq(Messages) /\ Len(l) = n + k /\ DOMAIN l = 1..(n + k)
      /\ \A i \in 1..n : l[i] = s[i] /\ i \in 1..(n + k)
      /\ \A i \in 1..k : l[n + i] = r[i] /\ n + i \in 1..(n + k)
      /\ \A i \in 1..(n + k) : i \in 1..n \/ (i - n \in 1..k /\ n + (i - n) = i)
    <2>1. /\ l \in Seq(Messages) /\ Len(l) = n + k
          /\ \A i \in 1..(n + k) : l[i] = IF i <= n THEN s[i] ELSE r[i - n]
        BY ConcatProperties
    <2>2. ASSUME NEW i \in 1..k PROVE l[n + i] = r[i] /\ n + i \in 1..(n + k)
        <3>1. n + i \in 1..(n + k) /\ ~(n + i <= n) /\ (n + i) - n = i
            BY <1>1
        <3> QED BY <2>1, <3>1
    <2>3. \A i \in 1..n : l[i] = s[i] /\ i \in 1..(n + k)
        BY <1>1, <2>1
    <2>4. \A i \in 1..(n + k) : i \in 1..n \/ (i - n \in 1..k /\ n + (i - n) = i)
        BY <1>1
    <2> QED BY <2>1, <2>2, <2>3, <2>4
<1> HIDE DEF n, k, l
<1>3. \A i \in 1..(n + k) : l[i].type \in {"serverkeyx", "clientkeyx"} =>
                                i \in 1..n
    BY <1>1, <1>2
<1>31. PrimeIn(l) = PrimeIn(s)
    <2>1. n <= n + k
        BY <1>1
    <2> QED BY <1>2, <1>3, <2>1, PrimeStays DEF n
<1>4. CASE \E i \in DOMAIN r : r[i].type = "srphello"
    <2>1. PICK j \in 1..k : r[j].type = "srphello"
        BY <1>1, <1>4
    <2>2. n + j \in Greetings(l)
        BY <1>2, <2>1 DEF Greetings
    <2>3. /\ Latest(Greetings(l)) \in Greetings(l) /\ n + j <= Latest(Greetings(l))
          /\ Greetings(l) \in SUBSET (1..(n + k)) /\ Greetings(l) # {}
        <3>1. Greetings(l) # {}
            BY <2>2
        <3> QED BY <1>2, <2>2, <3>1, PlacesOfMessages
    <2>4. Answers(l) = {}
        <3> SUFFICES ASSUME NEW i \in Answers(l) PROVE FALSE
            OBVIOUS
        <3>1. i \in 1..n /\ i > Latest(Greetings(l))
            BY <1>2, <1>3 DEF Answers
        <3>2. Latest(Greetings(l)) \in 1..(n + k)
            BY <2>3
        <3> QED BY <1>1, <2>3, <3>1, <3>2
    <2>5. c \in SrpBlocks /\ c.state = "srphello"
        <3>1. d # NoData => d.prime \in Nat
            BY DEF SrpBlockIs, SrpBlocks
        <3> QED BY <1>4, <3>1 DEF SrpBlocks
    <2>6. c.prime = PrimeIn(l)
        <3>1. CASE Greetings(s) = {}
            <4>1. d = NoData /\ PrimeIn(s) = 0
                BY <3>1, ReadsAre DEF SrpBlockIs
            <4> QED BY <1>4, <1>31, <4>1
        <3>2. CASE Greetings(s) # {}
            <4>1. d \in SrpBlocks /\ d.prime = PrimeIn(s)
                BY <3>2 DEF SrpBlockIs
            <4>2. d # NoData
                BY <4>1 DEF SrpBlocks, NoData
            <4> QED BY <1>4, <1>31, <4>1, <4>2
        <3> QED BY <3>1, <3>2
    <2> QED BY <2>3, <2>4, <2>5, <2>6 DEF SrpBlockIs, l
<1>5. CASE ~ \E i \in DOMAIN r : r[i].type = "srphello"
    <2>1. c = d
        BY <1>5
    <2>2. Greetings(l) = Greetings(s)
        <3>1. \A i \in 1..(n + k) : l[i].type = "srphello" => i \in 1..n
            <4> SUFFICES ASSUME NEW i \in 1..(n + k), i \notin 1..n
                         PROVE  l[i].type # "srphello"
                OBVIOUS
            <4>1. i - n \in DOMAIN r /\ n + (i - n) = i
                BY <1>1, <1>2
            <4>2. l[i] = r[i - n]
                BY <1>1, <1>2, <4>1
            <4> QED BY <1>5, <4>1, <4>2
        <3> QED BY <1>1, <1>2, <3>1 DEF Greetings
    <2>3. Answers(l) = Answers(s)
        BY <1>1, <1>2, <1>3, <2>2 DEF Answers
    <2>4. Answers(s) # {} => /\ e \in 1..n /\ l[e] = s[e]
                             /\ ClientsIn(l, e, n + k) = ClientsIn(s, e, n)
        <3> SUFFICES ASSUME Answers(s) # {}
                     PROVE  /\ e \in 1..n /\ l[e] = s[e]
                            /\ ClientsIn(l, e, n + k) = ClientsIn(s, e, n)
            OBVIOUS
        <3>1. e \in 1..n /\ l[e] = s[e]
            BY <1>2, PlacesOfMessages DEF n
        <3> HIDE DEF e
        <3>2. \A i \in (e + 1)..(n + k) : i \in 1..(n + k)
            BY <1>1, <3>1
        <3>3. \A i \in (e + 1)..n : i \in 1..n /\ i \in (e + 1)..(n + k)
            BY <1>1, <3>1
        <3>4. \A i \in (e + 1)..(n + k) : i \in 1..n => i \in (e + 1)..n
            BY <1>1, <3>1
        <3>5. ClientsIn(l, e, n + k) = ClientsIn(s, e, n)
            BY <1>2, <1>3, <3>2, <3>3, <3>4 DEF ClientsIn
        <3> QED BY <3>1, <3>5
    <2> HIDE DEF e
    <2>5. SrpBlockIs(l, d)
        BY <1>2, <1>31, <2>2, <2>3, <2>4 DEF SrpBlockIs, e, n
    <2> QED BY <2>1, <2>5 DEF l
<1> QED BY <1>4, <1>5

(* Only the last of the messages that are looked at may end the look.      *)
LEMMA LookedIs ==
    ASSUME NEW p \in Seq(Messages)
    PROVE  /\ Looked(p) \in Seq(Messages)
           /\ \A i \in 1..(Len(Looked(p)) - 1) :
                Looked(p)[i].type \in {"srphello", "other"}
<1> DEFINE ends == {i \in DOMAIN p : p[i].type \notin {"srphello", "other"}}
           all  == IF Len(p) < Records THEN Len(p) ELSE Records
           c    == CHOOSE i \in ends : \A j \in ends : i <= j
<1>1. /\ Len(p) \in Nat /\ DOMAIN p = 1..Len(p) /\ Records \in Nat
      /\ ends \in SUBSET Nat
    BY BoundsAssumption
<1>2. all \in 0..Len(p)
    BY <1>1
<1>3. CASE \E i \in ends : i <= all
    <2>1. Looked(p) = SubSeq(p, 1, c)
        BY <1>3 DEF Looked
    <2>2. c \in ends /\ \A j \in ends : c <= j
        <3>1. \E i \in ends : \A j \in ends : i <= j
            <4> HIDE DEF ends
            <4> QED BY <1>1, <1>3, LeastNat
        <3> QED BY <3>1
    <2> HIDE DEF c
    <2>3. c \in 1..Len(p) /\ c \in 0..Len(p)
        BY <1>1, <2>2
    <2>4. /\ Looked(p) \in Seq(Messages) /\ Len(Looked(p)) = c
          /\ \A i \in 1..c : Looked(p)[i] = p[i]
        BY <2>1, <2>3, PrefixIs
    <2>5. ASSUME NEW i \in 1..(c - 1)
          PROVE  p[i].type \in {"srphello", "other"} /\ i \in 1..c
        <3>1. i \in DOMAIN p /\ ~(c <= i) /\ i \in 1..c
            BY <1>1, <2>3
        <3> QED BY <2>2, <3>1
    <2> QED BY <2>4, <2>5
<1>4. CASE ~ \E i \in ends : i <= all
    <2>1. Looked(p) = SubSeq(p, 1, all)
        BY <1>4 DEF Looked
    <2> HIDE DEF all
    <2>2. /\ Looked(p) \in Seq(Messages) /\ Len(Looked(p)) = all
          /\ \A i \in 1..all : Looked(p)[i] = p[i]
        BY <1>2, <2>1, PrefixIs
    <2>3. ASSUME NEW i \in 1..(all - 1)
          PROVE  p[i].type \in {"srphello", "other"} /\ i \in 1..all
        <3>1. i \in DOMAIN p /\ i <= all /\ i \in 1..all
            BY <1>1, <1>2
        <3> QED BY <1>4, <3>1
    <2> QED BY <2>2, <2>3
<1> QED BY <1>3, <1>4

(* The last element of what is appended comes last.                        *)
LEMMA AppendedLast ==
    ASSUME NEW E, NEW s \in Seq(E), NEW q \in Seq(E), NEW x \in E
    PROVE  s \o Append(q, x) = Append(s \o q, x) /\ s \o q \in Seq(E)
<1> DEFINE n == Len(s)
           k == Len(q)
           t == Append(q, x)
           a == s \o q
<1>1. /\ n \in Nat /\ k \in Nat /\ t \in Seq(E) /\ Len(t) = k + 1
      /\ t[k + 1] = x /\ \A i \in 1..k : t[i] = q[i]
    OBVIOUS
<1>2. /\ a \in Seq(E) /\ Len(a) = n + k
      /\ \A i \in 1..(n + k) : a[i] = IF i <= n THEN s[i] ELSE q[i - n]
    BY ConcatProperties
<1> HIDE DEF t, a
<1>3. /\ s \o t \in Seq(E) /\ Len(s \o t) = n + (k + 1)
      /\ \A i \in 1..(n + (k + 1)) :
            (s \o t)[i] = IF i <= n THEN s[i] ELSE t[i - n]
    <2>1. /\ s \o t \in Seq(E) /\ Len(s \o t) = Len(s) + Len(t)
          /\ \A i \in 1..(Len(s) + Len(t)) :
                (s \o t)[i] = IF i <= Len(s) THEN s[i] ELSE t[i - Len(s)]
        BY <1>1, ConcatProperties
    <2> QED BY <1>1, <2>1
<1>4. /\ Append(a, x) \in Seq(E) /\ Len(Append(a, x)) = (n + k) + 1
      /\ \A i \in 1..(n + k) : Append(a, x)[i] = a[i]
      /\ Append(a, x)[(n + k) + 1] = x
    <2>1. /\ Append(a, x) \in Seq(E) /\ Len(Append(a, x)) = Len(a) + 1
          /\ \A i \in 1..Len(a) : Append(a, x)[i] = a[i]
          /\ Append(a, x)[Len(a) + 1] = x
        BY <1>2
    <2> QED BY <1>2, <2>1
<1>5. ASSUME NEW i \in 1..(n + (k + 1)) PROVE (s \o t)[i] = Append(a, x)[i]
    <2>1. CASE i = (n + k) + 1
        <3>1. ~(i <= n) /\ i - n = k + 1
            BY <1>1, <2>1
        <3> QED BY <1>1, <1>3, <1>4, <2>1, <3>1
    <2>2. CASE i # (n + k) + 1
        <3>1. i \in 1..(n + k) /\ (~(i <= n) => i - n \in 1..k)
            BY <1>1, <2>2
        <3>2. ~(i <= n) => t[i - n] = q[i - n]
            BY <1>1, <3>1
        <3> QED BY <1>2, <1>3, <1>4, <3>1, <3>2
    <2> QED BY <2>1, <2>2
<1>6. s \o t = Append(a, x)
    <2>1. n + (k + 1) = (n + k) + 1
        BY <1>1
    <2> QED BY <1>3, <1>4, <1>5, <2>1, SeqEqual
<1> QED BY <1>2, <1>6 DEF t, a

SrpKept ==
    rule = 59879 => SrpBlockIs(seen, data) /\ SrpFollowsHandshake

(* Rules 59879 and 59880: the block follows the handshake.                 *)
LEMMA SrpStep ==
    ASSUME Types, SrpKept, [Next]_vars
    PROVE  SrpKept'
<1> SUFFICES ASSUME rule = 59879 PROVE SrpKept'
    BY NextIsEvalOrOther, EvalIs
    DEF Types, SrpKept, Other, NotStored, NewStream, vars
<1>1. ASSUME NEW p \in Packets[rule], Eval(p) PROVE SrpKept'
    <2> DEFINE msgs == Looked(p)
               greets == \E i \in DOMAIN msgs : msgs[i].type = "srphello"
               d == IF greets THEN [Or(NewSrp) EXCEPT !.state = "srphello"]
                    ELSE data
               q == Front(msgs)
               m == Last(msgs)
    <2>1. /\ rule' = 59879 /\ p \in Seq(Messages) /\ seen \in Seq(Messages)
          /\ data \in SrpBlocks \cup {NoData} /\ Srp(p)
        BY <1>1, EvalIs DEF Types
    <2>2. /\ msgs \in Seq(Messages)
          /\ \A i \in 1..(Len(msgs) - 1) : msgs[i].type \in {"srphello", "other"}
        BY <2>1, LookedIs
    <2>3. /\ msgs # <<>> /\ seen' = seen \o msgs
          /\ \/ /\ m.type = "serverkeyx"
                /\ data' = ServerKeyX(d, m)
                /\ verdict' = "nomatch"
             \/ /\ m.type = "clientkeyx"
                /\ data' = ClientKeyX(d, m).block
                /\ verdict' = Verdict(ClientKeyX(d, m).alert)
             \/ /\ m.type \notin {"serverkeyx", "clientkeyx"}
                /\ data' = d
                /\ verdict' = "nomatch"
        BY <2>1 DEF Srp
    <2>4. d = IF greets THEN [state |-> "srphello",
                              prime |-> IF data = NoData THEN 0 ELSE data.prime]
              ELSE data
        <3>1. [Or(NewSrp) EXCEPT !.state = "srphello"] =
                [state |-> "srphello",
                 prime |-> IF data = NoData THEN 0 ELSE data.prime]
            BY <2>1 DEF Or, NewSrp, SrpBlocks
        <3> HIDE DEF greets
        <3> QED BY <3>1
    <2> HIDE DEF msgs, d, q, m
    <2>5. /\ q \in Seq(Messages) /\ m \in Messages /\ msgs = Append(q, m)
        <3>1. msgs \in Seq(Messages) /\ msgs # <<>>
            BY <2>2, <2>3
        <3>2. /\ Front(msgs) \in Seq(Messages) /\ Last(msgs) \in Messages
              /\ msgs = Append(Front(msgs), Last(msgs))
            BY <3>1, EndsWithLast
        <3> QED BY <3>2 DEF q, m
    <2>6. /\ Len(q) \in Nat /\ Len(msgs) = Len(q) + 1 /\ msgs[Len(q) + 1] = m
          /\ \A i \in 1..Len(q) : msgs[i] = q[i]
          /\ DOMAIN q = 1..Len(q) /\ DOMAIN msgs = 1..(Len(q) + 1)
        BY <2>5
    <2>7. \A i \in DOMAIN q : q[i].type \in {"srphello", "other"}
        <3>1. Len(msgs) - 1 = Len(q)
            BY <2>6
        <3> QED BY <2>2, <2>6, <3>1
    <2>8. /\ \A i \in DOMAIN msgs : i \in DOMAIN q \/ i = Len(q) + 1
          /\ \A i \in DOMAIN q : i \in DOMAIN msgs
          /\ Len(q) + 1 \in DOMAIN msgs
        BY <2>6
    <2>9. SrpBlockIs(seen, data)
        BY DEF SrpKept
    <2>10. SrpFollowsHandshake' <=> SrpSays(seen', verdict')
        BY <2>1, SrpIs
    <2>11. SUFFICES SrpBlockIs(seen', data') /\ SrpSays(seen', verdict')
        BY <2>10 DEF SrpKept
    <2> DEFINE s == seen \o q
    <2>12. seen' = Append(s, m) /\ s \in Seq(Messages) /\ Last(seen') = m
        <3>1. seen \o Append(q, m) = Append(s, m) /\ s \in Seq(Messages)
            BY <2>1, <2>5, AppendedLast
        <3>2. seen' = Append(s, m)
            BY <2>3, <2>5, <3>1
        <3> HIDE DEF s
        <3>3. Last(Append(s, m)) = m
            BY <2>5, <3>1, LastIs
        <3> QED BY <3>1, <3>2, <3>3
    <2>13. m.type # "srphello" => SrpBlockIs(s, d)
        <3> SUFFICES ASSUME m.type # "srphello" PROVE SrpBlockIs(s, d)
            OBVIOUS
        <3>1. greets <=> \E i \in DOMAIN q : q[i].type = "srphello"
            BY <2>6, <2>8
        <3>2. d = IF \E i \in DOMAIN q : q[i].type = "srphello"
                  THEN [state |-> "srphello",
                        prime |-> IF data = NoData THEN 0 ELSE data.prime]
                  ELSE data
            BY <2>4, <3>1
        <3>3. \A i \in DOMAIN q :
                    q[i].type \notin {"serverkeyx", "clientkeyx"}
            BY <2>7
        <3>4. q \in Seq(Messages) /\ seen \in Seq(Messages)
            BY <2>1, <2>5
        <3> HIDE DEF s, greets
        <3>5. SrpBlockIs(seen \o q, d)
            BY <2>9, <3>2, <3>3, <3>4, SrpQuiet
        <3> QED BY <3>5 DEF s
    <2> HIDE DEF s
    <2>14. CASE m.type = "serverkeyx"
        <3>1. data' = ServerKeyX(d, m)
            BY <2>3, <2>14
        <3>2. SrpBlockIs(Append(s, m), ServerKeyX(d, m))
            BY <2>5, <2>12, <2>13, <2>14, SrpServer
        <3>3. SrpSays(seen', verdict')
            BY <2>12, <2>14 DEF SrpSays
        <3> QED BY <2>12, <3>1, <3>2, <3>3
    <2>15. CASE m.type = "clientkeyx"
        <3>1. /\ data' = ClientKeyX(d, m).block
              /\ verdict' = Verdict(ClientKeyX(d, m).alert)
            BY <2>3, <2>15
        <3>2. /\ SrpBlockIs(Append(s, m), ClientKeyX(d, m).block)
              /\ SrpSays(Append(s, m), Verdict(ClientKeyX(d, m).alert))
            BY <2>5, <2>12, <2>13, <2>15, SrpClient
        <3> QED BY <2>12, <3>1, <3>2
    <2>16. CASE m.type \notin {"serverkeyx", "clientkeyx"}
        <3>1. data' = d
            BY <2>3, <2>16
        <3>2. \A i \in DOMAIN msgs :
                    msgs[i].type \notin {"serverkeyx", "clientkeyx"}
            BY <2>6, <2>7, <2>8, <2>16
        <3>3. SrpBlockIs(seen \o msgs, d)
            BY <2>1, <2>2, <2>4, <2>9, <3>2, SrpQuiet
        <3>4. SrpSays(seen', verdict')
            BY <2>12, <2>16 DEF SrpSays
        <3> QED BY <2>3, <3>1, <3>3, <3>4
    <2> QED BY <2>14, <2>15, <2>16
<1>2. CASE Other
    <2>1. CASE NotStored
        <3>1. /\ UNCHANGED <<rule, data, seen>> /\ data = NoData
              /\ verdict' = "nomatch"
            BY <2>1 DEF NotStored
        <3>2. Greetings(seen) = {}
            BY <3>1 DEF SrpKept, SrpBlockIs, SrpBlocks, NoData
        <3>3. SrpSays(seen', verdict')
            BY <3>1, <3>2 DEF SrpSays
        <3>4. SrpFollowsHandshake'
            BY <3>1, <3>3, SrpIs
        <3> QED BY <3>1, <3>4 DEF SrpKept
    <2>2. CASE NewStream
        <3>1. Greetings(<<>>) = {}
            BY DEF Greetings
        <3> QED BY <2>2, <3>1 DEF NewStream, SrpKept, SrpBlockIs,
                                  SrpFollowsHandshake
    <2>3. CASE UNCHANGED vars
        <3>1. SrpFollowsHandshake' <=> SrpSays(seen', verdict')
            BY <2>3, SrpIs DEF vars
        <3> QED BY <2>3, <3>1, SrpIsNow DEF vars, SrpKept
    <2> QED BY <1>2, <2>1, <2>2, <2>3 DEF Other
<1> QED BY <1>1, <1>2, NextIsEvalOrOther

-----------------------------------------------------------------------------
(***************************************************************************)
(* Fragments.  The states of the walk over those of a datagram.            *)
(***************************************************************************)
States == [block : Tables, now : Nat, stop : BOOLEAN, alert : BOOLEAN,
           log : Seq(Logged)]

Entry(f, now) == [type |-> f.type, total |-> f.total, time |-> now]

Log(f, bad, now) == [type |-> f.type, seq |-> f.seq, alert |-> bad,
                     total |-> f.total, time |-> now]

(* What one fragment does, where it is one that is recorded or reported.   *)
Fits(acc, f) == /\ ~acc.stop /\ f.type # "server" /\ ~(f.len > f.total)
                /\ f.len # f.total /\ ~(f.seq >= TableLen)

(* What one fragment does to the evaluation of a datagram.                 *)
LEMMA FragmentIs ==
    ASSUME NEW acc \in States, NEW f \in Fragments
    PROVE  LET bad == Disagrees(acc.block.entry[f.seq], f, acc.now)
               r   == Fragment(acc, f)
           IN  /\ r \in States
               /\ ~Fits(acc, f) => r.block = acc.block /\ r.log = acc.log
               /\ Fits(acc, f) =>
                    /\ bad \in BOOLEAN /\ Log(f, bad, acc.now) \in Logged
                    /\ f.seq \in 0..(TableLen - 1) /\ f.total # 0
                    /\ r.log = Append(acc.log, Log(f, bad, acc.now))
                    /\ r.block = IF bad THEN acc.block
                                 ELSE [acc.block EXCEPT !.entry[f.seq] =
                                            Entry(f, acc.now)]
<1> DEFINE bad == Disagrees(acc.block.entry[f.seq], f, acc.now)
           r   == Fragment(acc, f)
           rec == [acc.block EXCEPT !.entry[f.seq] = Entry(f, acc.now)]
<1>1. /\ f.type \in {"hello", "keyx", "cipher", "server"} /\ f.seq \in Nat
      /\ f.total \in Nat /\ f.len \in Nat /\ TableLen \in Nat
    BY BoundsAssumption DEF Fragments
<1>2. /\ acc.block \in Tables /\ acc.now \in Nat /\ acc.stop \in BOOLEAN
      /\ acc.alert \in BOOLEAN /\ acc.log \in Seq(Logged)
      /\ acc = [block |-> acc.block, now |-> acc.now, stop |-> acc.stop,
                alert |-> acc.alert, log |-> acc.log]
    BY DEF States
<1>3. bad \in BOOLEAN
    BY DEF Disagrees
<1>4. CASE acc.stop \/ f.type = "server" \/ f.len > f.total
    <2>1. r = [acc EXCEPT !.stop = TRUE]
        BY <1>4 DEF Fragment
    <2>2. r \in States /\ r.block = acc.block /\ r.log = acc.log
        BY <2>1 DEF States
    <2>3. ~Fits(acc, f)
        BY <1>4 DEF Fits
    <2> HIDE DEF r
    <2> QED BY <2>2, <2>3 DEF r
<1>5. CASE /\ ~(acc.stop \/ f.type = "server" \/ f.len > f.total)
           /\ f.len = f.total \/ f.seq >= TableLen
    <2>1. r = acc
        BY <1>5 DEF Fragment
    <2>2. ~Fits(acc, f)
        BY <1>5 DEF Fits
    <2> HIDE DEF r
    <2> QED BY <2>1, <2>2 DEF r
<1>6. CASE /\ ~(acc.stop \/ f.type = "server" \/ f.len > f.total)
           /\ ~(f.len = f.total \/ f.seq >= TableLen)
    <2> HIDE DEF bad
    <2>1. r = [acc EXCEPT
                !.block = IF bad THEN acc.block ELSE rec,
                !.stop  = bad,
                !.alert = bad,
                !.log   = Append(acc.log, Log(f, bad, acc.now))]
        BY <1>6 DEF Fragment, Record, Entry, Log, bad
    <2>2. /\ f.seq \in 0..(TableLen - 1) /\ f.total # 0
          /\ f.type \in {"hello", "keyx", "cipher"}
        BY <1>1, <1>6
    <2>3. Log(f, bad, acc.now) \in Logged
        BY <1>1, <1>2, <1>3, <2>2 DEF Log, Logged
    <2>4. rec \in Tables
        <3>1. Entry(f, acc.now) \in Entries
            BY <1>1, <1>2, <2>2 DEF Entry, Entries
        <3> QED BY <1>2, <2>2, <3>1 DEF Tables
    <2>5. Append(acc.log, Log(f, bad, acc.now)) \in Seq(Logged)
        BY <1>2, <2>3
    <2> HIDE DEF rec, r
    <2>6. /\ r.block = IF bad THEN acc.block ELSE rec
          /\ r.log = Append(acc.log, Log(f, bad, acc.now))
          /\ r \in States
        BY <1>2, <1>3, <2>1, <2>4, <2>5 DEF States
    <2>7. Fits(acc, f)
        BY <1>6 DEF Fits
    <2> QED BY <1>3, <2>2, <2>3, <2>6, <2>7 DEF r, rec, bad
<1> QED BY <1>4, <1>5, <1>6

LEMMA FragmentTypes ==
    ASSUME NEW acc \in States, NEW f \in Fragments
    PROVE  Fragment(acc, f) \in States
BY FragmentIs

FragmentWalks(b, s) ==
    \E h \in [0..Len(s) -> States] :
        /\ h[0] = b
        /\ \A i \in 1..Len(s) : h[i] = Fragment(h[i - 1], s[i])
        /\ FoldLeft(Fragment, b, s) = h[Len(s)]

(* A datagram's evaluation is a run through its fragments.                 *)
LEMMA FragmentRuns ==
    ASSUME NEW b \in States, NEW s \in Seq(Fragments)
    PROVE  FragmentWalks(b, s)
<1> DEFINE op == [p \in States \X Fragments |-> Fragment(p[1], p[2])]
           Body(f) == [t \in SUBSET DOMAIN s |->
                        IF t = {} THEN b ELSE Fragment(f[t \ {Max(t)}], s[Max(t)])]
           F == CHOOSE f : f = Body(f)
           v == [t \in SUBSET DOMAIN s |-> Fragment(F[t \ {Max(t)}], s[Max(t)])]
<1>1. FoldLeft(Fragment, b, s) = F[DOMAIN s]
    BY Zenon DEF FoldLeft, MapThenFoldSet
<1>2. op \in [States \X Fragments -> States] /\ b \in States
    <2>1. \A a \in States, e \in Fragments : Fragment(a, e) \in States
        BY FragmentTypes
    <2> QED BY <2>1
<1>3. \A a \in States, e \in Fragments : op[<<a, e>>] = Fragment(a, e)
    OBVIOUS
<1> HIDE DEF op
<1>4. PICK f \in [SUBSET DOMAIN s -> States] : FoldsBy(f, op, b, s)
    BY <1>2, FoldExists
<1>41. /\ Len(s) \in Nat /\ DOMAIN s = 1..Len(s)
       /\ \A i \in 1..Len(s) : s[i] \in Fragments
    OBVIOUS
<1>42. ASSUME NEW t \in SUBSET DOMAIN s, t # {}
       PROVE  s[Max(t)] \in Fragments /\ t \ {Max(t)} \in SUBSET DOMAIN s
    <2>1. Max(t) \in t
        BY <1>41, <1>42, MaxIs
    <2> QED BY <1>41, <2>1
<1>5. ASSUME NEW t \in SUBSET DOMAIN s PROVE f[t] = Body(f)[t]
    <2>1. f[t] = IF t = {} THEN b
                 ELSE op[<<f[t \ {Max(t)}], s[Max(t)]>>]
        BY <1>4 DEF FoldsBy
    <2>2. t # {} => f[t \ {Max(t)}] \in States /\ s[Max(t)] \in Fragments
        BY <1>4, <1>42
    <2> QED BY <1>3, <2>1, <2>2
<1>6. F = Body(F)
    <2>1. f = Body(f)
        BY <1>5 DEF FoldsBy
    <2> HIDE DEF Body
    <2> QED BY <2>1
<1> HIDE DEF F
<1>7. ASSUME NEW t \in SUBSET DOMAIN s, t # {}, F[t \ {Max(t)}] \in States
      PROVE  v[t] = op[<<F[t \ {Max(t)}], s[Max(t)]>>]
    BY <1>3, <1>42, <1>7
<1>8. F = [t \in SUBSET DOMAIN s |-> IF t = {} THEN b ELSE v[t]]
    BY <1>6
<1>9. PICK h \in [0..Len(s) -> States] :
            /\ h[0] = b
            /\ \A i \in 1..Len(s) : h[i] = op[<<h[i - 1], s[i]>>]
            /\ F[DOMAIN s] = h[Len(s)]
    <2> HIDE DEF v
    <2>1. FoldsWith(F, v, States, op, b, s)
        BY <1>7, <1>8 DEF FoldsWith
    <2>2. Runs(F, States, op, b, s)
        BY <1>2, <2>1, FoldRuns
    <2> QED BY <2>2 DEF Runs
<1>10. ASSUME NEW i \in 1..Len(s) PROVE h[i] = Fragment(h[i - 1], s[i])
    <2>1. h[i - 1] \in States /\ s[i] \in Fragments
        <3>1. i - 1 \in 0..Len(s)
            BY <1>41
        <3> QED BY <1>41, <3>1
    <2> QED BY <1>3, <1>9, <2>1
<1> QED BY <1>1, <1>9, <1>10 DEF FragmentWalks

(***************************************************************************)
(* The table has, for each sequence number, the last record of it that     *)
(* raised no alert, and each record agrees with the one it is compared to. *)
(***************************************************************************)
Kept(q) == {e \in Logged : ~e.alert /\ e.seq = q}

EntryOf(s, q) ==
    IF Places(s, Kept(q)) = {} THEN NoEntry
    ELSE Entry(s[Latest(Places(s, Kept(q)))],
               s[Latest(Places(s, Kept(q)))].time)

Before(s, k) == {i \in 1..(k - 1) : ~s[i].alert /\ s[i].seq = s[k].seq}

Differ(s, i, k) == /\ s[i].type = s[k].type
                   /\ s[k].time <= s[i].time + Window
                   /\ s[i].total # s[k].total

AgreedAt(s, k) ==
    /\ s[k].total # 0
    /\ s[k].alert <=> Before(s, k) # {} /\ Differ(s, Latest(Before(s, k)), k)

TableIs(block, s) ==
    /\ \A q \in 0..(TableLen - 1) : block.entry[q] = EntryOf(s, q)
    /\ \A k \in DOMAIN s : AgreedAt(s, k)

(* What is logged later changes nothing for what is logged already ...     *)
LEMMA AgreedGrows ==
    ASSUME NEW s \in Seq(Logged), NEW e \in Logged, NEW k \in 1..Len(s)
    PROVE  AgreedAt(Append(s, e), k) <=> AgreedAt(s, k)
<1> DEFINE l == Append(s, e)
<1>1. \A i \in 1..Len(s) : l[i] = s[i]
    OBVIOUS
<1>2. Len(s) \in Nat /\ \A i \in 1..(k - 1) : i \in 1..Len(s)
    OBVIOUS
<1> HIDE DEF l
<1>3. Before(l, k) = Before(s, k)
    BY <1>1, <1>2 DEF Before
<1>4. Before(s, k) # {} => Latest(Before(s, k)) \in 1..Len(s)
    <2> DEFINE T == Before(s, k)
    <2>1. k - 1 \in Nat /\ T \in SUBSET (1..(k - 1))
        BY DEF Before
    <2> HIDE DEF T
    <2>2. T # {} => Latest(T) \in T
        BY <2>1, LatestIs
    <2> QED BY <1>2, <2>1, <2>2 DEF T
<1>5. Before(s, k) # {} => (Differ(l, Latest(Before(s, k)), k) <=>
                            Differ(s, Latest(Before(s, k)), k))
    BY <1>1, <1>4 DEF Differ
<1>6. l[k] = s[k]
    BY <1>1
<1> QED BY <1>3, <1>5, <1>6 DEF AgreedAt, l

(* ... and is what later fragments are compared with, unless it raised an  *)
(* alert.                                                                  *)
LEMMA EntryGrows ==
    ASSUME NEW s \in Seq(Logged), NEW e \in Logged, NEW q
    PROVE  EntryOf(Append(s, e), q) = IF e \in Kept(q) THEN Entry(e, e.time)
                                      ELSE EntryOf(s, q)
<1> DEFINE l == Append(s, e)
           T == Places(s, Kept(q))
           U == Places(l, Kept(q))
<1>1. /\ U = IF e \in Kept(q) THEN T \cup {Len(s) + 1} ELSE T
      /\ e \in Kept(q) => Latest(U) = Len(s) + 1
    BY PlacesAppend
<1>2. T # {} => Latest(T) \in 1..Len(s)
    BY PlacesAre
<1>3. /\ l[Len(s) + 1] = e /\ \A i \in 1..Len(s) : l[i] = s[i]
    OBVIOUS
<1> HIDE DEF l, T, U
<1>4. CASE e \in Kept(q)
    <2>1. U # {} /\ l[Latest(U)] = e
        BY <1>1, <1>3, <1>4
    <2> QED BY <1>4, <2>1 DEF EntryOf, l, U
<1>5. CASE e \notin Kept(q)
    <2>1. U = T /\ (T # {} => l[Latest(T)] = s[Latest(T)])
        BY <1>1, <1>2, <1>3, <1>5
    <2> QED BY <1>5, <2>1 DEF EntryOf, l, U, T
<1> QED BY <1>4, <1>5

(* So the table follows the log from fragment to fragment, from datagram   *)
(* to datagram, and from its beginning.                                    *)
LEMMA FragmentKeeps ==
    ASSUME NEW acc \in States, NEW f \in Fragments, TableIs(acc.block, acc.log)
    PROVE  TableIs(Fragment(acc, f).block, Fragment(acc, f).log)
<1> DEFINE bad == Disagrees(acc.block.entry[f.seq], f, acc.now)
           r   == Fragment(acc, f)
           s   == acc.log
           e   == Log(f, bad, acc.now)
           n   == Len(s)
           l   == Append(s, e)
<1>1. /\ ~Fits(acc, f) => r.block = acc.block /\ r.log = acc.log
      /\ Fits(acc, f) =>
            /\ bad \in BOOLEAN /\ e \in Logged
            /\ f.seq \in 0..(TableLen - 1) /\ f.total # 0
            /\ r.log = Append(s, e)
            /\ r.block = IF bad THEN acc.block
                         ELSE [acc.block EXCEPT !.entry[f.seq] =
                                    Entry(f, acc.now)]
    BY FragmentIs
<1> SUFFICES ASSUME Fits(acc, f) PROVE TableIs(r.block, r.log)
    <2> HIDE DEF r
    <2> QED BY <1>1 DEF r
<1>2. /\ acc.block \in Tables /\ s \in Seq(Logged) /\ n \in Nat
    BY DEF States
<1>3. /\ e.type = f.type /\ e.seq = f.seq /\ e.alert = bad
      /\ e.total = f.total /\ e.time = acc.now
      /\ Entry(f, acc.now) = Entry(e, e.time)
    BY DEF Log, Entry
<1> HIDE DEF r, e
<1>4. \A q : e \in Kept(q) <=> ~bad /\ f.seq = q
    <2> HIDE DEF bad
    <2> QED BY <1>1, <1>3 DEF Kept
<1>5. ASSUME NEW q \in 0..(TableLen - 1)
      PROVE  r.block.entry[q] = EntryOf(l, q)
    <2>1. EntryOf(l, q) = IF e \in Kept(q) THEN Entry(e, e.time)
                          ELSE EntryOf(s, q)
        BY <1>1, <1>2, EntryGrows
    <2>2. acc.block.entry[q] = EntryOf(s, q)
        BY DEF TableIs
    <2>3. r.block.entry[q] = IF ~bad /\ f.seq = q THEN Entry(e, e.time)
                             ELSE acc.block.entry[q]
        <3> HIDE DEF bad
        <3> QED BY <1>1, <1>2, <1>3 DEF Tables
    <2> HIDE DEF l, s
    <2> QED BY <1>4, <2>1, <2>2, <2>3
<1>6. /\ l \in Seq(Logged) /\ DOMAIN l = 1..(n + 1) /\ l[n + 1] = e
      /\ DOMAIN s = 1..n /\ \A i \in 1..n : l[i] = s[i]
    BY <1>1, <1>2
<1>7. ASSUME NEW k \in 1..n PROVE AgreedAt(l, k)
    <2>1. AgreedAt(s, k)
        BY <1>6 DEF TableIs
    <2> QED BY <1>1, <1>2, <2>1, AgreedGrows
<1>8. AgreedAt(l, n + 1)
    <2> DEFINE T == Places(s, Kept(f.seq))
               b == Latest(T)
    <2>1. Before(l, n + 1) = T
        <3>1. (n + 1) - 1 = n /\ \A i \in 1..n : s[i] \in Logged
            BY <1>2
        <3> HIDE DEF l, s, n
        <3> QED BY <1>3, <1>6, <3>1 DEF Before, Places, Kept
    <2>2. T # {} => b \in 1..n
        BY <1>2, PlacesAre
    <2>3. acc.block.entry[f.seq] = EntryOf(s, f.seq)
        BY <1>1 DEF TableIs
    <2>4. T = {} => ~bad
        BY <2>3 DEF EntryOf, NoEntry, Disagrees
    <2>5. T # {} => (bad <=> Differ(l, b, n + 1))
        <3> SUFFICES ASSUME T # {} PROVE bad <=> Differ(l, b, n + 1)
            OBVIOUS
        <3>1. l[b] = s[b] /\ s[b].total # 0
            <4>1. AgreedAt(s, b)
                BY <1>6, <2>2 DEF TableIs
            <4> QED BY <1>6, <2>2, <4>1 DEF AgreedAt
        <3>2. acc.block.entry[f.seq] = Entry(s[b], s[b].time)
            BY <2>3 DEF EntryOf
        <3>3. acc.block.entry[f.seq] = [type |-> s[b].type,
                                total |-> s[b].total, time |-> s[b].time]
            BY <3>2 DEF Entry
        <3> HIDE DEF T, b, l, s, n
        <3>4. bad <=> /\ s[b].total # 0 /\ f.type = s[b].type
                      /\ acc.now <= s[b].time + Window
                      /\ f.total # s[b].total
            BY <3>3 DEF Disagrees
        <3> HIDE DEF bad
        <3> QED BY <1>3, <1>6, <3>1, <3>4 DEF Differ
    <2> HIDE DEF T, b, l, s, n, bad
    <2> QED BY <1>1, <1>3, <1>6, <2>1, <2>4, <2>5 DEF AgreedAt, b
<1>9. \A k \in DOMAIN l : AgreedAt(l, k)
    <2>1. \A k \in 1..(n + 1) : k \in 1..n \/ k = n + 1
        BY <1>2
    <2> HIDE DEF l, n
    <2> QED BY <1>6, <1>7, <1>8, <2>1
<1> HIDE DEF bad, s
<1> QED BY <1>1, <1>5, <1>9 DEF TableIs

(* The fragments of a datagram, one after another.                         *)
DatagramEnd(b, s) == FoldLeft(Fragment, b, s)

LEMMA DatagramKeeps ==
    ASSUME NEW b \in States, NEW s \in Seq(Fragments), TableIs(b.block, b.log)
    PROVE  /\ DatagramEnd(b, s) \in States
           /\ TableIs(DatagramEnd(b, s).block, DatagramEnd(b, s).log)
<1>1. PICK h \in [0..Len(s) -> States] :
            /\ h[0] = b
            /\ \A i \in 1..Len(s) : h[i] = Fragment(h[i - 1], s[i])
            /\ DatagramEnd(b, s) = h[Len(s)]
    <2>1. FragmentWalks(b, s)
        BY FragmentRuns
    <2> QED BY <2>1 DEF FragmentWalks, DatagramEnd
<1> DEFINE n == Len(s)
           T == {i \in 0..n : TableIs(h[i].block, h[i].log)}
<1>2. n \in Nat /\ \A i \in 1..n : s[i] \in Fragments
    OBVIOUS
<1> HIDE DEF n
<1>3. 0 \in T
    BY <1>1, <1>2
<1>4. ASSUME NEW i \in 0..(n - 1), i \in T PROVE i + 1 \in T
    <2>1. /\ i + 1 \in 1..n /\ (i + 1) - 1 = i /\ i \in 0..n
          /\ i + 1 \in 0..n
        BY <1>2
    <2>2. /\ h[i + 1] = Fragment(h[i], s[i + 1]) /\ h[i] \in States
          /\ s[i + 1] \in Fragments
        BY <1>1, <1>2, <2>1 DEF n
    <2>3. TableIs(Fragment(h[i], s[i + 1]).block, Fragment(h[i], s[i + 1]).log)
        BY <1>4, <2>2, FragmentKeeps
    <2> QED BY <2>1, <2>2, <2>3
<1>5. n \in T
    <2> HIDE DEF T
    <2>1. \A i \in 0..n : i \in T
        BY <1>2, <1>3, <1>4, InductionTo
    <2> QED BY <1>2, <2>1
<1> QED BY <1>1, <1>2, <1>5 DEF n

FragmentsKept ==
    rule = 31361 =>
        /\ data = NoData => seen = <<>>
        /\ TableIs(Or(NewTable), seen)

LEMMA NewTableIs ==
    TableIs(NewTable, <<>>) /\ NewTable \in Tables
<1>1. \A q : Places(<<>>, Kept(q)) = {}
    BY DEF Places
<1>2. \A q \in 0..(TableLen - 1) : NewTable.entry[q] = NoEntry
    BY DEF NewTable
<1>3. NewTable \in Tables
    <2>1. NoEntry \in Entries
        BY DEF NoEntry, Entries
    <2> QED BY <2>1 DEF NewTable, Tables
<1> QED BY <1>1, <1>2, <1>3 DEF TableIs, EntryOf

(* A table is not taken for no table.                                      *)
LEMMA TablesAreData ==
    \A t \in Tables : t # NoData
BY DEF Tables, NoData

(* Rule 31361: what a datagram leaves behind.                              *)
LEMMA DatagramStep ==
    ASSUME Types, FragmentsKept, rule = 31361,
           NEW p \in Datagrams, Datagram(p)
    PROVE  /\ clock' \in 0..MaxClock /\ verdict' \in {"match", "nomatch"}
           /\ data' \in Tables \cup {NoData} /\ seen' \in Seq(Logged)
           /\ data' = NoData => seen' = <<>>
           /\ TableIs(IF data' = NoData THEN NewTable ELSE data', seen')
<1> DEFINE now == clock + p.gap
           b == [block |-> Or(NewTable), now |-> now, stop |-> FALSE,
                 alert |-> FALSE, log |-> seen]
           end == DatagramEnd(b, p.fragments)
<1>1. /\ data \in Tables \cup {NoData} /\ seen \in Seq(Logged)
      /\ clock \in 0..MaxClock
    BY DEF Types
<1>2. p.gap \in Nat /\ p.fragments \in Seq(Fragments)
    BY DEF Datagrams
<1>3. /\ now <= MaxClock /\ clock' = now
      /\ data' = IF end.log = seen THEN data ELSE end.block
      /\ seen' = end.log
      /\ verdict' = Verdict(end.alert)
    BY DEF Datagram, DatagramEnd
<1>4. now \in Nat /\ now \in 0..MaxClock
    BY <1>1, <1>2, <1>3, BoundsAssumption
<1>5. Or(NewTable) \in Tables
    BY <1>1, NewTableIs DEF Or
<1>6. b \in States /\ b.block = Or(NewTable) /\ b.log = seen
    BY <1>1, <1>4, <1>5 DEF States
<1> HIDE DEF b, now
<1>7. TableIs(b.block, b.log)
    BY <1>6 DEF FragmentsKept
<1>8. end \in States /\ TableIs(end.block, end.log)
    BY <1>2, <1>6, <1>7, DatagramKeeps
<1> HIDE DEF end
<1>9. end.block \in Tables /\ end.log \in Seq(Logged) /\ end.alert \in BOOLEAN
    BY <1>8 DEF States
<1>10. CASE end.log = seen
    <2>1. data' = data /\ seen' = seen
        BY <1>3, <1>10
    <2>2. TableIs(Or(NewTable), seen)
        BY DEF FragmentsKept
    <2>3. TableIs(IF data' = NoData THEN NewTable ELSE data', seen')
        BY <2>1, <2>2 DEF Or
    <2> QED BY <1>1, <1>3, <1>4, <2>1, <2>3 DEF FragmentsKept, Verdict
<1>11. CASE end.log # seen
    <2>1. data' = end.block /\ data' # NoData
        BY <1>3, <1>9, <1>11, TablesAreData
    <2> QED BY <1>3, <1>4, <1>8, <1>9, <2>1 DEF Verdict
<1> QED BY <1>10, <1>11

LEMMA FragmentsStep ==
    ASSUME Types, FragmentsKept, [Next]_vars
    PROVE  FragmentsKept'
<1> SUFFICES ASSUME rule = 31361 PROVE FragmentsKept'
    BY NextIsEvalOrOther, EvalIs
    DEF Types, FragmentsKept, Other, NotStored, NewStream, vars
<1>1. ASSUME NEW p \in Packets[rule], Eval(p) PROVE FragmentsKept'
    <2>1. p \in Datagrams /\ Datagram(p)
        BY <1>1, EvalIs DEF Types
    <2> QED BY <2>1, DatagramStep DEF FragmentsKept, Or
<1>2. CASE Other
    <2>1. CASE NotStored
        BY <2>1 DEF NotStored, FragmentsKept, Or
    <2>2. CASE NewStream
        BY <2>2, NewTableIs DEF NewStream, FragmentsKept, Or
    <2>3. CASE UNCHANGED vars
        BY <2>3 DEF vars, FragmentsKept, Or
    <2> QED BY <1>2, <2>1, <2>2, <2>3 DEF Other
<1> QED BY <1>1, <1>2, NextIsEvalOrOther

(* The property, from what the invariant says of every place of the log.   *)
LEMMA AgreementIs ==
    ASSUME Types, FragmentsKept
    PROVE  FragmentsAgree
<1> SUFFICES ASSUME rule = 31361, NEW k \in DOMAIN seen
             PROVE  seen[k].alert <=>
                        \E i \in Recorded(k) :
                            /\ seen[i].type = seen[k].type
                            /\ seen[k].time <= seen[i].time + Window
                            /\ seen[i].total # seen[k].total
    BY DEF FragmentsAgree
<1>1. AgreedAt(seen, k)
    BY DEF FragmentsKept, TableIs
<1>2. Recorded(k) = IF Before(seen, k) = {} THEN {}
                    ELSE {Latest(Before(seen, k))}
    BY DEF Recorded, Before
<1> QED BY <1>1, <1>2 DEF AgreedAt, Differ

-----------------------------------------------------------------------------
(***************************************************************************)
(* The types, and the invariants together.                                 *)
(***************************************************************************)
LEMMA RulesAre ==
    ASSUME [Next]_vars, rule \in Rules
    PROVE  rule' = rule
BY NextIsEvalOrOther, EvalIs DEF Other, NotStored, NewStream, vars

(* The types, rule by rule.                                                *)
LEMMA CookieTypes ==
    ASSUME Types, rule \in {13835, 13667}, NEW p \in Packets[rule], Eval(p)
    PROVE  /\ data' \in [sum : Nat, count : 0..Limit[rule]]
           /\ verdict' \in {"match", "nomatch"}
<1> DEFINE L == Limit[rule]
           next == (Block.count + 1) % 256
<1>1. L \in 3..254
    BY LimitIs
<1>2. /\ p \in Nat
      /\ rule = 13835 => Cookie(p)
      /\ rule = 13667 => DnsResponse(p)
    <2>1. rule \in Rules
        BY DEF Types
    <2> QED BY <2>1, EvalIs
<1>3. Block \in [sum : Nat, count : 0..L]
    <2>1. data \in [sum : Nat, count : 0..L] \cup {NoData}
        BY DEF Types
    <2> HIDE DEF L
    <2> QED BY <1>1, <2>1 DEF Block, Or, NewBlock
<1> HIDE DEF L
<1>4. next = Block.count + 1
    <2>1. Block.count \in 0..254
        BY <1>1, <1>3
    <2> QED BY <2>1, NextIs
<1>5. Block.count \in 0..L /\ next \in Nat
    BY <1>1, <1>3, <1>4
<1> HIDE DEF next
<1>6. \A c \in 0..L : [Block EXCEPT !.count = c] \in [sum : Nat, count : 0..L]
    BY <1>3
<1>7. \A c \in 0..L : [sum |-> p, count |-> c] \in [sum : Nat, count : 0..L]
    BY <1>2
<1>8. next = (Block.count + 1) % 256
    BY DEF next
<1>9. 0 \in 0..L /\ 1 \in 0..L /\ (~(next > L) => next \in 0..L)
      /\ (Block.count = 2 => next \in 0..L)
    BY <1>1, <1>4, <1>5
<1> SUFFICES /\ data' \in [sum : Nat, count : 0..L]
             /\ verdict' \in {"match", "nomatch"}
    BY DEF L
<1>10. CASE rule = 13835
    <2>1. Cookie(p) /\ L = Limit[13835]
        BY <1>2, <1>10 DEF L
    <2>2. verdict' \in {"match", "nomatch"}
        BY <2>1 DEF Cookie, Returns, Verdict
    <2>3. CASE p # Block.sum
        <3>1. data' = [sum |-> p, count |-> 1]
            BY <2>1, <2>3 DEF Cookie, Returns
        <3> QED BY <1>7, <1>9, <2>2, <3>1
    <2>4. CASE p = Block.sum /\ Block.count = 2
        <3>1. data' = [Block EXCEPT !.count = next]
            BY <1>8, <2>1, <2>4 DEF Cookie, Returns
        <3> QED BY <1>6, <1>9, <2>2, <2>4, <3>1
    <2>5. CASE p = Block.sum /\ Block.count # 2 /\ next > L
        <3>1. data' = [Block EXCEPT !.count = 1]
            BY <1>8, <2>1, <2>5 DEF Cookie, Returns
        <3> QED BY <1>6, <1>9, <2>2, <3>1
    <2>6. CASE p = Block.sum /\ Block.count # 2 /\ ~(next > L)
        <3>1. data' = [Block EXCEPT !.count = next]
            BY <1>8, <2>1, <2>6 DEF Cookie, Returns
        <3> QED BY <1>6, <1>9, <2>2, <2>6, <3>1
    <2> QED BY <2>3, <2>4, <2>5, <2>6
<1>11. CASE rule = 13667
    <2>1. DnsResponse(p) /\ L = Limit[13667]
        BY <1>2, <1>11 DEF L
    <2>2. verdict' \in {"match", "nomatch"}
        BY <2>1 DEF DnsResponse, Returns, Verdict
    <2>3. CASE p # Block.sum
        <3>1. data' = [sum |-> p, count |-> 0]
            BY <2>1, <2>3 DEF DnsResponse, Returns
        <3> QED BY <1>7, <1>9, <2>2, <3>1
    <2>4. CASE p = Block.sum /\ next > L
        <3>1. data' = [Block EXCEPT !.count = 0]
            BY <1>8, <2>1, <2>4 DEF DnsResponse, Returns
        <3> QED BY <1>6, <1>9, <2>2, <3>1
    <2>5. CASE p = Block.sum /\ ~(next > L)
        <3>1. data' = [Block EXCEPT !.count = next]
            BY <1>8, <2>1, <2>5 DEF DnsResponse, Returns
        <3> QED BY <1>6, <1>9, <2>2, <2>5, <3>1
    <2> QED BY <2>3, <2>4, <2>5
<1> QED BY <1>10, <1>11

LEMMA WordTypes ==
    ASSUME Types, rule = 13803, NEW p \in Packets[rule], Eval(p)
    PROVE  /\ data' \in [sum : Nat, count : Nat]
           /\ verdict' \in {"match", "nomatch"}
<1>1. p \in Nat /\ ControlWords(p)
    BY EvalIs DEF Types
<1>2. Block \in [sum : Nat, count : Nat]
    BY DEF Types, Block, Or, NewBlock
<1>3. Block.count + p \in Nat
    BY <1>1, <1>2
<1> QED BY <1>1, <1>2, <1>3 DEF ControlWords, Returns, Verdict

LEMMA DrawingTypes ==
    ASSUME Types, rule = 15125, NEW p \in Packets[rule], Eval(p)
    PROVE  /\ data' \in [sum : Nat, count : Int] \cup {NoData}
           /\ verdict' \in {"match", "nomatch"}
<1> DEFINE b == [tally |-> Block.count, stop |-> FALSE, alert |-> FALSE]
           end == WalkOver(b, p)
<1>1. p \in Seq(Words) /\ Drawing(p)
    BY EvalIs DEF Types
<1>2. Block \in [sum : Nat, count : Int]
    BY DEF Types, Block, Or, NewBlock
<1>3. b \in Accs
    BY <1>2 DEF Accs
<1> HIDE DEF b
<1>4. end \in Accs
    <2>1. Walks(b, p)
        BY <1>1, <1>3, WalkRuns
    <2>2. PICK h \in [0..Len(p) -> Accs] : end = h[Len(p)]
        BY <2>1 DEF Walks, WalkOver
    <2>3. Len(p) \in 0..Len(p)
        BY <1>1
    <2> QED BY <2>2, <2>3
<1>5. end.tally \in Int
    BY <1>4 DEF Accs
<1>6. end = FoldLeft(Walk, [tally |-> Block.count, stop |-> FALSE,
                            alert |-> FALSE], p)
    BY DEF WalkOver, b
<1> HIDE DEF end
<1>7. CASE Skipped(p)
    <2>1. data' = data /\ verdict' = Verdict(FALSE)
        BY <1>1, <1>7 DEF Drawing, Returns
    <2> QED BY <2>1 DEF Types, Verdict
<1>8. CASE ~Skipped(p)
    <2>1. /\ data' = [Block EXCEPT !.count = end.tally]
          /\ verdict' = Verdict(end.alert)
        BY <1>1, <1>6, <1>8 DEF Drawing, Returns
    <2> QED BY <1>2, <1>5, <2>1 DEF Verdict
<1> QED BY <1>7, <1>8

LEMMA SrpTypes ==
    ASSUME Types, SrpKept, SrpKept', rule = 59879,
           NEW p \in Packets[rule], Eval(p)
    PROVE  /\ data' \in SrpBlocks \cup {NoData} /\ seen' \in Seq(Messages)
           /\ verdict' \in {"match", "nomatch"}
<1>1. p \in Seq(Messages) /\ Srp(p) /\ rule' = 59879 /\ seen \in Seq(Messages)
    BY EvalIs DEF Types
<1>2. data' \in SrpBlocks \cup {NoData}
    BY <1>1 DEF SrpKept, SrpBlockIs
<1>3. Looked(p) \in Seq(Messages) /\ seen' = seen \o Looked(p)
    BY <1>1, LookedIs DEF Srp
<1>4. seen' \in Seq(Messages)
    BY <1>1, <1>3, ConcatProperties
<1>5. verdict' \in {"match", "nomatch"}
    BY <1>1 DEF Srp, Verdict
<1> QED BY <1>2, <1>4, <1>5

LEMMA SessionTypes ==
    ASSUME Types, rule = 41547, NEW p \in Packets[rule], Eval(p)
    PROVE  /\ data' \in [state : {"session"}, len : 1..31, msb : Nat]
                            \cup {NoData}
           /\ seen' \in Seq(Hellos)
           /\ verdict' \in {"match", "nomatch"}
<1>1. p \in Hellos /\ Session(p) /\ seen \in Seq(Hellos)
    BY EvalIs DEF Types
<1>2. seen' \in Seq(Hellos) /\ verdict' \in {"match", "nomatch"}
    BY <1>1 DEF Session, Verdict
<1>3. p.len \in 0..255 /\ p.msb \in Nat
    BY <1>1 DEF Hellos
<1>4. data' = data \/ (/\ p.len \in 1..31
                       /\ data' = [state |-> "session", len |-> p.len,
                                   msb |-> p.msb])
    <2>1. ~(p.len = 0 \/ p.len >= 32) => p.len \in 1..31
        BY <1>3
    <2>2. data' = data \/ data' = SessionHello(p)
        BY <1>1 DEF Session
    <2>3. SessionHello(p) = IF p.len = 0 \/ p.len >= 32 THEN data
                            ELSE [state |-> "session", len |-> p.len,
                                  msb |-> p.msb]
        BY DEF SessionHello
    <2> QED BY <2>1, <2>2, <2>3
<1>5. data \in [state : {"session"}, len : 1..31, msb : Nat] \cup {NoData}
    BY DEF Types
<1>6. p.len \in 1..31 => [state |-> "session", len |-> p.len, msb |-> p.msb]
                            \in [state : {"session"}, len : 1..31, msb : Nat]
    BY <1>3
<1>7. data' \in [state : {"session"}, len : 1..31, msb : Nat] \cup {NoData}
    BY <1>4, <1>5, <1>6
<1> QED BY <1>2, <1>7

LEMMA SearchTypes ==
    ASSUME Types, rule = 13475, NEW p \in Packets[rule], Eval(p)
    PROVE  /\ data' \in [state : {"page"}, page : Seq(Nat), sort : Seq(Nat)]
                            \cup {NoData}
           /\ seen' \in Seq(Searches)
           /\ verdict' \in {"match", "nomatch"}
<1>1. p \in Searches /\ SearchPage(p) /\ seen \in Seq(Searches)
    BY EvalIs DEF Types
<1>2. FirstPage(p) \in [state : {"page"}, page : Seq(Nat), sort : Seq(Nat)]
    BY <1>1 DEF FirstPage, Searches
<1>3. data' = data \/ data' = FirstPage(p)
    BY <1>1 DEF SearchPage, Search
<1>4. seen' \in Seq(Searches) /\ verdict' \in {"match", "nomatch"}
    BY <1>1 DEF SearchPage, Search, Verdict
<1> QED BY <1>2, <1>3, <1>4 DEF Types

LEMMA TypesStep ==
    ASSUME Types, SrpKept, SrpKept', FragmentsKept, [Next]_vars
    PROVE  Types'
<1>0. rule' = rule /\ rule \in Rules
    BY RulesAre DEF Types
<1>1. ASSUME NEW p \in Packets[rule], Eval(p) PROVE Types'
    <2>1. /\ rule \in RepeatRuleIds \cup HandshakeRuleIds
          /\ rule \in RepeatRuleIds => seen' = Append(seen, p)
          /\ rule # 31361 => clock' = clock
          /\ rule \in {13835, 13667, 13803} => p \in Nat
          /\ rule = 15125 => p \in Seq(Words)
        BY <1>0, <1>1, EvalIs
    <2>2. rule # 31361 => clock' \in 0..MaxClock
        BY <2>1 DEF Types
    <2>3. rule \in RepeatRuleIds => seen' \in Seq(Packets[rule])
        <3>1. rule \in RepeatRuleIds => seen \in Seq(Packets[rule])
            BY DEF Types, RepeatRuleIds
        <3> DEFINE ps == Packets[rule]
        <3>2. rule \in RepeatRuleIds => seen \in Seq(ps) /\ p \in ps
            BY <3>1
        <3> HIDE DEF ps
        <3>3. rule \in RepeatRuleIds => Append(seen, p) \in Seq(ps)
            BY <3>2
        <3> QED BY <2>1, <3>3 DEF ps
    <2>4. CASE rule \in {13835, 13667}
        <3>1. /\ data' \in [sum : Nat, count : 0..Limit[rule]]
              /\ verdict' \in {"match", "nomatch"}
            BY <1>1, <2>4, CookieTypes
        <3>2. seen' \in Seq(Nat) /\ seen' \in Seq(Packets[rule])
            <4>1. seen \in Seq(Nat)
                BY <2>4 DEF Types
            <4>2. p \in Nat /\ rule \in RepeatRuleIds
                BY <2>1, <2>4 DEF RepeatRuleIds
            <4> QED BY <2>1, <2>3, <4>1, <4>2
        <3> QED BY <1>0, <2>2, <2>4, <3>1, <3>2 DEF Types
    <2>5. CASE rule = 13803
        <3>1. /\ data' \in [sum : Nat, count : Nat]
              /\ verdict' \in {"match", "nomatch"}
            BY <1>1, <2>5, WordTypes
        <3>2. seen' \in Seq(Nat) /\ seen' \in Seq(Packets[rule])
            BY <2>1, <2>3, <2>5 DEF Types, RepeatRuleIds
        <3> QED BY <1>0, <2>2, <2>5, <3>1, <3>2 DEF Types
    <2>6. CASE rule = 15125
        <3>1. /\ data' \in [sum : Nat, count : Int] \cup {NoData}
              /\ verdict' \in {"match", "nomatch"}
            BY <1>1, <2>6, DrawingTypes
        <3>2. seen' \in Seq(Seq(Words)) /\ seen' \in Seq(Packets[rule])
            <4> DEFINE texts == Seq(Words)
            <4>1. seen \in Seq(texts)
                BY <2>6 DEF Types
            <4>2. p \in texts /\ rule \in RepeatRuleIds
                BY <2>1, <2>6 DEF RepeatRuleIds
            <4> HIDE DEF texts
            <4>3. Append(seen, p) \in Seq(texts)
                BY <4>1, <4>2
            <4>4. seen' = Append(seen, p)
                BY <2>1, <4>2
            <4>5. seen' \in Seq(texts) /\ seen' \in Seq(Packets[rule])
                BY <2>3, <4>2, <4>3, <4>4
            <4> QED BY <4>5 DEF texts
        <3> QED BY <1>0, <2>2, <2>6, <3>1, <3>2 DEF Types
    <2>7. CASE rule = 59879
        <3>1. /\ data' \in SrpBlocks \cup {NoData} /\ seen' \in Seq(Messages)
              /\ verdict' \in {"match", "nomatch"}
            BY <1>1, <2>7, SrpTypes
        <3> QED BY <1>0, <2>2, <2>7, <3>1 DEF Types
    <2>8. CASE rule = 41547
        <3>1. /\ data' \in [state : {"session"}, len : 1..31, msb : Nat]
                                \cup {NoData}
              /\ seen' \in Seq(Hellos)
              /\ verdict' \in {"match", "nomatch"}
            BY <1>1, <2>8, SessionTypes
        <3> QED BY <1>0, <2>2, <2>8, <3>1 DEF Types
    <2>9. CASE rule = 13475
        <3>1. /\ data' \in [state : {"page"}, page : Seq(Nat), sort : Seq(Nat)]
                                \cup {NoData}
              /\ seen' \in Seq(Searches)
              /\ verdict' \in {"match", "nomatch"}
            BY <1>1, <2>9, SearchTypes
        <3> QED BY <1>0, <2>2, <2>9, <3>1 DEF Types
    <2>10. CASE rule = 31361
        <3>1. p \in Datagrams /\ Datagram(p)
            BY <1>0, <1>1, <2>10, EvalIs
        <3>2. /\ clock' \in 0..MaxClock /\ verdict' \in {"match", "nomatch"}
              /\ data' \in Tables \cup {NoData} /\ seen' \in Seq(Logged)
            BY <2>10, <3>1, DatagramStep
        <3> QED BY <1>0, <2>10, <3>2 DEF Types
    <2> QED BY <2>1, <2>4, <2>5, <2>6, <2>7, <2>8, <2>9, <2>10
            DEF RepeatRuleIds, HandshakeRuleIds
<1>2. CASE Other
    <2>1. CASE NotStored
        BY <2>1 DEF NotStored, Types
    <2>2. CASE NewStream
        <3>1. \A E : <<>> \in Seq(E)
            BY EmptySeq
        <3>2. 0 \in 0..MaxClock
            BY BoundsAssumption
        <3> QED BY <2>2, <3>1, <3>2 DEF NewStream, Types
    <2>3. CASE UNCHANGED vars
        BY <2>3 DEF vars, Types
    <2> QED BY <1>2, <2>1, <2>2, <2>3 DEF Other
<1> QED BY <1>1, <1>2, NextIsEvalOrOther

(* The inductive invariant.                                                *)
Inv ==
    /\ Types
    /\ CookieCounted /\ ResponseCounted /\ WordsCounted /\ GroupsCounted
    /\ SrpKept /\ SessionKept /\ PagesKept /\ FragmentsKept

(* The invariant holds of a new stream, and every step keeps it.           *)
LEMMA InvInit ==
    ASSUME Init
    PROVE  Inv
<1>1. /\ rule \in Rules /\ data = NoData /\ clock = 0 /\ seen = <<>>
      /\ verdict = "none"
    BY DEF Init
<1>2. Types
    <2>1. \A E : <<>> \in Seq(E)
        BY EmptySeq
    <2>2. 0 \in 0..MaxClock
        BY BoundsAssumption
    <2> QED BY <1>1, <2>1, <2>2 DEF Types
<1>3. CookieCounted /\ ResponseCounted
    BY <1>1 DEF CookieCounted, ResponseCounted
<1>4. Block = [sum |-> 0, count |-> 0]
    BY <1>1 DEF Block, Or, NewBlock
<1>5. WordsCounted
    <2>1. 0 < Limit[13803]
        BY LimitIs
    <2>2. Total(seen) = 0
        BY <1>1, TotalOfNone
    <2>3. Block.count = 0
        BY <1>4
    <2> QED BY <1>1, <2>1, <2>2, <2>3 DEF WordsCounted
<1>6. GroupsCounted
    <2>1. WordsRead(seen) = <<>>
        BY <1>1, ReadOfNone
    <2>2. Balance(<<>>, Len(<<>>)) = 0
        BY BalanceOfNone
    <2> QED BY <1>1, <1>4, <2>1, <2>2 DEF GroupsCounted, GroupsArePaired
<1>7. SrpKept
    <2>1. Greetings(<<>>) = {}
        BY DEF Greetings
    <2> QED BY <1>1, <2>1 DEF SrpKept, SrpBlockIs, SrpFollowsHandshake
<1>8. SessionKept /\ PagesKept
    <2>1. \A G : Places(<<>>, G) = {}
        BY DEF Places
    <2> QED BY <1>1, <2>1 DEF SessionKept, PagesKept, SessionIsResumed,
                              PagesKeepSort
<1>9. FragmentsKept
    BY <1>1, NewTableIs DEF FragmentsKept, Or
<1> QED BY <1>2, <1>3, <1>5, <1>6, <1>7, <1>8, <1>9 DEF Inv

LEMMA InvStep ==
    ASSUME Inv, [Next]_vars
    PROVE  Inv'
<1>1. CookieCounted' /\ ResponseCounted' /\ WordsCounted' /\ GroupsCounted'
    BY CookieStep, ResponseStep, WordsStep, GroupsStep DEF Inv
<1>2. SrpKept' /\ SessionKept' /\ PagesKept' /\ FragmentsKept'
    BY SrpStep, SessionStep, PagesStep, FragmentsStep DEF Inv
<1>3. Types'
    BY <1>2, TypesStep DEF Inv
<1> QED BY <1>1, <1>2, <1>3 DEF Inv

LEMMA Invariance == Spec => []Inv
<1>1. Init => Inv
    BY InvInit
<1>2. Inv /\ [Next]_vars => Inv'
    BY InvStep
<1> QED BY <1>1, <1>2, PTL DEF Spec

(* The types of the invariant are stronger than those that the runs check. *)
LEMMA TypesAre ==
    ASSUME Types
    PROVE  TypeOK
<1>1. RepeatTypeOK
    <2>1. CASE rule \in {13835, 13667}
        <3>1. data # NoData => data \in [sum : Nat, count : 0..Limit[rule]]
            BY <2>1 DEF Types
        <3>2. 0..Limit[rule] \subseteq Int
            BY <2>1, LimitIs
        <3>3. seen \in Seq(Packets[rule])
            BY <2>1 DEF Types
        <3> QED BY <3>1, <3>2, <3>3 DEF RepeatTypeOK
    <2>2. CASE rule = 13803
        BY <2>2 DEF Types, RepeatTypeOK
    <2>3. CASE rule = 15125
        BY <2>3 DEF Types, RepeatTypeOK
    <2> QED BY <2>1, <2>2, <2>3 DEF RepeatTypeOK, RepeatRuleIds
<1>2. HandshakeTypeOK
    BY DEF Types, SrpBlocks, Tables, HandshakeTypeOK
<1> QED BY <1>1, <1>2 DEF TypeOK, Types

-----------------------------------------------------------------------------
(* Every rule's block is what the rule takes it for, and a counted byte is *)
(* never above its threshold, so that it does not wrap around.             *)
THEOREM TypeCorrect == Spec => []TypeOK
<1>1. Inv => TypeOK
    BY TypesAre DEF Inv
<1> QED BY <1>1, Invariance, PTL

(* Rules 13835, 13667 and 13803 report exactly the repetitions, and the    *)
(* one packet with which the words reach the limit, that the counting      *)
(* bytes are there for, whatever the thresholds and the length of the      *)
(* stream.                                                                 *)
THEOREM RepetitionsReported == Spec => []RepeatsAreCounted
<1>1. Inv => RepeatsAreCounted
    BY DEF Inv, CookieCounted, ResponseCounted, WordsCounted,
           RepeatsAreCounted
<1> QED BY <1>1, Invariance, PTL

(* Rule 15125 carries the groups that are open from packet to packet: as   *)
(* long as there was no unpaired end it reports the packets that hold one, *)
(* and no others.                                                          *)
THEOREM UnpairedEndsReported == Spec => []GroupsArePaired
<1>1. Inv => GroupsArePaired
    BY DEF Inv, GroupsCounted, GroupsArePaired
<1> QED BY <1>1, Invariance, PTL

(* Rules 59879 and 59880 compare the first public value after a prime with *)
(* the prime of its own handshake, if the length of that was read and no   *)
(* hello without SRP has come since the SRP hello, however often the       *)
(* stream begins another one.  Else they report no value that is not       *)
(* longer than the prime they read last (server-other_openssl-srp-bof.c).  *)
THEOREM HandshakesCompared == Spec => []SrpFollowsHandshake
<1>1. Inv => SrpFollowsHandshake
    <2> SUFFICES ASSUME Inv
                 PROVE  SrpFollowsHandshake
        OBVIOUS
    <2>1. CASE rule = 59879
        BY <2>1 DEF Inv, SrpKept
    <2>2. CASE rule # 59879
        BY <2>2 DEF SrpFollowsHandshake
    <2> QED BY <2>1, <2>2
<1> QED BY <1>1, Invariance, PTL

(* Rules 41547 and 41548 compare a server's session id with the last part  *)
(* of an id that a client gave, and rule 13475 a search's sort key with    *)
(* that of the first search it could store.                                *)
THEOREM ComparisonsHold == Spec => []ComparedAsSaid
<1>1. Inv => ComparedAsSaid
    <2> SUFFICES ASSUME Inv
                 PROVE  ComparedAsSaid
        OBVIOUS
    <2>1. SessionIsResumed
        <3>1. CASE rule = 41547
            BY <3>1 DEF Inv, SessionKept
        <3>2. CASE rule # 41547
            BY <3>2 DEF SessionIsResumed
        <3> QED BY <3>1, <3>2
    <2>2. PagesKeepSort
        <3>1. CASE rule = 13475
            BY <3>1 DEF Inv, PagesKept
        <3>2. CASE rule # 13475
            BY <3>2 DEF PagesKeepSort
        <3> QED BY <3>1, <3>2
    <2> QED BY <2>1, <2>2 DEF ComparedAsSaid
<1> QED BY <1>1, Invariance, PTL

(* Rule 31361 reports exactly the fragments that do not agree with the one *)
(* recorded before them, for a table of any size and a window of any       *)
(* length.                                                                 *)
THEOREM DisagreementReported == Spec => []FragmentsAgree
<1>1. Inv => FragmentsAgree
    BY AgreementIs DEF Inv
<1> QED BY <1>1, Invariance, PTL
=============================================================================
