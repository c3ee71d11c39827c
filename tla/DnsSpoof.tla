------------------------------ MODULE DnsSpoof ------------------------------
(***************************************************************************)
(* Rules 21354 and 21355 of the Snort image's shared-object rules          *)
(* (so_rules/src/protocol-dns_dns-spoof-mismatched-txid.c).  The first     *)
(* stores each DNS query in a table that all streams share; the second     *)
(* looks a response up in it and alerts when its question was asked, but   *)
(* never under its transaction id.                                         *)
(*                                                                         *)
(* A question is a sequence of symbols, as the table compares the stored   *)
(* bytes with as many bytes of the response.  Packets that the header,     *)
(* flow, content and flag conditions of the rules turn away are the        *)
(* stuttering steps of the specification.                                  *)
(***************************************************************************)
EXTENDS Naturals, Integers, Sequences, SequencesExt

CONSTANTS
    Entries,    \* DQR_NUM_DNS_ENTRIES
    MaxLen,     \* DQR_MAX_QUERY_LEN, in symbols
    Symbols,    \* what questions are made of
    Questions,  \* what queries ask and responses repeat
    TxIds       \* transaction ids

ASSUME EntriesAssumption   == Entries \in Nat \ {0}
ASSUME MaxLenAssumption    == MaxLen \in Nat \ {0}
ASSUME QuestionsAssumption == Questions \subseteq Seq(Symbols)
ASSUME TxIdsAssumption     == TxIds \subseteq 0..65535

VARIABLES
    table,      \* dqr_dns_query_table
    index,      \* dqr_index, the place of the next query
    maxIndex,   \* max_dqr_index, the last place the search looks at
    cleared,    \* dqr_init
    asked,      \* history: the last queries by age, whole, as they were sent
    last,       \* history: the response, if the last packet was one
    verdict     \* what rule 21355 returned for it

vars == <<table, index, maxIndex, cleared, asked, last, verdict>>

Slots == 0..(Entries - 1)

NoPacket == [question |-> <<>>, txid |-> -1]
Packets  == [question : Questions \ {<<>>}, txid : TxIds]

(* An entry of zeros: its query is empty, so every response begins with it *)
EmptyEntry == [query |-> <<>>, txid |-> 0]

(* The variables that hold the 16-bit id on its way are of eight bits.     *)
Truncated(txid) == txid % 256

Cut(q) == IF Len(q) > MaxLen THEN SubSeq(q, 1, MaxLen) ELSE q

Stored(p) == IF p = NoPacket THEN EmptyEntry
             ELSE [query |-> Cut(p.question), txid |-> Truncated(p.txid)]

Init ==
    /\ table = [i \in Slots |-> EmptyEntry]
    /\ index = 0
    /\ maxIndex = -1
    /\ cleared = FALSE
    /\ asked = [a \in Slots |-> NoPacket]
    /\ last = NoPacket
    /\ verdict = "none"

Larger(i, j) == IF i < j THEN j ELSE i

(* Variant of NextIndex: one place more than there are.                    *)
NextIndexOver == IF index + 1 > Entries THEN 0 ELSE index + 1

(* Variant of NextIndex: the last place is never used.                     *)
NextIndexShort == IF index + 1 >= Entries - 1 THEN 0 ELSE index + 1

NextIndex == IF index + 1 >= Entries THEN 0 ELSE index + 1

(* Variant of SearchEnd: the place just written was the last one to look   *)
(* at, so that the search gets shorter when the index returns to 0.        *)
SearchEndOfIndex == NextIndex

SearchEnd == Larger(maxIndex, NextIndex)

(* rule21354eval: a query without a question is not stored, but it makes   *)
(* the table valid.                                                        *)
Query(q, txid) ==
    /\ cleared' = TRUE
    /\ IF q = <<>>
       THEN UNCHANGED <<table, index, maxIndex, asked>>
       ELSE LET p == [question |-> q, txid |-> txid] IN
            /\ table' = [table EXCEPT ![index] = Stored(p)]
            /\ index' = NextIndex
            /\ maxIndex' = SearchEnd
            /\ asked' = [a \in Slots |-> IF a = 0 THEN p ELSE asked[a - 1]]
    /\ last' = NoPacket
    /\ verdict' = "none"

(* The entries whose query the response begins with.                       *)
Hits(q) == {i \in 0..maxIndex : IsPrefix(table[i].query, q)}

(* Variant of Answers: the whole id is compared with the stored byte.      *)
AnswersWhole(q, txid) == \E i \in Hits(q) : table[i].txid = txid

Answers(q, txid) == \E i \in Hits(q) : table[i].txid = Truncated(txid)

(* rule21355eval.                                                          *)
Response(q, txid) ==
    /\ q # <<>>
    /\ last' = [question |-> q, txid |-> txid]
    /\ verdict' = IF cleared /\ Hits(q) # {} /\ ~Answers(q, txid)
                  THEN "match" ELSE "nomatch"
    /\ UNCHANGED <<table, index, maxIndex, cleared, asked>>

(* The sensor starts again: what rules keep is in its memory.              *)
Restart ==
    /\ table' = [i \in Slots |-> EmptyEntry]
    /\ index' = 0
    /\ maxIndex' = -1
    /\ cleared' = FALSE
    /\ asked' = [a \in Slots |-> NoPacket]
    /\ last' = NoPacket
    /\ verdict' = "none"

Next ==
    \/ \E q \in Questions, txid \in TxIds : Query(q, txid) \/ Response(q, txid)
    \/ Restart

Spec == Init /\ [][Next]_vars

-----------------------------------------------------------------------------
(* The entry stored a queries before the last one is a places behind it.   *)
Slot(a) == IF a < index THEN index - 1 - a ELSE index - 1 - a + Entries

TypeOK ==
    /\ table \in [Slots -> {EmptyEntry} \cup {Stored(p) : p \in Packets}]
    /\ index \in Slots
    /\ maxIndex \in -1..(Entries - 1)
    /\ cleared \in BOOLEAN
    /\ asked \in [Slots -> Packets \cup {NoPacket}]
    /\ last \in Packets \cup {NoPacket}
    /\ verdict \in {"none", "match", "nomatch"}

(* The table holds the last Entries queries and nothing else: storing      *)
(* "round robin" forgets the oldest one, also when the index returns to 0. *)
Recent == INSTANCE RecentRecords
            WITH Capacity <- Entries,
                 Records  <- {Stored(p) : p \in Packets},
                 Empty    <- EmptyEntry,
                 recent   <- [a \in Slots |-> table[Slot(a)]]

TableSpec == Recent!Spec

(* A response to one of the last Entries queries, with the question and    *)
(* the transaction id of that query, never raises an alert, however many   *)
(* other queries for that name went out with other ids.  It depends on the *)
(* ring, on the end of the search and on the truncation being the same for *)
(* queries and responses.                                                  *)
WasAsked(p) == \E a \in Slots : asked[a] = p

AnswersPass == last # NoPacket /\ WasAsked(last) => verdict = "nomatch"

(* A response to a question of one of the last Entries queries raises an   *)
(* alert if no query that it begins with had an id with its low byte:      *)
(* whatever the index has come to, a mismatch is noticed.  Before the      *)
(* table is full an entry of zeros answers for the ids of low byte 0.      *)
Full == \A a \in Slots : asked[a] # NoPacket

Relevant(q) == {p \in {asked[a] : a \in Slots} \ {NoPacket} :
                    IsPrefix(Cut(p.question), q)}

MismatchAlerts ==
    /\ last # NoPacket
    /\ Relevant(last.question) # {}
    /\ \A p \in Relevant(last.question) :
            Truncated(p.txid) # Truncated(last.txid)
    /\ Full \/ Truncated(last.txid) # 0
    => verdict = "match"

(* "If we find matches for the query but no matching query with a matching *)
(* txid, alert" (lines 43-44): an alert is about a question that was       *)
(* asked.  It is not while the table fills: the search ends one place      *)
(* after the last entry, and the zeros there match every response.         *)
AlertHasQuery == verdict = "match" => Relevant(last.question) # {}
=============================================================================
