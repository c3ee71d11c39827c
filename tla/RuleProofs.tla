----------------------------- MODULE RuleProofs -----------------------------
(***************************************************************************)
(* Proofs about what the shared-object rules keep for all streams and      *)
(* about the readers they and the charms share.  The two tables: DnsSpoof, *)
(* for a table of any size, questions of any length and any transaction    *)
(* ids, and SmbReflex, for a list of any size that divides the values of   *)
(* its index.  The readers: Readers, for headers, data, packets, names,    *)
(* lists and dumps of any length.                                          *)
(***************************************************************************)
EXTENDS MCTables, Readers, DataInduction

(***************************************************************************)
(* The inductive invariant.                                                *)
(***************************************************************************)

(* The entry a queries back is what was stored for the packet of then.     *)
Aged == \A a \in Slots : table[Slot(a)] = Stored(asked[a])

(* The search reaches every entry that was written, and the next place, if *)
(* that is not the first one.                                              *)
Reached ==
    /\ \A a \in Slots : asked[a] # NoPacket => Slot(a) <= maxIndex /\ cleared
    /\ index > 0 => index <= maxIndex

Inv == TypeOK /\ Aged /\ Reached /\ AnswersPass /\ MismatchAlerts

-----------------------------------------------------------------------------
(* The ages are a numbering of the places, backwards from the index.       *)
LEMMA SlotIs ==
    ASSUME index \in Slots
    PROVE  /\ \A a \in Slots : Slot(a) \in Slots
           /\ \A i \in Slots : \E a \in Slots : Slot(a) = i
<1>1. ASSUME NEW i \in Slots PROVE \E a \in Slots : Slot(a) = i
    <2> DEFINE a == IF i < index THEN index - 1 - i
                    ELSE index - 1 - i + Entries
    <2>1. a \in Slots /\ Slot(a) = i
        BY EntriesAssumption DEF Slots, Slot
    <2> QED BY <2>1
<1> QED BY <1>1, EntriesAssumption DEF Slots, Slot

(* One query later everything is one place older, and the place that was   *)
(* next is that of the last query.                                         *)
LEMMA SlotMoves ==
    ASSUME index \in Slots, index' = NextIndex
    PROVE  /\ index' \in Slots
           /\ Slot(0)' = index
           /\ \A a \in Slots \ {0} :
                /\ a - 1 \in Slots
                /\ Slot(a)' = Slot(a - 1) /\ Slot(a - 1) # index
BY EntriesAssumption DEF Slots, Slot, NextIndex

LEMMA PacketsAre ==
    ASSUME NEW p \in Packets
    PROVE  /\ p # NoPacket
           /\ p = [question |-> p.question, txid |-> p.txid]
           /\ Stored(p) = [query |-> Cut(p.question),
                           txid |-> Truncated(p.txid)]
BY DEF Packets, NoPacket, Stored

(* What is stored of a question is how the question begins.                *)
LEMMA CutIsPrefix ==
    ASSUME NEW q \in Questions
    PROVE  IsPrefix(Cut(q), q)
<1>1. q \in Seq(Symbols) /\ Len(q) \in Nat /\ MaxLen \in Nat
    BY QuestionsAssumption, MaxLenAssumption, LenProperties
<1>2. CASE Len(q) > MaxLen
    <2>1. \A i \in 1..MaxLen : q[i] \in Symbols
        BY <1>1, <1>2, ElementOfSeq
    <2>2. Cut(q) \in Seq(Symbols) /\ Len(Cut(q)) = MaxLen
        BY <1>1, <1>2, <2>1, SubSeqProperties DEF Cut
    <2>3. SubSeq(Cut(q), 1, MaxLen) = Cut(q)
        BY <2>2, SubSeqFull
    <2> QED BY <1>1, <1>2, <2>2, <2>3 DEF Cut, IsPrefix
<1>3. CASE ~(Len(q) > MaxLen)
    BY <1>1, <1>3 DEF Cut, IsPrefix
<1> QED BY <1>2, <1>3

-----------------------------------------------------------------------------
(* A query, a response and a restart, as the lemmas below need them.       *)
Stores(p) ==
    /\ table' = [table EXCEPT ![index] = Stored(p)]
    /\ index' = NextIndex
    /\ maxIndex' = SearchEnd
    /\ cleared' = TRUE
    /\ asked' = [a \in Slots |-> IF a = 0 THEN p ELSE asked[a - 1]]

LEMMA QueryIs ==
    ASSUME NEW q \in Questions, NEW txid \in TxIds, Query(q, txid)
    PROVE  /\ last' = NoPacket /\ verdict' = "none"
           /\ \/ UNCHANGED <<table, index, maxIndex, asked>> /\ cleared' = TRUE
              \/ \E p \in Packets : Stores(p)
BY DEF Query, Packets, Stores

LEMMA ClearedTypes ==
    /\ 0 \in Slots /\ -1 \in -1..(Entries - 1)
    /\ [i \in Slots |-> EmptyEntry] \in
            [Slots -> {EmptyEntry} \cup {Stored(p) : p \in Packets}]
    /\ [a \in Slots |-> NoPacket] \in [Slots -> Packets \cup {NoPacket}]
<1>1. 0 \in Slots /\ -1 \in -1..(Entries - 1)
    BY EntriesAssumption DEF Slots
<1> QED BY <1>1

LEMMA TypeStep == TypeOK /\ [Next]_vars => TypeOK'
<1> SUFFICES ASSUME TypeOK, [Next]_vars PROVE TypeOK'
    OBVIOUS
<1>1. ASSUME NEW p \in Packets, Stores(p), last' = NoPacket, verdict' = "none"
      PROVE  TypeOK'
    <2>1. index' \in Slots
        BY <1>1, SlotMoves DEF Stores, TypeOK
    <2>2. maxIndex' \in -1..(Entries - 1)
        BY <1>1, EntriesAssumption
        DEF Stores, TypeOK, SearchEnd, Larger, NextIndex, Slots
    <2>3. \A a \in Slots \ {0} : a - 1 \in Slots
        BY EntriesAssumption DEF Slots
    <2>4. asked' \in [Slots -> Packets \cup {NoPacket}]
        BY <1>1, <2>3 DEF Stores, TypeOK
    <2>5. table' \in [Slots -> {EmptyEntry} \cup {Stored(r) : r \in Packets}]
        BY <1>1 DEF Stores, TypeOK
    <2> QED BY <1>1, <2>1, <2>2, <2>4, <2>5 DEF Stores, TypeOK
<1>2. ASSUME NEW q \in Questions, NEW txid \in TxIds, Query(q, txid)
      PROVE  TypeOK'
    BY <1>1, <1>2, QueryIs DEF TypeOK
<1>3. ASSUME NEW q \in Questions, NEW txid \in TxIds, Response(q, txid)
      PROVE  TypeOK'
    BY <1>3 DEF Response, TypeOK, Packets
<1>4. CASE Restart
    BY <1>4, ClearedTypes DEF Restart, TypeOK
<1>5. CASE UNCHANGED vars
    BY <1>5 DEF vars, TypeOK
<1> QED BY <1>2, <1>3, <1>4, <1>5 DEF Next

(* A response whose question was asked finds the entry of that query.      *)
LEMMA FindsWhatWasAsked ==
    ASSUME TypeOK, Aged, Reached, NEW p \in Packets, WasAsked(p)
    PROVE  Answers(p.question, p.txid)
<1>1. PICK a \in Slots : asked[a] = p
    BY DEF WasAsked
<1>2. Slot(a) \in 0..maxIndex /\ table[Slot(a)] = Stored(p)
    BY <1>1, PacketsAre, SlotIs DEF Aged, Reached, TypeOK, Slots
<1>3. p.question \in Questions
    BY DEF Packets
<1>4. IsPrefix(table[Slot(a)].query, p.question)
    BY <1>2, <1>3, CutIsPrefix, PacketsAre
<1>5. table[Slot(a)].txid = Truncated(p.txid)
    BY <1>2, PacketsAre
<1> QED BY <1>2, <1>4, <1>5 DEF Answers, Hits

(* An entry that answers is one of a query that was asked, or is empty.    *)
LEMMA AnswersComeFrom ==
    ASSUME TypeOK, Aged, NEW q, NEW txid, Answers(q, txid)
    PROVE  \/ \E p \in Relevant(q) : Truncated(p.txid) = Truncated(txid)
           \/ ~Full /\ Truncated(txid) = 0
<1>1. PICK i \in 0..maxIndex :
            IsPrefix(table[i].query, q) /\ table[i].txid = Truncated(txid)
    BY DEF Answers, Hits
<1>2. i \in Slots
    BY EntriesAssumption DEF TypeOK, Slots
<1>3. PICK a \in Slots : Slot(a) = i
    BY <1>2, SlotIs DEF TypeOK
<1>4. table[i] = Stored(asked[a])
    BY <1>3 DEF Aged
<1>5. CASE asked[a] = NoPacket
    BY <1>1, <1>4, <1>5 DEF Stored, EmptyEntry, Full
<1>6. CASE asked[a] # NoPacket
    <2>1. asked[a] \in Packets
        BY <1>6 DEF TypeOK
    <2> QED BY <1>1, <1>4, <1>6, <2>1, PacketsAre DEF Relevant
<1> QED BY <1>5, <1>6

LEMMA RelevantIsHit ==
    ASSUME TypeOK, Aged, Reached, NEW q, Relevant(q) # {}
    PROVE  Hits(q) # {} /\ cleared
<1>1. PICK a \in Slots : /\ asked[a] # NoPacket
                         /\ IsPrefix(Cut(asked[a].question), q)
    BY DEF Relevant
<1>2. asked[a] \in Packets
    BY <1>1 DEF TypeOK
<1>3. Slot(a) \in 0..maxIndex /\ cleared
    BY <1>1, SlotIs DEF Reached, TypeOK, Slots
<1>4. IsPrefix(table[Slot(a)].query, q)
    BY <1>1, <1>2, PacketsAre DEF Aged
<1> QED BY <1>3, <1>4 DEF Hits

LEMMA InvStep == Inv /\ [Next]_vars => Inv'
<1> SUFFICES ASSUME Inv, [Next]_vars PROVE Inv'
    OBVIOUS
<1>1. TypeOK /\ TypeOK' /\ Aged /\ Reached
    BY TypeStep DEF Inv
<1>2. ASSUME UNCHANGED <<table, index, maxIndex, asked>>, cleared => cleared'
      PROVE  Aged' /\ Reached'
    BY <1>1, <1>2 DEF Aged, Reached, Slot
<1>3. ASSUME last' = NoPacket PROVE AnswersPass' /\ MismatchAlerts'
    BY <1>3 DEF AnswersPass, MismatchAlerts
<1>4. ASSUME NEW p \in Packets, Stores(p) PROVE Aged' /\ Reached'
    <2>1. /\ Slot(0)' = index
          /\ \A a \in Slots \ {0} :
                /\ a - 1 \in Slots
                /\ Slot(a)' = Slot(a - 1) /\ Slot(a - 1) # index
        BY <1>1, <1>4, SlotMoves DEF Stores, TypeOK
    <2>2. ASSUME NEW a \in Slots PROVE table'[Slot(a)'] = Stored(asked'[a])
        <3>1. CASE a = 0
            BY <1>1, <1>4, <2>1, <3>1 DEF Stores, TypeOK
        <3>2. CASE a # 0
            <4>1. Slot(a - 1) \in Slots
                BY <1>1, <2>1, <3>2, SlotIs DEF TypeOK
            <4>2. table'[Slot(a)'] = table[Slot(a - 1)]
                BY <1>1, <1>4, <2>1, <3>2, <4>1 DEF Stores, TypeOK
            <4>3. asked'[a] = asked[a - 1]
                BY <1>4, <3>2 DEF Stores
            <4> QED BY <1>1, <2>1, <3>2, <4>2, <4>3 DEF Aged
        <3> QED BY <3>1, <3>2
    <2>3. index <= maxIndex' /\ maxIndex <= maxIndex' /\ index' <= maxIndex'
        BY <1>1, <1>4, EntriesAssumption
        DEF Stores, SearchEnd, Larger, NextIndex, Reached, TypeOK, Slots
    <2>4. ASSUME NEW a \in Slots, asked'[a] # NoPacket
          PROVE  Slot(a)' <= maxIndex'
        <3>1. CASE a = 0
            BY <2>1, <2>3, <3>1
        <3>2. CASE a # 0
            <4>1. asked[a - 1] # NoPacket /\ Slot(a - 1) \in Slots
                BY <1>1, <1>4, <2>1, <2>4, <3>2, SlotIs DEF Stores, TypeOK
            <4>2. Slot(a - 1) <= maxIndex /\ Slot(a - 1) \in Int
                BY <1>1, <2>1, <3>2, <4>1 DEF Reached, Slots
            <4>3. maxIndex \in Int /\ maxIndex' \in Int
                BY <1>1 DEF TypeOK
            <4> QED BY <2>1, <2>3, <3>2, <4>2, <4>3
        <3> QED BY <3>1, <3>2
    <2> QED BY <1>4, <2>2, <2>3, <2>4 DEF Aged, Reached, Stores
<1>5. ASSUME NEW q \in Questions, NEW txid \in TxIds, Query(q, txid)
      PROVE  Inv'
    BY <1>1, <1>2, <1>3, <1>4, <1>5, QueryIs DEF Inv
<1>6. ASSUME NEW q \in Questions, NEW txid \in TxIds, Response(q, txid)
      PROVE  Inv'
    <2> DEFINE p == [question |-> q, txid |-> txid]
    <2>1. /\ p \in Packets /\ last' = p
          /\ UNCHANGED <<table, index, maxIndex, cleared, asked>>
          /\ verdict' = IF cleared /\ Hits(q) # {} /\ ~Answers(q, txid)
                        THEN "match" ELSE "nomatch"
        BY <1>6 DEF Response, Packets
    <2>2. p.question = q /\ p.txid = txid
        OBVIOUS
    <2> HIDE DEF p
    <2>3. AnswersPass'
        BY <1>1, <2>1, <2>2, FindsWhatWasAsked DEF AnswersPass, WasAsked
    <2>4. MismatchAlerts'
        <3>1. SUFFICES ASSUME Relevant(q) # {},
                              \A r \in Relevant(q) :
                                    Truncated(r.txid) # Truncated(txid),
                              Full \/ Truncated(txid) # 0
                       PROVE  cleared /\ Hits(q) # {} /\ ~Answers(q, txid)
            BY <2>1, <2>2 DEF MismatchAlerts, Relevant, Full
        <3> QED BY <1>1, <3>1, AnswersComeFrom, RelevantIsHit
    <2> QED BY <1>1, <1>2, <2>1, <2>3, <2>4 DEF Inv
<1>7. CASE Restart
    <2>1. Aged' /\ Reached'
        <3>1. \A a \in Slots : Slot(a)' \in Slots
            BY <1>7, EntriesAssumption DEF Restart, Slot, Slots
        <3> QED BY <1>7, <3>1 DEF Restart, Aged, Reached, Stored
    <2> QED BY <1>1, <1>3, <1>7, <2>1 DEF Restart, Inv
<1>8. CASE UNCHANGED vars
    BY <1>8 DEF vars, Inv, TypeOK, Aged, Reached, Slot, AnswersPass, WasAsked,
                MismatchAlerts, Relevant, Full
<1> QED BY <1>5, <1>6, <1>7, <1>8 DEF Next

LEMMA InvInit == Init => Inv
<1> SUFFICES ASSUME Init PROVE Inv
    OBVIOUS
<1>1. TypeOK
    BY ClearedTypes DEF Init, TypeOK
<1>2. \A a \in Slots : Slot(a) \in Slots
    BY <1>1, SlotIs DEF TypeOK
<1>3. Aged /\ Reached
    BY <1>2 DEF Init, Aged, Reached, Stored
<1> QED BY <1>1, <1>3 DEF Init, Inv, AnswersPass, MismatchAlerts

LEMMA InvAlways == Spec => []Inv
<1> QED BY InvInit, InvStep, PTL DEF Spec

-----------------------------------------------------------------------------
(* Index and end of the search stay within the table, of whatever size.    *)
THEOREM TypeCorrect == Spec => []TypeOK
<1>1. Inv => TypeOK
    BY DEF Inv
<1> QED BY <1>1, InvAlways, PTL

(* An answer to one of the last queries, with its id, raises no alert, for *)
(* every table, question and id: query and response are cut and truncated  *)
(* alike, and the search reaches what was stored                           *)
(* (protocol-dns_dns-spoof-mismatched-txid.c).                             *)
THEOREM TrueAnswersPass == Spec => []AnswersPass
<1>1. Inv => AnswersPass
    BY DEF Inv
<1> QED BY <1>1, InvAlways, PTL

(* A response with another low byte than every query it begins with raises *)
(* one, once the table is full.                                            *)
THEOREM MismatchesAlert == Spec => []MismatchAlerts
<1>1. Inv => MismatchAlerts
    BY DEF Inv
<1> QED BY <1>1, InvAlways, PTL

(* A packet stores one record, none, or forgets all of them.               *)
LEMMA TableStep ==
    Inv /\ [Next]_vars => [Recent!Next]_([a \in Slots |-> table[Slot(a)]])
<1> SUFFICES ASSUME Inv, [Next]_vars
             PROVE  [Recent!Next]_([a \in Slots |-> table[Slot(a)]])
    OBVIOUS
<1> DEFINE recent == [a \in Slots |-> table[Slot(a)]]
<1>1. /\ index \in Slots
      /\ table \in [Slots -> {EmptyEntry} \cup {Stored(p) : p \in Packets}]
    BY DEF Inv, TypeOK
<1>2. ASSUME NEW p \in Packets, Stores(p) PROVE Recent!Next
    <2>1. /\ Slot(0)' = index
          /\ \A a \in Slots \ {0} :
                /\ a - 1 \in Slots
                /\ Slot(a)' = Slot(a - 1) /\ Slot(a - 1) # index
        BY <1>1, <1>2, SlotMoves DEF Stores
    <2>2. ASSUME NEW a \in Slots
          PROVE  table'[Slot(a)'] = IF a = 0 THEN Stored(p) ELSE recent[a - 1]
        <3>1. a # 0 => Slot(a - 1) \in Slots
            BY <1>1, <2>1, SlotIs
        <3> QED BY <1>1, <1>2, <2>1, <3>1 DEF Stores
    <2>3. recent' = [a \in Slots |->
                        IF a = 0 THEN Stored(p) ELSE recent[a - 1]]
        BY <2>2
    <2> QED
        BY <2>3
        DEF Recent!Next, Recent!Store, Recent!After, Recent!Ages, Slots
<1>3. ASSUME UNCHANGED <<table, index>> PROVE UNCHANGED recent
    BY <1>3 DEF Slot
<1>4. ASSUME NEW q \in Questions, NEW txid \in TxIds, Query(q, txid)
      PROVE  Recent!Next \/ UNCHANGED recent
    BY <1>2, <1>3, <1>4, QueryIs
<1>5. ASSUME NEW q \in Questions, NEW txid \in TxIds, Response(q, txid)
      PROVE  UNCHANGED recent
    BY <1>3, <1>5 DEF Response
<1>6. CASE Restart
    <2>1. \A a \in Slots : Slot(a)' \in Slots
        BY <1>6, EntriesAssumption DEF Restart, Slot, Slots
    <2>2. recent' = [a \in Slots |-> EmptyEntry]
        BY <1>6, <2>1 DEF Restart
    <2> QED
        BY <2>2
        DEF Recent!Next, Recent!Forget, Recent!Nothing, Recent!Ages, Slots
<1>7. CASE UNCHANGED vars
    BY <1>3, <1>7 DEF vars
<1> QED BY <1>4, <1>5, <1>6, <1>7 DEF Next

(* The ring of any size holds the last queries, each with its age, and     *)
(* nothing else, also where its index returns to 0.                        *)
THEOREM RingRefinesRecent == Spec => TableSpec
<1>1. Init => Recent!Init
    <2> SUFFICES ASSUME Init PROVE Recent!Init
        OBVIOUS
    <2>1. \A a \in Slots : table[Slot(a)] = EmptyEntry
        BY EntriesAssumption DEF Init, Slot, Slots
    <2> QED BY <2>1 DEF Recent!Init, Recent!Nothing, Recent!Ages, Slots
<1> QED BY <1>1, TableStep, InvAlways, PTL DEF Spec, TableSpec, Recent!Spec

-----------------------------------------------------------------------------
(***************************************************************************)
(* SmbReflex.  The challenge of age a is a places behind the next one.     *)
(***************************************************************************)
Place == Reflex!Masked(place)

PlaceOf(a) == IF a < Place THEN Place - 1 - a ELSE Place - 1 - a + Size

(* The list is the last challenges stored, and has none of them twice: so  *)
(* that the first place that has a challenge is the only one.              *)
HeardInList == \A a \in Reflex!Slots : list[PlaceOf(a)] = heard[a]

OncePerChallenge ==
    \A i, j \in Reflex!Slots :
        list[i].challenge = list[j].challenge /\ list[i].challenge # 0 => i = j

ReflexInv ==
    Reflex!TypeOK /\ HeardInList /\ OncePerChallenge /\ ReflectionIsReported

LEMMA SizeIs ==
    /\ Size \in Nat \ {0} /\ Wrap \in Nat \ {0}
    /\ \E k \in 1..Wrap : Wrap = k * Size
    /\ 0 \notin Sources
BY ReflexAssumption DEF Reflex!SizeAssumption, Reflex!SourcesAssumption

LEMMA PlaceIs ==
    ASSUME Reflex!TypeOK
    PROVE  /\ Place \in Reflex!Slots
           /\ \A a \in Reflex!Slots : PlaceOf(a) \in Reflex!Slots
           /\ \A i \in Reflex!Slots : \E a \in Reflex!Slots : PlaceOf(a) = i
<1>1. Place \in 0..(Size - 1)
    <2>1. place \in Int
        BY SizeIs DEF Reflex!TypeOK
    <2> QED BY <2>1, SizeIs, DivMod DEF Place, Reflex!Masked
<1> HIDE DEF Place
<1>2. ASSUME NEW i \in Reflex!Slots
      PROVE  \E a \in Reflex!Slots : PlaceOf(a) = i
    <2> DEFINE a == IF i < Place THEN Place - 1 - i ELSE Place - 1 - i + Size
    <2>1. a \in Reflex!Slots /\ PlaceOf(a) = i
        BY <1>1, SizeIs DEF Reflex!Slots, PlaceOf
    <2> QED BY <2>1
<1>3. \A a \in Reflex!Slots : PlaceOf(a) \in Reflex!Slots
    BY <1>1, SizeIs DEF Reflex!Slots, PlaceOf
<1> QED BY <1>1, <1>2, <1>3 DEF Reflex!Slots

(* The place moves on by one, also where the byte that counts it wraps: a  *)
(* size that did not divide the byte's values would skip places there.     *)
LEMMA PlaceMoves ==
    ASSUME Reflex!TypeOK, place' = Reflex!NextIndex
    PROVE  /\ place' \in 0..(Wrap - 1)
           /\ PlaceOf(0)' = Place
           /\ \A a \in Reflex!Slots \ {0} :
                /\ a - 1 \in Reflex!Slots
                /\ PlaceOf(a)' = PlaceOf(a - 1) /\ PlaceOf(a - 1) # Place
<1>1. place \in 0..(Wrap - 1) /\ place \in Int /\ place + 1 \in 1..Wrap
    BY SizeIs DEF Reflex!TypeOK
<1>2. place' = (place + 1) % Wrap
    BY DEF Reflex!NextIndex
<1>3. place' = IF place + 1 = Wrap THEN 0 ELSE place + 1
    BY <1>1, <1>2, SizeIs
<1>4. (place + 1) % Size = IF place % Size = Size - 1 THEN 0
                           ELSE (place % Size) + 1
    BY <1>1, SizeIs, ModSuccessor
<1>5. place' % Size = (place + 1) % Size
    <2>1. CASE place + 1 = Wrap
        <3>1. PICK k \in 1..Wrap : Wrap = k * Size
            BY SizeIs
        <3>2. Wrap = Size * k + 0 /\ k \in Int
            BY <3>1, SizeIs
        <3>3. (Size * k + 0) % Size = 0
            <4>1. 0 \in 0..(Size - 1) /\ Size \in Nat \ {0}
                BY SizeIs
            <4> QED BY <3>2, <4>1, ModIs
        <3>4. 0 % Size = 0
            BY SizeIs, ModSmall
        <3> QED BY <1>3, <2>1, <3>2, <3>3, <3>4
    <2>2. CASE place + 1 # Wrap
        BY <1>3, <2>2
    <2> QED BY <2>1, <2>2
<1>6. Place' = IF Place = Size - 1 THEN 0 ELSE Place + 1
    BY <1>4, <1>5 DEF Place, Reflex!Masked
<1>7. Place \in 0..(Size - 1)
    BY PlaceIs DEF Reflex!Slots
<1>8. place' \in 0..(Wrap - 1)
    BY <1>1, <1>3, SizeIs
<1> HIDE DEF Place
<1>9. \A a \in Reflex!Slots :
        PlaceOf(a)' = IF a < Place' THEN Place' - 1 - a
                      ELSE Place' - 1 - a + Size
    BY DEF PlaceOf
<1> QED BY <1>6, <1>7, <1>8, <1>9, SizeIs DEF Reflex!Slots, PlaceOf

LEMMA ReflexTypeStep ==
    ASSUME NEW c \in Challenges, NEW s \in Sources, NEW r,
           r = [challenge |-> c, source |-> s],
           Reflex!TypeOK, Reflex!CheckChallenge(r)
    PROVE  Reflex!TypeOK' /\ r \in Reflex!Records
<1>1. r \in Reflex!Records
    BY DEF Reflex!CheckChallenge, Reflex!Records
<1>2. asks' = r /\ reported' \in {"match", "nomatch"}
    BY DEF Reflex!CheckChallenge
<1>3. CASE UNCHANGED <<list, place, heard>>
    BY <1>1, <1>2, <1>3 DEF Reflex!TypeOK
<1>4. CASE ~UNCHANGED <<list, place, heard>>
    <2>1. /\ list' = [list EXCEPT ![Place] = r]
          /\ place' = Reflex!NextIndex
          /\ heard' = [a \in Reflex!Slots |-> IF a = 0 THEN r ELSE heard[a - 1]]
        BY <1>4 DEF Reflex!CheckChallenge, Reflex!Remember, Place
    <2>2. /\ place' \in 0..(Wrap - 1)
          /\ \A a \in Reflex!Slots \ {0} : a - 1 \in Reflex!Slots
        BY <2>1, PlaceMoves
    <2> QED BY <1>1, <1>2, <2>1, <2>2 DEF Reflex!TypeOK
<1> QED BY <1>3, <1>4

(* A challenge that is in the list is looked up there; one that is not     *)
(* takes the oldest place.                                                 *)
LEMMA CheckStep ==
    ASSUME NEW c \in Challenges, NEW s \in Sources, NEW r,
           r = [challenge |-> c, source |-> s],
           ReflexInv, Reflex!CheckChallenge(r)
    PROVE  ReflexInv'
<1>1. /\ Reflex!TypeOK /\ Reflex!TypeOK' /\ r \in Reflex!Records
      /\ HeardInList /\ OncePerChallenge
    BY ReflexTypeStep DEF ReflexInv
<1>2. /\ r.challenge = c /\ r.source = s /\ c # 0 /\ asks' = r
      /\ reported' = IF \E i \in Reflex!Known(c) :
                          /\ list[i].source # s
                          /\ \A j \in Reflex!Known(c) : i <= j
                     THEN "match" ELSE "nomatch"
    BY DEF Reflex!CheckChallenge
<1>3. \A i \in Reflex!Known(c), j \in Reflex!Known(c) : i = j
    BY <1>1, <1>2 DEF OncePerChallenge, Reflex!Known
<1>4. \A i \in Reflex!Known(c) : i \in Int
    BY SizeIs DEF Reflex!Known, Reflex!Slots
<1>5. reported' = "match" <=> \E i \in Reflex!Known(c) : list[i].source # s
    BY <1>2, <1>3, <1>4
<1>6. \A i \in Reflex!Slots : \E a \in Reflex!Slots : heard[a] = list[i]
    BY <1>1, PlaceIs DEF HeardInList
<1>7. \A a \in Reflex!Slots : PlaceOf(a) \in Reflex!Slots
    BY <1>1, PlaceIs
<1>8. CASE Reflex!Known(c) # {}
    <2>1. UNCHANGED <<list, place, heard>>
        BY <1>2, <1>8 DEF Reflex!CheckChallenge, Reflex!Remember
    <2>2. HeardInList' /\ OncePerChallenge'
        BY <1>1, <2>1
        DEF HeardInList, OncePerChallenge, PlaceOf, Place, Reflex!Masked,
            Reflex!Slots
    <2>3. (\E i \in Reflex!Known(c) : list[i].source # s) <=>
            \E a \in Reflex!Slots : heard[a].challenge = c /\ heard[a].source # s
        <3>1. ASSUME NEW i \in Reflex!Known(c), list[i].source # s
              PROVE  \E a \in Reflex!Slots :
                        heard[a].challenge = c /\ heard[a].source # s
            BY <1>6, <3>1 DEF Reflex!Known
        <3>2. ASSUME NEW a \in Reflex!Slots, heard[a].challenge = c,
                     heard[a].source # s
              PROVE  \E i \in Reflex!Known(c) : list[i].source # s
            <4>1. list[PlaceOf(a)] = heard[a] /\ PlaceOf(a) \in Reflex!Known(c)
                BY <1>1, <1>7, <3>2 DEF HeardInList, Reflex!Known
            <4> QED BY <3>2, <4>1
        <3> QED BY <3>1, <3>2
    <2>4. ReflectionIsReported'
        BY <1>2, <1>5, <2>1, <2>3
        DEF ReflectionIsReported, Reflex!ReflectionIsReported, Reflex!Slots
    <2> QED BY <1>1, <2>2, <2>4 DEF ReflexInv
<1>9. CASE Reflex!Known(c) = {}
    <2>1. /\ list' = [list EXCEPT ![Place] = r]
          /\ place' = Reflex!NextIndex
          /\ heard' = [a \in Reflex!Slots |-> IF a = 0 THEN r ELSE heard[a - 1]]
        BY <1>2, <1>9 DEF Reflex!CheckChallenge, Reflex!Remember, Place
    <2>2. /\ PlaceOf(0)' = Place
          /\ \A a \in Reflex!Slots \ {0} :
                /\ a - 1 \in Reflex!Slots
                /\ PlaceOf(a)' = PlaceOf(a - 1) /\ PlaceOf(a - 1) # Place
        BY <1>1, <2>1, PlaceMoves
    <2>3. list' \in [Reflex!Slots -> Reflex!Records \cup {Reflex!None}]
        BY <1>1 DEF Reflex!TypeOK, Reflex!Slots, Reflex!Records, Reflex!None
    <2>4. Place \in Reflex!Slots /\ list'[Place] = r
          /\ \A i \in Reflex!Slots \ {Place} : list'[i] = list[i]
        BY <1>1, <2>1, PlaceIs DEF Reflex!TypeOK
    <2>5. ASSUME NEW a \in Reflex!Slots PROVE list'[PlaceOf(a)'] = heard'[a]
        <3>1. CASE a = 0
            BY <2>1, <2>2, <2>4, <3>1
        <3>2. CASE a # 0
            <4>1. /\ a - 1 \in Reflex!Slots /\ PlaceOf(a)' = PlaceOf(a - 1)
                  /\ PlaceOf(a - 1) # Place /\ PlaceOf(a - 1) \in Reflex!Slots
                BY <1>7, <2>2, <3>2
            <4>2. list'[PlaceOf(a)'] = heard[a - 1]
                BY <1>1, <2>4, <4>1 DEF HeardInList
            <4> QED BY <2>1, <3>2, <4>2
        <3> QED BY <3>1, <3>2
    <2>6. \A i \in Reflex!Slots : list[i].challenge # c
        BY <1>9 DEF Reflex!Known
    <2>7. OncePerChallenge'
        <3> SUFFICES ASSUME NEW i \in Reflex!Slots, NEW j \in Reflex!Slots,
                            list'[i].challenge = list'[j].challenge,
                            list'[i].challenge # 0
                     PROVE  i = j
            BY DEF OncePerChallenge, Reflex!Slots
        <3> QED BY <1>1, <1>2, <2>4, <2>6 DEF OncePerChallenge
    <2>8. HeardInList'
        BY <2>5 DEF HeardInList, Reflex!Slots
    <2>9. ASSUME NEW a \in Reflex!Slots, heard'[a].challenge = c
          PROVE  heard'[a].source = s
        <3>1. CASE a = 0
            BY <1>2, <2>1, <3>1
        <3>2. CASE a # 0
            <4>1. heard'[a] = heard[a - 1] /\ a - 1 \in Reflex!Slots
                BY <2>1, <2>2, <3>2
            <4>2. heard'[a] = list[PlaceOf(a - 1)]
                BY <1>1, <4>1 DEF HeardInList
            <4> QED BY <1>7, <2>6, <2>9, <4>1, <4>2
        <3> QED BY <3>1, <3>2
    <2>10. ReflectionIsReported'
        BY <1>2, <1>5, <1>9, <2>9
        DEF ReflectionIsReported, Reflex!ReflectionIsReported, Reflex!Slots
    <2> QED BY <1>1, <2>7, <2>8, <2>10 DEF ReflexInv
<1> QED BY <1>8, <1>9

LEMMA ReflexInitInv ==
    ASSUME Reflex!Init
    PROVE  ReflexInv
<1>1. Reflex!TypeOK
    BY SizeIs DEF Reflex!Init, Reflex!TypeOK
<1>2. HeardInList
    BY <1>1, PlaceIs DEF Reflex!Init, HeardInList
<1> QED BY <1>1, <1>2
        DEF Reflex!Init, Reflex!None, ReflexInv, OncePerChallenge,
            ReflectionIsReported, Reflex!ReflectionIsReported

LEMMA ReflexStep == ReflexInv /\ [Reflex!Next]_reflexVars => ReflexInv'
<1> SUFFICES ASSUME ReflexInv, [Reflex!Next]_reflexVars PROVE ReflexInv'
    OBVIOUS
<1>1. ASSUME NEW p \in Reflex!Packets, NEW c \in Challenges, NEW s \in Sources,
             Reflex!Eval(p, [challenge |-> c, source |-> s])
      PROVE  ReflexInv'
    BY <1>1, CheckStep DEF Reflex!Eval
<1>2. CASE Reflex!Restart
    <2>1. Reflex!TypeOK'
        BY <1>2, SizeIs DEF Reflex!Restart, Reflex!TypeOK
    <2>2. \A a \in Reflex!Slots : PlaceOf(a)' \in Reflex!Slots
        <3>1. Place' = 0
            BY <1>2, SizeIs, ModSmall DEF Reflex!Restart, Place, Reflex!Masked
        <3> QED BY <3>1, SizeIs DEF PlaceOf, Reflex!Slots
    <2>3. HeardInList'
        BY <1>2, <2>2 DEF Reflex!Restart, HeardInList, Reflex!Slots
    <2> QED BY <1>2, <2>1, <2>3
            DEF Reflex!Restart, Reflex!None, Reflex!Slots, ReflexInv,
                OncePerChallenge, ReflectionIsReported,
                Reflex!ReflectionIsReported
<1>3. CASE UNCHANGED reflexVars
    BY <1>3
    DEF reflexVars, ReflexInv, Reflex!TypeOK, HeardInList, PlaceOf, Place,
        Reflex!Masked, OncePerChallenge, ReflectionIsReported,
        Reflex!ReflectionIsReported, Reflex!Slots
<1> QED BY <1>1, <1>2, <1>3 DEF Reflex!Next

(* A challenge is reported if, and only if, another source sent it among   *)
(* the last new ones, for a list of any size that divides the values of    *)
(* its index and any challenges and sources                                *)
(* (os-windows_kb957097-smb-reflex.c).                                     *)
THEOREM ReflectionsReported == TablesSpec => []ReflectionIsReported
<1>1. TablesInit => ReflexInv
    BY ReflexInitInv DEF TablesInit
<1>2. ReflexInv /\ [TablesNext]_<<traffic, vars, reflexVars>> => ReflexInv'
    BY ReflexStep DEF TablesNext
<1>3. ReflexInv => ReflectionIsReported
    BY DEF ReflexInv
<1> QED BY <1>1, <1>2, <1>3, PTL DEF TablesSpec

(* Traffic of either kind leaves the other table alone: what is proved of  *)
(* each rule holds of the sensor that runs both.                           *)
THEOREM TablesAreApart == TablesSpec => Spec /\ Reflex!Spec
<1>1. TablesInit => Init /\ Reflex!Init
    BY DEF TablesInit
<1>2. [TablesNext]_<<traffic, vars, reflexVars>> =>
            [Next]_vars /\ [Reflex!Next]_(Reflex!vars)
    BY DEF TablesNext, reflexVars, Reflex!vars
<1> QED BY <1>1, <1>2, PTL DEF TablesSpec, Spec, Reflex!Spec

-----------------------------------------------------------------------------
(***************************************************************************)
(* Readers.  First the loops of CharmLoops over lists that their own steps *)
(* make shorter or begin anew: HomeNet, TopTalkers and Rrd.                *)
(***************************************************************************)

(* TopTalkers fails on fewer than four rows, and else has all but three.   *)
LEMMA TalkersAre ==
    ASSUME NEW rows \in Seq(STRING), \A i \in DOMAIN rows : rows[i] # Failed[1]
    PROVE  TopTalkers(rows) = IF Len(rows) < 4 THEN Failed
                              ELSE SubSeq(rows, 4, Len(rows))
<1> DEFINE N == Len(rows)
           Body(f) == [n \in 0..Len(rows) |->
                        IF n = 0 THEN Failed
                        ELSE IF n - 1 = 3 THEN <<rows[n]>>
                        ELSE IF f[n - 1] = Failed THEN Failed
                        ELSE Append(f[n - 1], rows[n])]
           F == CHOOSE f : f = Body(f)
           w == [n \in 0..N |-> IF n < 4 THEN Failed ELSE SubSeq(rows, 4, n)]
<1>1. TopTalkers(rows) = F[Len(rows)]
    BY Zenon DEF TopTalkers
<1>2. /\ N \in Nat /\ DOMAIN rows = 1..N
    OBVIOUS
<1>3. \A n \in 4..N : SubSeq(rows, 4, n) # Failed
    <2> SUFFICES ASSUME NEW n \in 4..N PROVE SubSeq(rows, 4, n) # Failed
        OBVIOUS
    <2>1. SubSeq(rows, 4, n)[1] = rows[4] /\ 4 \in 1..N
        BY PartIs
    <2> QED BY <1>2, <2>1
<1>4. ASSUME NEW n \in 0..N
      PROVE  w[n] = IF n = 0 THEN Failed
                    ELSE IF n - 1 = 3 THEN <<rows[n]>>
                    ELSE IF w[n - 1] = Failed THEN Failed
                    ELSE Append(w[n - 1], rows[n])
    <2>1. CASE n < 4
        BY <1>2, <2>1
    <2>2. CASE n = 4
        BY <1>2, <2>2, PartIs
    <2>3. CASE n > 4
        <3>1. n - 1 \in 4..N /\ n - 1 \in 0..N /\ w[n - 1] = SubSeq(rows, 4, n - 1)
              /\ w[n] = SubSeq(rows, 4, n)
            BY <1>2, <2>3
        <3>2. SubSeq(rows, 4, (n - 1) + 1) = Append(SubSeq(rows, 4, n - 1), rows[(n - 1) + 1])
            BY <1>2, <2>3, PartGrows
        <3>3. (n - 1) + 1 = n
            BY <1>2
        <3>4. w[n - 1] # Failed
            BY <1>3, <3>1
        <3> HIDE DEF w
        <3> QED BY <1>2, <2>3, <3>1, <3>2, <3>3, <3>4
    <2> QED BY <1>2, <2>1, <2>2, <2>3
<1>5. w = Body(w)
    BY <1>2, <1>4
<1>6. F = Body(F)
    <2> HIDE DEF w, Body
    <2> QED BY <1>5
<1> DEFINE T == {n \in 0..N : F[n] = w[n]}
<1>7. 0 \in T
    <2>1. F[0] = Failed
        <3> HIDE DEF F
        <3> QED BY <1>2, <1>6
    <2> HIDE DEF F
    <2> QED BY <1>2, <2>1
<1>8. ASSUME NEW n \in 0..(N - 1), n \in T PROVE n + 1 \in T
    <2> HIDE DEF F, w
    <2>1. n + 1 \in 0..N /\ n \in 0..N /\ (n + 1) - 1 = n /\ n + 1 # 0
        BY <1>2
    <2>2. F[n + 1] = IF n = 3 THEN <<rows[n + 1]>>
                     ELSE IF F[n] = Failed THEN Failed
                     ELSE Append(F[n], rows[n + 1])
        BY <1>6, <2>1
    <2>3. w[n + 1] = IF n = 3 THEN <<rows[n + 1]>>
                     ELSE IF w[n] = Failed THEN Failed
                     ELSE Append(w[n], rows[n + 1])
        BY <1>4, <2>1
    <2> QED BY <1>8, <2>1, <2>2, <2>3
<1>9. F[N] = w[N]
    <2> HIDE DEF T
    <2>1. \A n \in 0..N : n \in T
        BY <1>2, <1>7, <1>8, InductionTo
    <2> QED BY <1>2, <2>1 DEF T
<1> HIDE DEF F
<1> QED BY <1>1, <1>2, <1>9

(* Where the lines begin that Rrd takes from the end, and none of them is  *)
(* a mark; or where the last mark among them is.                           *)
Beginning(lines, m, at) ==
    /\ m \in 1..(at + 1) /\ m > Len(lines) - TailLines
    /\ \A i \in (m + 1)..at : lines[i] # "<rra>"
    /\ \/ m <= at /\ lines[m] = "<rra>"
       \/ /\ m = Len(lines) - TailLines + 1
          /\ m <= at => lines[m] # "<rra>"

(* There is no mark, and too few lines for all that are to be taken.       *)
NoBeginning(lines, at) ==
    /\ Len(lines) < TailLines
    /\ \A i \in 1..at : lines[i] # "<rra>"

(* What Rrd has taken when it has come to a line.                          *)
TakenIs(value, lines, at) ==
    \/ \E m \in 1..(at + 1) : /\ Beginning(lines, m, at)
                             /\ value = SubSeq(lines, m, at)
    \/ value = Failed /\ NoBeginning(lines, at)

(* One line more.                                                          *)
LEMMA TakenOne ==
    ASSUME NEW lines \in Seq(STRING), \A i \in DOMAIN lines : lines[i] # Failed[1],
           NEW at \in 1..Len(lines), NEW value, NEW next,
           at > Len(lines) - TailLines,
           TakenIs(value, lines, at - 1),
           next = IF lines[at] = "<rra>" THEN <<lines[at]>>
                  ELSE IF value = Failed THEN Failed
                  ELSE Append(value, lines[at])
    PROVE  TakenIs(next, lines, at)
<1>1. Len(lines) \in Nat /\ TailLines \in Nat \ {0} /\ DOMAIN lines = 1..Len(lines)
    BY LinesAssumption
<1>2. CASE lines[at] = "<rra>"
    <2>1. SubSeq(lines, at, at) = <<lines[at]>>
        BY <1>1, PartIs
    <2>2. Beginning(lines, at, at) /\ at \in 1..(at + 1)
        BY <1>1, <1>2 DEF Beginning
    <2> QED BY <1>2, <2>1, <2>2 DEF TakenIs
<1>3. CASE lines[at] # "<rra>" /\ value = Failed /\ NoBeginning(lines, at - 1)
    <2>1. NoBeginning(lines, at)
        BY <1>1, <1>3 DEF NoBeginning
    <2> QED BY <1>3, <2>1 DEF TakenIs
<1>4. ASSUME lines[at] # "<rra>", NEW m \in 1..at,
             Beginning(lines, m, at - 1), value = SubSeq(lines, m, at - 1)
      PROVE  TakenIs(next, lines, at)
    <2>1. SubSeq(lines, m, (at - 1) + 1) = Append(SubSeq(lines, m, at - 1), lines[(at - 1) + 1])
        BY <1>1, PartGrows
    <2>2. (at - 1) + 1 = at
        BY <1>1
    <2>3. value # Failed
        <3>1. CASE m = at
            <4>1. SubSeq(lines, m, at - 1) = <<>>
                BY <1>1, <3>1, SubSeqEmpty
            <4>2. value = <<>>
                BY Zenon, <1>4, <4>1
            <4> QED BY <4>2 DEF Failed
        <3>2. CASE m < at
            <4>1. at - 1 \in m..Len(lines) /\ m \in 1..Len(lines)
                  /\ 1 \in 1..((at - 1) + 1 - m) /\ m + 1 - 1 = m
                BY <1>1, <3>2
            <4>2. SubSeq(lines, m, at - 1)[1] = lines[m + 1 - 1]
                BY <4>1, PartIs
            <4>3. lines[m] # Failed[1]
                BY <1>1
            <4> QED BY <1>4, <4>1, <4>2, <4>3
        <3> QED BY <1>1, <3>1, <3>2
    <2>4. next = SubSeq(lines, m, at)
        BY <1>4, <2>1, <2>2, <2>3
    <2>5. Beginning(lines, m, at) /\ m \in 1..(at + 1)
        BY <1>1, <1>4 DEF Beginning
    <2> QED BY <2>4, <2>5 DEF TakenIs
<1>5. CASE lines[at] # "<rra>"
    <2>1. (at - 1) + 1 = at
        BY <1>1
    <2> QED BY <1>3, <1>4, <1>5, <2>1 DEF TakenIs
<1> QED BY <1>1, <1>2, <1>5

(* The lines that Rrd takes from the end, from a mark on or all of them.   *)
RrdLines(lines) ==
    LET marks == {i \in DOMAIN lines : lines[i] = "<rra>"}
        near  == {i \in marks : i > Len(lines) - TailLines}
        from  == IF near = {} THEN Len(lines) - TailLines + 1
                 ELSE CHOOSE i \in near : \A j \in near : j <= i
    IN  IF Len(lines) < HeadLines \/ from < 1 THEN Failed
        ELSE SubSeq(lines, 1, HeadLines) \o SubSeq(lines, from, Len(lines))

(* At the last line, what was taken follows the lines of the head.         *)
LEMMA TakenAll ==
    ASSUME NEW lines \in Seq(STRING), \A i \in DOMAIN lines : lines[i] # Failed[1],
           NEW value, TakenIs(value, lines, Len(lines))
    PROVE  RrdLines(lines) = IF Len(lines) < HeadLines \/ value = Failed THEN Failed
                             ELSE SubSeq(lines, 1, HeadLines) \o value
<1> DEFINE N == Len(lines)
           marks == {i \in DOMAIN lines : lines[i] = "<rra>"}
           near  == {i \in marks : i > Len(lines) - TailLines}
           from  == IF near = {} THEN Len(lines) - TailLines + 1
                    ELSE CHOOSE i \in near : \A j \in near : j <= i
<1>1. N \in Nat /\ TailLines \in Nat \ {0} /\ DOMAIN lines = 1..N
    BY LinesAssumption
<1>2. RrdLines(lines) = IF N < HeadLines \/ from < 1 THEN Failed
                        ELSE SubSeq(lines, 1, HeadLines) \o SubSeq(lines, from, N)
    BY DEF RrdLines
<1>3. CASE value = Failed /\ NoBeginning(lines, N)
    <2>1. near = {} /\ N < TailLines
        BY <1>1, <1>3 DEF NoBeginning
    <2>2. from < 1
        BY <1>1, <2>1
    <2> HIDE DEF from
    <2> QED BY <1>2, <1>3, <2>2
<1>4. ASSUME NEW m \in 1..(N + 1), Beginning(lines, m, N), value = SubSeq(lines, m, N)
      PROVE  from = m /\ value # Failed
    <2>1. from = m
        <3>1. CASE m <= N /\ lines[m] = "<rra>"
            <4>1. m \in near /\ \A j \in near : j <= m
                BY <1>1, <1>4, <3>1 DEF Beginning
            <4>2. \A i \in near : (\A j \in near : j <= i) => i = m
                BY <1>1, <4>1
            <4> HIDE DEF near
            <4> QED BY <4>1, <4>2
        <3>2. CASE m = N - TailLines + 1 /\ (m <= N => lines[m] # "<rra>")
            <4>1. near = {}
                BY <1>1, <1>4, <3>2 DEF Beginning
            <4> HIDE DEF near
            <4> QED BY <3>2, <4>1
        <3> QED BY <1>4, <3>1, <3>2 DEF Beginning
    <2>2. CASE m = N + 1
        <3>1. SubSeq(lines, m, N) = <<>>
            BY <1>1, <2>2, SubSeqEmpty
        <3> QED BY <1>4, <2>1, <3>1 DEF Failed
    <2>3. CASE m <= N
        <3>1. /\ m \in 1..N /\ N \in m..N /\ 1 \in 1..(N + 1 - m) /\ m + 1 - 1 = m
            BY <1>1, <2>3
        <3>2. SubSeq(lines, m, N)[1] = lines[m + 1 - 1]
            BY <3>1, PartIs
        <3>3. lines[m] # Failed[1]
            BY <1>1, <3>1
        <3> QED BY <1>4, <2>1, <3>1, <3>2, <3>3
    <2> QED BY <1>1, <2>2, <2>3
<1> HIDE DEF from
<1>5. ASSUME NEW m \in 1..(N + 1), Beginning(lines, m, N), value = SubSeq(lines, m, N)
      PROVE  RrdLines(lines) = IF N < HeadLines \/ value = Failed THEN Failed
                               ELSE SubSeq(lines, 1, HeadLines) \o value
    <2>1. from = m /\ value # Failed /\ ~(from < 1)
        BY <1>1, <1>4, <1>5
    <2> QED BY <1>2, <1>5, <2>1
<1> QED BY <1>2, <1>3, <1>5 DEF TakenIs

(* getRrd: the walk over the lines comes to the lines said above.          *)
LEMMA RrdIs ==
    ASSUME NEW lines \in Seq(STRING), \A i \in DOMAIN lines : lines[i] # Failed[1]
    PROVE  Rrd(lines) = RrdLines(lines)
<1> DEFINE N == Len(lines)
           L == TailLines
           At(n) == Len(lines) - TailLines + n
           S == Seq(STRING \cup {"failed"})
           One(n, value) ==
                IF At(n) < 1 THEN Failed
                ELSE IF lines[At(n)] = "<rra>" THEN <<lines[At(n)]>>
                ELSE IF value = Failed THEN Failed
                ELSE Append(value, lines[At(n)])
           Body(f) == [n \in 0..TailLines |->
                        IF n = 0 THEN <<>>
                        ELSE IF Len(lines) - TailLines + n < 1 THEN Failed
                        ELSE IF lines[Len(lines) - TailLines + n] = "<rra>"
                             THEN <<lines[Len(lines) - TailLines + n]>>
                        ELSE IF f[n - 1] = Failed THEN Failed
                        ELSE Append(f[n - 1], lines[Len(lines) - TailLines + n])]
           F == CHOOSE f : f = Body(f)
           g == [p \in (1..L) \X S |-> One(p[1], p[2])]
<1>1. Rrd(lines) = IF N < HeadLines \/ F[TailLines] = Failed THEN Failed
                   ELSE SubSeq(lines, 1, HeadLines) \o F[TailLines]
    BY Zenon DEF Rrd
<1>2. /\ N \in Nat /\ L \in Nat \ {0} /\ DOMAIN lines = 1..N
      /\ \A i \in 1..N : lines[i] \in STRING
    BY LinesAssumption
<1>3. ASSUME NEW n \in 1..L, NEW value \in S PROVE One(n, value) \in S
    <2>1. Failed \in S
        BY DEF Failed
    <2>2. At(n) >= 1 => At(n) \in 1..N
        BY <1>2
    <2> HIDE DEF At, L
    <2>3. At(n) \in Int
        BY <1>2 DEF At, L
    <2>4. CASE At(n) < 1
        BY <2>1, <2>4
    <2>5. CASE At(n) >= 1
        <3>1. lines[At(n)] \in STRING
            BY <1>2, <2>2, <2>5
        <3> DEFINE x == lines[At(n)]
        <3>2. x \in STRING \cup {"failed"}
            BY <3>1
        <3> HIDE DEF x
        <3>3. <<x>> \in S /\ Append(value, x) \in S
            BY <3>2
        <3> QED BY <2>1, <3>3, <2>3, <2>5 DEF x
    <2> QED BY <2>3, <2>4, <2>5
<1>4. PICK h : IsRun(h, S, <<>>, L, g)
    <2>1. g \in [(1..L) \X S -> S]
        <3> HIDE DEF One, S
        <3> QED BY <1>3
    <2>2. <<>> \in S /\ L \in Nat
        BY <1>2
    <2> HIDE DEF g, S, L
    <2> QED BY <2>1, <2>2, RunExists
<1>5. /\ h \in [0..L -> S] /\ h[0] = <<>>
      /\ \A n \in 1..L : h[n] = One(n, h[n - 1])
    <2>1. h \in [0..L -> S] /\ h[0] = <<>>
        BY <1>4 DEF IsRun
    <2>2. ASSUME NEW n \in 1..L PROVE h[n] = One(n, h[n - 1])
        <3>1. n - 1 \in 0..(L - 1) /\ (n - 1) + 1 = n /\ n - 1 \in 0..L
            BY <1>2
        <3>2. h[n - 1] \in S
            BY <2>1, <3>1
        <3>3. h[n] = g[<<n, h[n - 1]>>]
            <4> HIDE DEF g, L
            <4>1. h[(n - 1) + 1] = g[<<(n - 1) + 1, h[n - 1]>>]
                BY <1>4, <3>1 DEF IsRun
            <4> QED BY <3>1, <4>1
        <3> HIDE DEF One, S
        <3> QED BY <3>2, <3>3
    <2> HIDE DEF g, One
    <2> QED BY <2>1, <2>2
<1>6. h = Body(h)
    <2>1. ASSUME NEW n \in 0..L
          PROVE  h[n] = IF n = 0 THEN <<>> ELSE One(n, h[n - 1])
        <3>1. n # 0 => n \in 1..L
            BY <1>2
        <3> HIDE DEF One
        <3> QED BY <1>5, <3>1
    <2>2. h = [n \in 0..L |-> IF n = 0 THEN <<>> ELSE One(n, h[n - 1])]
        <3> HIDE DEF One
        <3> QED BY <1>5, <2>1
    <2> QED BY <2>2
<1>7. F = Body(F)
    <2> HIDE DEF Body
    <2> QED BY <1>6
<1>8. /\ F[0] = <<>>
      /\ \A n \in 1..L : F[n] = One(n, F[n - 1])
    <2>1. 0 \in 0..L /\ \A n \in 1..L : n \in 0..L /\ n # 0
        BY <1>2
    <2> HIDE DEF F
    <2> QED BY <1>7, <2>1
<1> HIDE DEF F
<1> DEFINE T == {n \in 0..L : IF At(n) < 0 THEN n = 0 \/ F[n] = Failed
                              ELSE TakenIs(F[n], lines, At(n))}
<1>9. 0 \in T
    <2>1. CASE At(0) < 0
        BY <1>2, <2>1
    <2>2. CASE At(0) >= 0
        <3>1. At(0) = N - TailLines
            BY <1>2
        <3>2. /\ At(0) + 1 \in 1..(At(0) + 1)
              /\ Beginning(lines, At(0) + 1, At(0))
            BY <1>2, <2>2, <3>1 DEF Beginning
        <3>3. SubSeq(lines, At(0) + 1, At(0)) = <<>>
            BY <1>2, <2>2, <3>1, SubSeqEmpty
        <3>4. TakenIs(F[0], lines, At(0))
            <4> HIDE DEF At
            <4> QED BY <1>8, <3>2, <3>3 DEF TakenIs
        <3> QED BY <1>2, <2>2, <3>4
    <2> QED BY <1>2, <2>1, <2>2
<1>10. ASSUME NEW n \in 0..(L - 1), n \in T PROVE n + 1 \in T
    <2>1. /\ n + 1 \in 1..L /\ (n + 1) - 1 = n /\ At(n + 1) = At(n) + 1
          /\ n + 1 \in 0..L /\ At(n) \in Int /\ n # -1
        BY <1>2
    <2>2. F[n + 1] = One(n + 1, F[n])
        <3> HIDE DEF One, L
        <3> QED BY <1>8, <2>1
    <2>3. CASE At(n + 1) < 1
        <3>1. F[n + 1] = Failed
            <4> HIDE DEF At
            <4> QED BY <2>2, <2>3
        <3>2. At(n + 1) = 0 => NoBeginning(lines, At(n + 1))
            BY <1>2 DEF NoBeginning
        <3>3. TakenIs(F[n + 1], lines, 0) \/ At(n + 1) # 0
            <4> HIDE DEF At
            <4> QED BY <3>1, <3>2 DEF TakenIs
        <3>4. At(n + 1) < 0 \/ At(n + 1) = 0
            <4> HIDE DEF At
            <4> QED BY <2>1, <2>3
        <3>5. At(n + 1) = 0 => TakenIs(F[n + 1], lines, At(n + 1))
            <4> HIDE DEF At
            <4> QED BY <3>3
        <3> HIDE DEF At
        <3> QED BY <2>1, <3>1, <3>4, <3>5
    <2>4. CASE At(n + 1) >= 1
        <3>1. /\ At(n + 1) \in 1..N /\ At(n + 1) > N - TailLines
              /\ At(n + 1) - 1 = At(n) /\ At(n) >= 0
            BY <1>2, <2>4
        <3>2. TakenIs(F[n], lines, At(n + 1) - 1)
            BY <1>10, <3>1
        <3>3. F[n + 1] = IF lines[At(n + 1)] = "<rra>" THEN <<lines[At(n + 1)]>>
                         ELSE IF F[n] = Failed THEN Failed
                         ELSE Append(F[n], lines[At(n + 1)])
            <4> HIDE DEF At
            <4>1. ~(At(n + 1) < 1)
                BY <2>1, <2>4
            <4> QED BY <2>2, <4>1
        <3> HIDE DEF At, N
        <3>4. TakenIs(F[n + 1], lines, At(n + 1))
            <4>1. At(n + 1) \in 1..Len(lines) /\ At(n + 1) > Len(lines) - TailLines
                BY <3>1 DEF N
            <4> QED BY <3>2, <3>3, <4>1, TakenOne
        <3>5. ~(At(n + 1) < 0)
            BY <2>1, <2>4
        <3> QED BY <2>1, <3>4, <3>5
    <2> HIDE DEF At, T
    <2> QED BY <2>1, <2>3, <2>4
<1>11. L \in T
    <2> HIDE DEF T, L
    <2>1. \A n \in 0..L : n \in T
        BY <1>2, <1>9, <1>10, InductionTo
    <2> QED BY <1>2, <2>1
<1>12. TakenIs(F[TailLines], lines, Len(lines))
    <2>1. At(L) = Len(lines) /\ ~(At(L) < 0)
        BY <1>2
    <2> HIDE DEF At
    <2> QED BY <1>11, <2>1
<1> QED BY <1>1, <1>12, TakenAll

(***************************************************************************)
(* HomeNet.                                                                *)
(***************************************************************************)
(* How many IPv6 addresses are just before the j-th one.                   *)
Before6(nets, j) ==
    LET runs == {n \in 0..(j - 1) : \A i \in (j - n)..(j - 1) : nets[i].family = 6}
    IN  CHOOSE n \in runs : \A m \in runs : m <= n

(* An address after an odd number of IPv6 ones is left as it is.           *)
Left(nets, j) == Before6(nets, j) % 2 = 1

(* The number of IPv6 addresses before the first address is none, and one  *)
(* more after one of them.                                                 *)
LEMMA Before6Is ==
    ASSUME NEW nets, NEW j \in Nat \ {0}
    PROVE  /\ Before6(nets, 1) = 0
           /\ Before6(nets, j) \in Nat
           /\ Before6(nets, j + 1) = IF nets[j].family = 6
                                     THEN Before6(nets, j) + 1 ELSE 0
<1> DEFINE Runs6(k) == {n \in 0..(k - 1) :
                        \A i \in (k - n)..(k - 1) : nets[i].family = 6}
<1>1. ASSUME NEW k \in Nat \ {0}
      PROVE  /\ Before6(nets, k) \in Runs6(k)
             /\ \A m \in Runs6(k) : m <= Before6(nets, k)
    <2> DEFINE t == {n + 1 : n \in Runs6(k)}
    <2>1. 0 \in Runs6(k)
        OBVIOUS
    <2>2. t \in SUBSET (1..k) /\ t # {}
        BY <2>1
    <2>3. Max(t) \in t /\ \A i \in t : i <= Max(t)
        <3> HIDE DEF t
        <3> QED BY <2>2, MaxIs
    <2>4. PICK n \in Runs6(k) : \A m \in Runs6(k) : m <= n
        <3>1. PICK n \in Runs6(k) : Max(t) = n + 1
            BY <2>3
        <3>2. \A m \in Runs6(k) : m + 1 <= n + 1
            BY <2>3, <3>1
        <3>3. \A m \in Runs6(k) : m \in Nat
            OBVIOUS
        <3> HIDE DEF Runs6
        <3> QED BY <3>1, <3>2, <3>3
    <2>5. Before6(nets, k) = CHOOSE i \in Runs6(k) : \A m \in Runs6(k) : m <= i
        BY Zenon DEF Before6
    <2> HIDE DEF Runs6
    <2> QED BY <2>4, <2>5
<1>2. Before6(nets, 1) = 0
    BY <1>1
<1>3. Before6(nets, j) \in Nat
    BY <1>1
<1>4. CASE nets[j].family = 6
    <2>1. Before6(nets, j) + 1 \in Runs6(j + 1)
        <3> DEFINE b == Before6(nets, j)
        <3>1. b \in 0..(j - 1) /\ \A i \in (j - b)..(j - 1) : nets[i].family = 6
            BY <1>1
        <3> HIDE DEF b
        <3>2. b + 1 \in 0..j /\ \A i \in (j - b)..j : nets[i].family = 6
            BY <1>4, <3>1
        <3>3. (j + 1) - (b + 1) = j - b /\ (j + 1) - 1 = j
            BY <3>1
        <3>4. b + 1 \in Runs6(j + 1)
            BY <3>2, <3>3
        <3> QED BY <3>4 DEF b
    <2>2. \A m \in Runs6(j + 1) : m # 0 => m - 1 \in Runs6(j)
        OBVIOUS
    <2>3. \A m \in Runs6(j + 1) : m <= Before6(nets, j) + 1
        <3> SUFFICES ASSUME NEW m \in Runs6(j + 1), m # 0
                     PROVE  m <= Before6(nets, j) + 1
            BY <1>3
        <3>1. m - 1 <= Before6(nets, j) /\ m \in Nat
            BY <1>1, <2>2
        <3> QED BY <1>3, <3>1
    <2>4. /\ Before6(nets, j + 1) \in Runs6(j + 1)
          /\ \A m \in Runs6(j + 1) : m <= Before6(nets, j + 1)
        <3>1. j + 1 \in Nat \ {0}
            OBVIOUS
        <3> HIDE DEF Runs6
        <3> QED BY <1>1, <3>1
    <2>5. Before6(nets, j + 1) <= Before6(nets, j) + 1
          /\ Before6(nets, j) + 1 <= Before6(nets, j + 1)
          /\ Before6(nets, j + 1) \in Nat
        BY <2>1, <2>3, <2>4
    <2> QED BY <1>2, <1>3, <1>4, <2>5
<1>5. CASE nets[j].family # 6
    <2>1. \A m \in Runs6(j + 1) : m = 0
        BY <1>5
    <2>2. Before6(nets, j + 1) \in Runs6(j + 1)
        BY <1>1
    <2> QED BY <1>2, <1>3, <1>5, <2>1, <2>2
<1> QED BY <1>4, <1>5, <1>2, <1>3

(* Whether one is left depends on the one before.                          *)
LEMMA LeftIs ==
    ASSUME NEW nets, NEW j \in Nat \ {0}
    PROVE  /\ ~Left(nets, 1)
           /\ Left(nets, j + 1) <=> nets[j].family = 6 /\ ~Left(nets, j)
<1>1. ~Left(nets, 1)
    BY Before6Is DEF Left
<1>2. CASE nets[j].family = 6
    <2>1. Before6(nets, j + 1) = Before6(nets, j) + 1 /\ Before6(nets, j) \in Nat
        BY <1>2, Before6Is
    <2>2. \A n \in Nat : (n + 1) % 2 = 1 <=> n % 2 # 1
        OBVIOUS
    <2> QED BY <1>1, <1>2, <2>1, <2>2 DEF Left
<1>3. CASE nets[j].family # 6
    <2>1. Before6(nets, j + 1) = 0
        BY <1>3, Before6Is
    <2> QED BY <1>1, <1>3, <2>1 DEF Left
<1> QED BY <1>2, <1>3

(* What HomeNet walks is a run over the places.                            *)
VisitRun(h, S, nets) ==
    /\ h \in [0..Len(nets) -> Seq(S)]
    /\ h[0] = nets
    /\ \A i \in 1..Len(nets) : h[i] = Visit(h[i - 1], i)
    /\ HomeNet(nets) = h[Len(nets)]

(* A visit leaves a list of addresses.                                     *)
LEMMA VisitType ==
    ASSUME NEW S, \A a \in S : Network(a) \in S,
           NEW nets \in Seq(S), NEW i \in Nat \ {0}
    PROVE  Visit(nets, i) \in Seq(S)
<1>1. CASE i > Len(nets)
    BY <1>1 DEF Visit
<1>2. CASE i \in 1..Len(nets)
    <2>1. nets[i] \in S /\ Network(nets[i]) \in S
        BY <1>2
    <2>2. [nets EXCEPT ![i] = Network(nets[i])] \in Seq(S)
        BY <1>2, <2>1, ExceptSeq
    <2>3. SubSeq(nets, 1, i - 1) \in Seq(S) /\ SubSeq(nets, i + 1, Len(nets)) \in Seq(S)
        BY <1>2
    <2>4. RemoveAt(nets, i) \in Seq(S)
        BY <2>3, ConcatProperties DEF RemoveAt
    <2> QED BY <1>2, <2>2, <2>4 DEF Visit
<1>3. i > Len(nets) \/ i \in 1..Len(nets)
    OBVIOUS
<1> QED BY <1>1, <1>2, <1>3

(* The function that visits the list is such a run.                        *)
LEMMA VisitRuns ==
    ASSUME NEW S, \A a \in S : Network(a) \in S, NEW nets \in Seq(S)
    PROVE  \E h : VisitRun(h, S, nets)
<1> DEFINE A == Seq(S)
           E == Nat \ {0}
           N == Len(nets)
           s == [i \in DOMAIN nets |-> i]
           op == [p \in A \X E |-> Visit(p[1], p[2])]
           Body(f) == [t \in SUBSET DOMAIN s |->
                        IF t = {} THEN nets ELSE Visit(f[t \ {Max(t)}], s[Max(t)])]
           F == CHOOSE f : f = Body(f)
           v == [t \in SUBSET DOMAIN s |-> Visit(F[t \ {Max(t)}], s[Max(t)])]
<1>1. HomeNet(nets) = F[DOMAIN s]
    BY Zenon DEF HomeNet, FoldLeft, MapThenFoldSet
<1>2. N \in Nat /\ DOMAIN nets = 1..N /\ s \in Seq(E) /\ Len(s) = N
      /\ DOMAIN s = 1..N /\ \A i \in 1..N : s[i] = i
    OBVIOUS
<1>3. op \in [A \X E -> A] /\ \A l \in A, i \in E : op[<<l, i>>] = Visit(l, i)
    <2>1. \A l \in A, i \in E : Visit(l, i) \in A
        BY VisitType
    <2> HIDE DEF A, E
    <2> QED BY <2>1
<1>31. nets \in A
    OBVIOUS
<1> HIDE DEF op, s, A, E, N
<1>4. PICK f \in [SUBSET DOMAIN s -> A] : FoldsBy(f, op, nets, s)
    BY <1>2, <1>3, <1>31, FoldExists
<1>42. ASSUME NEW t \in SUBSET DOMAIN s, t # {}
       PROVE  s[Max(t)] \in E /\ t \ {Max(t)} \in SUBSET DOMAIN s
    <2>1. Max(t) \in t
        BY <1>2, <1>42, MaxIs DEF N
    <2> QED BY <1>2, <2>1 DEF E
<1>5. ASSUME NEW t \in SUBSET DOMAIN s PROVE f[t] = Body(f)[t]
    <2>1. f[t] = IF t = {} THEN nets
                 ELSE op[<<f[t \ {Max(t)}], s[Max(t)]>>]
        BY <1>4 DEF FoldsBy
    <2>2. t # {} => f[t \ {Max(t)}] \in A /\ s[Max(t)] \in E
        BY <1>4, <1>42
    <2> QED BY <1>3, <2>1, <2>2
<1>6. F = Body(F)
    <2>1. f = Body(f)
        BY <1>5 DEF FoldsBy
    <2> HIDE DEF Body
    <2> QED BY <2>1
<1> HIDE DEF F
<1>7. ASSUME NEW t \in SUBSET DOMAIN s, t # {}, F[t \ {Max(t)}] \in A
      PROVE  v[t] = op[<<F[t \ {Max(t)}], s[Max(t)]>>]
    BY <1>3, <1>42, <1>7
<1>8. F = [t \in SUBSET DOMAIN s |-> IF t = {} THEN nets ELSE v[t]]
    BY <1>6
<1> HIDE DEF v
<1>9. Runs(F, A, op, nets, s)
    <2>1. FoldsWith(F, v, A, op, nets, s)
        BY <1>7, <1>8 DEF FoldsWith
    <2> QED BY <1>2, <1>3, <1>31, <2>1, FoldRuns
<1>10. PICK h \in [0..N -> A] :
            /\ h[0] = nets
            /\ \A i \in 1..N : h[i] = op[<<h[i - 1], s[i]>>]
            /\ F[DOMAIN s] = h[N]
    BY <1>2, <1>9 DEF Runs
<1>11. ASSUME NEW i \in 1..N PROVE h[i] = Visit(h[i - 1], i)
    <2>1. i - 1 \in 0..N /\ i \in E
        BY <1>2 DEF E
    <2>2. h[i - 1] \in A
        BY <2>1
    <2>3. h[i] = op[<<h[i - 1], i>>]
        BY <1>2, <1>10
    <2> QED BY <1>3, <2>1, <2>2, <2>3
<1>12. VisitRun(h, S, nets)
    BY <1>1, <1>10, <1>11 DEF VisitRun, A, N
<1> QED BY <1>12

(* What is in the list between two steps: what became of the addresses     *)
(* before a place, and the addresses from there on.  The walk is at that   *)
(* place, and will not pass it by; or it is at the end.                    *)
Rewrites(nets, j) ==
    IF Left(nets, j) THEN <<nets[j]>>
    ELSE IF nets[j].family = 6 THEN <<>>
    ELSE <<Network(nets[j])>>

(* After i visits the list is what the first m addresses become, and then  *)
(* the rest: i is the place after them, or past all of them.               *)
Walked(nets, k, now, i) ==
    \E m \in 0..Len(nets) :
        /\ now = k[m] \o SubSeq(nets, m + 1, Len(nets))
        /\ \/ m < Len(nets) /\ Len(k[m]) = i /\ ~Left(nets, m + 1)
           \/ m = Len(nets) /\ Len(k[m]) <= i

(* What the first addresses of a list become, for each number of them.     *)
Turns(nets, k, S) ==
    /\ k \in [0..Len(nets) -> Seq(S)]
    /\ k[0] = <<>>
    /\ \A j \in 1..Len(nets) : k[j] = k[j - 1] \o Rewrites(nets, j)

(* The address that the walk is at, at the front of what is left.          *)
LEMMA VisitFront ==
    ASSUME NEW S, NEW x \in Seq(S), NEW y \in Seq(S), NEW a \in S, Network(a) \in S
    PROVE  Visit(x \o (<<a>> \o y), Len(x) + 1) =
                IF a.family = 6 THEN x \o y ELSE (x \o <<Network(a)>>) \o y
<1> DEFINE z == x \o (<<a>> \o y)
           i == Len(x) + 1
<1>1. /\ z \in Seq(S) /\ Len(z) = Len(x) + 1 + Len(y)
      /\ Len(x) \in Nat /\ Len(y) \in Nat
      /\ \A n \in 1..Len(z) : z[n] = IF n <= Len(x) THEN x[n]
                                    ELSE IF n = Len(x) + 1 THEN a
                                    ELSE y[n - Len(x) - 1]
    OBVIOUS
<1>2. CASE a.family = 6
    <2>1. SubSeq(z, 1, i - 1) = x
        <3> HIDE DEF z
        <3>1. SubSeq(z, 1, i - 1) \in Seq(S) /\ Len(SubSeq(z, 1, i - 1)) = Len(x)
              /\ \A n \in 1..Len(x) : SubSeq(z, 1, i - 1)[n] = x[n]
            BY <1>1
        <3> QED BY <3>1, SeqEqual
    <2>2. SubSeq(z, i + 1, Len(z)) = y
        <3> HIDE DEF z
        <3>2. SubSeq(z, i + 1, Len(z)) \in Seq(S) /\ Len(SubSeq(z, i + 1, Len(z))) = Len(y)
              /\ \A n \in 1..Len(y) : SubSeq(z, i + 1, Len(z))[n] = z[i + n]
            BY <1>1
        <3>3. ASSUME NEW n \in 1..Len(y) PROVE z[i + n] = y[n]
            <4> DEFINE X == Len(x)  Y == Len(y)  Z == Len(z)
            <4>1. X \in Nat /\ Y \in Nat /\ Z = X + 1 + Y /\ n \in 1..Y /\ i = X + 1
                BY Zenon, <1>1
            <4>2. PICK q \in 1..Len(z) : q = i + n /\ ~(q <= Len(x))
                    /\ q # Len(x) + 1 /\ q - Len(x) - 1 = n
                <5> HIDE DEF X, Y, Z, i
                <5>1. /\ i + n \in 1..Z /\ ~(i + n <= X)
                      /\ i + n # X + 1 /\ (i + n) - X - 1 = n
                    BY <4>1
                <5> QED BY Zenon, <5>1 DEF X, Z
            <4> HIDE DEF i
            <4>3. z[q] = y[n]
                BY <1>1, <4>2
            <4> QED BY <4>2, <4>3
        <3>1. SubSeq(z, i + 1, Len(z)) \in Seq(S) /\ Len(SubSeq(z, i + 1, Len(z))) = Len(y)
              /\ \A n \in 1..Len(y) : SubSeq(z, i + 1, Len(z))[n] = y[n]
            BY <3>2, <3>3
        <3> QED BY <3>1, SeqEqual
    <2>3. RemoveAt(z, i) = x \o y
        <3> HIDE DEF z, i
        <3> QED BY <2>1, <2>2 DEF RemoveAt
    <2> HIDE DEF z
    <2>4. z[i] = a /\ ~(i > Len(z))
        BY <1>1
    <2>5. Visit(z, i) = x \o y
        BY <1>2, <2>3, <2>4 DEF Visit
    <2> QED BY <1>2, <2>5 DEF z
<1>3. CASE a.family # 6
    <2> DEFINE w == (x \o <<Network(a)>>) \o y
    <2>1. /\ w \in Seq(S) /\ Len(w) = Len(x) + 1 + Len(y)
          /\ \A n \in 1..Len(w) : w[n] = IF n <= Len(x) THEN x[n]
                                        ELSE IF n = Len(x) + 1 THEN Network(a)
                                        ELSE y[n - Len(x) - 1]
        <3> DEFINE b == Network(a)
        <3>1. b \in S
            OBVIOUS
        <3> HIDE DEF b
        <3> QED BY <3>1
    <2> HIDE DEF z, w
    <2>2. [z EXCEPT ![i] = Network(a)] = w
        <3>1. i \in 1..Len(z)
            BY <1>1
        <3> DEFINE b == Network(a)
                   u == [z EXCEPT ![i] = b]
        <3>2. b \in S
            OBVIOUS
        <3> HIDE DEF b, i
        <3>3. /\ u \in Seq(S) /\ Len(u) = Len(z)
              /\ \A n \in 1..Len(z) : u[n] = IF n = i THEN b ELSE z[n]
            BY <1>1, <3>1, <3>2, ExceptSeq
        <3> HIDE DEF u
        <3>4. \A n \in 1..Len(u) : u[n] = w[n]
            <4> SUFFICES ASSUME NEW n \in 1..Len(z) PROVE u[n] = w[n]
                BY <3>3
            <4>1. u[n] = IF n = Len(x) + 1 THEN b ELSE z[n]
                BY <3>3 DEF i
            <4>2. w[n] = IF n <= Len(x) THEN x[n]
                         ELSE IF n = Len(x) + 1 THEN b
                         ELSE y[n - Len(x) - 1]
                BY <1>1, <2>1 DEF b
            <4>3. z[n] = IF n <= Len(x) THEN x[n]
                         ELSE IF n = Len(x) + 1 THEN a
                         ELSE y[n - Len(x) - 1]
                BY <1>1
            <4>4. n = Len(x) + 1 => ~(n <= Len(x))
                BY <1>1
            <4> QED BY <4>1, <4>2, <4>3, <4>4
        <3>5. u = w
            BY <1>1, <2>1, <3>3, <3>4, SeqEqual
        <3> QED BY <3>5 DEF u, b
    <2>4. z[i] = a /\ ~(i > Len(z))
        BY <1>1
    <2>5. Visit(z, i) = w
        BY <1>3, <2>2, <2>4 DEF Visit
    <2> QED BY <1>3, <2>5 DEF z, w
<1> QED BY <1>2, <1>3

(* A witness makes it so.                                                  *)
LEMMA WalkedIs ==
    ASSUME NEW nets, NEW k, NEW now, NEW i, NEW m \in 0..Len(nets),
           now = k[m] \o SubSeq(nets, m + 1, Len(nets)),
           \/ m < Len(nets) /\ Len(k[m]) = i /\ ~Left(nets, m + 1)
           \/ m = Len(nets) /\ Len(k[m]) <= i
    PROVE  Walked(nets, k, now, i)
BY DEF Walked

(* One visit more.                                                         *)
LEMMA WalkedOne ==
    ASSUME NEW S, \A a \in S : Network(a) \in S, NEW nets \in Seq(S),
           NEW k, Turns(nets, k, S),
           NEW i \in 0..(Len(nets) - 1), NEW now, Walked(nets, k, now, i)
    PROVE  Walked(nets, k, Visit(now, i + 1), i + 1)
<1> DEFINE N == Len(nets)
           Rest(j) == SubSeq(nets, j, N)
<1>1. /\ N \in Nat /\ \A j \in 1..N : nets[j] \in S
      /\ \A j \in 0..N : k[j] \in Seq(S) /\ Len(k[j]) \in Nat
      /\ \A j \in 1..N : k[j] = k[j - 1] \o Rewrites(nets, j)
      /\ \A j \in 1..(N + 1) : Rest(j) \in Seq(S)
    <2>1. ASSUME NEW j \in 1..(N + 1) PROVE Rest(j) \in Seq(S)
        <3>1. \A n \in j..N : nets[n] \in S
            OBVIOUS
        <3> QED BY <3>1, SubSeqProperties
    <2>2. \A j \in 0..N : k[j] \in Seq(S) /\ Len(k[j]) \in Nat
        BY DEF Turns
    <2>3. \A j \in 1..N : k[j] = k[j - 1] \o Rewrites(nets, j)
        BY DEF Turns
    <2>4. N \in Nat /\ \A j \in 1..N : nets[j] \in S
        OBVIOUS
    <2> HIDE DEF Rest, N
    <2> QED BY <2>1, <2>2, <2>3, <2>4
<1>2. PICK m \in 0..N :
        /\ now = k[m] \o Rest(m + 1)
        /\ \/ m < N /\ Len(k[m]) = i /\ ~Left(nets, m + 1)
           \/ m = N /\ Len(k[m]) <= i
    BY DEF Walked
<1>3. CASE m = N /\ Len(k[m]) <= i
    <2>1. Rest(N + 1) = <<>>
        BY <1>1, SubSeqEmpty
    <2> HIDE DEF N, Rest
    <2>2. now = k[m]
        BY <1>1, <1>2, <1>3, <2>1, ConcatEmptySeq
    <2>3. i + 1 > Len(k[m]) /\ Len(k[m]) <= i + 1
        BY <1>1, <1>2, <1>3
    <2>4. Visit(now, i + 1) = now
        BY <2>2, <2>3 DEF Visit
    <2> QED BY <1>2, <1>3, <2>3, <2>4 DEF Walked, N, Rest
<1>4. CASE m < N /\ Len(k[m]) = i /\ ~Left(nets, m + 1)
    <2> DEFINE a == nets[m + 1]
    <2>1. m + 1 \in 1..N /\ (m + 1) - 1 = m /\ a \in S /\ Network(a) \in S
          /\ m + 1 \in Nat \ {0}
        BY <1>1, <1>4
    <2>2. Rest(m + 1) = <<a>> \o Rest((m + 1) + 1)
        BY <1>1, <2>1, SubSeqRecursiveFirst
    <2>20. Rest((m + 1) + 1) \in Seq(S) /\ k[m] \in Seq(S)
        BY <1>1, <1>4
    <2> HIDE DEF Rest, N, a
    <2>3. Visit(now, i + 1) = IF a.family = 6 THEN k[m] \o Rest((m + 1) + 1)
                              ELSE (k[m] \o <<Network(a)>>) \o Rest((m + 1) + 1)
        <3> DEFINE x == k[m]
                   y == Rest((m + 1) + 1)
        <3> HIDE DEF x, y
        <3>1. now = x \o (<<a>> \o y) /\ i + 1 = Len(x) + 1
            BY <1>2, <1>4, <2>2 DEF x, y
        <3>2. x \in Seq(S) /\ y \in Seq(S) /\ a \in S /\ Network(a) \in S
            BY <2>1, <2>20 DEF x, y
        <3>3. Visit(x \o (<<a>> \o y), Len(x) + 1) =
                IF a.family = 6 THEN x \o y ELSE (x \o <<Network(a)>>) \o y
            BY <3>2, VisitFront
        <3> QED BY <3>1, <3>3 DEF x, y
    <2>4. k[m + 1] = k[m] \o Rewrites(nets, m + 1)
        BY <1>1, <2>1
    <2>5. Rewrites(nets, m + 1) = IF a.family = 6 THEN <<>> ELSE <<Network(a)>>
        BY <1>4 DEF Rewrites, a
    <2>6. Left(nets, (m + 1) + 1) <=> a.family = 6
        BY <1>4, <2>1, LeftIs DEF a
    <2>7. CASE a.family # 6
        <3>1. /\ k[m + 1] = k[m] \o <<Network(a)>>
              /\ Visit(now, i + 1) = k[m + 1] \o Rest((m + 1) + 1)
            BY <2>3, <2>4, <2>5, <2>7
        <3>2. Len(k[m + 1]) = i + 1
            BY <1>4, <2>1, <2>20, <3>1
        <3>3. m + 1 \in 0..N /\ (m + 1 < N \/ m + 1 = N)
            BY <1>1, <2>1
        <3>4. Len(k[m + 1]) <= i + 1
            BY <3>2
        <3> QED BY <2>6, <2>7, <3>1, <3>2, <3>3, <3>4, WalkedIs DEF N, Rest
    <2>8. CASE a.family = 6
        <3>1. k[m + 1] = k[m] /\ Visit(now, i + 1) = k[m] \o Rest((m + 1) + 1)
            BY <2>3, <2>4, <2>5, <2>8, <2>20, ConcatEmptySeq
        <3>2. CASE m + 1 = N
            <4>1. Len(k[m + 1]) <= i + 1 /\ m + 1 \in 0..N
                BY <1>1, <1>4, <3>1, <3>2
            <4> QED BY <3>1, <3>2, <4>1, WalkedIs DEF N, Rest
        <3>3. CASE m + 1 < N
            <4> DEFINE b == nets[(m + 1) + 1]
            <4>1. /\ (m + 1) + 1 \in 1..N /\ ((m + 1) + 1) - 1 = m + 1 /\ b \in S
                  /\ (m + 1) + 1 \in Nat \ {0} /\ (m + 1) + 1 \in 0..N
                  /\ ((m + 1) + 1 < N \/ (m + 1) + 1 = N)
                BY <1>1, <2>1, <3>3
            <4>2. Rest((m + 1) + 1) = <<b>> \o Rest(((m + 1) + 1) + 1)
                BY <4>1, SubSeqRecursiveFirst DEF Rest, N
            <4>3. Rest(((m + 1) + 1) + 1) \in Seq(S)
                BY <1>1, <4>1
            <4>4. Left(nets, (m + 1) + 1) /\ ~Left(nets, ((m + 1) + 1) + 1)
                BY <2>6, <2>8, <4>1, LeftIs
            <4>5. k[(m + 1) + 1] = k[m + 1] \o <<b>>
                BY <1>1, <4>1, <4>4 DEF Rewrites
            <4> HIDE DEF b
            <4>6. <<b>> \in Seq(S) /\ Len(k[m] \o <<b>>) = i + 1
                BY <1>4, <2>20, <4>1
            <4>7. Visit(now, i + 1) = k[(m + 1) + 1] \o Rest(((m + 1) + 1) + 1)
                <5> DEFINE y == Rest(((m + 1) + 1) + 1)
                           x == k[m]
                           c == <<b>>
                <5>1. x \in Seq(S) /\ c \in Seq(S) /\ y \in Seq(S)
                    BY <2>20, <4>3, <4>6
                <5> HIDE DEF x, y, c
                <5>2. x \o (c \o y) = (x \o c) \o y
                    BY <5>1, ConcatAssociative
                <5> QED BY <3>1, <4>2, <4>5, <5>2 DEF x, y, c
            <4>8. Len(k[(m + 1) + 1]) = i + 1
                BY <3>1, <4>5, <4>6
            <4>9. Len(k[(m + 1) + 1]) <= i + 1
                BY <4>8
            <4> QED BY <4>1, <4>4, <4>7, <4>8, <4>9, WalkedIs DEF N, Rest
        <3> QED BY <1>1, <2>1, <3>2, <3>3
    <2> QED BY <2>7, <2>8
<1> QED BY <1>2, <1>3, <1>4

(* HOME_NET: visiting a list while it is made shorter comes to what each   *)
(* address becomes, one after the other.                                   *)
LEMMA HomeNetIs ==
    ASSUME NEW nets, nets \in Seq(Range(nets))
    PROVE  \E S, k : Turns(nets, k, S) /\ HomeNet(nets) = k[Len(nets)]
<1> DEFINE N == Len(nets)
           S == Range(nets) \cup {Network(a) : a \in Range(nets)}
           s == [j \in DOMAIN nets |-> Rewrites(nets, j)]
<1>1. /\ N \in Nat /\ DOMAIN nets = 1..N /\ nets \in Seq(S)
      /\ \A j \in 1..N : nets[j] \in Range(nets)
    <2>1. N \in Nat /\ DOMAIN nets = 1..N
        OBVIOUS
    <2>2. \A j \in 1..N : nets[j] \in Range(nets)
        BY <2>1 DEF Range
    <2>3. nets = [j \in 1..N |-> nets[j]]
        OBVIOUS
    <2>4. \A j \in 1..N : nets[j] \in S
        BY <2>2
    <2> HIDE DEF S
    <2>5. nets \in Seq(S)
        BY <2>1, <2>3, <2>4
    <2> QED BY <2>1, <2>2, <2>5
<1>2. \A a \in S : Network(a) \in S
    <2>1. ASSUME NEW a PROVE Network(Network(a)) = Network(a)
        BY DEF Network
    <2> QED BY <2>1
<1>3. \A a \in Range(nets) : Network(a) \in S /\ a \in S
    OBVIOUS
<1> HIDE DEF S
<1>4. s \in Seq(Seq(S)) /\ Len(s) = N /\ \A j \in 1..N : s[j] = Rewrites(nets, j)
    <2>1. \A j \in 1..N : Rewrites(nets, j) \in Seq(S)
        BY <1>1, <1>3 DEF Rewrites
    <2> QED BY <1>1, <2>1
<1> HIDE DEF s
<1>6. PICK k \in [0..N -> Seq(S)] : Flattens(k, s)
    BY <1>4, FlattenExists
<1>8. Turns(nets, k, S)
    <2>1. ASSUME NEW j \in 1..N PROVE k[j] = k[j - 1] \o Rewrites(nets, j)
        <3>1. j - 1 \in 0..(N - 1) /\ (j - 1) + 1 = j
            BY <1>1
        <3>2. k[(j - 1) + 1] = k[j - 1] \o s[(j - 1) + 1]
            BY <1>4, <1>6, <3>1 DEF Flattens
        <3> QED BY <1>4, <3>1, <3>2
    <2> QED BY <1>6, <2>1 DEF Turns, Flattens
<1>9. PICK h : VisitRun(h, S, nets)
    BY <1>1, <1>2, VisitRuns
<1> DEFINE T == {i \in 0..N : Walked(nets, k, h[i], i)}
<1>10. 0 \in T
    <2>1. h[0] = nets /\ k[0] = <<>>
        BY <1>8, <1>9 DEF VisitRun, Turns
    <2>2. SubSeq(nets, 0 + 1, N) = nets
        BY <1>1, SubSeqFull
    <2>3. h[0] = k[0] \o SubSeq(nets, 0 + 1, N)
        BY <1>1, <2>1, <2>2, ConcatEmptySeq
    <2>4. ~Left(nets, 0 + 1)
        BY LeftIs
    <2>5. Len(k[0]) = 0
        BY <2>1
    <2>6. 0 \in 0..N /\ (0 < N \/ 0 = N)
        BY <1>1
    <2>7. Walked(nets, k, h[0], 0)
        <3>1. Len(k[0]) <= 0
            BY <2>5
        <3> QED BY <2>3, <2>4, <2>5, <2>6, <3>1, WalkedIs
    <2> QED BY <2>6, <2>7
<1>11. ASSUME NEW i \in 0..(N - 1), i \in T PROVE i + 1 \in T
    <2>1. i + 1 \in 1..N /\ (i + 1) - 1 = i /\ i + 1 \in 0..N
        BY <1>1
    <2>2. h[i + 1] = Visit(h[i], i + 1)
        BY <1>9, <2>1 DEF VisitRun
    <2>3. Walked(nets, k, Visit(h[i], i + 1), i + 1)
        BY <1>1, <1>2, <1>8, <1>11, WalkedOne
    <2> QED BY <2>1, <2>2, <2>3
<1>12. Walked(nets, k, h[N], N)
    <2> HIDE DEF T
    <2>1. \A i \in 0..N : i \in T
        BY <1>1, <1>10, <1>11, InductionTo
    <2> QED BY <1>1, <2>1 DEF T
<1>13. h[N] = k[N]
    <2>1. PICK m \in 0..N :
            /\ h[N] = k[m] \o SubSeq(nets, m + 1, N)
            /\ \/ m < N /\ Len(k[m]) = N
               \/ m = N
        BY <1>12 DEF Walked
    <2>2. ASSUME NEW m1 \in 0..N PROVE Len(k[m1]) <= m1
        <3> DEFINE U == {i \in 0..N : Len(k[i]) <= i}
        <3>1. 0 \in U
            BY <1>1, <1>8 DEF Turns
        <3>2. ASSUME NEW i \in 0..(N - 1), i \in U PROVE i + 1 \in U
            <4>1. /\ i + 1 \in 1..N /\ (i + 1) - 1 = i /\ i + 1 \in 0..N
                  /\ i \in 0..N
                BY <1>1
            <4>2. k[i + 1] = k[i] \o Rewrites(nets, i + 1) /\ k[i] \in Seq(S)
                BY <1>8, <4>1 DEF Turns
            <4>3. Rewrites(nets, i + 1) \in Seq(S) /\ Len(Rewrites(nets, i + 1)) <= 1
                  /\ Len(Rewrites(nets, i + 1)) \in Nat
                BY <1>1, <1>3, <4>1 DEF Rewrites
            <4>4. Len(k[i + 1]) = Len(k[i]) + Len(Rewrites(nets, i + 1))
                  /\ Len(k[i]) \in Nat
                BY <4>2, <4>3, ConcatProperties
            <4> QED BY <3>2, <4>1, <4>3, <4>4
        <3> HIDE DEF U
        <3>3. \A i \in 0..N : i \in U
            BY <1>1, <3>1, <3>2, InductionTo
        <3> QED BY <3>3 DEF U
    <2>3. m = N
        <3>1. Len(k[m]) <= m
            BY <2>2
        <3> DEFINE l == Len(k[m])
        <3>2. (m < N /\ l = N) \/ m = N
            BY <2>1
        <3>3. l <= m
            BY <3>1
        <3> HIDE DEF l, N
        <3> QED BY <1>1, <3>2, <3>3
    <2>4. SubSeq(nets, N + 1, N) = <<>>
        BY <1>1, SubSeqEmpty
    <2> QED BY <1>1, <1>6, <2>1, <2>3, <2>4, ConcatEmptySeq
<1> QED BY <1>8, <1>9, <1>13 DEF VisitRun

(* What is in a sequence with one more at its end.                         *)
LEMMA RangeMore ==
    ASSUME NEW S, NEW x \in Seq(S), NEW a \in S
    PROVE  Range(x \o <<a>>) = Range(x) \cup {a}
<1> DEFINE z == x \o <<a>>
<1>1. /\ DOMAIN z = 1..(Len(x) + 1) /\ DOMAIN x = 1..Len(x) /\ Len(x) \in Nat
      /\ z[Len(x) + 1] = a /\ \A n \in 1..Len(x) : z[n] = x[n]
    OBVIOUS
<1> HIDE DEF z
<1>2. Range(z) \subseteq Range(x) \cup {a}
    <2> SUFFICES ASSUME NEW n \in 1..(Len(x) + 1) PROVE z[n] \in Range(x) \cup {a}
        BY <1>1 DEF Range
    <2>1. n \in 1..Len(x) \/ n = Len(x) + 1
        BY <1>1
    <2> QED BY <1>1, <2>1 DEF Range
<1>3. Range(x) \cup {a} \subseteq Range(z)
    <2>1. Len(x) + 1 \in DOMAIN z /\ \A n \in DOMAIN x : n \in DOMAIN z
        BY <1>1
    <2> QED BY <1>1, <2>1 DEF Range
<1>4. Range(z) = Range(x) \cup {a}
    BY <1>2, <1>3
<1> QED BY <1>4 DEF z

(* The IPv4 addresses, and what LoopsLoseNothing says of a list that was   *)
(* made of a list.                                                         *)
Ipv4s(nets) == {a \in Range(nets) : a.family # 6}

KeptIn(nets, r) ==
    /\ \A a \in Ipv4s(nets) : a \in Range(r) \/ Network(a) \in Range(r)
    /\ Range(r) \subseteq Range(nets) \cup {Network(a) : a \in Ipv4s(nets)}
    /\ Range(nets) = Ipv4s(nets) => r = [j \in DOMAIN nets |-> Network(nets[j])]

(* What the first j addresses become keeps those of IPv4.                  *)
KeptUpTo(nets, j, r) ==
    /\ \A i \in 1..j : nets[i].family # 6 =>
            nets[i] \in Range(r) \/ Network(nets[i]) \in Range(r)
    /\ Range(r) \subseteq Range(nets) \cup {Network(a) : a \in Ipv4s(nets)}
    /\ Range(nets) = Ipv4s(nets) =>
            Len(r) = j /\ \A i \in 1..j : r[i] = Network(nets[i])

(* One address more.                                                       *)
LEMMA KeptOne ==
    ASSUME NEW S, NEW nets, nets \in Seq(Range(nets)), NEW j \in 0..(Len(nets) - 1),
           NEW r \in Seq(S), NEW next \in Seq(S),
           next = r \o Rewrites(nets, j + 1), KeptUpTo(nets, j, r)
    PROVE  KeptUpTo(nets, j + 1, next)
<1> DEFINE a == nets[j + 1]
           W == Range(nets) \cup {Network(b) : b \in Ipv4s(nets)}
<1>1. /\ DOMAIN nets = 1..Len(nets) /\ j + 1 \in 1..Len(nets) /\ Len(nets) \in Nat
      /\ \A i \in 1..(j + 1) : i \in 1..j \/ i = j + 1
    OBVIOUS
<1>2. a \in Range(nets) /\ (a.family # 6 => a \in Ipv4s(nets))
    BY <1>1 DEF Range, Ipv4s
<1> HIDE DEF a
<1>3. CASE Left(nets, j + 1) \/ a.family # 6
    <2> DEFINE x == IF Left(nets, j + 1) THEN a ELSE Network(a)
    <2>1. next = r \o <<x>> /\ x \in W
        BY <1>2, <1>3 DEF Rewrites, a
    <2>2. Len(next) = Len(r) + 1 /\ next[Len(r) + 1] = x
          /\ \A i \in 1..Len(r) : next[i] = r[i]
        <3> HIDE DEF x
        <3> QED BY <2>1
    <2>3. x = next[Len(next)] /\ x \in S
        <3> HIDE DEF x
        <3>1. Len(next) \in 1..Len(next)
            BY <2>2
        <3> QED BY <2>2, <3>1
    <2> HIDE DEF x
    <2>4. Range(next) = Range(r) \cup {x}
        BY <2>1, <2>3, RangeMore
    <2>5. x = a \/ x = Network(a)
        BY DEF x
    <2>6. \A i \in 1..(j + 1) : nets[i].family # 6 =>
                nets[i] \in Range(next) \/ Network(nets[i]) \in Range(next)
        <3> SUFFICES ASSUME NEW i \in 1..(j + 1), nets[i].family # 6
                     PROVE  nets[i] \in Range(next) \/ Network(nets[i]) \in Range(next)
            OBVIOUS
        <3>1. CASE i \in 1..j
            BY <2>4, <3>1 DEF KeptUpTo
        <3>2. CASE i = j + 1
            BY <2>4, <2>5, <3>2 DEF a
        <3> QED BY <1>1, <3>1, <3>2
    <2>7. Range(next) \subseteq W
        BY <2>1, <2>4 DEF KeptUpTo
    <2>8. ASSUME Range(nets) = Ipv4s(nets)
          PROVE  Len(next) = j + 1 /\ \A i \in 1..(j + 1) : next[i] = Network(nets[i])
        <3>1. ~Left(nets, j + 1)
            <4>1. CASE j = 0
                BY <4>1, LeftIs
            <4>2. CASE j # 0
                <5>1. j \in Nat \ {0} /\ j \in 1..Len(nets)
                    BY <4>2
                <5>2. nets[j] \in Range(nets)
                    BY <1>1, <5>1 DEF Range
                <5>3. nets[j].family # 6
                    BY <2>8, <5>2 DEF Ipv4s
                <5> QED BY <5>1, <5>3, LeftIs
            <4> QED BY <4>1, <4>2
        <3>2. x = Network(nets[j + 1])
            BY <3>1 DEF x, a
        <3>3. Len(r) = j /\ \A i \in 1..j : r[i] = Network(nets[i])
            BY <2>8 DEF KeptUpTo
        <3> QED BY <1>1, <2>2, <3>2, <3>3
    <2> QED BY <2>6, <2>7, <2>8 DEF KeptUpTo
<1>4. CASE ~Left(nets, j + 1) /\ a.family = 6
    <2>1. next = r
        BY <1>4, ConcatEmptySeq DEF Rewrites, a
    <2>2. Range(nets) # Ipv4s(nets)
        BY <1>2, <1>4 DEF Ipv4s
    <2>3. \A i \in 1..(j + 1) : nets[i].family # 6 => i \in 1..j
        BY <1>1, <1>4 DEF a
    <2> QED BY <2>1, <2>2, <2>3 DEF KeptUpTo
<1> QED BY <1>3, <1>4

(* HOME_NET has every IPv4 address, and nothing but what was named.        *)
LEMMA HomeNetKeeps ==
    ASSUME NEW nets, nets \in Seq(Range(nets))
    PROVE  KeptIn(nets, HomeNet(nets))
<1> DEFINE N == Len(nets)
<1>1. PICK S, k : Turns(nets, k, S) /\ HomeNet(nets) = k[N]
    BY HomeNetIs
<1>2. N \in Nat /\ DOMAIN nets = 1..N
    OBVIOUS
<1>3. /\ \A j \in 0..N : k[j] \in Seq(S)
      /\ k[0] = <<>>
      /\ \A j \in 1..N : k[j] = k[j - 1] \o Rewrites(nets, j)
    BY <1>1 DEF Turns
<1> DEFINE T == {j \in 0..N : KeptUpTo(nets, j, k[j])}
<1>4. 0 \in T
    <2>1. Range(k[0]) = {} /\ Len(k[0]) = 0
        BY <1>3 DEF Range
    <2>2. KeptUpTo(nets, 0, k[0])
        BY <2>1 DEF KeptUpTo
    <2> QED BY <1>2, <2>2
<1>5. ASSUME NEW j \in 0..(N - 1), j \in T PROVE j + 1 \in T
    <2>1. /\ j + 1 \in 1..N /\ (j + 1) - 1 = j /\ j + 1 \in 0..N /\ j \in 0..N
        BY <1>2
    <2>2. k[j + 1] = k[j] \o Rewrites(nets, j + 1)
        BY <1>3, <2>1
    <2>3. KeptUpTo(nets, j + 1, k[j + 1])
        BY <1>3, <1>5, <2>1, <2>2, KeptOne
    <2> QED BY <2>1, <2>3
<1>6. KeptUpTo(nets, N, k[N])
    <2> HIDE DEF T
    <2>1. \A j \in 0..N : j \in T
        BY <1>2, <1>4, <1>5, InductionTo
    <2> QED BY <1>2, <2>1 DEF T
<1> DEFINE r == k[N]
<1>7. r \in Seq(S)
    BY <1>2, <1>3
<1> HIDE DEF r, N
<1>8. \A a \in Ipv4s(nets) : a \in Range(r) \/ Network(a) \in Range(r)
    <2> SUFFICES ASSUME NEW i \in 1..N, nets[i].family # 6
                 PROVE  nets[i] \in Range(r) \/ Network(nets[i]) \in Range(r)
        BY <1>2 DEF Ipv4s, Range
    <2> QED BY <1>6 DEF KeptUpTo, r
<1>9. ASSUME Range(nets) = Ipv4s(nets)
      PROVE  r = [j \in DOMAIN nets |-> Network(nets[j])]
    <2>1. Len(r) = N /\ \A i \in 1..N : r[i] = Network(nets[i])
        BY <1>6, <1>9 DEF KeptUpTo, r
    <2>2. DOMAIN r = 1..N /\ r = [i \in DOMAIN r |-> r[i]]
        BY <1>7, <2>1
    <2> QED BY <1>2, <2>1, <2>2
<1>10. Range(r) \subseteq Range(nets) \cup {Network(a) : a \in Ipv4s(nets)}
    BY <1>6 DEF KeptUpTo, r
<1>11. KeptIn(nets, r)
    BY <1>8, <1>9, <1>10 DEF KeptIn
<1> QED BY <1>1, <1>11 DEF r, N

(* The rows are taken without a gap from one on to the last.               *)
LEMMA TalkersKeep ==
    ASSUME NEW rows \in Seq(STRING), \A i \in DOMAIN rows : rows[i] # Failed[1]
    PROVE  \/ TopTalkers(rows) = Failed /\ Len(rows) < 6
           \/ \E i \in DOMAIN rows :
                /\ TopTalkers(rows) = SubSeq(rows, i, Len(rows))
                /\ Len(rows) >= 6 => i <= Len(rows) - 2
<1>1. Len(rows) \in Nat /\ DOMAIN rows = 1..Len(rows)
    OBVIOUS
<1>2. CASE Len(rows) < 4
    <2>1. Len(rows) < 6
        BY <1>1, <1>2
    <2> QED BY <1>2, <2>1, TalkersAre
<1>3. CASE ~(Len(rows) < 4)
    <2>1. 4 \in DOMAIN rows /\ (Len(rows) >= 6 => 4 <= Len(rows) - 2)
        BY <1>1, <1>3
    <2> QED BY <1>3, <2>1, TalkersAre
<1> QED BY <1>2, <1>3

(* So are the lines, behind those of the head.                             *)
LEMMA RrdKeeps ==
    ASSUME NEW lines \in Seq(STRING), \A i \in DOMAIN lines : lines[i] # Failed[1]
    PROVE  \/ Rrd(lines) = Failed /\ Len(lines) < HeadLines + TailLines
           \/ \E i \in DOMAIN lines :
                /\ i > Len(lines) - TailLines
                /\ Rrd(lines) = SubSeq(lines, 1, HeadLines)
                                    \o SubSeq(lines, i, Len(lines))
<1> DEFINE N == Len(lines)
           marks == {i \in DOMAIN lines : lines[i] = "<rra>"}
           near  == {i \in marks : i > N - TailLines}
           from  == IF near = {} THEN N - TailLines + 1
                    ELSE CHOOSE i \in near : \A j \in near : j <= i
<1>1. /\ N \in Nat /\ TailLines \in Nat \ {0} /\ HeadLines \in Nat
      /\ DOMAIN lines = 1..N
    BY LinesAssumption
<1>2. Rrd(lines) = IF N < HeadLines \/ from < 1 THEN Failed
                   ELSE SubSeq(lines, 1, HeadLines) \o SubSeq(lines, from, N)
    BY Zenon, RrdIs DEF RrdLines
<1>3. \/ from = N - TailLines + 1
      \/ from \in DOMAIN lines /\ from > N - TailLines
    <2>1. CASE near = {}
        BY Zenon, <2>1
    <2>2. CASE near # {}
        <3>1. near \in SUBSET (1..N)
            BY <1>1
        <3> HIDE DEF near
        <3>2. Max(near) \in near /\ \A i \in near : i <= Max(near)
            BY Zenon, <1>1, <2>2, <3>1, MaxIs
        <3>3. from \in near
            BY Zenon, <2>2, <3>2
        <3> QED BY Zenon, <3>3 DEF near
    <2> QED BY <2>1, <2>2
<1> HIDE DEF from
<1>4. CASE N < HeadLines \/ from < 1
    <2>1. N < HeadLines + TailLines
        BY <1>1, <1>3, <1>4
    <2> QED BY <1>2, <1>4, <2>1
<1>5. CASE ~(N < HeadLines \/ from < 1)
    <2>1. from \in DOMAIN lines /\ from > N - TailLines
        BY <1>1, <1>3, <1>5
    <2> QED BY <1>2, <1>5, <2>1
<1> QED BY <1>4, <1>5

(* The invariant: the input is one of those that the function has.         *)
LoopInv ==
    /\ reader = "homenet" => input \in Hosts
    /\ reader \in {"talkers", "rrd"} => input \in Dumps
    /\ LoopsLoseNothing

(* No call has returned at the beginning.                                  *)
LEMMA LoopInit == CallInit => LoopInv
<1> SUFFICES ASSUME CallInit PROVE LoopInv
    OBVIOUS
<1>1. result = NotYet
    BY DEF CallInit
<1>2. LoopsLoseNothing
    BY <1>1 DEF LoopsLoseNothing, Returned
<1>3. /\ reader = "homenet" => input \in Hosts
      /\ reader \in {"talkers", "rrd"} => input \in Dumps
    BY DEF CallInit
<1> QED BY <1>2, <1>3 DEF LoopInv

(* Each call keeps the invariant: by what its loop comes to, above.        *)
LEMMA LoopStep == LoopInv /\ [CallNext]_callVars => LoopInv'
<1> SUFFICES ASSUME LoopInv, [CallNext]_callVars PROVE LoopInv'
    OBVIOUS
<1>1. CASE UNCHANGED callVars
    BY <1>1 DEF LoopInv, LoopsLoseNothing, Returned, callVars
<1>2. ASSUME NEW r, NEW value, Returns(r, value), r \notin {"homenet", "talkers", "rrd"}
      PROVE  LoopInv'
    BY <1>2 DEF LoopInv, LoopsLoseNothing, Returned, Returns
<1>3. CASE WriteHomeNet
    <2>1. /\ reader = "homenet" /\ reader' = reader /\ input' = input
          /\ result'.value = HomeNet(input) /\ input \in Hosts
        BY <1>3 DEF WriteHomeNet, Returns, LoopInv
    <2>2. KeptIn(input, HomeNet(input))
        BY <2>1, HostsAssumption, HomeNetKeeps
    <2>3. LoopsLoseNothing'
        BY Zenon, <2>1, <2>2 DEF LoopsLoseNothing, Returned, KeptIn, Ipv4s
    <2> QED BY <2>1, <2>3 DEF LoopInv
<1>4. CASE GetTalkers
    <2>1. /\ reader = "talkers" /\ reader' = reader /\ input' = input
          /\ result'.value = TopTalkers(input) /\ input \in Dumps
        BY <1>4 DEF GetTalkers, Returns, LoopInv
    <2>2. \/ TopTalkers(input) = Failed /\ Len(input) < 6
          \/ \E i \in DOMAIN input :
                /\ TopTalkers(input) = SubSeq(input, i, Len(input))
                /\ Len(input) >= 6 => i <= Len(input) - 2
        BY <2>1, DumpsAssumption, TalkersKeep
    <2>3. LoopsLoseNothing'
        BY Zenon, <2>1, <2>2 DEF LoopsLoseNothing, Returned
    <2> QED BY <2>1, <2>3 DEF LoopInv
<1>5. CASE GetRrd
    <2>1. /\ reader = "rrd" /\ reader' = reader /\ input' = input
          /\ result'.value = Rrd(input) /\ input \in Dumps
        BY <1>5 DEF GetRrd, Returns, LoopInv
    <2>2. \/ Rrd(input) = Failed /\ Len(input) < HeadLines + TailLines
          \/ \E i \in DOMAIN input :
                /\ i > Len(input) - TailLines
                /\ Rrd(input) = SubSeq(input, 1, HeadLines)
                                    \o SubSeq(input, i, Len(input))
        BY <2>1, DumpsAssumption, RrdKeeps
    <2>3. LoopsLoseNothing'
        BY Zenon, <2>1, <2>2 DEF LoopsLoseNothing, Returned
    <2> QED BY <2>1, <2>3 DEF LoopInv
<1> QED BY <1>1, <1>2, <1>3, <1>4, <1>5
        DEF CallNext, UnfoldHeader, Base64Decode, SkipOne, PointToOne,
            ExtractOne, SkipDnsName

(* The charms' loops over lists that they shorten drop no IPv4 address and *)
(* put in none that was not named, and report rows and lines up to the     *)
(* last without a gap, for any list of addresses and any dump, and any     *)
(* numbers of lines (_on_start_configuration_action of the three IDS       *)
(* charms, _on_rrd_action and _on_get_top_talkers_action).                 *)
THEOREM NothingIsLost == CallSpec => []LoopsLoseNothing
<1>1. LoopInv => LoopsLoseNothing
    BY DEF LoopInv
<1> QED BY <1>1, LoopInit, LoopStep, PTL DEF CallSpec

-----------------------------------------------------------------------------
(***************************************************************************)
(* unfold_header.                                                          *)
(***************************************************************************)
Unfolding(S) == [out : Seq(S), folding : 0..2, stop : BOOLEAN]

(* What the loop holds before the first character.                         *)
UnfoldStart == [out |-> <<>>, folding |-> 0, stop |-> FALSE]

(* A run of the loop over a text: what it holds after each character.      *)
UnfoldRun(h, S, text, size) ==
    /\ h \in [0..Len(text) -> Unfolding(S)]
    /\ h[0] = UnfoldStart
    /\ \A i \in 1..Len(text) : h[i] = UnfoldStep(size, h[i - 1], text[i])
    /\ Unfold(text, size) = Written(h[Len(text)].out, size)

(* A step of the loop leaves what the loop may hold.                       *)
LEMMA UnfoldStepType ==
    ASSUME NEW S, NEW size \in Nat, NEW acc \in Unfolding(S), NEW c \in S
    PROVE  UnfoldStep(size, acc, c) \in Unfolding(S)
<1> DEFINE more == Append(acc.out, c)
<1>1. more \in Seq(S)
    BY DEF Unfolding
<1> HIDE DEF more
<1> DEFINE Q == Seq(S)
<1>2. more \in Q /\ acc \in [out : Q, folding : 0..2, stop : BOOLEAN]
    BY <1>1 DEF Unfolding
<1> HIDE DEF Q
<1> DEFINE W == 0..2
<1>30. acc \in [out : Q, folding : W, stop : BOOLEAN] /\ 0 \in W /\ 1 \in W /\ 2 \in W
    BY <1>2
<1> HIDE DEF W
<1>31. /\ [acc EXCEPT !.folding = 1] \in [out : Q, folding : W, stop : BOOLEAN]
       /\ [acc EXCEPT !.folding = 2] \in [out : Q, folding : W, stop : BOOLEAN]
    BY <1>30
<1>32. [acc EXCEPT !.out = more, !.folding = 0] \in [out : Q, folding : W, stop : BOOLEAN]
    BY <1>2, <1>30
<1>3. /\ [acc EXCEPT !.out = more, !.folding = 0] \in [out : Q, folding : 0..2, stop : BOOLEAN]
      /\ [acc EXCEPT !.folding = 1] \in [out : Q, folding : 0..2, stop : BOOLEAN]
      /\ [acc EXCEPT !.folding = 2] \in [out : Q, folding : 0..2, stop : BOOLEAN]
    BY <1>31, <1>32 DEF W
<1>4. /\ [acc EXCEPT !.out = more] \in [out : Q, folding : 0..2, stop : BOOLEAN]
      /\ [acc EXCEPT !.stop = TRUE] \in [out : Q, folding : 0..2, stop : BOOLEAN]
    BY <1>2
<1>5. /\ [acc EXCEPT !.out = Append(@, c), !.folding = 0] \in Unfolding(S)
      /\ [acc EXCEPT !.folding = 1] \in Unfolding(S)
      /\ [acc EXCEPT !.folding = 2] \in Unfolding(S)
      /\ [acc EXCEPT !.out = Append(@, c)] \in Unfolding(S)
      /\ [acc EXCEPT !.stop = TRUE] \in Unfolding(S)
    BY <1>3, <1>4 DEF Unfolding, Q, more
<1> HIDE DEF more
<1> QED BY <1>2, <1>5 DEF UnfoldStep, Unfolding, Q

(* The fold over the text is such a run.                                   *)
LEMMA UnfoldRuns ==
    ASSUME NEW S, NEW size \in Nat, NEW text \in Seq(S)
    PROVE  \E h : UnfoldRun(h, S, text, size)
<1> DEFINE A == Unfolding(S)
           op == [p \in A \X S |-> UnfoldStep(size, p[1], p[2])]
           Body(f) == [t \in SUBSET DOMAIN text |->
                        IF t = {} THEN UnfoldStart
                        ELSE UnfoldStep(size, f[t \ {Max(t)}], text[Max(t)])]
           F == CHOOSE f : f = Body(f)
           v == [t \in SUBSET DOMAIN text |->
                    UnfoldStep(size, F[t \ {Max(t)}], text[Max(t)])]
           N == Len(text)
<1>1. Unfold(text, size) = Written(F[DOMAIN text].out, size)
    BY Zenon DEF Unfold, FoldLeft, MapThenFoldSet, UnfoldStart
<1>2. op \in [A \X S -> A] /\ \A a \in A, e \in S : op[<<a, e>>] = UnfoldStep(size, a, e)
    <2>1. \A a \in A, e \in S : UnfoldStep(size, a, e) \in A
        BY UnfoldStepType
    <2> HIDE DEF A
    <2> QED BY <2>1
<1>3. UnfoldStart \in A
    BY DEF UnfoldStart, Unfolding
<1>4. N \in Nat /\ DOMAIN text = 1..N /\ \A i \in 1..N : text[i] \in S
    OBVIOUS
<1> HIDE DEF op, A, N
<1>5. PICK f \in [SUBSET DOMAIN text -> A] : FoldsBy(f, op, UnfoldStart, text)
    BY <1>2, <1>3, FoldExists
<1>6. ASSUME NEW t \in SUBSET DOMAIN text, t # {}
      PROVE  text[Max(t)] \in S /\ t \ {Max(t)} \in SUBSET DOMAIN text
    <2>1. Max(t) \in t
        BY <1>4, <1>6, MaxIs
    <2> QED BY <1>4, <2>1
<1>7. ASSUME NEW t \in SUBSET DOMAIN text PROVE f[t] = Body(f)[t]
    <2>1. f[t] = IF t = {} THEN UnfoldStart
                 ELSE op[<<f[t \ {Max(t)}], text[Max(t)]>>]
        BY <1>5 DEF FoldsBy
    <2>2. t # {} => f[t \ {Max(t)}] \in A /\ text[Max(t)] \in S
        BY <1>5, <1>6
    <2> QED BY <1>2, <2>1, <2>2
<1>8. F = Body(F)
    <2>1. f = Body(f)
        BY <1>7 DEF FoldsBy
    <2> HIDE DEF Body
    <2> QED BY <2>1
<1> HIDE DEF F
<1>9. ASSUME NEW t \in SUBSET DOMAIN text, t # {}, F[t \ {Max(t)}] \in A
      PROVE  v[t] = op[<<F[t \ {Max(t)}], text[Max(t)]>>]
    BY <1>2, <1>6, <1>9
<1>10. F = [t \in SUBSET DOMAIN text |-> IF t = {} THEN UnfoldStart ELSE v[t]]
    BY <1>8
<1> HIDE DEF v
<1>11. Runs(F, A, op, UnfoldStart, text)
    <2>1. FoldsWith(F, v, A, op, UnfoldStart, text)
        BY <1>9, <1>10 DEF FoldsWith
    <2> QED BY <1>2, <1>3, <2>1, FoldRuns
<1>12. PICK h \in [0..N -> A] :
            /\ h[0] = UnfoldStart
            /\ \A i \in 1..N : h[i] = op[<<h[i - 1], text[i]>>]
            /\ F[DOMAIN text] = h[N]
    BY <1>11 DEF Runs, N
<1>13. ASSUME NEW i \in 1..N PROVE h[i] = UnfoldStep(size, h[i - 1], text[i])
    <2>1. i - 1 \in 0..N
        BY <1>4
    <2>2. h[i - 1] \in A /\ text[i] \in S
        BY <1>4, <2>1
    <2>3. h[i] = op[<<h[i - 1], text[i]>>]
        BY <1>12
    <2> QED BY <1>2, <2>2, <2>3
<1>14. UnfoldRun(h, S, text, size)
    BY <1>1, <1>12, <1>13 DEF UnfoldRun, A, N
<1> QED BY <1>14

(* What unfolding keeps of the characters, up to each of them.             *)
Keeps(text) == [i \in 1..Len(text) |->
                    IF text[i] \in {CR, LF} THEN <<>> ELSE <<text[i]>>]

(* The characters of a text that are no folding, for each beginning of it. *)
Kept(k, S, text) ==
    /\ k \in [0..Len(text) -> Seq(S)]
    /\ k[0] = <<>>
    /\ \A i \in 1..Len(text) :
            k[i] = IF text[i] \in {CR, LF} THEN k[i - 1]
                   ELSE Append(k[i - 1], text[i])

(* There are such.                                                         *)
LEMMA KeptExists ==
    ASSUME NEW S, NEW text \in Seq(S)
    PROVE  \E k : Kept(k, S, text)
<1> DEFINE N == Len(text)
           g == [p \in (1..N) \X Seq(S) |->
                    IF text[p[1]] \in {CR, LF} THEN p[2] ELSE Append(p[2], text[p[1]])]
<1>1. N \in Nat /\ \A i \in 1..N : text[i] \in S
    OBVIOUS
<1>2. \A i \in 1..N, r \in Seq(S) : Append(r, text[i]) \in Seq(S)
    BY <1>1
<1>3. g \in [(1..N) \X Seq(S) -> Seq(S)]
    BY <1>2
<1>4. \A i \in 1..N, r \in Seq(S) :
        g[<<i, r>>] = IF text[i] \in {CR, LF} THEN r ELSE Append(r, text[i])
    OBVIOUS
<1>5. <<>> \in Seq(S)
    OBVIOUS
<1> HIDE DEF g, N
<1>6. PICK k : IsRun(k, Seq(S), <<>>, N, g)
    BY <1>1, <1>3, <1>5, RunExists
<1>7. ASSUME NEW i \in 1..N
      PROVE  k[i] = IF text[i] \in {CR, LF} THEN k[i - 1] ELSE Append(k[i - 1], text[i])
    <2>1. i - 1 \in 0..(N - 1) /\ (i - 1) + 1 = i /\ i - 1 \in 0..N
        BY <1>1
    <2>2. k[(i - 1) + 1] = g[<<(i - 1) + 1, k[i - 1]>>] /\ k[i - 1] \in Seq(S)
        BY <1>6, <2>1 DEF IsRun
    <2> QED BY <1>4, <2>1, <2>2
<1>8. Kept(k, S, text)
    BY <1>6, <1>7 DEF Kept, IsRun, N
<1> QED BY <1>8

(* It is what FlattenSeq makes of a part from the beginning.               *)
LEMMA KeptIs ==
    ASSUME NEW S, NEW text \in Seq(S), NEW k, Kept(k, S, text), NEW n \in 0..Len(text)
    PROVE  FlattenSeq([i \in 1..n |-> IF text[i] \in {CR, LF} THEN <<>> ELSE <<text[i]>>])
                = k[n]
<1> DEFINE s == [i \in 1..n |-> IF text[i] \in {CR, LF} THEN <<>> ELSE <<text[i]>>]
           kk == [i \in 0..n |-> k[i]]
<1>1. /\ n \in Nat /\ Len(text) \in Nat /\ n <= Len(text)
      /\ \A i \in 1..n : text[i] \in S /\ i \in 1..Len(text) /\ i - 1 \in 0..n
      /\ \A i \in 0..n : i \in 0..Len(text)
    OBVIOUS
<1>2. s \in Seq(Seq(S)) /\ Len(s) = n
    <2>1. \A i \in 1..n : <<text[i]>> \in Seq(S) /\ <<>> \in Seq(S)
        BY <1>1
    <2>2. \A i \in 1..n : s[i] \in Seq(S)
        BY <2>1
    <2> QED BY <1>1, <2>2
<1>3. kk \in [0..Len(s) -> Seq(S)]
    BY <1>1, <1>2 DEF Kept
<1>4. Flattens(kk, s)
    <2>1. kk[0] = <<>>
        BY <1>1 DEF Kept
    <2>2. ASSUME NEW i \in 0..(n - 1) PROVE kk[i + 1] = kk[i] \o s[i + 1]
        <3>1. i + 1 \in 1..n /\ (i + 1) - 1 = i /\ i \in 0..n /\ i + 1 \in 0..n
              /\ i + 1 \in 1..Len(text)
            BY <1>1
        <3>2. k[i + 1] = IF text[i + 1] \in {CR, LF} THEN k[i]
                         ELSE Append(k[i], text[i + 1])
            BY <3>1 DEF Kept
        <3>3. k[i] \in Seq(S) /\ text[i + 1] \in S
            BY <1>1, <3>1 DEF Kept
        <3>4. k[i] \o <<>> = k[i] /\ k[i] \o <<text[i + 1]>> = Append(k[i], text[i + 1])
            BY <3>3, ConcatEmptySeq, AppendIsConcat
        <3>5. s[i + 1] = IF text[i + 1] \in {CR, LF} THEN <<>> ELSE <<text[i + 1]>>
            BY <3>1
        <3>6. kk[i] = k[i] /\ kk[i + 1] = k[i + 1]
            BY <3>1
        <3> HIDE DEF kk, s
        <3> QED BY <3>2, <3>4, <3>5, <3>6
    <2> HIDE DEF kk, s
    <2> QED BY <1>2, <2>1, <2>2 DEF Flattens
<1>5. kk[n] = k[n]
    BY <1>1
<1> HIDE DEF kk, s
<1>6. FlattenSeq(s) = kk[n]
    BY <1>2, <1>3, <1>4, FlattenIs
<1> QED BY <1>5, <1>6 DEF s

(* One part from the beginning begins with every shorter one.              *)
LEMMA KeptPrefix ==
    ASSUME NEW S, NEW text \in Seq(S), NEW k, Kept(k, S, text),
           NEW n \in 0..Len(text), NEW m \in 0..n
    PROVE  /\ Len(k[m]) \in Nat /\ Len(k[n]) \in Nat /\ Len(k[m]) <= Len(k[n])
           /\ \A i \in 1..Len(k[m]) : k[n][i] = k[m][i]
<1> DEFINE N == n - m
           T == {j \in 0..N : /\ Len(k[m]) <= Len(k[m + j])
                              /\ \A i \in 1..Len(k[m]) : k[m + j][i] = k[m][i]}
<1>0. Len(text) \in Nat /\ n \in Nat /\ m \in Nat /\ n <= Len(text) /\ m <= n
    OBVIOUS
<1>1. N \in Nat /\ Len(text) \in Nat /\ k[m] \in Seq(S) /\ m + 0 = m
      /\ n \in Nat /\ m \in Nat /\ n <= Len(text)
    <2>1. m \in 0..Len(text)
        BY <1>0
    <2>2. k[m] \in Seq(S)
        BY <2>1 DEF Kept
    <2> QED BY <1>0, <2>2
<1>2. 0 \in T
    BY <1>1
<1>3. ASSUME NEW j \in 0..(N - 1), j \in T PROVE j + 1 \in T
    <2>1. /\ m + (j + 1) \in 1..Len(text) /\ (m + (j + 1)) - 1 = m + j
          /\ m + j \in 0..Len(text) /\ j + 1 \in 0..N
        BY <1>1
    <2> DEFINE a == m + j
               b == m + (j + 1)
    <2>2. b \in 1..Len(text) /\ b - 1 = a /\ a \in 0..Len(text)
        BY <2>1
    <2>3. Len(k[m]) <= Len(k[a]) /\ \A i \in 1..Len(k[m]) : k[a][i] = k[m][i]
        BY <1>3
    <2> HIDE DEF a, b, N
    <2>4. k[b] = IF text[b] \in {CR, LF} THEN k[a] ELSE Append(k[a], text[b])
        BY <2>2 DEF Kept
    <2>5. k[a] \in Seq(S) /\ text[b] \in S
        BY <2>2 DEF Kept
    <2>6. k[b] = k[a] \/ k[b] = Append(k[a], text[b])
        BY <2>4
    <2>7. Len(k[m]) <= Len(k[b]) /\ \A i \in 1..Len(k[m]) : k[b][i] = k[m][i]
        <3>1. CASE k[b] = k[a]
            BY <2>3, <3>1
        <3>2. CASE k[b] = Append(k[a], text[b])
            BY <1>1, <2>3, <2>5, <3>2
        <3> QED BY <2>6, <3>1, <3>2
    <2> QED BY <2>1, <2>7 DEF b
<1>4. N \in T
    <2> HIDE DEF T, N
    <2>1. \A j \in 0..N : j \in T
        BY <1>1, <1>2, <1>3, InductionTo
    <2> QED BY <1>1, <2>1
<1>5. m + N = n /\ k[n] \in Seq(S)
    BY <1>1 DEF Kept
<1>6. Len(k[m]) <= Len(k[m + N]) /\ \A i \in 1..Len(k[m]) : k[m + N][i] = k[m][i]
    BY <1>4
<1> HIDE DEF N
<1> QED BY <1>1, <1>5, <1>6

(* The folding that a character may begin, and whether the next one may    *)
(* come after it.                                                          *)
FoldingOf(c) == IF c = LF THEN 1 ELSE IF c = CR THEN 2 ELSE 0

(* A line feed is followed by a space, a carriage return by a line feed.   *)
Joined(text, i) ==
    /\ text[i] = LF => text[i + 1] = SP
    /\ text[i] = CR => text[i + 1] = LF

(* The text is one header up to a character.                               *)
HeaderTo(text, n) == \A i \in 1..(n - 1) : Joined(text, i)

(* That is what the module means by a header.                              *)
LEMMA HeaderIs ==
    ASSUME NEW S, NEW text \in Seq(S), NEW n \in 0..Len(text)
    PROVE  IsHeader(SubSeq(text, 1, n)) <=> HeaderTo(text, n)
<1> DEFINE t == SubSeq(text, 1, n)
<1>1. /\ Len(t) = n /\ n \in Nat
      /\ \A i \in 1..n : t[i] = text[i]
    OBVIOUS
<1>2. \A i \in 1..(n - 1) : i \in 1..n /\ i + 1 \in 1..n
    BY <1>1
<1> HIDE DEF t
<1>3. \A i \in 1..(n - 1) : t[i] = text[i] /\ t[i + 1] = text[i + 1]
    BY <1>1, <1>2
<1>4. IsHeader(t) <=> HeaderTo(text, n)
    BY <1>1, <1>3 DEF IsHeader, HeaderTo, Joined
<1> QED BY <1>4 DEF t

(* The loop has not stopped: it has put out all that was kept.             *)
Going(acc, k, text, i) ==
    /\ ~acc.stop
    /\ HeaderTo(text, i)
    /\ acc.out = k[i]
    /\ acc.folding = IF i = 0 THEN 0 ELSE FoldingOf(text[i])

(* The loop has stopped, or has nothing more to put out: what it put out   *)
(* was kept, up to where the header ends or the buffer is full.            *)
Over(acc, k, text, size, i) ==
    \E m \in 0..i :
        /\ HeaderTo(text, m)
        /\ acc.out = k[m]
        /\ \/ acc.stop /\ m < i /\ ~HeaderTo(text, m + 1)
           \/ Len(acc.out) >= size

(* A witness makes it so.                                                  *)
LEMMA OverIs ==
    ASSUME NEW acc, NEW k, NEW text, NEW size, NEW i, NEW m \in 0..i,
           HeaderTo(text, m), acc.out = k[m],
           \/ acc.stop /\ m < i /\ ~HeaderTo(text, m + 1)
           \/ Len(acc.out) >= size
    PROVE  Over(acc, k, text, size, i)
BY DEF Over

(* One character more.                                                     *)
LEMMA UnfoldOne ==
    ASSUME NEW S, NEW text \in Seq(S), NEW size \in Nat, NEW k, Kept(k, S, text),
           NEW i \in 0..(Len(text) - 1), NEW acc \in Unfolding(S),
           Going(acc, k, text, i) \/ Over(acc, k, text, size, i)
    PROVE  LET next == UnfoldStep(size, acc, text[i + 1])
           IN  Going(next, k, text, i + 1) \/ Over(next, k, text, size, i + 1)
<1> DEFINE c == text[i + 1]
           next == UnfoldStep(size, acc, c)
<1>1. /\ i \in Nat /\ i + 1 \in 1..Len(text) /\ (i + 1) - 1 = i /\ c \in S
      /\ i + 1 \in Nat /\ i + 1 # 0 /\ i \in 0..(i + 1)
    OBVIOUS
<1>2. k[i + 1] = IF c \in {CR, LF} THEN k[i] ELSE Append(k[i], c)
    BY <1>1 DEF Kept
<1>3. HeaderTo(text, i + 1) <=> HeaderTo(text, i) /\ (i # 0 => Joined(text, i))
    <2>1. \A j \in 1..((i + 1) - 1) : j \in 1..(i - 1) \/ j = i
        BY <1>1
    <2>2. \A j \in 1..(i - 1) : j \in 1..((i + 1) - 1)
        BY <1>1
    <2>3. i # 0 => i \in 1..((i + 1) - 1)
        BY <1>1
    <2>4. i = 0 => 1..((i + 1) - 1) = {} /\ 1..(i - 1) = {}
        BY <1>1
    <2> QED BY <2>1, <2>2, <2>3, <2>4 DEF HeaderTo
<1>4. CASE Over(acc, k, text, size, i)
    <2>1. PICK m \in 0..i :
            /\ HeaderTo(text, m)
            /\ acc.out = k[m]
            /\ \/ acc.stop /\ m < i /\ ~HeaderTo(text, m + 1)
               \/ Len(acc.out) >= size
        BY <1>4 DEF Over
    <2>2. next = acc
        BY <2>1 DEF UnfoldStep
    <2>3. m \in 0..(i + 1) /\ (m < i => m < i + 1)
        BY <1>1
    <2> HIDE DEF next
    <2>4. Over(next, k, text, size, i + 1)
        BY <2>1, <2>2, <2>3, OverIs
    <2> QED BY <2>4 DEF next
<1>5. CASE Going(acc, k, text, i) /\ Len(acc.out) >= size
    <2>1. next = acc
        BY <1>5 DEF UnfoldStep
    <2> HIDE DEF next
    <2>2. Over(next, k, text, size, i + 1)
        BY <1>1, <1>5, <2>1, OverIs DEF Going
    <2> QED BY <2>2 DEF next
<1>6. CASE Going(acc, k, text, i) /\ ~(Len(acc.out) >= size)
    <2>1. /\ ~acc.stop /\ HeaderTo(text, i) /\ acc.out = k[i]
          /\ acc.folding = IF i = 0 THEN 0 ELSE FoldingOf(text[i])
        BY <1>6 DEF Going
    <2>2. next = IF c = SP /\ acc.folding # 2
                 THEN [acc EXCEPT !.out = Append(@, c), !.folding = 0]
                 ELSE IF c = LF /\ acc.folding # 1 THEN [acc EXCEPT !.folding = 1]
                 ELSE IF c = CR /\ acc.folding = 0 THEN [acc EXCEPT !.folding = 2]
                 ELSE IF acc.folding = 0 THEN [acc EXCEPT !.out = Append(@, c)]
                 ELSE [acc EXCEPT !.stop = TRUE]
        BY <1>6, <2>1 DEF UnfoldStep
    <2>3. /\ acc.folding \in {0, 1, 2}
          /\ acc.folding = 1 <=> i # 0 /\ text[i] = LF
          /\ acc.folding = 2 <=> i # 0 /\ text[i] = CR
        BY <2>1 DEF FoldingOf, CR, LF
    <2>4. HeaderTo(text, i + 1) <=> /\ acc.folding = 1 => c = SP
                                    /\ acc.folding = 2 => c = LF
        BY <1>3, <2>1, <2>3 DEF Joined
    <2>5. SP # LF /\ SP # CR /\ CR # LF
        BY DEF SP, LF, CR
    <2>6. /\ acc = [out |-> acc.out, folding |-> acc.folding, stop |-> acc.stop]
        BY DEF Unfolding
    <2>7. FoldingOf(c) = IF c = LF THEN 1 ELSE IF c = CR THEN 2 ELSE 0
        BY DEF FoldingOf
    <2> HIDE DEF next, c
    <2>8. CASE HeaderTo(text, i + 1)
        <3>1. ~next.stop /\ next.folding = FoldingOf(c)
              /\ next.out = IF c \in {CR, LF} THEN acc.out ELSE Append(acc.out, c)
            BY <2>1, <2>2, <2>3, <2>4, <2>5, <2>6, <2>7, <2>8
        <3>2. next.out = k[i + 1]
            BY <1>2, <2>1, <3>1
        <3>3. Going(next, k, text, i + 1)
            BY <1>1, <2>8, <3>1, <3>2 DEF Going, c
        <3> QED BY <3>3 DEF next, c
    <2>9. CASE ~HeaderTo(text, i + 1)
        <3>1. next = [acc EXCEPT !.stop = TRUE]
            BY <2>2, <2>3, <2>4, <2>5, <2>9
        <3>2. next.stop /\ next.out = k[i]
            BY <2>1, <2>6, <3>1
        <3>3. i < i + 1
            BY <1>1
        <3>4. Over(next, k, text, size, i + 1)
            BY <1>1, <2>1, <2>9, <3>2, <3>3, OverIs
        <3> QED BY <3>4 DEF next, c
    <2> QED BY <2>8, <2>9
<1> QED BY <1>4, <1>5, <1>6

(* The longest beginning of a text that is a header.                       *)
LEMMA LongestIs ==
    ASSUME NEW S, NEW text \in Seq(S)
    PROVE  LET headers == {n \in 0..Len(text) : IsHeader(SubSeq(text, 1, n))}
               n       == CHOOSE i \in headers : \A j \in headers : j <= i
           IN  /\ n \in 0..Len(text) /\ HeaderTo(text, n)
               /\ n < Len(text) => ~HeaderTo(text, n + 1)
               /\ \A m \in 0..Len(text) : HeaderTo(text, m) => m <= n
<1> DEFINE N == Len(text)
           headers == {n \in 0..Len(text) : IsHeader(SubSeq(text, 1, n))}
           n == CHOOSE i \in headers : \A j \in headers : j <= i
           t == {i + 1 : i \in headers}
<1>1. N \in Nat /\ \A i \in 0..N : i \in headers <=> HeaderTo(text, i)
    BY HeaderIs
<1>2. 0 \in headers
    <2>1. HeaderTo(text, 0) /\ 0 \in 0..N
        BY <1>1 DEF HeaderTo
    <2> HIDE DEF headers
    <2> QED BY <1>1, <2>1
<1>20. \A i \in headers : i \in 0..N
    OBVIOUS
<1> HIDE DEF headers, N
<1>3. t \in SUBSET (1..(N + 1)) /\ t # {}
    BY <1>1, <1>2, <1>20
<1>4. Max(t) \in t /\ \A i \in t : i <= Max(t)
    <2>1. N + 1 \in Nat
        BY <1>1
    <2> HIDE DEF t
    <2> QED BY <1>3, <2>1, MaxIs
<1>5. PICK x \in headers : Max(t) = x + 1
    BY <1>4
<1>6. \A j \in headers : j <= x
    <2>1. \A j \in headers : j + 1 <= x + 1
        BY <1>4, <1>5
    <2>2. \A j \in headers : j \in Nat
        BY <1>20
    <2> QED BY <1>5, <2>1, <2>2
<1>7. n \in headers /\ \A j \in headers : j <= n
    BY <1>5, <1>6
<1> HIDE DEF n
<1>8. n < N => n + 1 \in 0..N /\ ~(n + 1 <= n)
    BY <1>1, <1>7, <1>20
<1>9. /\ n \in 0..N /\ HeaderTo(text, n)
      /\ n < N => ~HeaderTo(text, n + 1)
      /\ \A m \in 0..N : HeaderTo(text, m) => m <= n
    BY <1>1, <1>7, <1>8, <1>20
<1> QED BY <1>9 DEF n, headers, N

(* Of two results that begin alike and do not fit, as much is written.     *)
LEMMA WrittenAlike ==
    ASSUME NEW S, NEW x \in Seq(S), NEW y \in Seq(S), NEW size \in Nat,
           size <= Len(x), Len(x) <= Len(y), \A i \in 1..Len(x) : y[i] = x[i]
    PROVE  Written(x, size) = Written(y, size)
<1>1. Least(Len(x), size - 1) = size - 1 /\ Least(Len(y), size - 1) = size - 1
    BY DEF Least
<1>2. Len(x) \in Nat /\ Len(y) \in Nat
    OBVIOUS
<1>3. SubSeq(x, 1, size - 1) = SubSeq(y, 1, size - 1)
    <2>1. CASE size = 0 \/ size = 1
        <3>1. SubSeq(x, 1, size - 1) = <<>> /\ SubSeq(y, 1, size - 1) = <<>>
            BY <2>1, SubSeqEmpty
        <3> QED BY <3>1
    <2>2. CASE size > 1
        <3> DEFINE n == size - 1
                   a == SubSeq(x, 1, n)
                   b == SubSeq(y, 1, n)
        <3>1. n \in 1..Len(x) /\ n \in 1..Len(y)
            BY <1>2, <2>2
        <3>2. \A i \in 1..n : x[i] \in S /\ y[i] \in S /\ y[i] = x[i]
            BY <1>2, <3>1
        <3> HIDE DEF n
        <3>3. /\ a \in Seq(S) /\ Len(a) = n /\ \A i \in 1..n : a[i] = x[i]
              /\ b \in Seq(S) /\ Len(b) = n /\ \A i \in 1..n : b[i] = y[i]
            BY <3>1, <3>2
        <3> HIDE DEF a, b
        <3>4. a = b
            BY <3>2, <3>3, SeqEqual
        <3> QED BY <3>4 DEF a, b, n
    <2> QED BY <2>1, <2>2
<1> QED BY <1>1, <1>3 DEF Written

(* unfold_header puts out the header without its folding, cut to the       *)
(* buffer.                                                                 *)
LEMMA UnfoldIs ==
    ASSUME NEW S, NEW text \in Seq(S), NEW size \in Nat
    PROVE  Unfold(text, size) = Written(Unfolded(text), size)
<1> DEFINE N == Len(text)
           headers == {n \in 0..Len(text) : IsHeader(SubSeq(text, 1, n))}
           n == CHOOSE i \in headers : \A j \in headers : j <= i
<1>1. /\ n \in 0..N /\ HeaderTo(text, n)
      /\ n < N => ~HeaderTo(text, n + 1)
      /\ \A m \in 0..N : HeaderTo(text, m) => m <= n
    BY LongestIs
<1>2. Unfolded(text) = FlattenSeq([i \in 1..n |->
                            IF text[i] \in {CR, LF} THEN <<>> ELSE <<text[i]>>])
    BY Zenon DEF Unfolded
<1> HIDE DEF n
<1>3. PICK k : Kept(k, S, text)
    BY KeptExists
<1>4. Unfolded(text) = k[n]
    BY <1>1, <1>2, <1>3, KeptIs
<1>5. PICK h : UnfoldRun(h, S, text, size)
    BY UnfoldRuns
<1>6. N \in Nat /\ \A i \in 0..N : h[i] \in Unfolding(S)
    BY <1>5 DEF UnfoldRun
<1> DEFINE T == {i \in 0..N : Going(h[i], k, text, i) \/ Over(h[i], k, text, size, i)}
<1>7. 0 \in T
    <2>1. h[0] = UnfoldStart /\ k[0] = <<>>
        BY <1>3, <1>5 DEF UnfoldRun, Kept
    <2>2. HeaderTo(text, 0)
        BY DEF HeaderTo
    <2>3. UnfoldStart.out = <<>> /\ UnfoldStart.folding = 0 /\ ~UnfoldStart.stop
        BY DEF UnfoldStart
    <2>4. Going(h[0], k, text, 0)
        BY <2>1, <2>2, <2>3 DEF Going
    <2> QED BY <1>6, <2>4
<1>8. ASSUME NEW i \in 0..(N - 1), i \in T PROVE i + 1 \in T
    <2>1. i + 1 \in 1..N /\ (i + 1) - 1 = i /\ i + 1 \in 0..N /\ i \in 0..N
        BY <1>6
    <2>2. h[i + 1] = UnfoldStep(size, h[i], text[i + 1])
        BY <1>5, <2>1 DEF UnfoldRun
    <2>3. h[i] \in Unfolding(S)
        BY <1>6, <2>1
    <2>4. Going(h[i], k, text, i) \/ Over(h[i], k, text, size, i)
        BY <1>8
    <2>5. Going(h[i + 1], k, text, i + 1) \/ Over(h[i + 1], k, text, size, i + 1)
        BY <1>3, <2>2, <2>3, <2>4, UnfoldOne
    <2> QED BY <2>1, <2>5
<1>9. Going(h[N], k, text, N) \/ Over(h[N], k, text, size, N)
    <2> HIDE DEF T
    <2>1. \A i \in 0..N : i \in T
        BY <1>6, <1>7, <1>8, InductionTo
    <2> QED BY <1>6, <2>1 DEF T
<1>10. Unfold(text, size) = Written(h[N].out, size)
    BY <1>5 DEF UnfoldRun
<1>11. CASE Going(h[N], k, text, N)
    <2>1. n = N
        BY <1>1, <1>6, <1>11 DEF Going
    <2> QED BY <1>4, <1>10, <1>11, <2>1 DEF Going
<1>12. ASSUME NEW m \in 0..N, HeaderTo(text, m), h[N].out = k[m],
              m < N, ~HeaderTo(text, m + 1)
       PROVE  m = n
    <2>1. m <= n
        BY <1>1, <1>12
    <2>2. m + 1 <= n => FALSE
        <3> SUFFICES ASSUME m + 1 <= n PROVE FALSE
            OBVIOUS
        <3>1. \A i \in 1..((m + 1) - 1) : i \in 1..(n - 1)
            BY <1>1, <1>6
        <3> QED BY <1>1, <1>12, <3>1 DEF HeaderTo
    <2> QED BY <1>1, <2>1, <2>2
<1>13. ASSUME NEW m \in 0..N, HeaderTo(text, m), h[N].out = k[m],
              Len(h[N].out) >= size
       PROVE  Written(k[m], size) = Written(k[n], size)
    <2>1. m \in 0..n
        BY <1>1, <1>13
    <2>2. /\ Len(k[m]) \in Nat /\ Len(k[n]) \in Nat /\ Len(k[m]) <= Len(k[n])
          /\ \A i \in 1..Len(k[m]) : k[n][i] = k[m][i]
        BY <1>1, <1>3, <2>1, KeptPrefix
    <2>3. k[m] \in Seq(S) /\ k[n] \in Seq(S)
        BY <1>1, <1>3 DEF Kept
    <2>4. size <= Len(k[m])
        BY <1>13, <2>2
    <2> QED BY <2>2, <2>3, <2>4, WrittenAlike
<1>14. CASE Over(h[N], k, text, size, N)
    <2>1. PICK m \in 0..N :
            /\ HeaderTo(text, m)
            /\ h[N].out = k[m]
            /\ \/ h[N].stop /\ m < N /\ ~HeaderTo(text, m + 1)
               \/ Len(h[N].out) >= size
        BY <1>14 DEF Over
    <2> QED BY <1>4, <1>10, <1>12, <1>13, <2>1
<1> QED BY <1>9, <1>11, <1>14

-----------------------------------------------------------------------------
(***************************************************************************)
(* base64decode.                                                           *)
(***************************************************************************)

(* The first bit of a byte.                                                *)
LEMMA Quotient128 ==
    ASSUME NEW n \in 0..255
    PROVE  n \div 128 \in 0..1
OBVIOUS

(* One bit more of a number.                                               *)
LEMMA BitMore ==
    ASSUME NEW a \in Nat, NEW L \in Nat \ {0}
    PROVE  a \div L = 2 * (a \div (2 * L)) + ((a \div L) % 2)
<1> DEFINE q == a \div L
           r == a % L
           m == q \div 2
           s == q % 2
<1>1. q \in Int /\ r \in 0..(L - 1) /\ a = L * q + r
    BY DivMod
<1> HIDE DEF q, r
<1>2. m \in Int /\ s \in 0..1 /\ q = 2 * m + s
    BY <1>1, DivMod
<1> HIDE DEF m, s
<1>3. /\ L * q = (2 * L) * m + L * s
      /\ L * s + r \in 0..(2 * L - 1)
      /\ 2 * L \in Nat \ {0}
    <2>1. L * q = (2 * L) * m + L * s
        BY <1>2
    <2>2. s = 0 \/ s = 1
        BY <1>2
    <2>3. L * s + r \in 0..(2 * L - 1)
        <3>1. CASE s = 0
            BY <1>1, <3>1
        <3>2. CASE s = 1
            BY <1>1, <3>2
        <3> QED BY <2>2, <3>1, <3>2
    <2> QED BY <2>1, <2>3
<1> DEFINE K == 2 * L
           z == L * s + r
<1>4. a = K * m + z /\ K \in Nat \ {0} /\ z \in 0..(K - 1)
    <2>1. L * q \in Int /\ (2 * L) * m \in Int /\ L * s \in Int
        BY <1>1, <1>2
    <2>2. a = (L * q) + r
        BY <1>1
    <2>3. a = (2 * L) * m + (L * s + r)
        <3>1. \A x, y, w, t \in Int : x = y + w => x + t = y + (w + t)
            OBVIOUS
        <3>2. r \in Int
            BY <1>1
        <3> QED BY <1>3, <2>1, <2>2, <3>1, <3>2
    <2> QED BY <1>3, <2>3
<1> HIDE DEF K, z
<1>5. (K * m + z) \div K = m
    BY <1>2, <1>4, DivIs
<1>6. a \div K = m
    BY <1>4, <1>5
<1>7. q = 2 * (a \div K) + (q % 2)
    <2> DEFINE d == a \div K
    <2> HIDE DEF d
    <2>1. d = m
        BY <1>6 DEF d
    <2>2. q = 2 * d + s
        BY <1>2, <2>1
    <2> QED BY Zenon, <2>2 DEF d, s
<1> QED BY Zenon, <1>7 DEF K, q

(* The bits that Encoded takes from a byte, from the highest one on.       *)
LEMMA BitsOfByte ==
    ASSUME NEW a \in 0..255
    PROVE  /\ a \div 128 \in 0..1 /\ (a \div 128) % 2 = a \div 128
           /\ a \div 64 = 2 * (a \div 128) + ((a \div 64) % 2)
           /\ a \div 32 = 2 * (a \div 64) + ((a \div 32) % 2)
           /\ a \div 16 = 2 * (a \div 32) + ((a \div 16) % 2)
           /\ a \div 8 = 2 * (a \div 16) + ((a \div 8) % 2)
           /\ a \div 4 = 2 * (a \div 8) + ((a \div 4) % 2)
           /\ a \div 2 = 2 * (a \div 4) + ((a \div 2) % 2)
           /\ a = 2 * (a \div 2) + (a % 2)
<1>1. a \div 128 \in 0..1
    BY Quotient128
<1>2. \A q \in 0..1 : q % 2 = q
    OBVIOUS
<1>3. /\ a \in Nat /\ a \in Int
      /\ 2 \in Nat \ {0} /\ 4 \in Nat \ {0} /\ 8 \in Nat \ {0}
      /\ 16 \in Nat \ {0} /\ 32 \in Nat \ {0} /\ 64 \in Nat \ {0}
    OBVIOUS
<1>4. a \div 64 = 2 * (a \div (2 * 64)) + ((a \div 64) % 2)
    BY Zenon, <1>3, BitMore
<1>5. a \div 32 = 2 * (a \div (2 * 32)) + ((a \div 32) % 2)
    BY Zenon, <1>3, BitMore
<1>6. a \div 16 = 2 * (a \div (2 * 16)) + ((a \div 16) % 2)
    BY Zenon, <1>3, BitMore
<1>7. a \div 8 = 2 * (a \div (2 * 8)) + ((a \div 8) % 2)
    BY Zenon, <1>3, BitMore
<1>8. a \div 4 = 2 * (a \div (2 * 4)) + ((a \div 4) % 2)
    BY Zenon, <1>3, BitMore
<1>9. a \div 2 = 2 * (a \div (2 * 2)) + ((a \div 2) % 2)
    BY Zenon, <1>3, BitMore
<1>10. a = 2 * (a \div 2) + (a % 2)
    BY <1>3, DivMod
<1> QED BY <1>1, <1>2, <1>4, <1>5, <1>6, <1>7, <1>8, <1>9, <1>10

(* What six bits, or as many as are left in a byte, come to.               *)
LEMMA ByteSums ==
    ASSUME NEW a \in 0..255
    PROVE  /\ a \div 4 = 32 * ((a \div 128) % 2) + 16 * ((a \div 64) % 2)
                + 8 * ((a \div 32) % 2) + 4 * ((a \div 16) % 2)
                + 2 * ((a \div 8) % 2) + ((a \div 4) % 2)
           /\ a % 4 = 2 * ((a \div 2) % 2) + (a % 2)
           /\ a \div 16 = 8 * ((a \div 128) % 2) + 4 * ((a \div 64) % 2)
                + 2 * ((a \div 32) % 2) + ((a \div 16) % 2)
           /\ a % 16 = 8 * ((a \div 8) % 2) + 4 * ((a \div 4) % 2)
                + 2 * ((a \div 2) % 2) + (a % 2)
           /\ a \div 64 = 2 * ((a \div 128) % 2) + ((a \div 64) % 2)
           /\ a % 64 = 32 * ((a \div 32) % 2) + 16 * ((a \div 16) % 2)
                + 8 * ((a \div 8) % 2) + 4 * ((a \div 4) % 2)
                + 2 * ((a \div 2) % 2) + (a % 2)
<1> DEFINE q7 == a \div 128  q6 == a \div 64  q5 == a \div 32  q4 == a \div 16
           q3 == a \div 8  q2 == a \div 4  q1 == a \div 2
           b7 == q7 % 2  b6 == q6 % 2  b5 == q5 % 2  b4 == q4 % 2
           b3 == q3 % 2  b2 == q2 % 2  b1 == q1 % 2  b0 == a % 2
           r2 == a % 4  r4 == a % 16  r6 == a % 64
<1>1. /\ b7 = q7 /\ q6 = 2 * q7 + b6 /\ q5 = 2 * q6 + b5 /\ q4 = 2 * q5 + b4
      /\ q3 = 2 * q4 + b3 /\ q2 = 2 * q3 + b2 /\ q1 = 2 * q2 + b1 /\ a = 2 * q1 + b0
    BY BitsOfByte
<1>2. a = 4 * q2 + r2 /\ a = 16 * q4 + r4 /\ a = 64 * q6 + r6
    BY DivMod
<1>3. /\ q7 \in Int /\ q6 \in Int /\ q5 \in Int /\ q4 \in Int /\ q3 \in Int
      /\ q2 \in Int /\ q1 \in Int
      /\ r2 \in Int /\ r4 \in Int /\ r6 \in Int
    BY DivMod
<1> HIDE DEF q7, q6, q5, q4, q3, q2, q1, r2, r4, r6
<1>4. /\ b7 \in Int /\ b6 \in Int /\ b5 \in Int /\ b4 \in Int /\ b3 \in Int
      /\ b2 \in Int /\ b1 \in Int /\ b0 \in Int
    BY <1>3, DivMod
<1> HIDE DEF b7, b6, b5, b4, b3, b2, b1, b0
<1>5. /\ q2 = 32 * b7 + 16 * b6 + 8 * b5 + 4 * b4 + 2 * b3 + b2
      /\ r2 = 2 * b1 + b0
      /\ q4 = 8 * b7 + 4 * b6 + 2 * b5 + b4
      /\ r4 = 8 * b3 + 4 * b2 + 2 * b1 + b0
      /\ q6 = 2 * b7 + b6
      /\ r6 = 32 * b5 + 16 * b4 + 8 * b3 + 4 * b2 + 2 * b1 + b0
    BY <1>1, <1>2, <1>3, <1>4
<1> QED BY Zenon, <1>5 DEF q7, q6, q5, q4, q3, q2, q1, b7, b6, b5, b4, b3, b2, b1, b0,
                          r2, r4, r6

(* The powers of two in a byte.                                            *)
LEMMA Powers ==
    ASSUME NEW t \in 0..7
    PROVE  2 ^ (7 - t) = IF t = 0 THEN 128 ELSE IF t = 1 THEN 64
                         ELSE IF t = 2 THEN 32 ELSE IF t = 3 THEN 16
                         ELSE IF t = 4 THEN 8 ELSE IF t = 5 THEN 4
                         ELSE IF t = 6 THEN 2 ELSE 1
<1> DEFINE u == 7 - t
<1>1. /\ u \in {0, 1, 2, 3, 4, 5, 6, 7}
      /\ t = 0 <=> u = 7
      /\ t = 1 <=> u = 6
      /\ t = 2 <=> u = 5
      /\ t = 3 <=> u = 4
      /\ t = 4 <=> u = 3
      /\ t = 5 <=> u = 2
      /\ t = 6 <=> u = 1
    OBVIOUS
<1> HIDE DEF u
<1>2. /\ u = 0 => 2 ^ u = 2 ^ 0
      /\ u = 1 => 2 ^ u = 2 ^ 1
      /\ u = 2 => 2 ^ u = 2 ^ 2
      /\ u = 3 => 2 ^ u = 2 ^ 3
      /\ u = 4 => 2 ^ u = 2 ^ 4
      /\ u = 5 => 2 ^ u = 2 ^ 5
      /\ u = 6 => 2 ^ u = 2 ^ 6
      /\ u = 7 => 2 ^ u = 2 ^ 7
    BY Zenon
<1>3. 2 ^ u = IF u = 7 THEN 128 ELSE IF u = 6 THEN 64
              ELSE IF u = 5 THEN 32 ELSE IF u = 4 THEN 16
              ELSE IF u = 3 THEN 8 ELSE IF u = 2 THEN 4
              ELSE IF u = 1 THEN 2 ELSE 1
    BY <1>1, <1>2
<1>4. 2 ^ u = IF t = 0 THEN 128 ELSE IF t = 1 THEN 64
              ELSE IF t = 2 THEN 32 ELSE IF t = 3 THEN 16
              ELSE IF t = 4 THEN 8 ELSE IF t = 5 THEN 4
              ELSE IF t = 6 THEN 2 ELSE 1
    BY <1>1, <1>3
<1> QED BY Zenon, <1>4 DEF u

(* The three bytes of which a group of four characters is made.            *)
At(data, i) == IF i <= Len(data) THEN data[i] ELSE 0

(* The k-th bit of the data, and none beyond them.                         *)
BitOf(data, k) ==
    IF k >= 8 * Len(data) THEN 0
    ELSE (data[k \div 8 + 1] \div 2 ^ (7 - (k % 8))) % 2

(* It is a bit of the byte it is in.                                       *)
LEMMA BitIs ==
    ASSUME NEW data \in Seq(Byte), NEW n \in Nat, NEW t \in 0..7
    PROVE  BitOf(data, 8 * n + t) = (At(data, n + 1) \div 2 ^ (7 - t)) % 2
<1> DEFINE k == 8 * n + t
<1>1. k \div 8 = n /\ k % 8 = t /\ k \in Nat /\ Len(data) \in Nat
    OBVIOUS
<1>2. k >= 8 * Len(data) <=> ~(n + 1 <= Len(data))
    BY <1>1
<1> HIDE DEF k
<1>3. CASE n + 1 <= Len(data)
    BY <1>1, <1>2, <1>3 DEF BitOf, At, k
<1>4. CASE ~(n + 1 <= Len(data))
    <2>1. BitOf(data, k) = 0 /\ At(data, n + 1) = 0
        BY <1>2, <1>4 DEF BitOf, At
    <2>2. \A x \in {1, 2, 4, 8, 16, 32, 64, 128} : (0 \div x) % 2 = 0
        OBVIOUS
    <2>3. 2 ^ (7 - t) \in {1, 2, 4, 8, 16, 32, 64, 128}
        <3> DEFINE w == 2 ^ (7 - t)
        <3>1. w = IF t = 0 THEN 128 ELSE IF t = 1 THEN 64
                  ELSE IF t = 2 THEN 32 ELSE IF t = 3 THEN 16
                  ELSE IF t = 4 THEN 8 ELSE IF t = 5 THEN 4
                  ELSE IF t = 6 THEN 2 ELSE 1
            BY Powers
        <3> HIDE DEF w
        <3>2. w \in {1, 2, 4, 8, 16, 32, 64, 128}
            BY <3>1
        <3> QED BY <3>2 DEF w
    <2> QED BY <2>1, <2>2, <2>3 DEF k
<1> QED BY <1>3, <1>4

(* The eight bits of a byte of the data.                                   *)
BitsAt(data, n, x) ==
    /\ x \in 0..255
    /\ BitOf(data, 8 * n) = (x \div 128) % 2
    /\ BitOf(data, 8 * n + 1) = (x \div 64) % 2
    /\ BitOf(data, 8 * n + 2) = (x \div 32) % 2
    /\ BitOf(data, 8 * n + 3) = (x \div 16) % 2
    /\ BitOf(data, 8 * n + 4) = (x \div 8) % 2
    /\ BitOf(data, 8 * n + 5) = (x \div 4) % 2
    /\ BitOf(data, 8 * n + 6) = (x \div 2) % 2
    /\ BitOf(data, 8 * n + 7) = x % 2

(* Those of a byte of the data are the bits of its number.                 *)
LEMMA BitsAre ==
    ASSUME NEW data \in Seq(Byte), NEW n \in Nat
    PROVE  BitsAt(data, n, At(data, n + 1))
<1> DEFINE x == At(data, n + 1)
           W(t) == 2 ^ (7 - t)
<1>1. x \in 0..255
    <2>1. n + 1 <= Len(data) => data[n + 1] \in Byte
        OBVIOUS
    <2> QED BY <2>1 DEF At, Byte
<1>2. \A t \in 0..7 : W(t) = IF t = 0 THEN 128 ELSE IF t = 1 THEN 64
                              ELSE IF t = 2 THEN 32 ELSE IF t = 3 THEN 16
                              ELSE IF t = 4 THEN 8 ELSE IF t = 5 THEN 4
                              ELSE IF t = 6 THEN 2 ELSE 1
    BY Powers
<1>3. \A t \in 0..7 : BitOf(data, 8 * n + t) = (x \div W(t)) % 2
    BY BitIs
<1> HIDE DEF x, W
<1>4. x \div 1 = x /\ 8 * n + 0 = 8 * n
    BY <1>1
<1>5. /\ W(0) = 128 /\ W(1) = 64 /\ W(2) = 32 /\ W(3) = 16
      /\ W(4) = 8 /\ W(5) = 4 /\ W(6) = 2 /\ W(7) = 1
    BY <1>2
<1>6. /\ BitOf(data, 8 * n + 0) = (x \div W(0)) % 2
      /\ BitOf(data, 8 * n + 1) = (x \div W(1)) % 2
      /\ BitOf(data, 8 * n + 2) = (x \div W(2)) % 2
      /\ BitOf(data, 8 * n + 3) = (x \div W(3)) % 2
      /\ BitOf(data, 8 * n + 4) = (x \div W(4)) % 2
      /\ BitOf(data, 8 * n + 5) = (x \div W(5)) % 2
      /\ BitOf(data, 8 * n + 6) = (x \div W(6)) % 2
      /\ BitOf(data, 8 * n + 7) = (x \div W(7)) % 2
    BY <1>3
<1>7. BitsAt(data, n, x)
    BY <1>1, <1>4, <1>5, <1>6 DEF BitsAt
<1> QED BY <1>7 DEF x

(* What the bits of a byte come to, six or fewer together.                 *)
BitSums(x, b7, b6, b5, b4, b3, b2, b1, b0) ==
    /\ x \in 0..255
    /\ b7 \in 0..1 /\ b6 \in 0..1 /\ b5 \in 0..1 /\ b4 \in 0..1
    /\ b3 \in 0..1 /\ b2 \in 0..1 /\ b1 \in 0..1 /\ b0 \in 0..1
    /\ x \div 4 = 32 * b7 + 16 * b6 + 8 * b5 + 4 * b4 + 2 * b3 + b2
    /\ x % 4 = 2 * b1 + b0
    /\ x \div 16 = 8 * b7 + 4 * b6 + 2 * b5 + b4
    /\ x % 16 = 8 * b3 + 4 * b2 + 2 * b1 + b0
    /\ x \div 64 = 2 * b7 + b6
    /\ x % 64 = 32 * b5 + 16 * b4 + 8 * b3 + 4 * b2 + 2 * b1 + b0

(* So what sums of them come to is known.                                  *)
LEMMA SumsAre ==
    ASSUME NEW data, NEW n, NEW x, BitsAt(data, n, x)
    PROVE  BitSums(x, BitOf(data, 8 * n), BitOf(data, 8 * n + 1), BitOf(data, 8 * n + 2),
                   BitOf(data, 8 * n + 3), BitOf(data, 8 * n + 4), BitOf(data, 8 * n + 5),
                   BitOf(data, 8 * n + 6), BitOf(data, 8 * n + 7))
<1> DEFINE b7 == BitOf(data, 8 * n)      b6 == BitOf(data, 8 * n + 1)
           b5 == BitOf(data, 8 * n + 2)  b4 == BitOf(data, 8 * n + 3)
           b3 == BitOf(data, 8 * n + 4)  b2 == BitOf(data, 8 * n + 5)
           b1 == BitOf(data, 8 * n + 6)  b0 == BitOf(data, 8 * n + 7)
<1>1. /\ x \in 0..255
      /\ b7 = (x \div 128) % 2 /\ b6 = (x \div 64) % 2
      /\ b5 = (x \div 32) % 2 /\ b4 = (x \div 16) % 2
      /\ b3 = (x \div 8) % 2 /\ b2 = (x \div 4) % 2
      /\ b1 = (x \div 2) % 2 /\ b0 = x % 2
    BY DEF BitsAt
<1> HIDE DEF b7, b6, b5, b4, b3, b2, b1, b0
<1>2. /\ b7 \in 0..1 /\ b6 \in 0..1 /\ b5 \in 0..1 /\ b4 \in 0..1
      /\ b3 \in 0..1 /\ b2 \in 0..1 /\ b1 \in 0..1 /\ b0 \in 0..1
    BY <1>1
<1>3. /\ x \div 4 = 32 * b7 + 16 * b6 + 8 * b5 + 4 * b4 + 2 * b3 + b2
      /\ x % 4 = 2 * b1 + b0
      /\ x \div 16 = 8 * b7 + 4 * b6 + 2 * b5 + b4
      /\ x % 16 = 8 * b3 + 4 * b2 + 2 * b1 + b0
      /\ x \div 64 = 2 * b7 + b6
      /\ x % 64 = 32 * b5 + 16 * b4 + 8 * b3 + 4 * b2 + 2 * b1 + b0
    BY Zenon, <1>1, ByteSums
<1>4. BitSums(x, b7, b6, b5, b4, b3, b2, b1, b0)
    BY <1>1, <1>2, <1>3 DEF BitSums
<1> QED BY <1>4 DEF b7, b6, b5, b4, b3, b2, b1, b0

(* A group of six bits that begins in one byte and ends in the next.       *)
LEMMA SextetsOfTwo ==
    ASSUME NEW x, NEW b7, NEW b6, NEW b5, NEW b4, NEW b3, NEW b2, NEW b1, NEW b0,
           NEW y, NEW c7, NEW c6, NEW c5, NEW c4, NEW c3, NEW c2, NEW c1, NEW c0,
           BitSums(x, b7, b6, b5, b4, b3, b2, b1, b0),
           BitSums(y, c7, c6, c5, c4, c3, c2, c1, c0)
    PROVE  /\ 32 * b1 + 16 * b0 + 8 * c7 + 4 * c6 + 2 * c5 + c4
                = 16 * (x % 4) + (y \div 16)
           /\ 32 * b3 + 16 * b2 + 8 * b1 + 4 * b0 + 2 * c7 + c6
                = 4 * (x % 16) + (y \div 64)
<1> DEFINE p == x % 4    q == y \div 16
           r == x % 16   s == y \div 64
<1>1. /\ b3 \in 0..1 /\ b2 \in 0..1 /\ b1 \in 0..1 /\ b0 \in 0..1
      /\ p = 2 * b1 + b0 /\ r = 8 * b3 + 4 * b2 + 2 * b1 + b0
    BY Zenon DEF BitSums
<1>2. /\ c7 \in 0..1 /\ c6 \in 0..1 /\ c5 \in 0..1 /\ c4 \in 0..1
      /\ q = 8 * c7 + 4 * c6 + 2 * c5 + c4 /\ s = 2 * c7 + c6
    BY Zenon DEF BitSums
<1> HIDE DEF p, q, r, s
<1>3. /\ 32 * b1 + 16 * b0 + 8 * c7 + 4 * c6 + 2 * c5 + c4 = 16 * p + q
      /\ 32 * b3 + 16 * b2 + 8 * b1 + 4 * b0 + 2 * c7 + c6 = 4 * r + s
    BY <1>1, <1>2
<1> QED BY Zenon, <1>3 DEF p, q, r, s

(* The groups of six bits.                                                 *)
SextetOf(data, j) ==
    32 * BitOf(data, 6 * j) + 16 * BitOf(data, 6 * j + 1) + 8 * BitOf(data, 6 * j + 2)
      + 4 * BitOf(data, 6 * j + 3) + 2 * BitOf(data, 6 * j + 4) + BitOf(data, 6 * j + 5)

(* The four sextets of three bytes.                                        *)
LEMMA SextetsAre ==
    ASSUME NEW data \in Seq(Byte), NEW g \in Nat
    PROVE  LET x == At(data, 3 * g + 1)
               y == At(data, 3 * g + 2)
               z == At(data, 3 * g + 3)
           IN  /\ x \in 0..255 /\ y \in 0..255 /\ z \in 0..255
               /\ SextetOf(data, 4 * g) = x \div 4
               /\ SextetOf(data, 4 * g + 1) = 16 * (x % 4) + (y \div 16)
               /\ SextetOf(data, 4 * g + 2) = 4 * (y % 16) + (z \div 64)
               /\ SextetOf(data, 4 * g + 3) = z % 64
<1> DEFINE x == At(data, 3 * g + 1)
           y == At(data, 3 * g + 2)
           z == At(data, 3 * g + 3)
           B(k) == BitOf(data, k)
           a == 3 * g
           b == 3 * g + 1
           c == 3 * g + 2
<1>0. a \in Nat /\ b \in Nat /\ c \in Nat
      /\ x = At(data, a + 1) /\ y = At(data, b + 1) /\ z = At(data, c + 1)
    <2>1. a + 1 = 3 * g + 1 /\ b + 1 = 3 * g + 2 /\ c + 1 = 3 * g + 3
        OBVIOUS
    <2> HIDE DEF a, b, c
    <2>2. x = At(data, a + 1) /\ y = At(data, b + 1) /\ z = At(data, c + 1)
        BY <2>1
    <2>3. a \in Nat /\ b \in Nat /\ c \in Nat
        BY DEF a, b, c
    <2> QED BY <2>2, <2>3
<1> HIDE DEF x, y, z
<1>1. BitSums(x, B(8 * a), B(8 * a + 1), B(8 * a + 2), B(8 * a + 3),
              B(8 * a + 4), B(8 * a + 5), B(8 * a + 6), B(8 * a + 7))
    <2> HIDE DEF a
    <2>1. BitsAt(data, a, x)
        BY <1>0, BitsAre
    <2> QED BY <2>1, SumsAre
<1>2. BitSums(y, B(8 * b), B(8 * b + 1), B(8 * b + 2), B(8 * b + 3),
              B(8 * b + 4), B(8 * b + 5), B(8 * b + 6), B(8 * b + 7))
    <2> HIDE DEF b
    <2>1. BitsAt(data, b, y)
        BY <1>0, BitsAre
    <2> QED BY <2>1, SumsAre
<1>3. BitSums(z, B(8 * c), B(8 * c + 1), B(8 * c + 2), B(8 * c + 3),
              B(8 * c + 4), B(8 * c + 5), B(8 * c + 6), B(8 * c + 7))
    <2> HIDE DEF c
    <2>1. BitsAt(data, c, z)
        BY <1>0, BitsAre
    <2> QED BY <2>1, SumsAre
<1> HIDE DEF B
<1>4. SextetOf(data, 4 * g) = 32 * B(8 * a) + 16 * B(8 * a + 1) + 8 * B(8 * a + 2)
                                + 4 * B(8 * a + 3) + 2 * B(8 * a + 4) + B(8 * a + 5)
    <2>1. /\ 6 * (4 * g) = 8 * a /\ 6 * (4 * g) + 1 = 8 * a + 1
          /\ 6 * (4 * g) + 2 = 8 * a + 2 /\ 6 * (4 * g) + 3 = 8 * a + 3
          /\ 6 * (4 * g) + 4 = 8 * a + 4 /\ 6 * (4 * g) + 5 = 8 * a + 5
        OBVIOUS
    <2> QED BY <2>1 DEF SextetOf, B
<1>5. SextetOf(data, 4 * g + 1) = 32 * B(8 * a + 6) + 16 * B(8 * a + 7) + 8 * B(8 * b)
                                + 4 * B(8 * b + 1) + 2 * B(8 * b + 2) + B(8 * b + 3)
    <2>1. /\ 6 * (4 * g + 1) = 8 * a + 6 /\ 6 * (4 * g + 1) + 1 = 8 * a + 7
          /\ 6 * (4 * g + 1) + 2 = 8 * b /\ 6 * (4 * g + 1) + 3 = 8 * b + 1
          /\ 6 * (4 * g + 1) + 4 = 8 * b + 2 /\ 6 * (4 * g + 1) + 5 = 8 * b + 3
        OBVIOUS
    <2> QED BY <2>1 DEF SextetOf, B
<1>6. SextetOf(data, 4 * g + 2) = 32 * B(8 * b + 4) + 16 * B(8 * b + 5) + 8 * B(8 * b + 6)
                                + 4 * B(8 * b + 7) + 2 * B(8 * c) + B(8 * c + 1)
    <2>1. /\ 6 * (4 * g + 2) = 8 * b + 4 /\ 6 * (4 * g + 2) + 1 = 8 * b + 5
          /\ 6 * (4 * g + 2) + 2 = 8 * b + 6 /\ 6 * (4 * g + 2) + 3 = 8 * b + 7
          /\ 6 * (4 * g + 2) + 4 = 8 * c /\ 6 * (4 * g + 2) + 5 = 8 * c + 1
        OBVIOUS
    <2> QED BY <2>1 DEF SextetOf, B
<1>7. SextetOf(data, 4 * g + 3) = 32 * B(8 * c + 2) + 16 * B(8 * c + 3) + 8 * B(8 * c + 4)
                                + 4 * B(8 * c + 5) + 2 * B(8 * c + 6) + B(8 * c + 7)
    <2>1. /\ 6 * (4 * g + 3) = 8 * c + 2 /\ 6 * (4 * g + 3) + 1 = 8 * c + 3
          /\ 6 * (4 * g + 3) + 2 = 8 * c + 4 /\ 6 * (4 * g + 3) + 3 = 8 * c + 5
          /\ 6 * (4 * g + 3) + 4 = 8 * c + 6 /\ 6 * (4 * g + 3) + 5 = 8 * c + 7
        OBVIOUS
    <2> QED BY <2>1 DEF SextetOf, B
<1> HIDE DEF a, b, c
<1>8. SextetOf(data, 4 * g) = x \div 4
    BY <1>1, <1>4 DEF BitSums
<1>9. SextetOf(data, 4 * g + 1) = 16 * (x % 4) + (y \div 16)
    <2>1. 32 * B(8 * a + 6) + 16 * B(8 * a + 7) + 8 * B(8 * b) + 4 * B(8 * b + 1)
            + 2 * B(8 * b + 2) + B(8 * b + 3) = 16 * (x % 4) + (y \div 16)
        BY <1>1, <1>2, SextetsOfTwo
    <2> QED BY Zenon, <1>5, <2>1
<1>10. SextetOf(data, 4 * g + 2) = 4 * (y % 16) + (z \div 64)
    <2>1. 32 * B(8 * b + 4) + 16 * B(8 * b + 5) + 8 * B(8 * b + 6) + 4 * B(8 * b + 7)
            + 2 * B(8 * c) + B(8 * c + 1) = 4 * (y % 16) + (z \div 64)
        BY <1>2, <1>3, SextetsOfTwo
    <2> QED BY Zenon, <1>6, <2>1
<1>11. SextetOf(data, 4 * g + 3) = z % 64
    BY <1>3, <1>7 DEF BitSums
<1>12. x \in 0..255 /\ y \in 0..255 /\ z \in 0..255
    BY <1>1, <1>2, <1>3 DEF BitSums
<1> QED BY <1>8, <1>9, <1>10, <1>11, <1>12 DEF x, y, z

(* What the decoder makes of four of them.                                 *)
QuadMakes(x, y, z) ==
    /\ ((x \div 4) * 4 + (16 * (x % 4) + (y \div 16)) \div 16) % 256 = x
    /\ ((16 * (x % 4) + (y \div 16)) * 16 + (4 * (y % 16) + (z \div 64)) \div 4) % 256 = y
    /\ ((4 * (y % 16) + (z \div 64)) * 64 + (z % 64)) % 256 = z

(* For all bytes: the four numbers give back the three.                    *)
LEMMA QuadIs ==
    ASSUME NEW x \in 0..255, NEW y \in 0..255, NEW z \in 0..255
    PROVE  QuadMakes(x, y, z)
<1> DEFINE q1 == x \div 4
           q2 == 16 * (x % 4) + (y \div 16)
           q3 == 4 * (y % 16) + (z \div 64)
           q4 == z % 64
           x0 == x % 4
           y1 == y \div 16
           y0 == y % 16
           z1 == z \div 64
<1>1. /\ q1 \in 0..63 /\ x0 \in 0..3 /\ x = 4 * q1 + x0
      /\ y1 \in 0..15 /\ y0 \in 0..15 /\ y = 16 * y1 + y0
      /\ z1 \in 0..3 /\ q4 \in 0..63 /\ z = 64 * z1 + q4
      /\ q2 = 16 * x0 + y1 /\ q3 = 4 * y0 + z1
    OBVIOUS
<1> HIDE DEF q1, q2, q3, q4, x0, y1, y0, z1
<1>2. q2 \in 0..63 /\ q3 \in 0..63
    BY <1>1
<1>3. q2 \div 16 = x0
    BY <1>1
<1>4. q3 \div 4 = y0
    BY <1>1
<1>5. (q1 * 4 + (q2 \div 16)) % 256 = x
    <2>1. q1 * 4 + (q2 \div 16) = x
        BY <1>1, <1>3
    <2> QED BY <2>1
<1>6. (q2 * 16 + (q3 \div 4)) % 256 = y
    <2>1. q2 * 16 + (q3 \div 4) = 256 * x0 + y
        BY <1>1, <1>4
    <2>2. (256 * x0 + y) % 256 = y
        BY <1>1
    <2> QED BY <2>1, <2>2
<1>7. (q3 * 64 + q4) % 256 = z
    <2>1. q3 * 64 + q4 = 256 * y0 + z
        BY <1>1
    <2>2. (256 * y0 + z) % 256 = z
        BY <1>1
    <2> QED BY <2>1, <2>2
<1> QED BY Zenon, <1>5, <1>6, <1>7 DEF QuadMakes, q1, q2, q3, q4

(* The decoder's state, and a run of it through a text.                    *)
Decoding == [quad : Seq(Nat), out : Seq(Nat), error : Int, stop : BOOLEAN]

(* The decoder before the first character.                                 *)
Fresh == [quad |-> <<>>, out |-> <<>>, error |-> 0, stop |-> FALSE]

(* What the decoder holds after each character.                            *)
DecodeRun(h, text, size) ==
    /\ h \in [0..Len(text) -> Decoding]
    /\ h[0] = Fresh
    /\ \A i \in 1..Len(text) : h[i] = DecodeStep(size, h[i - 1], text[i])

(* The decoder that ends.                                                  *)
LEMMA EndsType ==
    ASSUME NEW acc \in Decoding, NEW out \in Seq(Nat), NEW error \in Int
    PROVE  LET end == Ends(acc, out, error)
           IN  /\ end \in Decoding
               /\ end.quad = <<>> /\ end.out = out /\ end.error = error /\ end.stop
<1> DEFINE Q == Seq(Nat)
           R == [quad : Q, out : Q, error : Int, stop : BOOLEAN]
           e1 == [acc EXCEPT !.quad = <<>>]
           e2 == [e1 EXCEPT !.out = out]
           e3 == [e2 EXCEPT !.error = error]
           e4 == [e3 EXCEPT !.stop = TRUE]
<1>1. /\ R = Decoding /\ <<>> \in Q /\ out \in Q
    BY DEF Decoding
<1> HIDE DEF Q
<1>2. e1 \in R /\ e1.quad = <<>>
    BY <1>1
<1> HIDE DEF e1
<1>3. e2 \in R /\ e2.quad = <<>> /\ e2.out = out
    BY <1>1, <1>2
<1> HIDE DEF e2
<1>4. e3 \in R /\ e3.quad = <<>> /\ e3.out = out /\ e3.error = error
    BY <1>1, <1>3
<1> HIDE DEF e3
<1>5. e4 \in R /\ e4.quad = <<>> /\ e4.out = out /\ e4.error = error /\ e4.stop
    BY <1>1, <1>4
<1>6. Ends(acc, out, error) = e4
    BY Zenon DEF Ends, e4, e3, e2, e1
<1> HIDE DEF e4, R
<1> QED BY <1>1, <1>5, <1>6

(* Four numbers decoded leave a decoder.                                   *)
LEMMA QuadType ==
    ASSUME NEW size \in Nat, NEW acc \in Decoding, NEW q \in Seq(Nat), Len(q) >= 4
    PROVE  Quad(size, acc, q) \in Decoding
<1> DEFINE a == (q[1] * 4 + q[2] \div 16) % 256
           b == (q[2] * 16 + q[3] \div 4) % 256
           c == (q[3] * 64 + q[4]) % 256
           one == Append(acc.out, a)
           two == Append(one, b)
           three == Append(two, c)
<1>1. q[1] \in Nat /\ q[2] \in Nat /\ q[3] \in Nat /\ q[4] \in Nat
    OBVIOUS
<1>2. a \in Nat /\ b \in Nat /\ c \in Nat
    <2>1. \A x, y \in Nat : x \div 16 \in Nat /\ x \div 4 \in Nat /\ x + y \in Nat
                            /\ x * 4 \in Nat /\ x * 16 \in Nat /\ x * 64 \in Nat
                            /\ x % 256 \in Nat
        OBVIOUS
    <2>2. /\ q[1] * 4 + q[2] \div 16 \in Nat
          /\ q[2] * 16 + q[3] \div 4 \in Nat
          /\ q[3] * 64 + q[4] \in Nat
        BY Zenon, <1>1, <2>1
    <2> QED BY Zenon, <2>1, <2>2
<1>3. acc.out \in Seq(Nat) /\ acc.error \in Int /\ acc.stop \in BOOLEAN
    BY DEF Decoding
<1> HIDE DEF a, b, c
<1>4. one \in Seq(Nat)
    BY <1>2, <1>3
<1> HIDE DEF one
<1>5. two \in Seq(Nat)
    BY <1>2, <1>4
<1> HIDE DEF two
<1>6. three \in Seq(Nat)
    BY <1>2, <1>5
<1> HIDE DEF three
<1>7. /\ Ends(acc, acc.out, -1) \in Decoding /\ Ends(acc, acc.out, 1) \in Decoding
      /\ Ends(acc, one, 1) \in Decoding /\ Ends(acc, one, -1) \in Decoding
      /\ Ends(acc, one, 0) \in Decoding /\ Ends(acc, two, 1) \in Decoding
      /\ Ends(acc, two, 0) \in Decoding
    <2>1. ASSUME NEW o \in Seq(Nat), NEW e \in Int PROVE Ends(acc, o, e) \in Decoding
        BY <2>1, EndsType
    <2>2. 0 \in Int /\ 1 \in Int /\ -1 \in Int
        OBVIOUS
    <2> QED BY Zenon, <1>3, <1>4, <1>5, <2>1, <2>2
<1>8. [acc EXCEPT !.quad = <<>>, !.out = three] \in Decoding
    <2> DEFINE Q == Seq(Nat)
    <2>1. three \in Q /\ <<>> \in Q
          /\ acc \in [quad : Q, out : Q, error : Int, stop : BOOLEAN]
        BY <1>6 DEF Decoding
    <2> HIDE DEF Q
    <2>2. [acc EXCEPT !.quad = <<>>, !.out = three]
            \in [quad : Q, out : Q, error : Int, stop : BOOLEAN]
        BY <2>1
    <2> QED BY <2>2 DEF Q, Decoding
<1>9. Quad(size, acc, q) =
        IF q[1] = Pad \/ q[2] = Pad   THEN Ends(acc, acc.out, -1)
        ELSE IF Len(acc.out) >= size  THEN Ends(acc, acc.out, 1)
        ELSE IF Len(one) >= size      THEN Ends(acc, one, 1)
        ELSE IF q[3] = Pad            THEN Ends(acc, one, IF q[4] = Pad THEN 0 ELSE -1)
        ELSE IF Len(two) >= size      THEN Ends(acc, two, 1)
        ELSE IF q[4] = Pad            THEN Ends(acc, two, 0)
        ELSE [acc EXCEPT !.quad = <<>>, !.out = three]
    BY Zenon DEF Quad, one, two, three, a, b, c
<1>10. \/ Quad(size, acc, q) = Ends(acc, acc.out, -1)
       \/ Quad(size, acc, q) = Ends(acc, acc.out, 1)
       \/ Quad(size, acc, q) = Ends(acc, one, 1)
       \/ Quad(size, acc, q) = Ends(acc, one, 0)
       \/ Quad(size, acc, q) = Ends(acc, one, -1)
       \/ Quad(size, acc, q) = Ends(acc, two, 1)
       \/ Quad(size, acc, q) = Ends(acc, two, 0)
       \/ Quad(size, acc, q) = [acc EXCEPT !.quad = <<>>, !.out = three]
    BY <1>9
<1> QED BY Zenon, <1>7, <1>8, <1>10

(* One character leaves a decoder.                                         *)
LEMMA DecodeStepType ==
    ASSUME NEW size \in Nat, NEW acc \in Decoding, NEW v \in Nat
    PROVE  DecodeStep(size, acc, v) \in Decoding
<1> DEFINE q == Append(acc.quad, v)
<1>1. acc.quad \in Seq(Nat)
    BY DEF Decoding
<1>2. q \in Seq(Nat) /\ Len(q) = Len(acc.quad) + 1
    BY <1>1
<1> HIDE DEF q
<1>3. ~(Len(acc.quad) < 3) => Quad(size, acc, q) \in Decoding
    <2>1. ~(Len(acc.quad) < 3) => Len(q) >= 4
        BY <1>1, <1>2
    <2> QED BY <1>2, <2>1, QuadType
<1>4. [acc EXCEPT !.quad = q] \in Decoding
    <2> DEFINE Q == Seq(Nat)
    <2>1. q \in Q /\ acc \in [quad : Q, out : Q, error : Int, stop : BOOLEAN]
        BY <1>2 DEF Decoding
    <2> HIDE DEF Q
    <2>2. [acc EXCEPT !.quad = q] \in [quad : Q, out : Q, error : Int, stop : BOOLEAN]
        BY <2>1
    <2> QED BY <2>2 DEF Q, Decoding
<1>5. DecodeStep(size, acc, v) =
        IF acc.stop \/ v = Junk THEN acc
        ELSE IF Len(acc.quad) < 3 THEN [acc EXCEPT !.quad = q]
        ELSE Quad(size, acc, q)
    BY Zenon DEF DecodeStep, q
<1> QED BY <1>3, <1>4, <1>5

(* The fold over the text is such a run.                                   *)
LEMMA DecodeRuns ==
    ASSUME NEW size \in Nat, NEW text \in Seq(Nat)
    PROVE  \E h : /\ DecodeRun(h, text, size)
                  /\ Decode(text, size) =
                        [error |-> IF h[Len(text)].error = 0 /\ h[Len(text)].quad # <<>>
                                   THEN 2 ELSE h[Len(text)].error,
                         out   |-> Written(h[Len(text)].out, size)]
<1> DEFINE A == Decoding
           S == Nat
           op == [p \in A \X S |-> DecodeStep(size, p[1], p[2])]
           Body(f) == [t \in SUBSET DOMAIN text |->
                        IF t = {} THEN Fresh
                        ELSE DecodeStep(size, f[t \ {Max(t)}], text[Max(t)])]
           F == CHOOSE f : f = Body(f)
           v == [t \in SUBSET DOMAIN text |->
                    DecodeStep(size, F[t \ {Max(t)}], text[Max(t)])]
           N == Len(text)
           end == F[DOMAIN text]
<1>1. Decode(text, size) =
        [error |-> IF end.error = 0 /\ end.quad # <<>> THEN 2 ELSE end.error,
         out   |-> Written(end.out, size)]
    BY Zenon DEF Decode, FoldLeft, MapThenFoldSet, Fresh
<1>2. op \in [A \X S -> A] /\ \A a \in A, e \in S : op[<<a, e>>] = DecodeStep(size, a, e)
    <2>1. \A a \in A, e \in S : DecodeStep(size, a, e) \in A
        BY DecodeStepType
    <2> HIDE DEF A
    <2> QED BY <2>1
<1>3. Fresh \in A
    BY DEF Fresh, Decoding
<1>4. N \in Nat /\ DOMAIN text = 1..N /\ \A i \in 1..N : text[i] \in S
    OBVIOUS
<1>40. text \in Seq(S)
    OBVIOUS
<1> HIDE DEF op, A, N, S
<1>5. PICK f \in [SUBSET DOMAIN text -> A] : FoldsBy(f, op, Fresh, text)
    BY <1>2, <1>3, <1>40, FoldExists
<1>6. ASSUME NEW t \in SUBSET DOMAIN text, t # {}
      PROVE  text[Max(t)] \in S /\ t \ {Max(t)} \in SUBSET DOMAIN text
    <2>1. Max(t) \in t
        BY <1>4, <1>6, MaxIs
    <2> QED BY <1>4, <2>1
<1>7. ASSUME NEW t \in SUBSET DOMAIN text PROVE f[t] = Body(f)[t]
    <2>1. f[t] = IF t = {} THEN Fresh
                 ELSE op[<<f[t \ {Max(t)}], text[Max(t)]>>]
        BY <1>5 DEF FoldsBy
    <2>2. t # {} => f[t \ {Max(t)}] \in A /\ text[Max(t)] \in S
        BY <1>5, <1>6
    <2> QED BY <1>2, <2>1, <2>2
<1>8. F = Body(F)
    <2>1. f = Body(f)
        BY <1>7 DEF FoldsBy
    <2> HIDE DEF Body
    <2> QED BY <2>1
<1> HIDE DEF F
<1>9. ASSUME NEW t \in SUBSET DOMAIN text, t # {}, F[t \ {Max(t)}] \in A
      PROVE  v[t] = op[<<F[t \ {Max(t)}], text[Max(t)]>>]
    BY <1>2, <1>6, <1>9
<1>10. F = [t \in SUBSET DOMAIN text |-> IF t = {} THEN Fresh ELSE v[t]]
    BY <1>8
<1> HIDE DEF v
<1>11. Runs(F, A, op, Fresh, text)
    <2>1. FoldsWith(F, v, A, op, Fresh, text)
        BY <1>9, <1>10 DEF FoldsWith
    <2> QED BY <1>2, <1>3, <1>40, <2>1, FoldRuns
<1>12. PICK h \in [0..N -> A] :
            /\ h[0] = Fresh
            /\ \A i \in 1..N : h[i] = op[<<h[i - 1], text[i]>>]
            /\ F[DOMAIN text] = h[N]
    BY <1>11 DEF Runs, N
<1>13. ASSUME NEW i \in 1..N PROVE h[i] = DecodeStep(size, h[i - 1], text[i])
    <2>1. i - 1 \in 0..N
        BY <1>4
    <2>2. h[i - 1] \in A /\ text[i] \in S
        BY <1>4, <2>1
    <2>3. h[i] = op[<<h[i - 1], text[i]>>]
        BY <1>12
    <2> QED BY <1>2, <2>2, <2>3
<1>14. DecodeRun(h, text, size)
    BY <1>12, <1>13 DEF DecodeRun, A, N
<1>15. end = h[N]
    BY <1>12
<1> HIDE DEF end
<1>16. Decode(text, size) =
        [error |-> IF h[N].error = 0 /\ h[N].quad # <<>> THEN 2 ELSE h[N].error,
         out   |-> Written(h[N].out, size)]
    BY Zenon, <1>1, <1>15
<1> QED BY Zenon, <1>14, <1>16 DEF N

(* The text that is decoded, character by character.                       *)
LEMMA EncodedIs ==
    ASSUME NEW data
    PROVE  Encoded(data) = [i \in 1..(4 * ((Len(data) + 2) \div 3)) |->
                IF 6 * (i - 1) >= 8 * Len(data) THEN Pad ELSE SextetOf(data, i - 1)]
BY Zenon DEF Encoded, SextetOf, BitOf

(* The number of groups of four characters that the data take.             *)
GroupsOf(data) == (Len(data) + 2) \div 3

(* Each group has a byte of the data, and all bytes are in one.            *)
LEMMA GroupsAre ==
    ASSUME NEW data \in Seq(Byte)
    PROVE  LET G == GroupsOf(data) M == Len(data)
           IN  /\ G \in Nat /\ M \in Nat /\ 3 * G >= M
               /\ \A g \in Nat : g < G <=> 3 * g < M
<1> DEFINE M == Len(data)  G == (M + 2) \div 3  r == (M + 2) % 3
<1>1. M \in Nat /\ M + 2 \in Int /\ 3 \in Nat \ {0}
    OBVIOUS
<1> HIDE DEF M
<1>2. M + 2 = 3 * G + r /\ G \in Int /\ r \in 0..2
    BY <1>1, DivMod
<1> HIDE DEF M, G, r
<1>3. /\ G \in Nat /\ M \in Nat /\ 3 * G >= M
      /\ \A g \in Nat : g < G <=> 3 * g < M
    BY <1>1, <1>2
<1> QED BY <1>3 DEF GroupsOf, M, G

(* A group of four characters.                                             *)
GroupIs(v1, v2, v3, v4, data, g) ==
    LET M == Len(data)
        x == data[3 * g + 1]
        y == IF 3 * g + 2 <= M THEN data[3 * g + 2] ELSE 0
        z == IF 3 * g + 3 <= M THEN data[3 * g + 3] ELSE 0
    IN  /\ v1 = x \div 4
        /\ v2 = 16 * (x % 4) + (y \div 16)
        /\ v3 = IF M <= 3 * g + 1 THEN Pad ELSE 4 * (y % 16) + (z \div 64)
        /\ v4 = IF M <= 3 * g + 2 THEN Pad ELSE z % 64

(* The groups of the text that is decoded are such.                        *)
LEMMA GroupsAreEncoded ==
    ASSUME NEW data \in Seq(Byte), NEW g \in Nat, 3 * g < Len(data)
    PROVE  LET e == Encoded(data)
           IN  GroupIs(e[4 * g + 1], e[4 * g + 2], e[4 * g + 3], e[4 * g + 4], data, g)
<1> DEFINE M == Len(data)  G == GroupsOf(data)  e == Encoded(data)
           x == At(data, 3 * g + 1)
           y == At(data, 3 * g + 2)
           z == At(data, 3 * g + 3)
<1>1. G \in Nat /\ M \in Nat /\ g < G
    BY GroupsAre
<1>2. /\ SextetOf(data, 4 * g) = x \div 4
      /\ SextetOf(data, 4 * g + 1) = 16 * (x % 4) + (y \div 16)
      /\ SextetOf(data, 4 * g + 2) = 4 * (y % 16) + (z \div 64)
      /\ SextetOf(data, 4 * g + 3) = z % 64
    BY SextetsAre
<1>3. \A i \in 1..(4 * G) : e[i] =
        IF 6 * (i - 1) >= 8 * M THEN Pad ELSE SextetOf(data, i - 1)
    <2> HIDE DEF e
    <2>1. e = [i \in 1..(4 * G) |->
            IF 6 * (i - 1) >= 8 * M THEN Pad ELSE SextetOf(data, i - 1)]
        BY Zenon, EncodedIs DEF GroupsOf, e
    <2> QED BY <2>1
<1>4. x = data[3 * g + 1]
      /\ y = (IF 3 * g + 2 <= M THEN data[3 * g + 2] ELSE 0)
      /\ z = (IF 3 * g + 3 <= M THEN data[3 * g + 3] ELSE 0)
    BY DEF At
<1>5. 3 * g < M
    OBVIOUS
<1> HIDE DEF M, G, e, x, y, z
<1>6. /\ 4 * g + 1 \in 1..(4 * G) /\ (4 * g + 1) - 1 = 4 * g
      /\ 4 * g + 2 \in 1..(4 * G) /\ (4 * g + 2) - 1 = 4 * g + 1
      /\ 4 * g + 3 \in 1..(4 * G) /\ (4 * g + 3) - 1 = 4 * g + 2
      /\ 4 * g + 4 \in 1..(4 * G) /\ (4 * g + 4) - 1 = 4 * g + 3
    BY <1>1
<1>7. /\ ~(6 * (4 * g) >= 8 * M) /\ ~(6 * (4 * g + 1) >= 8 * M)
      /\ 6 * (4 * g + 2) >= 8 * M <=> M <= 3 * g + 1
      /\ 6 * (4 * g + 3) >= 8 * M <=> M <= 3 * g + 2
    BY <1>1, <1>5
<1>8. /\ e[4 * g + 1] = SextetOf(data, 4 * g)
      /\ e[4 * g + 2] = SextetOf(data, 4 * g + 1)
      /\ e[4 * g + 3] = IF M <= 3 * g + 1 THEN Pad ELSE SextetOf(data, 4 * g + 2)
      /\ e[4 * g + 4] = IF M <= 3 * g + 2 THEN Pad ELSE SextetOf(data, 4 * g + 3)
    BY <1>3, <1>6, <1>7
<1>9. /\ e[4 * g + 1] = x \div 4
      /\ e[4 * g + 2] = 16 * (x % 4) + (y \div 16)
      /\ e[4 * g + 3] = IF M <= 3 * g + 1 THEN Pad ELSE 4 * (y % 16) + (z \div 64)
      /\ e[4 * g + 4] = IF M <= 3 * g + 2 THEN Pad ELSE z % 64
    BY Zenon, <1>2, <1>8
<1> QED BY Zenon, <1>4, <1>9 DEF GroupIs, M, e

(* What is made of three bytes has six bits.                               *)
SextetsFit(x, y, z) ==
    /\ x \div 4 \in 0..63 /\ 16 * (x % 4) + (y \div 16) \in 0..63
    /\ 4 * (y % 16) + (z \div 64) \in 0..63 /\ z % 64 \in 0..63

(* For all bytes.                                                          *)
LEMMA SextetRange ==
    ASSUME NEW x \in 0..255, NEW y \in 0..255, NEW z \in 0..255
    PROVE  SextetsFit(x, y, z)
<1> DEFINE q1 == x \div 4    x0 == x % 4
           y1 == y \div 16   y0 == y % 16
           z1 == z \div 64   q4 == z % 64
<1>1. /\ q1 \in 0..63 /\ x0 \in 0..3 /\ y1 \in 0..15 /\ y0 \in 0..15
      /\ z1 \in 0..3 /\ q4 \in 0..63
    OBVIOUS
<1> HIDE DEF q1, x0, y1, y0, z1, q4
<1>2. q1 \in 0..63 /\ 16 * x0 + y1 \in 0..63 /\ 4 * y0 + z1 \in 0..63 /\ q4 \in 0..63
    BY <1>1
<1> QED BY Zenon, <1>2 DEF SextetsFit, q1, x0, y1, y0, z1, q4

(* It is a sequence of numbers, none of which stands for junk.             *)
LEMMA EncodedType ==
    ASSUME NEW data \in Seq(Byte)
    PROVE  LET e == Encoded(data)
           IN  /\ e \in Seq(Nat) /\ Len(e) = 4 * GroupsOf(data)
               /\ \A i \in 1..Len(e) : e[i] # Junk
<1> DEFINE M == Len(data)  G == GroupsOf(data)  e == Encoded(data)
<1>1. G \in Nat /\ M \in Nat /\ \A g \in Nat : g < G <=> 3 * g < M
    BY GroupsAre
<1>2. e = [i \in 1..(4 * G) |-> e[i]]
    <2> HIDE DEF e, G, M
    <2>1. e = [i \in 1..(4 * G) |->
            IF 6 * (i - 1) >= 8 * M THEN Pad ELSE SextetOf(data, i - 1)]
        BY Zenon, EncodedIs DEF GroupsOf, e, G, M
    <2> QED BY <2>1
<1>3. \A i \in 1..(4 * G) : e[i] =
        IF 6 * (i - 1) >= 8 * M THEN Pad ELSE SextetOf(data, i - 1)
    <2> HIDE DEF e
    <2>1. e = [i \in 1..(4 * G) |->
            IF 6 * (i - 1) >= 8 * M THEN Pad ELSE SextetOf(data, i - 1)]
        BY Zenon, EncodedIs DEF GroupsOf, e
    <2> QED BY <2>1
<1>4. ASSUME NEW i \in 1..(4 * G) PROVE e[i] \in 0..63 \/ e[i] = Pad
    <2> DEFINE j == i - 1  g == j \div 4  r == j % 4
    <2>1. j \in Nat /\ g \in Nat /\ r \in 0..3 /\ j = 4 * g + r
        <3>1. j \in Nat
            BY <1>1
        <3> HIDE DEF j
        <3>2. j \in Int /\ 4 \in Nat \ {0} /\ \A q \in Int, s \in 0..3 : 4 * q + s >= 0 => q >= 0
            BY <3>1
        <3>3. g \in Int /\ r \in 0..(4 - 1) /\ j = 4 * g + r
            BY Zenon, <3>2, DivMod
        <3> QED BY <3>1, <3>2, <3>3
    <2> HIDE DEF g, r, j
    <2>2. SextetOf(data, j) \in 0..63
        <3> DEFINE x == At(data, 3 * g + 1)
                   y == At(data, 3 * g + 2)
                   z == At(data, 3 * g + 3)
        <3>1. /\ x \in 0..255 /\ y \in 0..255 /\ z \in 0..255
              /\ SextetOf(data, 4 * g) = x \div 4
              /\ SextetOf(data, 4 * g + 1) = 16 * (x % 4) + (y \div 16)
              /\ SextetOf(data, 4 * g + 2) = 4 * (y % 16) + (z \div 64)
              /\ SextetOf(data, 4 * g + 3) = z % 64
            BY <2>1, SextetsAre
        <3> HIDE DEF x, y, z
        <3>2. /\ x \div 4 \in 0..63 /\ 16 * (x % 4) + (y \div 16) \in 0..63
              /\ 4 * (y % 16) + (z \div 64) \in 0..63 /\ z % 64 \in 0..63
            <4>1. x \in 0..255 /\ y \in 0..255 /\ z \in 0..255
                BY <3>1
            <4>2. SextetsFit(x, y, z)
                BY <4>1, SextetRange
            <4> QED BY Zenon, <4>2 DEF SextetsFit
        <3>3. j = 4 * g \/ j = 4 * g + 1 \/ j = 4 * g + 2 \/ j = 4 * g + 3
            BY <2>1
        <3>4. /\ SextetOf(data, 4 * g) \in 0..63 /\ SextetOf(data, 4 * g + 1) \in 0..63
              /\ SextetOf(data, 4 * g + 2) \in 0..63 /\ SextetOf(data, 4 * g + 3) \in 0..63
            BY Zenon, <3>1, <3>2
        <3> QED BY <3>3, <3>4
    <2> QED BY <1>3, <2>2 DEF j
<1> HIDE DEF e, G, M
<1>5. \A i \in 1..(4 * G) : e[i] \in Nat /\ e[i] # Junk
    <2>1. (\A c \in 0..63 : c \in Nat /\ c # Junk) /\ Pad \in Nat /\ Pad # Junk
        BY DEF Pad, Junk
    <2> QED BY Zenon, <1>4, <2>1
<1>6. e \in Seq(Nat) /\ Len(e) = 4 * G
    <2>2. 4 * G \in Nat
        BY <1>1
    <2> DEFINE N == 4 * G
    <2> HIDE DEF N
    <2>3. [i \in 1..N |-> e[i]] \in Seq(Nat) /\ Len([i \in 1..N |-> e[i]]) = N
        BY <1>5, <2>2 DEF N
    <2> QED BY Zenon, <1>2, <2>3 DEF N
<1> QED BY <1>5, <1>6 DEF e, G, M

(* What the first byte is made from does not depend on the last ones.      *)
BytesAre(v1, v2, v3, v4, data, g) ==
    /\ v1 # Pad /\ v2 # Pad
    /\ (v1 * 4 + v2 \div 16) % 256 = data[3 * g + 1]
    /\ v3 = Pad <=> Len(data) <= 3 * g + 1
    /\ v4 = Pad <=> Len(data) <= 3 * g + 2
    /\ Len(data) > 3 * g + 1 => (v2 * 16 + v3 \div 4) % 256 = data[3 * g + 2]
    /\ Len(data) > 3 * g + 2 => (v3 * 64 + v4) % 256 = data[3 * g + 3]

(* A group of four characters has the bytes it was made of.                *)
LEMMA QuadBytes ==
    ASSUME NEW data \in Seq(Byte), NEW g \in Nat, 3 * g < Len(data),
           NEW v1, NEW v2, NEW v3, NEW v4, GroupIs(v1, v2, v3, v4, data, g)
    PROVE  BytesAre(v1, v2, v3, v4, data, g)
<1> DEFINE M == Len(data)
           x == data[3 * g + 1]
           y == IF 3 * g + 2 <= M THEN data[3 * g + 2] ELSE 0
           z == IF 3 * g + 3 <= M THEN data[3 * g + 3] ELSE 0
           w1 == x \div 4
           w2 == 16 * (x % 4) + (y \div 16)
           w3 == 4 * (y % 16) + (z \div 64)
           w4 == z % 64
<1>1. x \in 0..255 /\ y \in 0..255 /\ z \in 0..255
    <2>1. /\ 3 * g + 1 \in 1..M
          /\ 3 * g + 2 <= M => 3 * g + 2 \in 1..M
          /\ 3 * g + 3 <= M => 3 * g + 3 \in 1..M
        OBVIOUS
    <2>2. \A i \in 1..M : data[i] \in 0..255
        <3>1. \A i \in 1..M : data[i] \in Byte
            OBVIOUS
        <3> QED BY Zenon, <3>1 DEF Byte
    <2>3. 0 \in 0..255
        OBVIOUS
    <2> QED BY Zenon, <2>1, <2>2, <2>3
<1>2. /\ v1 = w1 /\ v2 = w2
      /\ v3 = IF M <= 3 * g + 1 THEN Pad ELSE w3
      /\ v4 = IF M <= 3 * g + 2 THEN Pad ELSE w4
    BY Zenon DEF GroupIs
<1>3. M \in Nat /\ 3 * g \in Nat
    OBVIOUS
<1>4. /\ M > 3 * g + 1 => y = data[3 * g + 2]
      /\ M > 3 * g + 2 => z = data[3 * g + 3]
    BY <1>3
<1> HIDE DEF x, y, z, M
<1>5. /\ w1 \in 0..63 /\ w2 \in 0..63 /\ w3 \in 0..63 /\ w4 \in 0..63
    <2>1. SextetsFit(x, y, z)
        BY <1>1, SextetRange
    <2> QED BY Zenon, <2>1 DEF SextetsFit
<1>6. /\ (w1 * 4 + w2 \div 16) % 256 = x
      /\ (w2 * 16 + w3 \div 4) % 256 = y
      /\ (w3 * 64 + w4) % 256 = z
    <2>1. QuadMakes(x, y, z)
        BY <1>1, QuadIs
    <2> QED BY Zenon, <2>1 DEF QuadMakes
<1> HIDE DEF w1, w2, w3, w4
<1>7. Pad \notin 0..63
    BY DEF Pad
<1>8. /\ M > 3 * g + 1 <=> ~(M <= 3 * g + 1)
      /\ M > 3 * g + 2 <=> ~(M <= 3 * g + 2)
      /\ M > 3 * g + 2 => M > 3 * g + 1
    BY <1>3
<1>9. /\ v1 # Pad /\ v2 # Pad
      /\ v3 = Pad <=> M <= 3 * g + 1
      /\ v4 = Pad <=> M <= 3 * g + 2
    BY Zenon, <1>2, <1>5, <1>7
<1>10. M > 3 * g + 1 => v3 = w3
    BY Zenon, <1>2, <1>8
<1>11. M > 3 * g + 2 => v4 = w4
    BY Zenon, <1>2, <1>8
<1>12. (v1 * 4 + v2 \div 16) % 256 = x
    BY Zenon, <1>2, <1>6
<1>13. M > 3 * g + 1 => (v2 * 16 + v3 \div 4) % 256 = data[3 * g + 2]
    BY Zenon, <1>2, <1>4, <1>6, <1>10
<1>14. M > 3 * g + 2 => (v3 * 64 + v4) % 256 = data[3 * g + 3]
    BY Zenon, <1>4, <1>6, <1>8, <1>10, <1>11
<1> QED BY Zenon, <1>9, <1>12, <1>13, <1>14 DEF BytesAre, x, M

(* The state of the decoder after so many groups.                          *)
Still(acc, data, g) ==
    ~acc.stop /\ acc.error = 0 /\ 3 * g <= Len(data) /\ acc.out = SubSeq(data, 1, 3 * g)

(* What was put out is a beginning of the data that fills the buffer.      *)
Fill(acc, data, size) ==
    \E n \in 0..Len(data) : acc.out = SubSeq(data, 1, n) /\ n >= size

(* After g groups: the decoder goes on with their bytes put out, has ended *)
(* with all of the data, or has ended because the buffer is full.          *)
Decoded(acc, data, size, g) ==
    /\ acc.quad = <<>>
    /\ \/ Still(acc, data, g)
       \/ acc.stop /\ acc.error = 0 /\ acc.out = data
       \/ acc.stop /\ acc.error = 1 /\ Fill(acc, data, size)

(* One group more.                                                         *)
LEMMA QuadDecodes ==
    ASSUME NEW data \in Seq(Byte), NEW size \in Nat, NEW g \in Nat, 3 * g < Len(data),
           NEW acc \in Decoding, Still(acc, data, g),
           NEW q \in Seq(Nat), Len(q) >= 4, GroupIs(q[1], q[2], q[3], q[4], data, g)
    PROVE  Decoded(Quad(size, acc, q), data, size, g + 1)
<1> DEFINE M == Len(data)
           a == (q[1] * 4 + q[2] \div 16) % 256
           b == (q[2] * 16 + q[3] \div 4) % 256
           c == (q[3] * 64 + q[4]) % 256
           one == Append(acc.out, a)
           two == Append(one, b)
           three == Append(two, c)
           P(n) == SubSeq(data, 1, n)
           r == Quad(size, acc, q)
<1>1. M \in Nat /\ 3 * g < M
    OBVIOUS
<1>2. acc.out \in Seq(Nat) /\ acc.out = P(3 * g) /\ ~acc.stop /\ acc.error = 0
    BY DEF Decoding, Still
<1>3. /\ q[1] # Pad /\ q[2] # Pad
      /\ a = data[3 * g + 1]
      /\ q[3] = Pad <=> M <= 3 * g + 1
      /\ q[4] = Pad <=> M <= 3 * g + 2
      /\ M > 3 * g + 1 => b = data[3 * g + 2]
      /\ M > 3 * g + 2 => c = data[3 * g + 3]
    <2>1. BytesAre(q[1], q[2], q[3], q[4], data, g)
        BY QuadBytes
    <2> QED BY Zenon, <2>1 DEF BytesAre
<1>4. r =
        IF q[1] = Pad \/ q[2] = Pad   THEN Ends(acc, acc.out, -1)
        ELSE IF Len(acc.out) >= size  THEN Ends(acc, acc.out, 1)
        ELSE IF Len(one) >= size      THEN Ends(acc, one, 1)
        ELSE IF q[3] = Pad            THEN Ends(acc, one, IF q[4] = Pad THEN 0 ELSE -1)
        ELSE IF Len(two) >= size      THEN Ends(acc, two, 1)
        ELSE IF q[4] = Pad            THEN Ends(acc, two, 0)
        ELSE [acc EXCEPT !.quad = <<>>, !.out = three]
    BY Zenon DEF Quad
<1>5. \A n \in 0..M : P(n) \in Seq(Byte) /\ P(n) \in Seq(Nat) /\ Len(P(n)) = n
    <2>1. data \in Seq(Nat)
        <3>1. Byte \subseteq Nat
            BY DEF Byte
        <3>4. Len(data) \in Nat /\ data = [i \in 1..Len(data) |-> data[i]]
              /\ \A i \in 1..Len(data) : data[i] \in Byte
            OBVIOUS
        <3>2. Len(data) \in Nat /\ data = [i \in 1..Len(data) |-> data[i]]
              /\ \A i \in 1..Len(data) : data[i] \in Nat
            BY Zenon, <3>1, <3>4
        <3>3. \A n \in Nat : (\A i \in 1..n : data[i] \in Nat)
                    => [i \in 1..n |-> data[i]] \in Seq(Nat)
            OBVIOUS
        <3> QED BY Zenon, <3>2, <3>3
    <2> QED BY <2>1, PrefixIs
<1>6. P(M) = data
    BY SubSeqFull
<1>7. \A n \in 0..(M - 1) : P(n + 1) = Append(P(n), data[n + 1])
    BY PrefixGrows
<1> HIDE DEF P, M, a, b, c, r
<1>8. 3 * g \in 0..(M - 1) /\ 3 * g + 1 \in 0..M /\ 3 * g \in 0..M
      /\ (M > 3 * g + 1 => 3 * g + 1 \in 0..(M - 1) /\ (3 * g + 1) + 1 = 3 * g + 2
                            /\ 3 * g + 2 \in 0..M)
      /\ (M > 3 * g + 2 => 3 * g + 2 \in 0..(M - 1) /\ (3 * g + 2) + 1 = 3 * g + 3
                            /\ 3 * g + 3 \in 0..M)
      /\ (M <= 3 * g + 1 => M = 3 * g + 1 /\ M <= 3 * g + 2)
      /\ (M <= 3 * g + 2 /\ ~(M <= 3 * g + 1) => M = 3 * g + 2)
      /\ 3 * (g + 1) = 3 * g + 3
      /\ (M <= 3 * g + 1 <=> ~(M > 3 * g + 1))
      /\ (M <= 3 * g + 2 <=> ~(M > 3 * g + 2))
    BY <1>1
<1>9. one = P(3 * g + 1)
    BY Zenon, <1>2, <1>3, <1>7, <1>8
<1>10. M > 3 * g + 1 => two = P(3 * g + 2)
    BY Zenon, <1>3, <1>7, <1>8, <1>9
<1> HIDE DEF one
<1>11. M > 3 * g + 2 => three = P(3 * g + 3)
    <2>1. M > 3 * g + 2 => M > 3 * g + 1
        BY <1>1
    <2> HIDE DEF two
    <2> QED BY Zenon, <2>1, <1>3, <1>7, <1>8, <1>10
<1> HIDE DEF two, three
<1>12. ASSUME NEW n \in 0..M, n >= size, r = Ends(acc, P(n), 1)
       PROVE  Decoded(r, data, size, g + 1)
    <2>1. 1 \in Int /\ P(n) \in Seq(Nat)
        BY <1>5
    <2>2. r.quad = <<>> /\ r.out = P(n) /\ r.error = 1 /\ r.stop
        BY <1>12, <2>1, EndsType
    <2>3. Fill(r, data, size)
        BY <2>2, <1>12 DEF Fill, P, M
    <2> QED BY <2>2, <2>3 DEF Decoded
<1>13. ASSUME r = Ends(acc, P(M), 0)
       PROVE  Decoded(r, data, size, g + 1)
    <2>1. 0 \in Int /\ P(M) \in Seq(Nat)
        BY <1>1, <1>5
    <2>2. r.quad = <<>> /\ r.out = P(M) /\ r.error = 0 /\ r.stop
        BY <1>13, <2>1, EndsType
    <2> QED BY <1>6, <2>2 DEF Decoded
<1>14. ASSUME M > 3 * g + 2, r = [acc EXCEPT !.quad = <<>>, !.out = P(3 * g + 3)]
       PROVE  Decoded(r, data, size, g + 1)
    <2> DEFINE Q == Seq(Nat)
               p == P(3 * g + 3)
    <2>1. p \in Q /\ <<>> \in Q
        BY <1>5, <1>8, <1>14
    <2>2. acc \in [quad : Q, out : Q, error : Int, stop : BOOLEAN]
        BY DEF Decoding
    <2> HIDE DEF Q, p
    <2>3. r = [acc EXCEPT !.quad = <<>>, !.out = p]
        BY <1>14 DEF p
    <2>4. r.quad = <<>> /\ r.out = p /\ r.error = acc.error /\ r.stop = acc.stop
        BY <2>1, <2>2, <2>3
    <2>5. p = P(3 * (g + 1)) /\ 3 * (g + 1) <= M
        BY <1>8, <1>14 DEF p
    <2>6. Still(r, data, g + 1)
        BY Zenon, <1>2, <2>4, <2>5 DEF Still, P, M
    <2> QED BY Zenon, <2>4, <2>6 DEF Decoded
<1>15. Len(P(3 * g)) = 3 * g /\ Len(P(3 * g + 1)) = 3 * g + 1
       /\ (M > 3 * g + 1 => Len(P(3 * g + 2)) = 3 * g + 2)
    BY <1>5, <1>8
<1> SUFFICES Decoded(r, data, size, g + 1)
    BY DEF r
<1>16. CASE 3 * g >= size
    <2>1. r = Ends(acc, P(3 * g), 1)
        BY Zenon, <1>2, <1>3, <1>4, <1>15, <1>16
    <2> QED BY Zenon, <1>8, <1>12, <1>16, <2>1
<1>17. CASE ~(3 * g >= size) /\ 3 * g + 1 >= size
    <2>1. r = Ends(acc, P(3 * g + 1), 1)
        BY Zenon, <1>2, <1>3, <1>4, <1>9, <1>15, <1>17
    <2> QED BY Zenon, <1>8, <1>12, <1>17, <2>1
<1>18. CASE ~(3 * g >= size) /\ ~(3 * g + 1 >= size) /\ M <= 3 * g + 1
    <2>1. r = Ends(acc, P(3 * g + 1), 0)
        BY Zenon, <1>2, <1>3, <1>4, <1>8, <1>9, <1>15, <1>18
    <2> QED BY Zenon, <1>8, <1>13, <1>18, <2>1
<1>19. CASE ~(3 * g >= size) /\ ~(3 * g + 1 >= size) /\ M > 3 * g + 1 /\ 3 * g + 2 >= size
    <2>1. r = Ends(acc, P(3 * g + 2), 1)
        BY Zenon, <1>2, <1>3, <1>4, <1>8, <1>9, <1>10, <1>15, <1>19
    <2> QED BY Zenon, <1>8, <1>12, <1>19, <2>1
<1>20. CASE ~(3 * g >= size) /\ ~(3 * g + 1 >= size) /\ M > 3 * g + 1 /\ ~(3 * g + 2 >= size)
            /\ M <= 3 * g + 2
    <2>1. r = Ends(acc, P(3 * g + 2), 0)
        BY Zenon, <1>2, <1>3, <1>4, <1>8, <1>9, <1>10, <1>15, <1>20
    <2>2. ~(M <= 3 * g + 1) => M = 3 * g + 2
        BY <1>8, <1>20
    <2> QED BY Zenon, <1>8, <1>13, <1>20, <2>1, <2>2
<1>21. CASE ~(3 * g >= size) /\ ~(3 * g + 1 >= size) /\ M > 3 * g + 1 /\ ~(3 * g + 2 >= size)
            /\ M > 3 * g + 2
    <2>1. r = [acc EXCEPT !.quad = <<>>, !.out = three]
        BY Zenon, <1>2, <1>3, <1>4, <1>8, <1>9, <1>10, <1>15, <1>21
    <2>2. r = [acc EXCEPT !.quad = <<>>, !.out = P(3 * g + 3)]
        BY Zenon, <1>11, <1>21, <2>1
    <2> QED BY Zenon, <1>14, <1>21, <2>2
<1> QED BY <1>1, <1>16, <1>17, <1>18, <1>19, <1>20, <1>21

(* A character more of a group, and a whole one.                           *)
Takes(acc, next, v) ==
    /\ next \in Decoding /\ ~next.stop
    /\ next.quad = Append(acc.quad, v)
    /\ next.out = acc.out /\ next.error = acc.error

(* A character that does not complete a group is kept for it.              *)
LEMMA OneMore ==
    ASSUME NEW size, NEW acc \in Decoding, NEW v \in Nat, v # Junk, ~acc.stop,
           Len(acc.quad) < 3
    PROVE  Takes(acc, DecodeStep(size, acc, v), v)
<1> DEFINE Q == Seq(Nat)
           R == [quad : Q, out : Q, error : Int, stop : BOOLEAN]
           q == Append(acc.quad, v)
           next == [acc EXCEPT !.quad = q]
<1>1. R = Decoding
    BY DEF Decoding
<1>2. acc.quad \in Q
    BY DEF Decoding
<1>3. q \in Q
    BY <1>2
<1> HIDE DEF Q, q
<1>4. /\ next \in R /\ next.quad = q /\ next.out = acc.out /\ next.error = acc.error
      /\ next.stop = acc.stop
    BY <1>1, <1>3
<1>5. DecodeStep(size, acc, v) = next
    BY Zenon DEF DecodeStep, q
<1> HIDE DEF next
<1> QED BY <1>1, <1>4, <1>5 DEF Takes, q

(* A sequence with an element more.                                        *)
Grown(p, v, q) ==
    /\ q \in Seq(Nat) /\ Len(q) = Len(p) + 1
    /\ \A i \in 1..Len(p) : q[i] = p[i]
    /\ q[Len(p) + 1] = v

(* That is what appending makes.                                           *)
LEMMA GrownIs ==
    ASSUME NEW p \in Seq(Nat), NEW v \in Nat
    PROVE  Grown(p, v, Append(p, v))
BY DEF Grown

(* Four characters are the group that is decoded.                          *)
Completes(size, a0, a3, a4, v1, v2, v3, v4) ==
    \E q \in Seq(Nat) :
        /\ a3 \in Decoding /\ ~a3.stop /\ a3.out = a0.out /\ a3.error = a0.error
        /\ Len(q) = 4 /\ q[1] = v1 /\ q[2] = v2 /\ q[3] = v3 /\ q[4] = v4
        /\ a4 = Quad(size, a3, q)

(* From the end of a group, four characters make the next one.             *)
LEMMA FourSteps ==
    ASSUME NEW size, NEW a0 \in Decoding, a0.quad = <<>>, ~a0.stop,
           NEW v1 \in Nat, NEW v2 \in Nat, NEW v3 \in Nat, NEW v4 \in Nat,
           v1 # Junk, v2 # Junk, v3 # Junk, v4 # Junk,
           NEW a1, NEW a2, NEW a3, NEW a4,
           a1 = DecodeStep(size, a0, v1), a2 = DecodeStep(size, a1, v2),
           a3 = DecodeStep(size, a2, v3), a4 = DecodeStep(size, a3, v4)
    PROVE  Completes(size, a0, a3, a4, v1, v2, v3, v4)
<1> DEFINE q1 == Append(a0.quad, v1)
           q2 == Append(q1, v2)
           q3 == Append(q2, v3)
           q == Append(q3, v4)
<1>1. q1 \in Seq(Nat) /\ Len(q1) = 1 /\ q1[1] = v1
    OBVIOUS
<1>2. Takes(a0, a1, v1)
    BY OneMore
<1> HIDE DEF q1
<1>3. q2 \in Seq(Nat) /\ Len(q2) = 2 /\ q2[1] = v1 /\ q2[2] = v2
    <2>1. Grown(q1, v2, q2)
        BY <1>1, GrownIs
    <2> HIDE DEF q2
    <2>2. 1 \in 1..Len(q1)
        BY <1>1
    <2> QED BY <1>1, <2>1, <2>2 DEF Grown
<1>4. Takes(a1, a2, v2)
    <2>1. a1 \in Decoding /\ ~a1.stop /\ Len(a1.quad) < 3
        BY <1>1, <1>2 DEF Takes, q1
    <2> QED BY <2>1, OneMore
<1> HIDE DEF q2
<1>5. q3 \in Seq(Nat) /\ Len(q3) = 3 /\ q3[1] = v1 /\ q3[2] = v2 /\ q3[3] = v3
    <2>1. Grown(q2, v3, q3)
        BY <1>3, GrownIs
    <2> HIDE DEF q3
    <2>2. 1 \in 1..Len(q2) /\ 2 \in 1..Len(q2)
        BY <1>3
    <2> QED BY <1>3, <2>1, <2>2 DEF Grown
<1>6. a1.quad = q1 /\ a2.quad = q2
    BY Zenon, <1>2, <1>4 DEF Takes, q1, q2
<1>7. Takes(a2, a3, v3)
    <2>1. a2 \in Decoding /\ ~a2.stop /\ Len(a2.quad) < 3
        BY <1>3, <1>4, <1>6 DEF Takes
    <2> QED BY <2>1, OneMore
<1> HIDE DEF q3
<1>8. /\ q \in Seq(Nat) /\ Len(q) = 4
      /\ q[1] = v1 /\ q[2] = v2 /\ q[3] = v3 /\ q[4] = v4
    <2>1. Grown(q3, v4, q)
        BY <1>5, GrownIs
    <2> HIDE DEF q
    <2>2. 1 \in 1..Len(q3) /\ 2 \in 1..Len(q3) /\ 3 \in 1..Len(q3)
        BY <1>5
    <2> QED BY <1>5, <2>1, <2>2 DEF Grown
<1>9. a3.quad = q3 /\ ~(Len(q3) < 3) /\ ~a3.stop
    BY <1>5, <1>6, <1>7 DEF Takes, q3
<1>10. a4 = Quad(size, a3, q)
    BY Zenon, <1>9 DEF DecodeStep, q
<1> HIDE DEF q
<1>11. a3 \in Decoding /\ a3.out = a0.out /\ a3.error = a0.error
    BY Zenon, <1>2, <1>4, <1>7 DEF Takes
<1> QED BY Zenon, <1>8, <1>9, <1>10, <1>11 DEF Completes

(* A decoder that has stopped takes nothing.                               *)
LEMMA NoneLeft ==
    ASSUME NEW size, NEW a0, a0.stop, NEW v1, NEW v2, NEW v3, NEW v4,
           NEW a1, NEW a2, NEW a3, NEW a4,
           a1 = DecodeStep(size, a0, v1), a2 = DecodeStep(size, a1, v2),
           a3 = DecodeStep(size, a2, v3), a4 = DecodeStep(size, a3, v4)
    PROVE  a4 = a0
<1>1. a1 = a0
    BY Zenon DEF DecodeStep
<1>2. a2 = a0
    BY Zenon, <1>1 DEF DecodeStep
<1>3. a3 = a0
    BY Zenon, <1>2 DEF DecodeStep
<1> QED BY Zenon, <1>3 DEF DecodeStep

(* So one group of characters more is one group of bytes more.             *)
LEMMA GroupDecodes ==
    ASSUME NEW data \in Seq(Byte), NEW size \in Nat, NEW g \in Nat, 3 * g < Len(data),
           NEW a0 \in Decoding, Decoded(a0, data, size, g),
           NEW v1 \in Nat, NEW v2 \in Nat, NEW v3 \in Nat, NEW v4 \in Nat,
           v1 # Junk, v2 # Junk, v3 # Junk, v4 # Junk, GroupIs(v1, v2, v3, v4, data, g),
           NEW a1, NEW a2, NEW a3, NEW a4,
           a1 = DecodeStep(size, a0, v1), a2 = DecodeStep(size, a1, v2),
           a3 = DecodeStep(size, a2, v3), a4 = DecodeStep(size, a3, v4)
    PROVE  Decoded(a4, data, size, g + 1)
<1>1. a0.quad = <<>>
    BY Zenon DEF Decoded
<1>2. CASE a0.stop
    <2>1. a4 = a0
        BY <1>2, NoneLeft
    <2> QED BY Zenon, <1>2, <2>1 DEF Decoded, Still
<1>3. CASE ~a0.stop
    <2>1. PICK q \in Seq(Nat) :
            /\ a3 \in Decoding /\ ~a3.stop /\ a3.out = a0.out /\ a3.error = a0.error
            /\ Len(q) = 4 /\ q[1] = v1 /\ q[2] = v2 /\ q[3] = v3 /\ q[4] = v4
            /\ a4 = Quad(size, a3, q)
        <3>1. Completes(size, a0, a3, a4, v1, v2, v3, v4)
            BY <1>1, <1>3, FourSteps
        <3> QED BY Zenon, <3>1 DEF Completes
    <2>2. Still(a0, data, g)
        BY Zenon, <1>3 DEF Decoded
    <2>3. Still(a3, data, g)
        BY Zenon, <2>1, <2>2 DEF Still
    <2>4. Len(q) >= 4 /\ GroupIs(q[1], q[2], q[3], q[4], data, g)
        <3>1. 4 >= 4
            OBVIOUS
        <3> QED BY Zenon, <2>1, <3>1
    <2>5. Decoded(Quad(size, a3, q), data, size, g + 1)
        BY <2>1, <2>3, <2>4, QuadDecodes
    <2> QED BY Zenon, <2>1, <2>5
<1> QED BY <1>2, <1>3

(* What the run through the whole text comes to.                           *)
LEMMA RunDecodes ==
    ASSUME NEW data \in Seq(Byte), NEW size \in Nat, NEW h,
           DecodeRun(h, Encoded(data), size)
    PROVE  Decoded(h[Len(Encoded(data))], data, size, GroupsOf(data))
<1> DEFINE e == Encoded(data)  G == GroupsOf(data)  N == Len(e)
           T == {g \in 0..G : Decoded(h[4 * g], data, size, g)}
<1>1. /\ G \in Nat /\ Len(data) \in Nat /\ 3 * G >= Len(data)
      /\ \A g \in Nat : g < G <=> 3 * g < Len(data)
    BY GroupsAre
<1>2. e \in Seq(Nat) /\ N = 4 * G /\ \A i \in 1..N : e[i] # Junk /\ e[i] \in Nat
    <2>1. e \in Seq(Nat) /\ N = 4 * G /\ \A i \in 1..N : e[i] # Junk
        BY EncodedType
    <2> HIDE DEF e
    <2> QED BY <2>1
<1>3. /\ h \in [0..N -> Decoding] /\ h[0] = Fresh
      /\ \A i \in 1..N : h[i] = DecodeStep(size, h[i - 1], e[i])
    BY DEF DecodeRun
<1> HIDE DEF e, G, N
<1>4. 0 \in T
    <2>1. 4 * 0 = 0 /\ 3 * 0 = 0 /\ 0 \in 0..G /\ 0 <= Len(data)
        BY <1>1
    <2>2. SubSeq(data, 1, 0) = <<>>
        BY SubSeqEmpty
    <2>3. Fresh.quad = <<>> /\ Fresh.out = <<>> /\ Fresh.error = 0 /\ ~Fresh.stop
        BY DEF Fresh
    <2>4. Decoded(Fresh, data, size, 0)
        BY Zenon, <2>1, <2>2, <2>3 DEF Decoded, Still
    <2> QED BY Zenon, <1>3, <2>1, <2>4
<1>5. ASSUME NEW g \in 0..(G - 1), g \in T PROVE g + 1 \in T
    <2> DEFINE k == 4 * g
    <2>1. /\ g \in Nat /\ 3 * g < Len(data) /\ g + 1 \in 0..G
          /\ 4 * (g + 1) = k + 4
        BY <1>1
    <2>2. /\ k \in 0..N /\ k + 1 \in 1..N /\ k + 2 \in 1..N /\ k + 3 \in 1..N
          /\ k + 4 \in 1..N /\ (k + 1) - 1 = k /\ (k + 2) - 1 = k + 1
          /\ (k + 3) - 1 = k + 2 /\ (k + 4) - 1 = k + 3
        BY <1>1, <1>2
    <2>3. Decoded(h[k], data, size, g)
        BY <1>5
    <2>4. GroupIs(e[k + 1], e[k + 2], e[k + 3], e[k + 4], data, g)
        BY <2>1, GroupsAreEncoded DEF e
    <2> HIDE DEF k
    <2>5. /\ h[k + 1] = DecodeStep(size, h[k], e[k + 1])
          /\ h[k + 2] = DecodeStep(size, h[k + 1], e[k + 2])
          /\ h[k + 3] = DecodeStep(size, h[k + 2], e[k + 3])
          /\ h[k + 4] = DecodeStep(size, h[k + 3], e[k + 4])
        BY Zenon, <1>3, <2>2
    <2>6. h[k] \in Decoding
        BY <1>3, <2>2
    <2>7. /\ e[k + 1] \in Nat /\ e[k + 2] \in Nat /\ e[k + 3] \in Nat /\ e[k + 4] \in Nat
          /\ e[k + 1] # Junk /\ e[k + 2] # Junk /\ e[k + 3] # Junk /\ e[k + 4] # Junk
        BY Zenon, <1>2, <2>2
    <2>8. Decoded(h[k + 4], data, size, g + 1)
        BY <2>1, <2>3, <2>4, <2>5, <2>6, <2>7, GroupDecodes
    <2> QED BY Zenon, <2>1, <2>8
<1>6. G \in T
    <2> HIDE DEF T
    <2>1. \A g \in 0..G : g \in T
        BY <1>1, <1>4, <1>5, InductionTo
    <2> QED BY <1>1, <2>1
<1>7. Decoded(h[N], data, size, G)
    BY Zenon, <1>2, <1>6
<1> QED BY <1>7 DEF e, G, N

(* A character of no meaning is as if it were not there.                   *)
LEMMA JunkIsPassed ==
    ASSUME NEW e \in Seq(Nat), NEW p \in 1..(Len(e) + 1), NEW size \in Nat, NEW h,
           DecodeRun(h, InsertAt(e, p, Junk), size)
    PROVE  \E k : DecodeRun(k, e, size) /\ k[Len(e)] = h[Len(InsertAt(e, p, Junk))]
<1> DEFINE N == Len(e)
           t == InsertAt(e, p, Junk)
           k == [i \in 0..N |-> IF i < p THEN h[i] ELSE h[i + 1]]
<1> DEFINE x == SubSeq(e, 1, p - 1)
           y == SubSeq(e, p, N)
           m == <<Junk>>
<1>0. /\ N \in Nat /\ p \in 1..(N + 1)
      /\ x \in Seq(Nat) /\ Len(x) = p - 1 /\ \A i \in 1..(p - 1) : x[i] = e[i]
      /\ y \in Seq(Nat) /\ Len(y) = N + 1 - p
      /\ \A i \in 1..(N + 1 - p) : y[i] = e[i + p - 1]
    OBVIOUS
<1>01. m \in Seq(Nat) /\ Len(m) = 1 /\ m[1] = Junk
    BY DEF Junk
<1>02. t = (x \o m) \o y
    BY Zenon DEF InsertAt
<1> HIDE DEF x, y, m, t, N
<1> DEFINE xm == x \o m
<1>03. Joins(Nat, x, m, xm) /\ Joins(Nat, xm, y, t)
    <2>1. Joins(Nat, x, m, xm)
        BY <1>0, <1>01, JoinsIs
    <2>2. xm \in Seq(Nat)
        BY Zenon, <2>1 DEF Joins
    <2>3. t = xm \o y
        BY Zenon, <1>02
    <2> HIDE DEF xm
    <2> QED BY <1>0, <2>1, <2>2, <2>3, JoinsIs
<1> HIDE DEF xm
<1>1. Len(xm) = p /\ Len(t) = N + 1 /\ N \in Nat /\ p \in 1..(N + 1)
    BY <1>0, <1>01, <1>03 DEF Joins
<1>2. /\ t[p] = Junk
      /\ \A i \in 1..N : i < p => t[i] = e[i]
      /\ \A i \in 1..N : i >= p => t[i + 1] = e[i]
    <2>1. p \in 1..Len(xm) /\ Len(x) + 1 = p /\ 1 \in 1..Len(m)
        BY <1>0, <1>01, <1>1
    <2>2. t[p] = xm[p] /\ xm[p] = m[1]
        BY Zenon, <1>03, <2>1 DEF Joins
    <2>3. ASSUME NEW i \in 1..N, i < p PROVE t[i] = e[i]
        <3>1. i \in 1..Len(xm) /\ i \in 1..Len(x) /\ i \in 1..(p - 1)
            BY <1>0, <1>1, <2>3
        <3> QED BY Zenon, <1>0, <1>03, <3>1 DEF Joins
    <2>4. ASSUME NEW i \in 1..N, i >= p PROVE t[i + 1] = e[i]
        <3> DEFINE j == i + 1 - p
        <3>1. /\ j \in 1..Len(y) /\ j \in 1..(N + 1 - p)
              /\ Len(xm) + j = i + 1 /\ j + p - 1 = i
            BY <1>0, <1>1, <2>4
        <3> HIDE DEF j
        <3>2. t[Len(xm) + j] = y[j] /\ y[j] = e[j + p - 1]
            BY Zenon, <1>0, <1>03, <3>1 DEF Joins
        <3> QED BY Zenon, <3>1, <3>2
    <2> QED BY <1>01, <2>2, <2>3, <2>4
<1> HIDE DEF t, N
<1>3. /\ h \in [0..(N + 1) -> Decoding] /\ h[0] = Fresh
      /\ \A i \in 1..(N + 1) : h[i] = DecodeStep(size, h[i - 1], t[i])
    BY <1>1 DEF DecodeRun, t
<1>4. h[p] = h[p - 1]
    <2>1. h[p] = DecodeStep(size, h[p - 1], Junk)
        BY <1>1, <1>2, <1>3 DEF N
    <2> QED BY <2>1 DEF DecodeStep
<1>5. k \in [0..N -> Decoding]
    <2>1. \A i \in 0..N : i \in 0..(N + 1) /\ i + 1 \in 0..(N + 1)
        BY <1>1
    <2> QED BY <1>3, <2>1
<1>6. k[0] = Fresh
    BY <1>1, <1>3
<1>7. ASSUME NEW i \in 1..N PROVE k[i] = DecodeStep(size, k[i - 1], e[i])
    <2>1. /\ i \in 0..N /\ i - 1 \in 0..N /\ i \in 1..(N + 1) /\ i + 1 \in 1..(N + 1)
          /\ (i + 1) - 1 = i /\ (i - 1) + 1 = i
        BY <1>1
    <2>2. CASE i < p
        <3>1. k[i] = h[i] /\ k[i - 1] = h[i - 1]
            BY <1>1, <2>1, <2>2
        <3> QED BY <1>2, <1>3, <2>1, <2>2, <3>1
    <2>3. CASE i = p
        <3>1. k[i] = h[i + 1] /\ k[i - 1] = h[i - 1] /\ h[i] = h[i - 1]
            BY <1>1, <1>4, <2>1, <2>3
        <3>2. t[i + 1] = e[i]
            BY <1>2, <2>3
        <3> QED BY <1>3, <2>1, <3>1, <3>2
    <2>4. CASE i > p
        <3>1. k[i] = h[i + 1] /\ k[i - 1] = h[i]
            BY <1>1, <2>1, <2>4
        <3>2. t[i + 1] = e[i]
            BY <1>2, <2>4
        <3> QED BY <1>3, <2>1, <3>1, <3>2
    <2> QED BY <2>2, <2>3, <2>4
<1>8. k[N] = h[N + 1]
    <2>1. N < p => p = N + 1 /\ p - 1 = N
        BY <1>1 DEF N
    <2> QED BY <1>1, <1>4, <2>1
<1> HIDE DEF k
<1>9. DecodeRun(k, e, size)
    BY <1>5, <1>6, <1>7 DEF DecodeRun, N
<1> QED BY <1>1, <1>8, <1>9 DEF t, N

(* Data encoded as base64 are decoded, whatever character of no meaning is *)
(* in the text.                                                            *)
IsDecoded(value, data, size) ==
    /\ value.out = Written(data, size)
    /\ size > Len(data) => value.error = 0
    /\ value.error \in {0, 1}

(* What the decoder has after the last group is what is promised.          *)
LEMMA DecodedIs ==
    ASSUME NEW data \in Seq(Byte), NEW size \in Nat, NEW acc,
           Decoded(acc, data, size, GroupsOf(data)), NEW value,
           value = [error |-> IF acc.error = 0 /\ acc.quad # <<>> THEN 2 ELSE acc.error,
                    out   |-> Written(acc.out, size)]
    PROVE  IsDecoded(value, data, size)
<1> DEFINE M == Len(data)  G == GroupsOf(data)
<1>1. M \in Nat /\ G \in Nat /\ 3 * G >= M
    BY GroupsAre
<1>2. value.error = acc.error /\ value.out = Written(acc.out, size)
    BY DEF Decoded
<1>3. CASE acc.error = 0 /\ acc.out = data
    BY <1>2, <1>3 DEF IsDecoded
<1>4. CASE Still(acc, data, G)
    <2> HIDE DEF G
    <2>1. acc.error = 0 /\ 3 * G <= M /\ acc.out = SubSeq(data, 1, 3 * G)
        BY Zenon, <1>4 DEF Still
    <2>2. 3 * G = M
        BY <1>1, <2>1
    <2>3. acc.out = data
        BY <2>1, <2>2, SubSeqFull
    <2> QED BY <1>3, <2>1, <2>3
<1>5. CASE acc.error = 1 /\ Fill(acc, data, size)
    <2>1. PICK n \in 0..M : acc.out = SubSeq(data, 1, n) /\ n >= size
        BY <1>5 DEF Fill
    <2> DEFINE p == SubSeq(data, 1, n)
    <2>2. p \in Seq(Byte) /\ Len(p) = n /\ \A i \in 1..n : p[i] = data[i]
        BY PrefixIs
    <2> HIDE DEF p
    <2>3. size <= Len(p) /\ Len(p) <= Len(data) /\ \A i \in 1..Len(p) : data[i] = p[i]
        BY <1>1, <2>1, <2>2
    <2>4. Written(p, size) = Written(data, size)
        BY <2>2, <2>3, WrittenAlike
    <2>5. ~(size > Len(data))
        BY <1>1, <2>1
    <2> QED BY <1>2, <1>5, <2>1, <2>4, <2>5 DEF IsDecoded, p
<1> QED BY Zenon, <1>3, <1>4, <1>5 DEF Decoded

(* base64decode: so for all data, a buffer of any size and each character  *)
(* of no meaning that is put in.                                           *)
LEMMA DecodeIs ==
    ASSUME NEW i, i.data \in Seq(Byte), i.size \in Nat, i.junk \in 0..3
    PROVE  IsDecoded(Decode(Base64Text(i), i.size), i.data, i.size)
<1> DEFINE data == i.data  size == i.size  e == Encoded(data)  t == Base64Text(i)
           p == i.junk + 1  N == Len(t)
<1>1. e \in Seq(Nat)
    BY EncodedType
<1>2. /\ i.junk > Len(e) => t = e
      /\ ~(i.junk > Len(e)) => t = InsertAt(e, p, Junk)
    BY Zenon DEF Base64Text
<1> HIDE DEF e, t
<1>3. ~(i.junk > Len(e)) => p \in 1..(Len(e) + 1)
    BY <1>1
<1>4. t \in Seq(Nat)
    <2>1. ASSUME p \in 1..(Len(e) + 1) PROVE InsertAt(e, p, Junk) \in Seq(Nat)
        <3> HIDE DEF p
        <3>1. SubSeq(e, 1, p - 1) \in Seq(Nat) /\ SubSeq(e, p, Len(e)) \in Seq(Nat)
            BY <1>1, <2>1
        <3>2. <<Junk>> \in Seq(Nat)
            BY DEF Junk
        <3>3. (SubSeq(e, 1, p - 1) \o <<Junk>>) \in Seq(Nat)
            BY <3>1, <3>2, ConcatProperties
        <3>4. (SubSeq(e, 1, p - 1) \o <<Junk>>) \o SubSeq(e, p, Len(e)) \in Seq(Nat)
            BY <3>1, <3>3, ConcatProperties
        <3> QED BY Zenon, <3>4 DEF InsertAt
    <2> QED BY Zenon, <1>1, <1>2, <1>3, <2>1
<1>5. PICK h : /\ DecodeRun(h, t, size)
               /\ Decode(t, size) =
                    [error |-> IF h[N].error = 0 /\ h[N].quad # <<>> THEN 2 ELSE h[N].error,
                     out   |-> Written(h[N].out, size)]
    BY Zenon, <1>4, DecodeRuns
<1>6. PICK k : DecodeRun(k, e, size) /\ k[Len(e)] = h[N]
    <2>1. CASE i.junk > Len(e)
        BY Zenon, <1>2, <1>5, <2>1
    <2>2. CASE ~(i.junk > Len(e))
        <3> HIDE DEF p, size
        <3>1. t = InsertAt(e, p, Junk) /\ p \in 1..(Len(e) + 1) /\ size \in Nat
            BY <1>2, <1>3, <2>2 DEF size
        <3>2. DecodeRun(h, InsertAt(e, p, Junk), size)
            BY Zenon, <1>5, <3>1
        <3>3. \E kk : DecodeRun(kk, e, size) /\ kk[Len(e)] = h[Len(InsertAt(e, p, Junk))]
            BY <1>1, <3>1, <3>2, JunkIsPassed
        <3> QED BY Zenon, <3>1, <3>3
    <2> QED BY Zenon, <2>1, <2>2
<1>7. Decoded(h[N], data, size, GroupsOf(data))
    <2>1. Decoded(k[Len(e)], data, size, GroupsOf(data))
        BY <1>6, RunDecodes DEF e
    <2> QED BY Zenon, <1>6, <2>1
<1> DEFINE value == Decode(t, size)
<1> HIDE DEF N
<1>8. IsDecoded(value, data, size)
    <2>1. value = [error |-> IF h[N].error = 0 /\ h[N].quad # <<>> THEN 2 ELSE h[N].error,
                   out   |-> Written(h[N].out, size)]
        BY Zenon, <1>5
    <2> HIDE DEF value, data, size
    <2>2. data \in Seq(Byte) /\ size \in Nat
        BY DEF data, size
    <2> QED BY <1>7, <2>1, <2>2, DecodedIs
<1> QED BY Zenon, <1>8 DEF t

(* The invariant: the input is one of those that the function has.         *)
TextInv ==
    /\ reader = "unfold" => input.text \in Headers /\ input.size \in Sizes
    /\ reader = "decode" =>
            input.data \in Datas /\ input.junk \in 0..3 /\ input.size \in Sizes
    /\ TextIsRecovered

(* No call has returned at the beginning.                                  *)
LEMMA TextInit == CallInit => TextInv
<1> SUFFICES ASSUME CallInit PROVE TextInv
    OBVIOUS
<1>1. result = NotYet
    BY DEF CallInit
<1>2. TextIsRecovered
    BY <1>1 DEF TextIsRecovered, Returned
<1>3. reader = "unfold" => input \in [text : Headers, size : Sizes]
    BY DEF CallInit
<1>4. reader = "decode" => input \in [data : Datas, junk : 0..3, size : Sizes]
    BY DEF CallInit
<1> QED BY <1>2, <1>3, <1>4 DEF TextInv

(* Each call keeps the invariant: by what the two helpers put out, above.  *)
LEMMA TextStep == TextInv /\ [CallNext]_callVars => TextInv'
<1> SUFFICES ASSUME TextInv, [CallNext]_callVars PROVE TextInv'
    OBVIOUS
<1>1. CASE UNCHANGED callVars
    BY <1>1 DEF TextInv, TextIsRecovered, Returned, callVars
<1>2. ASSUME NEW r, NEW value, Returns(r, value), r \notin {"unfold", "decode"}
      PROVE  TextInv'
    BY <1>2 DEF TextInv, TextIsRecovered, Returned, Returns
<1>3. CASE UnfoldHeader
    <2>1. /\ reader = "unfold" /\ reader' = reader /\ input' = input
          /\ result'.value = Unfold(input.text, input.size)
          /\ input.text \in Headers /\ input.size \in Sizes
        BY <1>3 DEF UnfoldHeader, Returns, TextInv
    <2>2. /\ input.text \in Seq(Range(input.text)) /\ input.size \in Nat
        BY <2>1, TextsAssumption
    <2>3. Unfold(input.text, input.size) = Written(Unfolded(input.text), input.size)
        BY Zenon, <2>2, UnfoldIs
    <2>4. TextIsRecovered'
        BY <2>1, <2>3 DEF TextIsRecovered, Returned
    <2> QED BY <2>1, <2>4 DEF TextInv
<1>4. CASE Base64Decode
    <2>1. /\ reader = "decode" /\ reader' = reader /\ input' = input
          /\ result'.value = Decode(Base64Text(input), input.size)
          /\ input.data \in Datas /\ input.junk \in 0..3 /\ input.size \in Sizes
        BY <1>4 DEF Base64Decode, Returns, TextInv
    <2>2. input.data \in Seq(Byte) /\ input.size \in Nat
        BY <2>1, TextsAssumption
    <2>3. IsDecoded(result'.value, input.data, input.size)
        BY <2>1, <2>2, DecodeIs
    <2>4. TextIsRecovered'
        BY <2>1, <2>3 DEF TextIsRecovered, Returned, IsDecoded
    <2> QED BY <2>1, <2>4 DEF TextInv
<1> QED BY <1>1, <1>2, <1>3, <1>4
        DEF CallNext, WriteHomeNet, GetTalkers, GetRrd, SkipOne, PointToOne,
            ExtractOne, SkipDnsName

(* What the two text helpers put out is the header without its folding and *)
(* the data that was encoded, of any length and for a buffer of any size,  *)
(* and encoded data are never taken for an error.                          *)
THEOREM TextHolds == CallSpec => []TextIsRecovered
<1>1. TextInv => TextIsRecovered
    BY DEF TextInv
<1> QED BY <1>1, TextInit, TextStep, PTL DEF CallSpec

-----------------------------------------------------------------------------
(***************************************************************************)
(* dns_skip_name.                                                          *)
(***************************************************************************)
IsStop(f, b) ==
    f = [i \in 1..(Len(b) + 192) |->
            IF i > Len(b) \/ b[i] = 0 \/ b[i] >= 192 THEN i ELSE f[i + b[i] + 1]]

(* A place in a packet where the search for the end of a name goes on.     *)
GoesOn(b, i) == ~(i > Len(b) \/ b[i] = 0 \/ b[i] >= 192)

(* A label ends after it began.                                            *)
LEMMA GoesFurther ==
    ASSUME NEW b \in Seq(Byte), NEW i \in 1..(Len(b) + 192), GoesOn(b, i)
    PROVE  /\ i \in 1..Len(b) /\ b[i] \in Nat
           /\ i + b[i] + 1 \in 1..(Len(b) + 192) /\ i + b[i] + 1 > i
<1>1. i \in 1..Len(b)
    BY DEF GoesOn
<1>2. b[i] \in Byte
    BY <1>1
<1>3. b[i] \in 0..255 /\ ~(b[i] >= 192)
    BY <1>2 DEF GoesOn, Byte
<1>4. Len(b) \in Nat
    OBVIOUS
<1> DEFINE x == b[i]
<1> HIDE DEF x
<1>5. x \in 0..255 /\ ~(x >= 192)
    BY <1>3 DEF x
<1>6. x \in Nat /\ i + x + 1 \in 1..(Len(b) + 192) /\ i + x + 1 > i
    BY <1>1, <1>4, <1>5
<1> QED BY <1>1, <1>6 DEF x

(* The function has a value, as each label leads further into the packet.  *)
LEMMA StopExists ==
    ASSUME NEW b \in Seq(Byte)
    PROVE  \E f : IsStop(f, b)
<1> DEFINE K == Len(b) + 192
           To(i) == i + b[i] + 1
           Body(f, i) == IF GoesOn(b, i) THEN f[To(i)] ELSE i
           Good(f, m) == \A i \in 1..K : i > K - m => f[i] = Body(f, i)
           T == {m \in 0..K : \E f \in [1..K -> Nat] : Good(f, m)}
<1>1. K \in Nat
    OBVIOUS
<1>2. \A i \in 1..K : GoesOn(b, i) => To(i) \in 1..K /\ To(i) > i
    BY GoesFurther
<1> HIDE DEF K, To
<1>3. 0 \in T
    <2>1. [i \in 1..K |-> i] \in [1..K -> Nat]
        OBVIOUS
    <2>2. \A i \in 1..K : ~(i > K - 0)
        BY <1>1
    <2> DEFINE f == [i \in 1..K |-> i]
    <2> HIDE DEF f
    <2>3. f \in [1..K -> Nat] /\ Good(f, 0)
        BY <2>1, <2>2 DEF f
    <2>4. 0 \in 0..K
        BY <1>1
    <2> HIDE DEF Good
    <2> QED BY Zenon, <2>3, <2>4
<1>4. ASSUME NEW m \in 0..(K - 1), m \in T PROVE m + 1 \in T
    <2>1. PICK f \in [1..K -> Nat] : Good(f, m)
        BY <1>4
    <2> DEFINE j == K - m
               v == Body(f, j)
               h == [i \in 1..K |-> IF i = j THEN v ELSE f[i]]
    <2>2. /\ j \in 1..K /\ m + 1 \in 0..K /\ j \in Nat
          /\ \A i \in 1..K : i > K - (m + 1) => i = j \/ i > K - m
          /\ ~(j > K - m)
        BY <1>1
    <2>3. v \in Nat
        BY <1>2, <2>2
    <2>4. h \in [1..K -> Nat]
        BY <2>2, <2>3
    <2>5. ASSUME NEW i \in 1..K, i >= j PROVE Body(h, i) = Body(f, i)
        <3>1. CASE GoesOn(b, i)
            <4>1. To(i) \in 1..K /\ To(i) > i
                BY <1>2, <3>1
            <4>2. To(i) # j
                BY <1>1, <2>2, <2>5, <4>1
            <4> HIDE DEF v, j
            <4>3. h[To(i)] = f[To(i)]
                BY <4>1, <4>2
            <4> HIDE DEF h
            <4> QED BY <3>1, <4>3
        <3>2. CASE ~GoesOn(b, i)
            BY <3>2
        <3> QED BY <3>1, <3>2
    <2>6. ASSUME NEW i \in 1..K, i > K - (m + 1) PROVE h[i] = Body(h, i)
        <3>1. CASE i = j
            <4>1. h[j] = v /\ j >= j
                BY <2>2
            <4>2. Body(h, j) = Body(f, j)
                BY Zenon, <2>2, <2>5, <4>1
            <4> QED BY Zenon, <3>1, <4>1, <4>2
        <3>2. CASE i # j
            <4>1. i > K - m /\ i >= j
                BY <1>1, <2>2, <2>6, <3>2
            <4>2. f[i] = Body(f, i)
                BY <2>1, <4>1
            <4>3. Body(h, i) = Body(f, i)
                BY Zenon, <2>5, <4>1
            <4>4. h[i] = f[i]
                <5> HIDE DEF v, j
                <5> QED BY <3>2
            <4> QED BY Zenon, <4>2, <4>3, <4>4
        <3> QED BY <3>1, <3>2
    <2> HIDE DEF h, j, v, Body
    <2>7. Good(h, m + 1)
        BY <2>6
    <2> HIDE DEF Good
    <2> QED BY <2>2, <2>4, <2>7
<1>5. K \in T
    <2> HIDE DEF T
    <2>1. \A m \in 0..K : m \in T
        BY <1>1, <1>3, <1>4, InductionTo
    <2> QED BY <1>1, <2>1
<1>6. PICK f \in [1..K -> Nat] : Good(f, K)
    BY <1>5
<1>7. \A i \in 1..K : f[i] = Body(f, i)
    <2>1. \A i \in 1..K : i > K - K
        BY <1>1
    <2> HIDE DEF Body
    <2> QED BY <1>6, <2>1
<1>8. f = [i \in 1..K |-> Body(f, i)]
    <2> HIDE DEF Body, Good
    <2> QED BY <1>7
<1>9. \A i \in 1..K : Body(f, i) =
        IF i > Len(b) \/ b[i] = 0 \/ b[i] >= 192 THEN i ELSE f[i + b[i] + 1]
    BY Zenon DEF GoesOn, To
<1>10. IsStop(f, b)
    <2>1. f = [i \in 1..K |->
            IF i > Len(b) \/ b[i] = 0 \/ b[i] >= 192 THEN i ELSE f[i + b[i] + 1]]
        <3> HIDE DEF Body, Good
        <3> QED BY Zenon, <1>8, <1>9
    <2> QED BY Zenon, <2>1 DEF IsStop, K
<1> QED BY <1>10

(* The search from the first place on.                                     *)
LEMMA SkipIs ==
    ASSUME NEW b \in Seq(Byte)
    PROVE  \E f : /\ \A i \in 1..(Len(b) + 192) :
                        f[i] = IF GoesOn(b, i) THEN f[i + b[i] + 1] ELSE i
                  /\ SkipName(b, 1) = IF f[1] > Len(b) THEN Fail
                                      ELSE f[1] + (IF b[f[1]] >= 192 THEN 2 ELSE 1)
<1> DEFINE F == CHOOSE f : f = [i \in 1..(Len(b) + 192) |->
                    IF i > Len(b) \/ b[i] = 0 \/ b[i] >= 192 THEN i ELSE f[i + b[i] + 1]]
<1>1. SkipName(b, 1) = IF F[1] > Len(b) THEN Fail
                       ELSE F[1] + (IF b[F[1]] >= 192 THEN 2 ELSE 1)
    BY Zenon DEF SkipName
<1>2. IsStop(F, b)
    BY Zenon, StopExists DEF IsStop
<1> HIDE DEF F
<1>3. \A i \in 1..(Len(b) + 192) :
        F[i] = IF GoesOn(b, i) THEN F[i + b[i] + 1] ELSE i
    BY <1>2 DEF IsStop, GoesOn
<1> QED BY Zenon, <1>1, <1>3

(* A packet with a name: the labels one after the other, and where each of *)
(* them begins.                                                            *)
LabelOf(n) == <<n>> \o [j \in 1..n |-> 7]

(* A label is its length and as many characters.                           *)
LEMMA LabelIs ==
    ASSUME NEW n \in 1..191
    PROVE  LabelOf(n) \in Seq(Byte) /\ Len(LabelOf(n)) = n + 1 /\ LabelOf(n)[1] = n
<1> DEFINE x == <<n>>
           y == [j \in 1..n |-> 7]
<1>1. x \in Seq(Byte) /\ Len(x) = 1 /\ x[1] = n
    BY DEF Byte
<1>2. y \in Seq(Byte) /\ Len(y) = n
    <2>1. \A j \in 1..n : 7 \in Byte
        BY DEF Byte
    <2> QED BY <2>1
<1>3. LabelOf(n) = x \o y
    BY Zenon DEF LabelOf
<1> HIDE DEF x, y
<1>4. Joins(Byte, x, y, x \o y)
    BY <1>1, <1>2, JoinsIs
<1> QED BY <1>1, <1>2, <1>3, <1>4 DEF Joins

(* The labels L one after the other, for each number of them: each begins  *)
(* where the ones before it end, with its length.                          *)
Labelled(fl, L) ==
    /\ fl \in [0..Len(L) -> Seq(Byte)]
    /\ fl[0] = <<>>
    /\ \A i \in 0..(Len(L) - 1) : Len(fl[i + 1]) = Len(fl[i]) + L[i + 1] + 1
    /\ \A i \in 0..Len(L) : \A a \in 0..(i - 1) :
            Len(fl[a]) < Len(fl[i]) /\ fl[i][Len(fl[a]) + 1] = L[a + 1]

(* The packet of a name begins so.                                         *)
LEMMA LabelsAre ==
    ASSUME NEW L \in Seq(1..191)
    PROVE  \E fl : Labelled(fl, L)
                /\ FlattenSeq([i \in DOMAIN L |-> <<L[i]>> \o [j \in 1..L[i] |-> 7]])
                        = fl[Len(L)]
<1> DEFINE m == Len(L)
           s == [i \in DOMAIN L |-> <<L[i]>> \o [j \in 1..L[i] |-> 7]]
<1>1. m \in Nat /\ DOMAIN L = 1..m /\ \A i \in 1..m : L[i] \in 1..191
    <2> DEFINE W == 1..191
    <2>1. L \in Seq(W)
        OBVIOUS
    <2> HIDE DEF W, s
    <2>2. m \in Nat /\ DOMAIN L = 1..m /\ \A i \in 1..m : L[i] \in W
        BY <2>1
    <2> QED BY <2>2 DEF W
<1>2. \A i \in 1..m : s[i] \in Seq(Byte) /\ Len(s[i]) = L[i] + 1 /\ s[i][1] = L[i]
    <2>1. \A i \in 1..m : s[i] = LabelOf(L[i])
        BY Zenon, <1>1 DEF LabelOf
    <2> HIDE DEF s, m
    <2> QED BY <1>1, <2>1, LabelIs
<1>3. s \in Seq(Seq(Byte)) /\ Len(s) = m
    <2>1. s = [i \in 1..m |-> s[i]]
        BY Zenon, <1>1
    <2> HIDE DEF s, m
    <2>2. [i \in 1..m |-> s[i]] \in Seq(Seq(Byte)) /\ Len([i \in 1..m |-> s[i]]) = m
        BY <1>1, <1>2
    <2> QED BY Zenon, <2>1, <2>2
<1> HIDE DEF s, m
<1>4. PICK fl \in [0..Len(s) -> Seq(Byte)] : Flattens(fl, s)
    BY <1>3, FlattenExists
<1>5. FlattenSeq(s) = fl[m]
    BY <1>3, <1>4, FlattenIs
<1>6. \A i \in 0..m : fl[i] \in Seq(Byte) /\ Len(fl[i]) \in Nat
    <2>1. \A i \in 0..m : fl[i] \in Seq(Byte)
        BY <1>3
    <2>2. \A x \in Seq(Byte) : Len(x) \in Nat
        OBVIOUS
    <2> QED BY Zenon, <2>1, <2>2
<1>7. ASSUME NEW i \in 0..(m - 1)
      PROVE  /\ i \in 0..m /\ i + 1 \in 1..m /\ i + 1 \in 0..m
             /\ Joins(Byte, fl[i], s[i + 1], fl[i + 1])
    <2>1. i \in 0..m /\ i + 1 \in 1..m /\ i + 1 \in 0..m
        BY <1>1
    <2>2. fl[i + 1] = fl[i] \o s[i + 1]
        BY <1>3, <1>4 DEF Flattens
    <2>3. fl[i] \in Seq(Byte) /\ s[i + 1] \in Seq(Byte)
        BY Zenon, <1>2, <1>6, <2>1
    <2>4. Joins(Byte, fl[i], s[i + 1], fl[i] \o s[i + 1])
        BY <2>3, JoinsIs
    <2> QED BY Zenon, <2>1, <2>2, <2>4
<1>8. ASSUME NEW i \in 0..(m - 1) PROVE Len(fl[i + 1]) = Len(fl[i]) + L[i + 1] + 1
    <2>1. i \in 0..m /\ i + 1 \in 1..m /\ Len(fl[i + 1]) = Len(fl[i]) + Len(s[i + 1])
        BY Zenon, <1>7 DEF Joins
    <2>2. Len(s[i + 1]) = L[i + 1] + 1 /\ Len(fl[i]) \in Nat /\ L[i + 1] \in 1..191
        BY Zenon, <1>1, <1>2, <1>6, <2>1
    <2> DEFINE x == Len(fl[i])  y == L[i + 1]  z == Len(s[i + 1])  w == Len(fl[i + 1])
    <2>3. w = x + z /\ z = y + 1 /\ x \in Nat /\ y \in 1..191
        BY Zenon, <2>1, <2>2
    <2> HIDE DEF x, y, z, w
    <2>4. w = x + y + 1
        BY <2>3
    <2> QED BY Zenon, <2>4 DEF x, y, w
<1> DEFINE R(i, a) == Len(fl[a]) < Len(fl[i]) /\ fl[i][Len(fl[a]) + 1] = L[a + 1]
           T == {i \in 0..m : \A a \in 0..(i - 1) : R(i, a)}
<1>9. 0 \in T
    <2>1. 0 \in 0..m /\ \A a \in 0..(0 - 1) : FALSE
        BY <1>1
    <2> HIDE DEF R
    <2> QED BY <2>1
<1>10. ASSUME NEW i \in 0..(m - 1), i \in T PROVE i + 1 \in T
    <2>1. /\ i \in 0..m /\ i + 1 \in 1..m /\ i + 1 \in 0..m
          /\ Joins(Byte, fl[i], s[i + 1], fl[i + 1])
        BY Zenon, <1>7
    <2>2. /\ Len(fl[i]) \in Nat /\ Len(fl[i + 1]) \in Nat /\ L[i + 1] \in 1..191
          /\ Len(s[i + 1]) = L[i + 1] + 1 /\ s[i + 1][1] = L[i + 1]
        BY Zenon, <1>1, <1>2, <1>6, <2>1
    <2> DEFINE x == Len(fl[i])  y == L[i + 1]  z == Len(s[i + 1])  w == Len(fl[i + 1])
    <2>20. w = x + y + 1 /\ z = y + 1 /\ x \in Nat /\ w \in Nat /\ y \in 1..191
        BY Zenon, <1>8, <2>2
    <2> HIDE DEF x, y, z, w
    <2>21. x < w /\ 1 \in 1..z
        BY <2>20
    <2>22. \A v \in Nat : v < x => v + 1 \in 1..x /\ v < w
        BY <2>20
    <2>3. ASSUME NEW a \in 0..((i + 1) - 1) PROVE R(i + 1, a)
        <3>1. a \in 0..m /\ a \in 0..i /\ (a = i \/ a \in 0..(i - 1))
            BY <1>1
        <3>2. CASE a = i
            <4>1. Len(fl[i]) < Len(fl[i + 1])
                BY Zenon, <2>21 DEF x, w
            <4>2. 1 \in 1..Len(s[i + 1])
                BY Zenon, <2>21 DEF z
            <4>3. fl[i + 1][Len(fl[i]) + 1] = L[i + 1]
                BY Zenon, <2>1, <2>2, <4>2 DEF Joins
            <4> QED BY Zenon, <3>2, <4>1, <4>3
        <3>3. CASE a \in 0..(i - 1)
            <4>1. Len(fl[a]) < Len(fl[i]) /\ fl[i][Len(fl[a]) + 1] = L[a + 1]
                BY Zenon, <1>10, <3>3
            <4>2. Len(fl[a]) \in Nat
                BY Zenon, <1>6, <3>1
            <4>3. Len(fl[a]) + 1 \in 1..Len(fl[i]) /\ Len(fl[a]) < Len(fl[i + 1])
                BY Zenon, <2>22, <4>1, <4>2 DEF x, w
            <4>4. fl[i + 1][Len(fl[a]) + 1] = fl[i][Len(fl[a]) + 1]
                BY Zenon, <2>1, <4>3 DEF Joins
            <4> QED BY Zenon, <4>1, <4>3, <4>4
        <3> QED BY Zenon, <3>1, <3>2, <3>3
    <2> HIDE DEF R
    <2> QED BY <2>1, <2>3
<1>11. \A i \in 0..m : i \in T
    <2> HIDE DEF T
    <2> QED BY <1>1, <1>9, <1>10, InductionTo
<1>12. fl \in [0..m -> Seq(Byte)] /\ fl[0] = <<>>
    BY <1>3, <1>4 DEF Flattens
<1>13. Labelled(fl, L)
    <2>1. \A i \in 0..m : \A a \in 0..(i - 1) : R(i, a)
        BY Zenon, <1>11
    <2> QED BY Zenon, <1>8, <1>12, <2>1 DEF Labelled, m
<1> QED BY Zenon, <1>5, <1>13 DEF s, m

(* A packet that begins like the labels of a name and what ends it.        *)
BeginsWith(b, fl, L, end) ==
    /\ b \in Seq(Byte)
    /\ \A a \in 0..(Len(L) - 1) :
            Len(fl[a]) + 1 <= Len(b) => b[Len(fl[a]) + 1] = L[a + 1]
    /\ Len(fl[Len(L)]) + 1 <= Len(b) => b[Len(fl[Len(L)]) + 1] = end

(* In such a packet the walk comes to what ends the name, if the packet    *)
(* has it.                                                                 *)
LEMMA NameIsWalked ==
    ASSUME NEW L \in Seq(1..191), NEW fl, Labelled(fl, L), NEW end \in {0} \cup 192..255,
           NEW b, BeginsWith(b, fl, L, end)
    PROVE  LET q == Len(fl[Len(L)]) + 1
           IN  SkipName(b, 1) = IF q <= Len(b) THEN q + (IF end = 0 THEN 1 ELSE 2) ELSE Fail
<1> DEFINE m == Len(L)  B == Len(b)
           q(i) == Len(fl[i]) + 1
<1>1. m \in Nat /\ B \in Nat /\ b \in Seq(Byte) /\ \A i \in 1..m : L[i] \in 1..191
    <2> DEFINE W == 1..191
    <2>1. L \in Seq(W)
        OBVIOUS
    <2> HIDE DEF W
    <2>2. m \in Nat /\ \A i \in 1..m : L[i] \in W
        BY <2>1
    <2>3. b \in Seq(Byte)
        BY Zenon DEF BeginsWith
    <2>4. B \in Nat
        BY <2>3
    <2> QED BY Zenon, <2>2, <2>3, <2>4 DEF W
<1>2. /\ q(0) = 1
      /\ \A i \in 0..m : q(i) \in Nat
    <2>1. q(0) = 1
        BY DEF Labelled
    <2>2. \A i \in 0..m : fl[i] \in Seq(Byte)
        BY DEF Labelled
    <2>3. \A x \in Seq(Byte) : Len(x) + 1 \in Nat
        OBVIOUS
    <2> QED BY Zenon, <2>1, <2>2, <2>3
<1>3. \A i \in 0..(m - 1) : q(i + 1) = q(i) + L[i + 1] + 1
    <2>1. ASSUME NEW i \in 0..(m - 1) PROVE q(i + 1) = q(i) + L[i + 1] + 1
        <3>1. Len(fl[i + 1]) = Len(fl[i]) + L[i + 1] + 1
            BY Zenon DEF Labelled
        <3>2. i + 1 \in 1..m /\ i \in 0..m /\ fl[i] \in Seq(Byte)
            <4>1. fl \in [0..m -> Seq(Byte)]
                BY Zenon DEF Labelled
            <4> HIDE DEF m
            <4> QED BY <1>1, <4>1
        <3>3. Len(fl[i]) \in Nat /\ L[i + 1] \in 1..191
            BY <1>1, <3>2
        <3> DEFINE x == Len(fl[i])  y == L[i + 1]  z == Len(fl[i + 1])
        <3>4. z = x + y + 1 /\ x \in Nat /\ y \in 1..191
            BY Zenon, <3>1, <3>3
        <3> HIDE DEF x, y, z
        <3>5. z + 1 = (x + 1) + y + 1
            BY <3>4
        <3> QED BY Zenon, <3>5 DEF x, y, z
    <2> QED BY <2>1
<1>4. /\ \A i \in 0..(m - 1) : q(i) <= B => b[q(i)] = L[i + 1]
      /\ q(m) <= B => b[q(m)] = end
    BY Zenon DEF BeginsWith
<1>5. PICK f :
        /\ \A i \in 1..(B + 192) : f[i] = IF GoesOn(b, i) THEN f[i + b[i] + 1] ELSE i
        /\ SkipName(b, 1) = IF f[1] > B THEN Fail
                            ELSE f[1] + (IF b[f[1]] >= 192 THEN 2 ELSE 1)
    BY Zenon, <1>1, SkipIs
<1> HIDE DEF q, m, B
<1> DEFINE On(i) == q(i) \in 1..(B + 192) /\ f[1] = f[q(i)]
           Past(i) == f[1] \in Nat /\ f[1] > B /\ B < q(i)
           T == {i \in 0..m : On(i) \/ Past(i)}
<1>6. 0 \in T
    BY <1>1, <1>2
<1>7. ASSUME NEW i \in 0..m, On(i), ~(q(i) <= B) PROVE Past(i)
    <2>1. ~GoesOn(b, q(i))
        BY <1>1, <1>2, <1>7 DEF GoesOn, B
    <2>2. f[q(i)] = q(i)
        BY Zenon, <1>5, <1>7, <2>1
    <2>3. f[1] = q(i) /\ q(i) \in Nat
        BY Zenon, <1>2, <1>7, <2>2
    <2> QED BY <1>1, <1>7, <2>3
<1>8. ASSUME NEW i \in 0..(m - 1), i \in T PROVE i + 1 \in T
    <2>1. i \in 0..m /\ i + 1 \in 0..m /\ i + 1 \in 1..m
        BY <1>1
    <2> DEFINE l == L[i + 1]
    <2>2. l \in 1..191 /\ q(i) \in Nat /\ q(i + 1) = q(i) + l + 1
        BY Zenon, <1>1, <1>2, <1>3, <2>1
    <2> HIDE DEF l
    <2>3. CASE Past(i)
        <3>1. B < q(i + 1)
            <4>1. \A u, v \in Nat, z \in 1..191 : u < v => u < v + z + 1
                OBVIOUS
            <4> QED BY Zenon, <1>1, <2>2, <2>3, <4>1
        <3> QED BY <2>1, <2>3, <3>1
    <2>4. CASE On(i) /\ ~(q(i) <= B)
        <3>1. Past(i)
            BY Zenon, <1>7, <2>1, <2>4
        <3> QED BY <2>3, <3>1
    <2>5. CASE On(i) /\ q(i) <= B
        <3>1. b[q(i)] = l
            BY Zenon, <1>4, <2>5 DEF l
        <3>2. GoesOn(b, q(i))
            BY <1>1, <2>2, <2>5, <3>1 DEF GoesOn, B
        <3>3. f[q(i)] = f[q(i) + b[q(i)] + 1]
            BY Zenon, <1>5, <2>5, <3>2
        <3>4. f[q(i)] = f[q(i + 1)]
            BY Zenon, <2>2, <3>1, <3>3
        <3>5. q(i + 1) \in 1..(B + 192)
            <4>1. \A u \in 1..(B + 192), v \in 1..191 :
                        u <= B => u + v + 1 \in 1..(B + 192)
                BY <1>1
            <4> QED BY Zenon, <2>2, <2>5, <4>1
        <3>6. On(i + 1)
            BY Zenon, <2>5, <3>4, <3>5
        <3> HIDE DEF On, Past
        <3> QED BY <2>1, <3>6
    <2> QED BY <1>8, <2>3, <2>4, <2>5
<1>9. On(m) \/ Past(m)
    <2> HIDE DEF T
    <2>1. \A i \in 0..m : i \in T
        BY <1>1, <1>6, <1>8, InductionTo
    <2>2. m \in 0..m
        BY <1>1
    <2> QED BY Zenon, <2>1, <2>2 DEF T
<1>10. m \in 0..m /\ q(m) \in Nat
    BY <1>1, <1>2
<1>11. CASE Past(m)
    <2>1. f[1] > B /\ ~(q(m) <= B)
        BY <1>1, <1>10, <1>11
    <2>2. SkipName(b, 1) = Fail
        BY Zenon, <1>5, <2>1
    <2> QED BY Zenon, <2>1, <2>2 DEF q, m, B
<1>12. CASE On(m) /\ ~(q(m) <= B)
    BY <1>7, <1>10, <1>11, <1>12
<1>13. CASE On(m) /\ q(m) <= B
    <2>1. b[q(m)] = end
        BY Zenon, <1>4, <1>13
    <2>2. ~GoesOn(b, q(m))
        BY <2>1 DEF GoesOn
    <2>3. f[1] = q(m)
        BY Zenon, <1>5, <1>13, <2>2
    <2>4. ~(f[1] > B) /\ (end >= 192 <=> end # 0)
        BY <1>1, <1>10, <1>13, <2>3
    <2>5. SkipName(b, 1) = q(m) + (IF end = 0 THEN 1 ELSE 2)
        <3>1. SkipName(b, 1) = f[1] + (IF b[f[1]] >= 192 THEN 2 ELSE 1)
            BY Zenon, <1>5, <2>4
        <3>2. SkipName(b, 1) = q(m) + (IF end >= 192 THEN 2 ELSE 1)
            BY Zenon, <2>1, <2>3, <3>1
        <3> QED BY Zenon, <2>4, <3>2
    <2> QED BY Zenon, <1>13, <2>5 DEF q, m, B
<1> QED BY <1>9, <1>11, <1>12, <1>13

(* A name is skipped when what it ends with is in the packet.              *)
NameSkipped(e, value) ==
    LET name == WholeName(e)
        need == Len(name) - Len(e.end) + 1
    IN  value = IF Len(NamePayload(e)) >= need THEN Len(name) + 1 ELSE Fail

(* The bytes of the packets.                                               *)
LEMMA SomeBytes == 0 \in Byte /\ 7 \in Byte /\ \A c \in 192..255 : c \in Byte
BY DEF Byte

(* dns_skip_name comes behind each name the runs have.                     *)
LEMMA NameIs ==
    ASSUME NEW e, e.labels \in Seq(1..191), e.length \in Nat,
           e.end = << 0 >> \/ \E c \in 192..255, x \in Byte : e.end = <<c, x>>
    PROVE  NameSkipped(e, SkipName(NamePayload(e), 1))
<1> DEFINE L == e.labels  m == Len(L)  end == e.end
           name == WholeName(e)
           tail == <<7, 0>>
           w == name \o tail
           b == NamePayload(e)
           first == end[1]
<1>1. PICK fl : Labelled(fl, L)
        /\ FlattenSeq([i \in DOMAIN L |-> <<L[i]>> \o [j \in 1..L[i] |-> 7]]) = fl[m]
    BY Zenon, LabelsAre
<1>2. /\ end \in Seq(Byte) /\ first \in {0} \cup 192..255
      /\ Len(end) = IF first = 0 THEN 1 ELSE 2
    <2>1. CASE end = <<0>>
        <3>1. <<0>> \in Seq(Byte) /\ Len(<<0>>) = 1 /\ <<0>>[1] = 0
            <4>1. 0 \in Byte
                BY Zenon, SomeBytes
            <4> QED BY <4>1
        <3> HIDE DEF end
        <3> QED BY <2>1, <3>1
    <2>2. CASE \E c \in 192..255, x \in Byte : end = <<c, x>>
        <3>1. PICK c \in 192..255, x \in Byte : end = <<c, x>>
            BY <2>2
        <3>2. <<c, x>> \in Seq(Byte) /\ Len(<<c, x>>) = 2 /\ <<c, x>>[1] = c
            <4>1. c \in Byte
                BY Zenon, SomeBytes
            <4> QED BY <4>1
        <3>3. c # 0 /\ c \in {0} \cup 192..255
            OBVIOUS
        <3> HIDE DEF end
        <3> QED BY <3>1, <3>2, <3>3
    <2> QED BY <2>1, <2>2
<1>3. name = fl[m] \o end
    BY Zenon, <1>1 DEF WholeName
<1>4. b = SubSeq(w, 1, Least(e.length, Len(w)))
    BY Zenon DEF NamePayload
<1>5. m \in Nat /\ \A i \in 0..m : fl[i] \in Seq(Byte) /\ Len(fl[i]) \in Nat
    <2>1. m \in Nat /\ \A i \in 0..m : fl[i] \in Seq(Byte)
        BY <1>1 DEF Labelled
    <2>2. \A x \in Seq(Byte) : Len(x) \in Nat
        OBVIOUS
    <2> QED BY Zenon, <2>1, <2>2
<1> HIDE DEF L, m, end, name, w, b, first
<1>6. m \in 0..m
    BY <1>5
<1>7. Joins(Byte, fl[m], end, name)
    BY <1>2, <1>3, <1>5, <1>6, JoinsIs
<1>8. name \in Seq(Byte) /\ tail \in Seq(Byte)
    <2>1. tail \in Seq(Byte)
        <3>1. 7 \in Byte /\ 0 \in Byte
            BY Zenon, SomeBytes
        <3> QED BY <3>1
    <2> QED BY Zenon, <1>7, <2>1 DEF Joins
<1>9. Joins(Byte, name, tail, w)
    BY <1>8, JoinsIs DEF w
<1> DEFINE n == Len(w)  k == Least(e.length, n)  q == Len(fl[m]) + 1  N == Len(name)
<1>10. /\ w \in Seq(Byte) /\ n \in Nat /\ k \in 0..n /\ q \in Nat \ {0}
       /\ N = q - 1 + Len(end) /\ N <= n /\ N \in Nat
    <2>1. w \in Seq(Byte) /\ Len(w) = Len(name) + Len(tail)
        BY Zenon, <1>9 DEF Joins
    <2>2. Len(name) = Len(fl[m]) + Len(end) /\ Len(name) \in Nat /\ Len(tail) = 2
        BY <1>7, <1>8 DEF Joins
    <2>3. Len(fl[m]) \in Nat /\ Len(end) \in Nat
        BY <1>2, <1>5, <1>6
    <2>4. e.length \in Nat
        OBVIOUS
    <2>5. k \in 0..n
        BY <2>1, <2>2, <2>4 DEF Least
    <2> QED BY <2>1, <2>2, <2>3, <2>5
<1>11. /\ b \in Seq(Byte) /\ Len(b) = k /\ \A i \in 1..k : b[i] = w[i]
    <2> HIDE DEF n, k
    <2>1. b = SubSeq(w, 1, k) /\ k \in 0..Len(w) /\ w \in Seq(Byte)
        BY <1>4, <1>10 DEF k, n
    <2> QED BY <2>1
<1>12. \A i \in 1..N : w[i] = name[i]
    BY Zenon, <1>9 DEF Joins
<1>13. \A i \in 1..Len(fl[m]) : name[i] = fl[m][i]
    BY Zenon, <1>7 DEF Joins
<1>14. name[q] = first
    <2>1. 1 \in 1..Len(end)
        BY <1>2
    <2> QED BY Zenon, <1>7, <2>1 DEF Joins, first
<1> HIDE DEF n, k, N
<1>15. BeginsWith(b, fl, L, first)
    <2>1. ASSUME NEW a \in 0..(m - 1), Len(fl[a]) + 1 <= Len(b)
          PROVE  b[Len(fl[a]) + 1] = L[a + 1]
        <3> DEFINE x == Len(fl[a])
        <3>1. x < Len(fl[m]) /\ fl[m][x + 1] = L[a + 1]
            BY Zenon, <1>1, <1>6 DEF Labelled, m
        <3>2. a \in 0..m
            BY <1>5
        <3>3. x \in Nat
            BY Zenon, <1>5, <3>2
        <3> HIDE DEF x
        <3>4. x + 1 \in 1..Len(fl[m]) /\ x + 1 \in 1..N
            <4> DEFINE y == Len(fl[m])  z == Len(end)
            <4>1. y \in Nat /\ z \in {1, 2} /\ x < y
                BY <1>2, <1>5, <1>6, <3>1
            <4>2. N = (y + 1) - 1 + z
                BY Zenon, <1>10
            <4> HIDE DEF y, z
            <4>3. x + 1 \in 1..y /\ x + 1 \in 1..N
                BY <3>3, <4>1, <4>2
            <4> QED BY Zenon, <4>3 DEF y
        <3>5. x + 1 \in 1..k
            BY <1>10, <1>11, <2>1, <3>3 DEF x
        <3> QED BY Zenon, <1>11, <1>12, <1>13, <3>1, <3>4, <3>5 DEF x
    <2>2. ASSUME q <= Len(b) PROVE b[q] = first
        <3>1. q \in 1..k /\ q \in 1..N
            <4> HIDE DEF q
            <4> QED BY <1>2, <1>10, <1>11, <2>2
        <3> QED BY Zenon, <1>11, <1>12, <1>14, <3>1
    <2> QED BY Zenon, <1>11, <2>1, <2>2 DEF BeginsWith, m
<1>16. SkipName(b, 1) = IF q <= Len(b) THEN q + (IF first = 0 THEN 1 ELSE 2) ELSE Fail
    <2>1. L \in Seq(1..191)
        BY DEF L
    <2> QED BY Zenon, <1>1, <1>2, <1>15, <2>1, NameIsWalked DEF m
<1>17. /\ N - Len(end) + 1 = q /\ (Len(b) >= q <=> q <= Len(b))
       /\ q + (IF first = 0 THEN 1 ELSE 2) = N + 1
    <2> HIDE DEF q
    <2>1. Len(b) \in Nat /\ Len(end) \in Nat
        BY <1>2, <1>10, <1>11
    <2> QED BY <1>2, <1>10, <2>1
<1>18. SkipName(b, 1) = IF Len(b) >= N - Len(end) + 1 THEN N + 1 ELSE Fail
    <2> HIDE DEF q
    <2> QED BY Zenon, <1>16, <1>17
<1> QED BY Zenon, <1>18 DEF NameSkipped, b, N, name, end

-----------------------------------------------------------------------------
(***************************************************************************)
(* so-util_ber.c                                                           *)
(***************************************************************************)
LEMMA WeightIs ==
    /\ Weight[0] = 1
    /\ \A k \in 0..127 : Weight[k] \in Nat \ {0}
    /\ \A k \in 0..126 : Weight[k + 1] = 256 * Weight[k]
<1> DEFINE S == Nat \ {0}
           g == [p \in (1..127) \X S |-> 256 * p[2]]
           W == CHOOSE f : f = [k \in 0..127 |-> IF k = 0 THEN 1 ELSE 256 * f[k - 1]]
<1>1. Weight = W
    BY Zenon DEF Weight
<1>2. 1 \in S /\ 127 \in Nat /\ \A x \in S : 256 * x \in S
    OBVIOUS
<1>3. g \in [(1..127) \X S -> S] /\ \A i \in 1..127, x \in S : g[<<i, x>>] = 256 * x
    <2> HIDE DEF S
    <2> QED BY <1>2
<1> HIDE DEF S, g, W
<1>4. PICK h : IsRun(h, S, 1, 127, g)
    BY Zenon, <1>2, <1>3, RunExists
<1>5. h \in [0..127 -> S] /\ h[0] = 1
    BY Zenon, <1>4 DEF IsRun
<1>6. ASSUME NEW k \in 1..127 PROVE h[k] = 256 * h[k - 1]
    <2>1. k - 1 \in 0..(127 - 1) /\ (k - 1) + 1 = k /\ k - 1 \in 0..127
        OBVIOUS
    <2>2. h[(k - 1) + 1] = g[<<(k - 1) + 1, h[k - 1]>>] /\ h[k - 1] \in S
        BY Zenon, <1>4, <1>5, <2>1 DEF IsRun
    <2>3. h[k] = g[<<k, h[k - 1]>>] /\ h[k - 1] \in S
        BY <2>1, <2>2
    <2> QED BY Zenon, <1>3, <2>3
<1>7. h = [k \in 0..127 |-> IF k = 0 THEN 1 ELSE 256 * h[k - 1]]
    <2>1. \A k \in 0..127 : k # 0 => k \in 1..127
        OBVIOUS
    <2>2. \A k \in 0..127 : h[k] = IF k = 0 THEN 1 ELSE 256 * h[k - 1]
        BY Zenon, <1>5, <1>6, <2>1
    <2> QED BY <1>5, <2>2
<1>8. W = [k \in 0..127 |-> IF k = 0 THEN 1 ELSE 256 * W[k - 1]]
    BY Zenon, <1>7 DEF W
<1>9. W[0] = 1
    <2>1. 0 \in 0..127
        OBVIOUS
    <2> QED BY <1>8, <2>1
<1>10. ASSUME NEW k \in 0..126 PROVE W[k + 1] = 256 * W[k]
    <2>1. k + 1 \in 0..127 /\ k + 1 # 0 /\ (k + 1) - 1 = k
        OBVIOUS
    <2> QED BY <1>8, <2>1
<1> DEFINE T == {k \in 0..127 : W[k] \in S}
<1>11. 0 \in T
    BY <1>2, <1>9
<1>12. ASSUME NEW k \in 0..(127 - 1), k \in T PROVE k + 1 \in T
    <2>1. k \in 0..126 /\ k + 1 \in 0..127
        OBVIOUS
    <2>2. W[k] \in S
        BY <1>12
    <2> QED BY <1>2, <1>10, <2>1, <2>2
<1>13. \A k \in 0..127 : W[k] \in S
    <2> HIDE DEF T
    <2>1. \A k \in 0..127 : k \in T
        BY Zenon, <1>2, <1>11, <1>12, InductionTo
    <2> QED BY Zenon, <2>1 DEF T
<1> QED BY Zenon, <1>1, <1>9, <1>10, <1>13 DEF S

(* The last digit of a number that is left of another one.                 *)
LEMMA DigitMore ==
    ASSUME NEW a \in Nat, NEW L \in Nat \ {0}
    PROVE  a \div L = 256 * (a \div (256 * L)) + ((a \div L) % 256)
<1> DEFINE q == a \div L
           r == a % L
           m == q \div 256
           s == q % 256
<1>1. q \in Int /\ r \in 0..(L - 1) /\ a = L * q + r
    BY DivMod
<1> HIDE DEF q, r
<1>2. m \in Int /\ s \in 0..255 /\ q = 256 * m + s
    BY <1>1, DivMod
<1> HIDE DEF m, s
<1> DEFINE K == 256 * L
           z == L * s + r
<1>3. K \in Nat \ {0} /\ z \in 0..(K - 1)
    <2>1. 255 - s \in Nat /\ L \in Nat /\ s \in Nat
        BY <1>2
    <2>2. \A x, y \in Nat : x * y \in Nat
        OBVIOUS
    <2>3. L * (255 - s) \in Nat /\ L * s \in Nat
        BY Zenon, <2>1, <2>2
    <2>4. L * (255 - s) = 255 * L - L * s
        BY <2>1
    <2> DEFINE u == L * s
    <2>5. 255 * L - u \in Nat /\ u \in Nat
        BY Zenon, <2>3, <2>4
    <2> HIDE DEF u
    <2>6. u + r \in 0..(256 * L - 1)
        BY <1>1, <2>5
    <2> QED BY <2>6 DEF u
<1>4. a = K * m + z
    <2>1. L * q = K * m + L * s
        BY <1>2
    <2>2. L * q \in Int /\ K * m \in Int /\ L * s \in Int /\ r \in Int
        BY <1>1, <1>2
    <2> DEFINE x == L * q  y == K * m  w == L * s
    <2>3. x = y + w /\ x \in Int /\ y \in Int /\ w \in Int /\ a = x + r
        BY Zenon, <1>1, <2>1, <2>2
    <2> HIDE DEF x, y, w
    <2>4. a = y + (w + r)
        BY <2>2, <2>3
    <2> QED BY Zenon, <2>4 DEF y, w, z
<1> HIDE DEF K, z
<1>5. a \div K = m
    <2>1. (K * m + z) \div K = m
        BY <1>2, <1>3, DivIs
    <2> QED BY Zenon, <1>4, <2>1
<1>7. q = 256 * (a \div K) + (q % 256)
    BY Zenon, <1>2, <1>5 DEF s
<1> QED BY Zenon, <1>7 DEF K, q

(* The numbers that the first of the bytes make.                           *)
Counts(h, bytes) ==
    /\ h \in [0..Len(bytes) -> Nat]
    /\ h[0] = 0
    /\ \A i \in 1..Len(bytes) : h[i] = h[i - 1] * 256 + bytes[i]

(* A fold counts like that.                                                *)
LEMMA NumberRuns ==
    ASSUME NEW text \in Seq(Byte)
    PROVE  \E h : Counts(h, text) /\ Number(text) = h[Len(text)]
<1> DEFINE A == Nat
           S == Byte
           op == [p \in A \X S |-> p[1] * 256 + p[2]]
           Body(f) == [t \in SUBSET DOMAIN text |->
                        IF t = {} THEN 0
                        ELSE f[t \ {Max(t)}] * 256 + text[Max(t)]]
           F == CHOOSE f : f = Body(f)
           v == [t \in SUBSET DOMAIN text |->
                    F[t \ {Max(t)}] * 256 + text[Max(t)]]
           N == Len(text)
<1>1. Number(text) = F[DOMAIN text]
    BY Zenon DEF Number, FoldLeft, MapThenFoldSet
<1>2. op \in [A \X S -> A] /\ \A a \in A, e \in S : op[<<a, e>>] = a * 256 + e
    <2>1. \A a \in A, e \in S : a * 256 + e \in A
        BY DEF Byte
    <2> HIDE DEF A
    <2> QED BY <2>1
<1>3. 0 \in A
    OBVIOUS
<1>4. N \in Nat /\ DOMAIN text = 1..N /\ \A i \in 1..N : text[i] \in S
    OBVIOUS
<1>40. text \in Seq(S)
    OBVIOUS
<1> HIDE DEF op, A, N, S
<1>5. PICK f \in [SUBSET DOMAIN text -> A] : FoldsBy(f, op, 0, text)
    BY <1>2, <1>3, <1>40, FoldExists
<1>6. ASSUME NEW t \in SUBSET DOMAIN text, t # {}
      PROVE  text[Max(t)] \in S /\ t \ {Max(t)} \in SUBSET DOMAIN text
    <2>1. Max(t) \in t
        BY <1>4, <1>6, MaxIs
    <2> QED BY <1>4, <2>1
<1>7. ASSUME NEW t \in SUBSET DOMAIN text PROVE f[t] = Body(f)[t]
    <2>1. f[t] = IF t = {} THEN 0 ELSE op[<<f[t \ {Max(t)}], text[Max(t)]>>]
        BY <1>5 DEF FoldsBy
    <2>2. t # {} => f[t \ {Max(t)}] \in A /\ text[Max(t)] \in S
        BY <1>5, <1>6
    <2> QED BY <1>2, <2>1, <2>2
<1>8. F = Body(F)
    <2>1. f = Body(f)
        BY <1>7 DEF FoldsBy
    <2> HIDE DEF Body
    <2> QED BY <2>1
<1> HIDE DEF F
<1>9. ASSUME NEW t \in SUBSET DOMAIN text, t # {}, F[t \ {Max(t)}] \in A
      PROVE  v[t] = op[<<F[t \ {Max(t)}], text[Max(t)]>>]
    BY <1>2, <1>6, <1>9
<1>10. F = [t \in SUBSET DOMAIN text |-> IF t = {} THEN 0 ELSE v[t]]
    BY <1>8
<1> HIDE DEF v
<1>11. Runs(F, A, op, 0, text)
    <2>1. FoldsWith(F, v, A, op, 0, text)
        BY <1>9, <1>10 DEF FoldsWith
    <2> QED BY <1>2, <1>3, <1>40, <2>1, FoldRuns
<1>12. PICK h \in [0..N -> A] :
            /\ h[0] = 0
            /\ \A i \in 1..N : h[i] = op[<<h[i - 1], text[i]>>]
            /\ F[DOMAIN text] = h[N]
    BY <1>11 DEF Runs, N
<1>13. ASSUME NEW i \in 1..N PROVE h[i] = h[i - 1] * 256 + text[i]
    <2>1. i - 1 \in 0..N
        BY <1>4
    <2>2. h[i - 1] \in A /\ text[i] \in S
        BY <1>4, <2>1
    <2>3. h[i] = op[<<h[i - 1], text[i]>>]
        BY <1>12
    <2> QED BY <1>2, <2>2, <2>3
<1>14. Counts(h, text)
    BY <1>12, <1>13 DEF Counts, A, N
<1> QED BY Zenon, <1>1, <1>12, <1>14 DEF N

(* There is one way to count.                                              *)
LEMMA NumberIs ==
    ASSUME NEW text \in Seq(Byte), NEW h, Counts(h, text)
    PROVE  Number(text) = h[Len(text)] /\ Number(text) \in Nat
<1> DEFINE N == Len(text)
<1>1. PICK k : Counts(k, text) /\ Number(text) = k[N]
    BY Zenon, NumberRuns
<1> DEFINE T == {i \in 0..N : k[i] = h[i]}
<1>2. N \in Nat
    OBVIOUS
<1>3. 0 \in T
    BY <1>1, <1>2 DEF Counts
<1>4. ASSUME NEW i \in 0..(N - 1), i \in T PROVE i + 1 \in T
    <2>1. i + 1 \in 1..N /\ i + 1 \in 0..N /\ (i + 1) - 1 = i
        BY <1>2
    <2>2. /\ k[i + 1] = k[(i + 1) - 1] * 256 + text[i + 1]
          /\ h[i + 1] = h[(i + 1) - 1] * 256 + text[i + 1]
        BY Zenon, <1>1, <2>1 DEF Counts
    <2>3. k[i + 1] = h[i + 1]
        BY <1>4, <2>1, <2>2
    <2> QED BY <2>1, <2>3
<1>5. N \in T
    <2> HIDE DEF T
    <2>1. \A i \in 0..N : i \in T
        BY Zenon, <1>2, <1>3, <1>4, InductionTo
    <2> QED BY <1>2, <2>1
<1>6. h[N] \in Nat
    BY <1>2 DEF Counts
<1> QED BY <1>1, <1>5, <1>6

(* The digits of a number, all of them, count the number.                  *)
LEMMA DigitsAre ==
    ASSUME NEW k \in 0..127, NEW n \in Nat, n < Weight[k]
    PROVE  LET d == [i \in 1..k |-> (n \div Weight[k - i]) % 256]
           IN  d \in Seq(Byte) /\ Len(d) = k /\ Number(d) = n
<1> DEFINE d == [i \in 1..k |-> (n \div Weight[k - i]) % 256]
           h == [i \in 0..k |-> n \div Weight[k - i]]
<1>1. \A i \in 0..k : Weight[k - i] \in Nat \ {0}
    <2>1. \A i \in 0..k : k - i \in 0..127
        OBVIOUS
    <2> QED BY Zenon, <2>1, WeightIs
<1>2. \A L \in Nat \ {0} : n \div L \in Nat
    OBVIOUS
<1>3. \A q \in Nat : q % 256 \in Byte
    BY DEF Byte
<1>4. \A i \in 0..k : h[i] \in Nat /\ h[i] = n \div Weight[k - i]
    BY <1>1, <1>2
<1>5. ASSUME NEW i \in 1..k PROVE d[i] = (h[i] % 256) /\ d[i] \in Byte
    <2>1. i \in 0..k
        OBVIOUS
    <2>2. d[i] = ((n \div Weight[k - i]) % 256)
        OBVIOUS
    <2>3. h[i] \in Nat /\ h[i] = n \div Weight[k - i]
        BY Zenon, <1>4, <2>1
    <2> HIDE DEF d, h
    <2>4. d[i] = (h[i] % 256)
        BY Zenon, <2>2, <2>3
    <2>5. (h[i] % 256) \in Byte
        BY Zenon, <1>3, <2>3
    <2> QED BY Zenon, <2>4, <2>5
<1>6. d \in Seq(Byte) /\ Len(d) = k
    <2> DEFINE G(i) == (n \div Weight[k - i]) % 256
    <2>1. \A i \in 1..k : G(i) \in Byte
        BY <1>5
    <2> HIDE DEF G
    <2>2. [i \in 1..k |-> G(i)] \in Seq(Byte) /\ Len([i \in 1..k |-> G(i)]) = k
        BY <2>1
    <2> QED BY <2>2 DEF G
<1>7. h[0] = 0
    <2>1. \A L \in Nat \ {0} : n < L => n \div L = 0
        OBVIOUS
    <2>2. 0 \in 0..k /\ k - 0 = k
        OBVIOUS
    <2> HIDE DEF h
    <2> QED BY <1>1, <1>4, <2>1, <2>2
<1>8. ASSUME NEW i \in 1..k PROVE h[i] = h[i - 1] * 256 + d[i]
    <2> DEFINE j == k - i
    <2>1. j \in 0..126 /\ k - (i - 1) = j + 1 /\ i \in 0..k /\ i - 1 \in 0..k
        OBVIOUS
    <2>2. Weight[j + 1] = 256 * Weight[j] /\ Weight[j] \in Nat \ {0}
        BY Zenon, <1>1, <2>1, WeightIs
    <2>3. n \div Weight[j] = 256 * (n \div (256 * Weight[j])) + ((n \div Weight[j]) % 256)
        BY Zenon, <2>2, DigitMore
    <2>4. h[i] = n \div Weight[j] /\ h[i - 1] = n \div Weight[j + 1]
        BY <1>4, <2>1
    <2>5. h[i - 1] = n \div (256 * Weight[j])
        BY Zenon, <2>2, <2>4
    <2>6. h[i] = 256 * h[i - 1] + d[i]
        <3> HIDE DEF h, d, j
        <3> QED BY Zenon, <1>5, <2>3, <2>4, <2>5
    <2>7. h[i - 1] \in Nat
        BY Zenon, <1>4, <2>1
    <2> HIDE DEF h, d
    <2> QED BY <2>6, <2>7
<1>9. h \in [0..k -> Nat]
    BY <1>4
<1> HIDE DEF d
<1>10. h[k] = n
    <2>1. k - k = 0 /\ k \in 0..k /\ n \div 1 = n
        OBVIOUS
    <2> HIDE DEF h
    <2> QED BY <1>4, <2>1, WeightIs
<1> HIDE DEF h
<1>11. Counts(h, d)
    BY <1>6, <1>7, <1>8, <1>9 DEF Counts
<1>12. Number(d) = n
    BY <1>6, <1>10, <1>11, NumberIs
<1> QED BY Zenon, <1>6, <1>12 DEF d

(* What an integer of the machine counts to.                               *)
LEMMA PowerIs ==
    /\ 256 ^ IntBytes \in Nat \ {0}
    /\ 256 ^ IntBytes = Weight[IntBytes]
    /\ \A m \in 0..IntBytes : Weight[m] <= 256 ^ IntBytes
    /\ 128 <= 256 ^ IntBytes
<1>1. /\ Weight[0] = 1 /\ Weight[1] = 256 /\ Weight[2] = 65536
      /\ Weight[3] = 16777216 /\ Weight[4] = 4294967296
    <2>1. /\ 0 \in 0..126 /\ 1 \in 0..126 /\ 2 \in 0..126 /\ 3 \in 0..126
          /\ 0 + 1 = 1 /\ 1 + 1 = 2 /\ 2 + 1 = 3 /\ 3 + 1 = 4
        OBVIOUS
    <2>2. /\ Weight[1] = 256 * Weight[0] /\ Weight[2] = 256 * Weight[1]
          /\ Weight[3] = 256 * Weight[2] /\ Weight[4] = 256 * Weight[3]
        BY <2>1, WeightIs
    <2>3. Weight[0] = 1
        BY WeightIs
    <2> QED BY <2>2, <2>3
<1>3. IntBytes \in 1..4
    BY IntBytesAssumption
<1> DEFINE P == 256 ^ IntBytes
<1>4. CASE IntBytes = 1
    <2>0. P = 256 ^ 1
        BY Zenon, <1>4
    <2> HIDE DEF P
    <2>1. P = 256
        BY <2>0
    <2>2. \A m \in 0..1 : m = 0 \/ m = 1
        OBVIOUS
    <2>3. P \in Nat \ {0} /\ P = Weight[1] /\ 128 <= P /\ \A m \in 0..1 : Weight[m] <= P
        BY <1>1, <2>1, <2>2
    <2> QED BY Zenon, <1>4, <2>3 DEF P
<1>5. CASE IntBytes = 2
    <2>0. P = 256 ^ 2
        BY Zenon, <1>5
    <2> HIDE DEF P
    <2>1. P = 65536
        BY <2>0
    <2>2. \A m \in 0..2 : m = 0 \/ m = 1 \/ m = 2
        OBVIOUS
    <2>3. P \in Nat \ {0} /\ P = Weight[2] /\ 128 <= P /\ \A m \in 0..2 : Weight[m] <= P
        BY <1>1, <2>1, <2>2
    <2> QED BY Zenon, <1>5, <2>3 DEF P
<1>6. CASE IntBytes = 3
    <2>0. P = 256 ^ 3
        BY Zenon, <1>6
    <2> HIDE DEF P
    <2>1. P = 16777216
        BY <2>0
    <2>2. \A m \in 0..3 : m = 0 \/ m = 1 \/ m = 2 \/ m = 3
        OBVIOUS
    <2>3. P \in Nat \ {0} /\ P = Weight[3] /\ 128 <= P /\ \A m \in 0..3 : Weight[m] <= P
        BY <1>1, <2>1, <2>2
    <2> QED BY Zenon, <1>6, <2>3 DEF P
<1>7. CASE IntBytes = 4
    <2>0. P = 256 ^ 4
        BY Zenon, <1>7
    <2> HIDE DEF P
    <2>1. P = 4294967296
        BY <2>0
    <2>2. \A m \in 0..4 : m = 0 \/ m = 1 \/ m = 2 \/ m = 3 \/ m = 4
        OBVIOUS
    <2>3. P \in Nat \ {0} /\ P = Weight[4] /\ 128 <= P /\ \A m \in 0..4 : Weight[m] <= P
        BY <1>1, <2>1, <2>2
    <2> QED BY Zenon, <1>7, <2>3 DEF P
<1> QED BY <1>3, <1>4, <1>5, <1>6, <1>7

(* The bytes from the first that counts: f is its place, or behind all.    *)
StartsAt(f, bytes) ==
    /\ f \in 1..(Len(bytes) + 1)
    /\ \A i \in 1..(f - 1) : bytes[i] = 0
    /\ f <= Len(bytes) => bytes[f] # 0

(* ber_get_int leaves out the zeros in front.                              *)
LEMMA StartIs ==
    ASSUME NEW bytes \in Seq(Byte)
    PROVE  \E f : /\ StartsAt(f, bytes)
                  /\ GetInt(bytes) = IF Len(bytes) + 1 - f > IntBytes THEN Fail
                                     ELSE Number(SubSeq(bytes, f, Len(bytes)))
<1> DEFINE value == {i \in DOMAIN bytes : bytes[i] # 0}
           f == IF value = {} THEN Len(bytes) + 1
                ELSE CHOOSE i \in value : \A j \in value : i <= j
<1>1. GetInt(bytes) = IF Len(bytes) + 1 - f > IntBytes THEN Fail
                      ELSE Number(SubSeq(bytes, f, Len(bytes)))
    BY Zenon DEF GetInt
<1>2. Len(bytes) \in Nat /\ DOMAIN bytes = 1..Len(bytes)
    OBVIOUS
<1>3. StartsAt(f, bytes)
    <2>1. CASE value = {}
        <3>1. f = Len(bytes) + 1
            BY Zenon, <2>1
        <3>2. \A i \in 1..Len(bytes) : bytes[i] = 0
            BY <1>2, <2>1
        <3> HIDE DEF f
        <3> QED BY <1>2, <3>1, <3>2 DEF StartsAt
    <2>2. CASE value # {}
        <3>1. value \in SUBSET Nat
            BY <1>2
        <3>2. \E i \in value : \A j \in value : i <= j
            <4> HIDE DEF value
            <4> QED BY <2>2, <3>1, LeastNat
        <3>3. f \in value /\ \A j \in value : f <= j
            <4> HIDE DEF value
            <4> QED BY <2>2, <3>2
        <3> HIDE DEF f
        <3>4. f \in 1..Len(bytes) /\ bytes[f] # 0
            BY <1>2, <3>3
        <3>5. \A i \in 1..(f - 1) : i \in 1..Len(bytes) /\ ~(f <= i)
            BY <1>2, <3>4
        <3>6. \A i \in 1..(f - 1) : bytes[i] = 0
            BY <1>2, <3>3, <3>5
        <3> QED BY <1>2, <3>4, <3>6 DEF StartsAt
    <2> QED BY <2>1, <2>2
<1> QED BY Zenon, <1>1, <1>3

(* ber_get_int: the number, if an integer holds it.                        *)
LEMMA GetIntIs ==
    ASSUME NEW bytes \in Seq(Byte)
    PROVE  /\ Number(bytes) \in Nat
           /\ GetInt(bytes) = IF Number(bytes) < 256 ^ IntBytes
                              THEN Number(bytes) ELSE Fail
<1> DEFINE N == Len(bytes)
           P == 256 ^ IntBytes
<1>1. PICK f : /\ StartsAt(f, bytes)
               /\ GetInt(bytes) = IF N + 1 - f > IntBytes THEN Fail
                                  ELSE Number(SubSeq(bytes, f, N))
    BY Zenon, StartIs
<1>2. PICK h : Counts(h, bytes) /\ Number(bytes) = h[N]
    BY Zenon, NumberRuns
<1>3. N \in Nat /\ \A i \in 1..N : bytes[i] \in 0..255
    <2>1. N \in Nat /\ \A i \in 1..N : bytes[i] \in Byte
        OBVIOUS
    <2> QED BY Zenon, <2>1 DEF Byte
<1>4. P \in Nat \ {0} /\ P = Weight[IntBytes] /\ \A m \in 0..IntBytes : Weight[m] <= P
    BY Zenon, PowerIs
<1>5. /\ f \in 1..(N + 1)
      /\ \A i \in 1..(f - 1) : bytes[i] = 0
      /\ f <= N => bytes[f] # 0
    BY Zenon, <1>1 DEF StartsAt
<1>6. /\ \A i \in 0..N : h[i] \in Nat
      /\ h[0] = 0
      /\ \A i \in 1..N : h[i] = h[i - 1] * 256 + bytes[i]
    BY <1>2 DEF Counts
<1>7. IntBytes \in 1..4
    BY IntBytesAssumption
<1> HIDE DEF P, N
<1>8. ASSUME NEW i \in 0..(N - 1)
      PROVE  h[i + 1] = h[i] * 256 + bytes[i + 1] /\ i + 1 \in 1..N /\ i \in 0..N
    <2>1. i + 1 \in 1..N /\ (i + 1) - 1 = i /\ i \in 0..N
        BY <1>3
    <2> QED BY <1>6, <2>1
<1>9. h[f - 1] = 0
    <2> DEFINE T == {i \in 0..(f - 1) : h[i] = 0}
    <2>1. f - 1 \in Nat /\ 0 \in T
        BY <1>5, <1>6
    <2>2. ASSUME NEW i \in 0..((f - 1) - 1), i \in T PROVE i + 1 \in T
        <3>1. i \in 0..(N - 1) /\ i + 1 \in 1..(f - 1) /\ i + 1 \in 0..(f - 1)
            BY <1>3, <1>5
        <3>2. h[i + 1] = h[i] * 256 + bytes[i + 1] /\ bytes[i + 1] = 0 /\ h[i] = 0
            BY <1>5, <1>8, <2>2, <3>1
        <3> QED BY <3>1, <3>2
    <2> HIDE DEF T
    <2>3. \A i \in 0..(f - 1) : i \in T
        BY Zenon, <2>1, <2>2, InductionTo
    <2> QED BY <2>1, <2>3 DEF T
<1> DEFINE m == N + 1 - f
<1>10. m \in Nat /\ m + (f - 1) = N
    BY <1>3, <1>5
<1>11. CASE m <= IntBytes
    <2> DEFINE s == SubSeq(bytes, f, N)
               hs == [j \in 0..m |-> h[(f - 1) + j]]
    <2>1. /\ s \in Seq(Byte) /\ Len(s) = m
          /\ \A j \in 1..m : s[j] = bytes[(f - 1) + j]
        <3>1. f \in 1..(Len(bytes) + 1) /\ N = Len(bytes)
            BY <1>5 DEF N
        <3>2. SubSeq(bytes, f, Len(bytes)) \in Seq(Byte)
              /\ Len(SubSeq(bytes, f, Len(bytes))) = Len(bytes) + 1 - f
              /\ \A j \in 1..(Len(bytes) + 1 - f) :
                    SubSeq(bytes, f, Len(bytes))[j] = bytes[f + j - 1]
            BY <3>1
        <3>3. \A j \in 1..m : f + j - 1 = (f - 1) + j
            BY <1>5, <1>10
        <3> QED BY <3>1, <3>2, <3>3
    <2>2. \A j \in 0..m : (f - 1) + j \in 0..N
        BY <1>5, <1>10
    <2>3. hs \in [0..m -> Nat] /\ \A j \in 0..m : hs[j] = h[(f - 1) + j]
        BY <1>6, <2>2
    <2>4. hs[0] = 0 /\ hs[m] = h[N]
        <3>1. 0 \in 0..m /\ m \in 0..m /\ (f - 1) + 0 = f - 1 /\ (f - 1) + m = N
            BY <1>5, <1>10
        <3> HIDE DEF hs, m
        <3> QED BY <1>9, <2>3, <3>1
    <2>5. ASSUME NEW j \in 1..m PROVE hs[j] = hs[j - 1] * 256 + s[j]
        <3> DEFINE i == (f - 1) + (j - 1)
        <3>1. j \in 0..m /\ j - 1 \in 0..m /\ i \in 0..(N - 1) /\ i + 1 = (f - 1) + j
            BY <1>5, <1>10
        <3>2. hs[j] = h[i + 1] /\ hs[j - 1] = h[i] /\ s[j] = bytes[i + 1]
            BY Zenon, <2>1, <2>3, <3>1
        <3>3. h[i + 1] = h[i] * 256 + bytes[i + 1]
            BY Zenon, <1>8, <3>1
        <3> QED BY Zenon, <3>2, <3>3
    <2> HIDE DEF hs, s
    <2>6. Counts(hs, s)
        BY Zenon, <2>1, <2>3, <2>4, <2>5 DEF Counts
    <2>7. Number(s) = h[N]
        BY Zenon, <2>1, <2>4, <2>6, NumberIs
    <2> DEFINE T == {j \in 0..m : h[(f - 1) + j] < Weight[j]}
    <2>8. 0 \in T
        <3>1. 0 \in 0..m /\ (f - 1) + 0 = f - 1
            BY <1>5, <1>10
        <3>2. h[(f - 1) + 0] = 0 /\ Weight[0] = 1
            BY Zenon, <1>9, <3>1, WeightIs
        <3>3. h[(f - 1) + 0] < Weight[0]
            <4> DEFINE a == h[(f - 1) + 0]  w == Weight[0]
            <4>1. a = 0 /\ w = 1
                BY Zenon, <3>2
            <4> HIDE DEF a, w
            <4>2. a < w
                BY <4>1
            <4> QED BY Zenon, <4>2 DEF a, w
        <3> HIDE DEF m
        <3> QED BY Zenon, <3>1, <3>3
    <2>9. ASSUME NEW j \in 0..(m - 1), j \in T PROVE j + 1 \in T
        <3> DEFINE i == (f - 1) + j
        <3>1. /\ j + 1 \in 0..m /\ i \in 0..(N - 1) /\ i + 1 = (f - 1) + (j + 1)
              /\ j \in 0..126 /\ j \in 0..127
            BY <1>5, <1>7, <1>10, <1>11
        <3>2. Weight[j + 1] = 256 * Weight[j] /\ Weight[j] \in Nat
            BY <3>1, WeightIs
        <3>3. h[i + 1] = h[i] * 256 + bytes[i + 1] /\ h[i] \in Nat /\ bytes[i + 1] \in 0..255
            BY <1>3, <1>6, <1>8, <3>1
        <3>4. h[i] < Weight[j]
            BY <2>9
        <3> DEFINE a == h[i]  b == bytes[i + 1]  w == Weight[j]
        <3>5. a \in Nat /\ b \in 0..255 /\ w \in Nat /\ a < w
            BY Zenon, <3>2, <3>3, <3>4
        <3> HIDE DEF a, b, w
        <3>6. a * 256 + b < 256 * w
            BY <3>5
        <3>7. h[i + 1] < Weight[j + 1]
            BY Zenon, <3>2, <3>3, <3>6 DEF a, b, w
        <3>8. h[(f - 1) + (j + 1)] < Weight[j + 1]
            BY Zenon, <3>1, <3>7
        <3> HIDE DEF m
        <3> QED BY Zenon, <3>1, <3>8
    <2>10. h[N] < Weight[m]
        <3> HIDE DEF T, m
        <3>1. \A j \in 0..m : j \in T
            BY Zenon, <1>10, <2>8, <2>9, InductionTo
        <3>2. m \in 0..m /\ (f - 1) + m = N
            BY <1>5, <1>10
        <3>3. h[(f - 1) + m] < Weight[m]
            BY Zenon, <3>1, <3>2 DEF T
        <3> QED BY Zenon, <3>2, <3>3
    <2>11. h[N] < P
        <3>1. m \in 0..IntBytes /\ m \in 0..127 /\ N \in 0..N
            <4> HIDE DEF m
            <4> QED BY <1>3, <1>7, <1>10, <1>11
        <3>2. Weight[m] <= P /\ Weight[m] \in Nat /\ h[N] \in Nat
            BY <1>4, <1>6, <3>1, WeightIs
        <3> HIDE DEF m
        <3> QED BY <1>4, <2>10, <3>2
    <2>12. GetInt(bytes) = h[N] /\ h[N] \in Nat
        <3>1. ~(N + 1 - f > IntBytes) /\ N \in 0..N
            BY <1>3, <1>7, <1>10, <1>11
        <3> QED BY <1>1, <1>6, <2>7, <3>1 DEF s
    <2> QED BY Zenon, <1>2, <2>11, <2>12 DEF P
<1>12. CASE m > IntBytes
    <2>1. f <= N /\ f \in 1..N /\ f + IntBytes \in 1..N
        BY <1>3, <1>5, <1>7, <1>12
    <2> DEFINE T == {j \in 0..IntBytes : h[f + j] >= Weight[j]}
    <2>2. 0 \in T
        <3>1. f + 0 = f /\ 0 \in 0..IntBytes /\ f - 1 \in 0..(N - 1) /\ (f - 1) + 1 = f
            BY <1>3, <1>7, <2>1
        <3>2. h[f] = h[f - 1] * 256 + bytes[f]
            BY Zenon, <1>8, <3>1
        <3>3. bytes[f] \in 0..255 /\ bytes[f] # 0
            BY <1>3, <1>5, <2>1
        <3>4. h[f] >= 1
            <4> DEFINE b == bytes[f]  a == h[f]
            <4>1. b \in 0..255 /\ b # 0 /\ a = 0 * 256 + b
                BY Zenon, <1>9, <3>2, <3>3
            <4> HIDE DEF a, b
            <4>2. a >= 1
                BY <4>1
            <4> QED BY Zenon, <4>2 DEF a
        <3> QED BY <3>1, <3>4, WeightIs
    <2>3. ASSUME NEW j \in 0..(IntBytes - 1), j \in T PROVE j + 1 \in T
        <3> DEFINE i == f + j
        <3>1. /\ j + 1 \in 0..IntBytes /\ i \in 0..(N - 1) /\ i + 1 = f + (j + 1)
              /\ j \in 0..126 /\ j \in 0..127
            BY <1>3, <1>7, <2>1
        <3>2. Weight[j + 1] = 256 * Weight[j] /\ Weight[j] \in Nat
            BY <3>1, WeightIs
        <3>3. h[i + 1] = h[i] * 256 + bytes[i + 1] /\ h[i] \in Nat /\ bytes[i + 1] \in 0..255
            BY <1>3, <1>6, <1>8, <3>1
        <3>4. h[i] >= Weight[j]
            BY <2>3
        <3> DEFINE a == h[i]  b == bytes[i + 1]  w == Weight[j]
        <3>5. a \in Nat /\ b \in 0..255 /\ w \in Nat /\ a >= w
            BY Zenon, <3>2, <3>3, <3>4
        <3> HIDE DEF a, b, w
        <3>6. a * 256 + b >= 256 * w
            BY <3>5
        <3>7. h[i + 1] >= Weight[j + 1]
            BY Zenon, <3>2, <3>3, <3>6 DEF a, b, w
        <3>8. h[f + (j + 1)] >= Weight[j + 1]
            BY Zenon, <3>1, <3>7
        <3> QED BY Zenon, <3>1, <3>8
    <2>4. h[f + IntBytes] >= P
        <3> HIDE DEF T
        <3>1. \A j \in 0..IntBytes : j \in T
            <4>1. IntBytes \in Nat
                BY <1>7
            <4> QED BY Zenon, <2>2, <2>3, <4>1, InductionTo
        <3>2. IntBytes \in 0..IntBytes
            BY <1>7
        <3> QED BY Zenon, <1>4, <3>1, <3>2 DEF T
    <2> DEFINE g == f + IntBytes
               r == N - g
               U == {j \in 0..r : h[g + j] >= P}
    <2>5. g \in 1..N /\ r \in Nat /\ g + r = N /\ g + 0 = g
        BY <1>3, <1>7, <2>1
    <2> HIDE DEF g, r
    <2>6. 0 \in U
        BY <2>4, <2>5 DEF g
    <2>7. ASSUME NEW j \in 0..(r - 1), j \in U PROVE j + 1 \in U
        <3> DEFINE i == g + j
        <3>1. j + 1 \in 0..r /\ i \in 0..(N - 1) /\ i + 1 = g + (j + 1)
            BY <1>3, <2>5
        <3>2. h[i + 1] = h[i] * 256 + bytes[i + 1] /\ h[i] \in Nat /\ bytes[i + 1] \in 0..255
            BY <1>3, <1>6, <1>8, <3>1
        <3>3. h[i] >= P
            BY <2>7
        <3> DEFINE a == h[i]  b == bytes[i + 1]
        <3>4. a \in Nat /\ b \in 0..255 /\ a >= P
            BY Zenon, <3>2, <3>3
        <3> HIDE DEF a, b
        <3>5. a * 256 + b >= P
            BY <1>4, <3>4
        <3>6. h[g + (j + 1)] >= P
            BY Zenon, <3>1, <3>2, <3>5 DEF a, b
        <3> QED BY Zenon, <3>1, <3>6
    <2>8. h[N] >= P
        <3> HIDE DEF U
        <3>1. \A j \in 0..r : j \in U
            BY Zenon, <2>5, <2>6, <2>7, InductionTo
        <3>2. r \in 0..r
            BY <2>5
        <3>3. h[g + r] >= P
            BY Zenon, <3>1, <3>2 DEF U
        <3> QED BY Zenon, <2>5, <3>3
    <2>9. h[N] \in Nat /\ ~(h[N] < P)
        <3>1. N \in 0..N
            BY <1>3
        <3> QED BY <1>4, <1>6, <2>8, <3>1
    <2>10. GetInt(bytes) = Fail
        BY Zenon, <1>1, <1>12
    <2> QED BY Zenon, <1>2, <2>9, <2>10 DEF P
<1> QED
    <2>1. m <= IntBytes \/ m > IntBytes
        BY <1>7, <1>10
    <2> QED BY Zenon, <1>11, <1>12, <2>1

(* ber_get_size: there is no size, or it ends in the packet.               *)
SizeIsRead(s, b, p) ==
    s.size # Fail => /\ s.size \in Nat /\ s.len \in Nat \ {0}
                     /\ p + s.len <= Len(b) + 1

(* That holds of each packet and place.                                    *)
LEMMA SizeAs ==
    ASSUME NEW b \in Seq(Byte), NEW p \in Nat \ {0}
    PROVE  SizeIsRead(GetSize(b, p), b, p)
<1> DEFINE k == b[p] - 128
           d == SubSeq(b, p + 1, p + k)
<1>1. GetSize(b, p) =
        IF p > Len(b) THEN [len |-> 0, size |-> Fail]
        ELSE IF k < 0 THEN [len |-> 1, size |-> b[p]]
        ELSE IF p + 1 + k > Len(b) THEN [len |-> 0, size |-> Fail]
        ELSE [len |-> k + 1, size |-> GetInt(d)]
    BY Zenon DEF GetSize
<1>2. CASE p > Len(b)
    <2>1. GetSize(b, p).size = Fail
        BY <1>1, <1>2
    <2> QED BY <2>1 DEF SizeIsRead
<1>3. CASE p <= Len(b)
    <2>1. p \in 1..Len(b) /\ Len(b) \in Nat /\ ~(p > Len(b))
        BY <1>3
    <2> DEFINE x == b[p]
    <2>2. x \in 0..255
        <3>1. x \in Byte
            BY <2>1
        <3> QED BY Zenon, <3>1 DEF Byte
    <2>3. k \in Int /\ k < 128
        <3>1. k = x - 128
            OBVIOUS
        <3> HIDE DEF k, x
        <3> QED BY <2>2, <3>1
    <2>4. CASE k < 0
        <3>1. GetSize(b, p) = [len |-> 1, size |-> b[p]]
            BY <1>1, <2>1, <2>4
        <3> DEFINE s == GetSize(b, p)
        <3>2. s.size = x /\ s.len = 1
            <4> HIDE DEF x
            <4>1. s = [len |-> 1, size |-> x]
                BY <3>1 DEF x
            <4> HIDE DEF s
            <4> QED BY <4>1
        <3> HIDE DEF s, x
        <3>3. s.size \in Nat /\ s.len \in Nat \ {0} /\ p + s.len <= Len(b) + 1
            BY <2>1, <2>2, <3>2
        <3> QED BY Zenon, <3>3 DEF SizeIsRead, s
    <2>5. CASE ~(k < 0) /\ p + 1 + k > Len(b)
        <3>1. GetSize(b, p).size = Fail
            BY <1>1, <2>1, <2>5
        <3> QED BY <3>1 DEF SizeIsRead
    <2>6. CASE ~(k < 0) /\ ~(p + 1 + k > Len(b))
        <3>0. k \in Nat
            BY <2>3, <2>6
        <3>1. GetSize(b, p) = [len |-> k + 1, size |-> GetInt(d)]
            BY Zenon, <1>1, <2>1, <2>6
        <3> HIDE DEF k
        <3>2. d \in Seq(Byte)
            BY <2>1, <2>6, <3>0
        <3>3. GetInt(d) \in Nat \/ GetInt(d) = Fail
            BY <3>2, GetIntIs
        <3> DEFINE s == GetSize(b, p)  g == GetInt(d)
        <3>4. s.size = g /\ s.len = k + 1
            <4>1. s = [len |-> k + 1, size |-> g]
                BY Zenon, <3>1
            <4> HIDE DEF s, g
            <4> QED BY <4>1
        <3> HIDE DEF s, g
        <3>5. s.len \in Nat \ {0} /\ p + s.len <= Len(b) + 1
            BY <2>1, <2>6, <3>0, <3>4
        <3> QED BY Zenon, <3>3, <3>4, <3>5 DEF SizeIsRead, s, g
    <2> QED BY <2>4, <2>5, <2>6
<1> QED
    <2>1. p > Len(b) \/ p <= Len(b)
        OBVIOUS
    <2> QED BY <1>2, <1>3, <2>1

(* An identifier at the front of a packet ends in the packet.              *)
LEMMA IdentifierEnds ==
    ASSUME NEW b \in Seq(Byte), Len(b) >= 1
    PROVE  Identifier(b, 1).next \in 2..(Len(b) + 1)
<1> DEFINE N == Len(b)
           Ends1(q) == /\ q > N \/ b[q] < 128
                       /\ \A r \in (1 + 1)..(q - 1) : b[r] >= 128
           rear == CHOOSE q \in (1 + 1)..(N + 1) : Ends1(q)
<1>1. \/ Identifier(b, 1).next = 1 + 1
      \/ Identifier(b, 1).next = Least(rear, N) + 1
    <2> DEFINE Shift(acc, byte) ==
                    IF acc.bits = 0 /\ byte = 128 THEN acc
                    ELSE [type |-> UInt(acc.type * 128 + (byte % 128)),
                          bits |-> acc.bits + 7]
               high == FoldLeft(Shift, [type |-> 0, bits |-> 0],
                         SubSeq(b, 1 + 1, rear - 1))
               all  == IF rear > Len(b) THEN high
                ELSE [type |-> UInt(high.type * 128 + b[rear]),
                      bits |-> high.bits + 7]
               x == IF all.bits > 8 * IntBytes THEN Fail ELSE all.type
    <2>1. Identifier(b, 1) =
            IF b[1] % 32 # 31 THEN [type |-> b[1], next |-> 1 + 1]
            ELSE [type |-> x, next |-> Least(rear, N) + 1]
        BY Zenon DEF Identifier
    <2> HIDE DEF x, rear
    <2> QED BY <2>1
<1>2. N \in Nat /\ N >= 1 /\ \A i \in 1..N : b[i] \in 0..255
    <2>1. N \in Nat /\ N >= 1 /\ \A i \in 1..N : b[i] \in Byte
        OBVIOUS
    <2> QED BY Zenon, <2>1 DEF Byte
<1>3. \E q \in (1 + 1)..(N + 1) : Ends1(q)
    <2> DEFINE T == {q \in 2..(N + 1) : q > N \/ b[q] < 128}
    <2>1. N + 1 \in T /\ T \in SUBSET Nat
        BY <1>2
    <2> HIDE DEF T
    <2>2. PICK q \in T : \A r \in T : q <= r
        BY <2>1, LeastNat
    <2> HIDE DEF N
    <2>3. q \in 2..(N + 1) /\ (q > N \/ b[q] < 128)
        BY <2>2 DEF T
    <2>4. ASSUME NEW r \in 2..(q - 1) PROVE b[r] >= 128
        <3>1. r \in 2..(N + 1) /\ r \in 1..N /\ ~(q <= r)
            BY <1>2, <2>3
        <3>2. r \notin T
            BY <2>2, <3>1
        <3>3. ~(b[r] < 128) /\ b[r] \in 0..255
            BY <1>2, <3>1, <3>2 DEF T
        <3> DEFINE x == b[r]
        <3>4. ~(x < 128) /\ x \in 0..255
            BY Zenon, <3>3
        <3> HIDE DEF x
        <3>5. x >= 128
            BY <3>4
        <3> QED BY Zenon, <3>5 DEF x
    <2>5. 1 + 1 = 2
        OBVIOUS
    <2> QED BY <2>3, <2>4, <2>5
<1>4. rear \in 2..(N + 1)
    <2>1. rear \in (1 + 1)..(N + 1)
        <3> HIDE DEF Ends1
        <3> QED BY <1>3
    <2> HIDE DEF rear, N
    <2> QED BY <2>1
<1> HIDE DEF rear, N
<1>5. Least(rear, N) + 1 \in 2..(N + 1) /\ 1 + 1 \in 2..(N + 1)
    BY <1>2, <1>4 DEF Least
<1>6. Identifier(b, 1).next \in 2..(N + 1)
    <2> DEFINE y == Identifier(b, 1).next  z == Least(rear, N) + 1
    <2> HIDE DEF y, z
    <2>1. y \in 2..(N + 1)
        BY <1>1, <1>5 DEF y, z
    <2> QED BY <2>1 DEF y
<1> QED BY <1>6 DEF N

(* What an unsigned integer of the machine holds.                          *)
LEMMA UIntIs ==
    ASSUME NEW n \in Nat
    PROVE  UInt(n) \in Nat /\ UInt(n) <= n /\ (n < 256 ^ IntBytes => UInt(n) = n)
<1> DEFINE P == 256 ^ IntBytes
<1>1. P \in Nat \ {0}
    BY Zenon, PowerIs
<1>2. UInt(n) = (n % P)
    BY Zenon DEF UInt
<1> HIDE DEF P
<1>3. (n % P) \in Nat /\ (n % P) <= n /\ (n < P => (n % P) = n)
    <2>1. \A q \in Int, r \in 0..(P - 1) : n = P * q + r => r <= n
        <3>1. ASSUME NEW q \in Int, NEW r \in 0..(P - 1), n = P * q + r, ~(r <= n) PROVE FALSE
            <4>1. P * q < 0
                <5> DEFINE x == P * q
                <5>1. x \in Int /\ n = x + r
                    <6>1. x \in Int
                        BY <1>1
                    <6> QED BY Zenon, <3>1, <6>1
                <5> HIDE DEF x
                <5> QED BY <3>1, <5>1 DEF x
            <4>2. q < 0
                BY <1>1, <4>1
            <4>3. P * q <= -P
                <5>1. q = -1 - (-1 - q) /\ -1 - q \in Nat
                    BY <4>2
                <5>2. P * (-1 - q) \in Nat
                    BY <1>1, <5>1
                <5>3. P * (-1 - q) = -P - P * q
                    BY <1>1
                <5> DEFINE y == P * (-1 - q)  x == P * q
                <5>4. y \in Nat /\ y = -P - x /\ x \in Int
                    BY <1>1, <5>2, <5>3
                <5> HIDE DEF x, y
                <5>5. x <= -P
                    BY <1>1, <5>4
                <5> QED BY <5>5 DEF x
            <4> DEFINE x == P * q
            <4>4. x \in Int /\ n = x + r /\ x <= -P
                BY <1>1, <3>1, <4>3
            <4> HIDE DEF x
            <4> QED BY <1>1, <4>4
        <3> QED BY <3>1
    <2>2. n \div P \in Int /\ n % P \in 0..(P - 1) /\ n = P * (n \div P) + (n % P)
        BY <1>1, DivMod
    <2>3. n < P => (n % P) = n
        BY <1>1, ModSmall
    <2>4. (n % P) <= n
        BY Zenon, <2>1, <2>2
    <2>5. (n % P) \in Nat
        BY <1>1, <2>2
    <2> QED BY Zenon, <2>3, <2>4, <2>5
<1> QED BY Zenon, <1>2, <1>3 DEF P

(* ber_get_element at the front of a packet, by the parts it reads.        *)
ElementOf(id, size, N) ==
    LET begin == id.next + size.len
        all   == UInt(1 + size.len + size.size)
        rest  == N + 1 - begin
        Found(avail, total) == [avail |-> avail, type |-> id.type,
                                len |-> size.size, total |-> total,
                                data |-> begin]
    IN  IF 1 + 3 > N THEN NoElement
        ELSE IF id.type = Fail \/ size.size = Fail THEN NoElement
        ELSE IF begin + size.size > N \/ all <= size.len
             THEN Found(rest, 1 + size.len + rest)
             ELSE Found(size.size, all)

(* That is what it makes of its parts.                                     *)
LEMMA ElementParts ==
    ASSUME NEW b
    PROVE  GetElement(b, 1) =
                ElementOf(Identifier(b, 1), GetSize(b, Identifier(b, 1).next), Len(b))
BY Zenon DEF GetElement, ElementOf

(* Where the cursor goes when an element is skipped.                       *)
Beyond(e) == IF e.avail < 0 \/ e.avail # e.len THEN Fail ELSE 1 + e.total

(* An element that is skipped ends in the packet, or just behind it.       *)
LEMMA BeyondIs ==
    ASSUME NEW id, NEW size, NEW N \in Nat, id.next \in 2..(N + 1),
           size.size # Fail => /\ size.size \in Nat /\ size.len \in Nat \ {0}
                               /\ id.next + size.len <= N + 1
    PROVE  Beyond(ElementOf(id, size, N)) \in {Fail} \cup 2..(N + 1)
<1> DEFINE nx == id.next  l == size.len  s == size.size  t == id.type
           begin == nx + l
           all == UInt(1 + l + s)
           rest == N + 1 - begin
           e1 == [avail |-> rest, type |-> t, len |-> s,
                  total |-> 1 + l + rest, data |-> begin]
           e2 == [avail |-> s, type |-> t, len |-> s, total |-> all, data |-> begin]
           E == ElementOf(id, size, N)
<1>1. E = IF 1 + 3 > N THEN NoElement
          ELSE IF t = Fail \/ s = Fail THEN NoElement
          ELSE IF begin + s > N \/ all <= l THEN e1 ELSE e2
    BY Zenon DEF ElementOf
<1>2. nx \in 2..(N + 1) /\ (s # Fail => s \in Nat /\ l \in Nat \ {0} /\ nx + l <= N + 1)
    BY Zenon
<1> HIDE DEF nx, l, s, t, E
<1>3. CASE E = NoElement
    <2>1. NoElement.avail = -1
        BY DEF NoElement, Fail
    <2>2. E.avail < 0
        BY <1>3, <2>1
    <2> QED BY <2>2 DEF Beyond, E
<1>4. CASE E # NoElement /\ E = e1
    <2>1. s # Fail
        BY <1>1, <1>4
    <2>2. E.avail = rest /\ E.total = 1 + l + rest /\ E.len = s
        BY <1>4
    <2>3. 1 + (1 + l + rest) \in 2..(N + 1)
        BY <1>2, <2>1
    <2> HIDE DEF rest
    <2>4. 1 + E.total \in 2..(N + 1)
        BY Zenon, <2>2, <2>3
    <2> QED BY Zenon, <2>4 DEF Beyond, E
<1>5. CASE E # NoElement /\ E = e2 /\ ~(begin + s > N \/ all <= l)
    <2>1. s # Fail
        BY <1>1, <1>5
    <2>2. E.total = all
        BY <1>5
    <2>3. 1 + l + s \in Nat
        BY <1>2, <2>1
    <2>4. all \in Nat /\ all <= 1 + l + s
        BY <2>3, UIntIs
    <2> HIDE DEF all
    <2>5. 1 + all \in 2..(N + 1)
        BY <1>2, <1>5, <2>1, <2>4
    <2>6. 1 + E.total \in 2..(N + 1)
        BY Zenon, <2>2, <2>5
    <2> QED BY Zenon, <2>6 DEF Beyond, E
<1> QED
    <2> HIDE DEF e1, e2
    <2> QED BY Zenon, <1>1, <1>3, <1>4, <1>5

(* A cursor that skips an element stays in the packet.                     *)
LEMMA SkipStays ==
    ASSUME NEW b \in Seq(Byte), Len(b) >= 1, NEW type
    PROVE  SkipElement(b, 1, type) \in {Fail} \cup 2..(Len(b) + 1)
<1> DEFINE id == Identifier(b, 1)
           size == GetSize(b, id.next)
           e == GetElement(b, 1)
<1>1. id.next \in 2..(Len(b) + 1)
    BY IdentifierEnds
<1>2. Len(b) \in Nat
    OBVIOUS
<1>3. id.next \in Nat \ {0}
    <2> HIDE DEF id
    <2> QED BY <1>1, <1>2
<1>4. SizeIsRead(size, b, id.next)
    BY Zenon, <1>3, SizeAs
<1> HIDE DEF id
<1>5. e = ElementOf(id, size, Len(b))
    BY Zenon, ElementParts DEF id
<1> HIDE DEF size, e
<1>6. Beyond(e) \in {Fail} \cup 2..(Len(b) + 1)
    BY Zenon, <1>1, <1>2, <1>4, <1>5, BeyondIs DEF SizeIsRead
<1>7. SkipElement(b, 1, type) = IF e.avail < 0 \/ e.type # type \/ e.avail # e.len
                                THEN Fail ELSE 1 + e.total
    BY Zenon DEF SkipElement, e
<1>8. SkipElement(b, 1, type) = Fail \/ SkipElement(b, 1, type) = Beyond(e)
    BY Zenon, <1>7 DEF Beyond
<1> QED BY Zenon, <1>6, <1>8

(* An element with an identifier of one byte, in a packet that has q of    *)
(* its n bytes.                                                            *)
Begins(b, t, k, n) ==
    /\ b \in Seq(Byte) /\ Len(b) >= 2 + k
    /\ b[1] = t /\ t \in Byte /\ t % 32 # 31
    /\ b[2] = IF k = 0 THEN n ELSE 128 + k
    /\ k \in 0..127 /\ n \in Nat
    /\ k = 0 => n < 128
    /\ k > 0 => /\ SubSeq(b, 3, 2 + k) \in Seq(Byte)
                /\ Number(SubSeq(b, 3, 2 + k)) = n

(* What ber_get_element returns for it: e.                                 *)
IsElement(e, N, t, k, n) ==
    LET head == 2 + k
        read == N > 3 /\ (k # 0 => N > head)
        q    == Least(N - head, n)
    IN  IF ~(read /\ n < 256 ^ IntBytes) THEN e = NoElement
        ELSE /\ e.avail = q /\ e.type = t /\ e.len = n
             /\ e.total = head + q /\ e.data = head + 1

(* ber_get_element reads what the packet begins with.                      *)
LEMMA ElementIs ==
    ASSUME NEW b, NEW t, NEW k, NEW n, Begins(b, t, k, n), Len(b) < 256 ^ IntBytes
    PROVE  IsElement(GetElement(b, 1), Len(b), t, k, n)
<1> DEFINE N == Len(b)
           P == 256 ^ IntBytes
           id == Identifier(b, 1)
           size == GetSize(b, 2)
           e == GetElement(b, 1)
           d == SubSeq(b, 3, 2 + k)
           q == Least(N - (2 + k), n)
<1>1. /\ b \in Seq(Byte) /\ N \in Nat /\ N >= 2 + k
      /\ t \in Byte /\ k \in 0..127 /\ n \in Nat
      /\ b[1] = t /\ b[2] = IF k = 0 THEN n ELSE 128 + k
      /\ k = 0 => n < 128
    BY DEF Begins
<1>2. P \in Nat \ {0} /\ N < P /\ 128 <= P
    BY Zenon, PowerIs
<1>3. id.type = t /\ id.next = 2
    <2>1. b[1] % 32 # 31 /\ b[1] = t
        BY Zenon DEF Begins
    <2>2. id = [type |-> b[1], next |-> 1 + 1]
        BY Zenon, <2>1 DEF Identifier
    <2>3. 1 + 1 = 2
        OBVIOUS
    <2>4. id.type = b[1] /\ id.next = 1 + 1
        <3> DEFINE x == b[1]
        <3>1. id = [type |-> x, next |-> 1 + 1]
            BY Zenon, <2>2
        <3> HIDE DEF id, x
        <3>2. id.type = x /\ id.next = 1 + 1
            BY <3>1
        <3> QED BY Zenon, <3>2 DEF x
    <2> QED BY Zenon, <2>1, <2>3, <2>4
<1>4. t # Fail
    BY <1>1 DEF Byte, Fail
<1>5. /\ k = 0 => size.len = 1 /\ size.size = n
      /\ k # 0 => IF N > 2 + k
                  THEN size.len = k + 1 /\ size.size = IF n < P THEN n ELSE Fail
                  ELSE size.size = Fail
    <2> DEFINE x == b[2]  g == GetInt(SubSeq(b, 2 + 1, 2 + (x - 128)))
    <2>1. size = IF 2 > N THEN [len |-> 0, size |-> Fail]
                 ELSE IF x - 128 < 0 THEN [len |-> 1, size |-> x]
                 ELSE IF 2 + 1 + (x - 128) > N THEN [len |-> 0, size |-> Fail]
                 ELSE [len |-> (x - 128) + 1, size |-> g]
        BY Zenon DEF GetSize
    <2>2. ~(2 > N) /\ x = (IF k = 0 THEN n ELSE 128 + k)
        BY <1>1
    <2>3. CASE k = 0
        <3> HIDE DEF size, x, g
        <3>1. x = n /\ x - 128 < 0
            BY <1>1, <2>2, <2>3
        <3> QED BY <2>1, <2>2, <2>3, <3>1
    <2>4. CASE k # 0
        <3>1. x = 128 + k
            BY <2>2, <2>4
        <3> HIDE DEF x
        <3>2. x - 128 = k /\ ~(x - 128 < 0) /\ 2 + 1 = 3
            BY <1>1, <3>1
        <3>3. g = GetInt(d)
            BY Zenon, <3>2
        <3>4. Number(d) = n /\ d \in Seq(Byte)
            <4>1. k > 0
                BY <1>1, <2>4
            <4> QED BY Zenon, <4>1 DEF Begins
        <3>5. g = IF n < P THEN n ELSE Fail
            BY Zenon, <3>3, <3>4, GetIntIs
        <3> HIDE DEF size, g, P, N
        <3>6. 2 + 1 + (x - 128) > N <=> ~(N > 2 + k)
            BY <1>1, <3>2
        <3> QED BY <2>1, <2>2, <2>4, <3>2, <3>5, <3>6
    <2> QED BY <2>3, <2>4
<1>6. e = ElementOf(id, size, N)
    BY Zenon, <1>3, ElementParts
<1> HIDE DEF size, id, e, N, P, d
<1> DEFINE l == size.len  s == size.size
           begin == 2 + l
           all == UInt(1 + l + s)
           rest == N + 1 - begin
           e1 == [avail |-> rest, type |-> t, len |-> s,
                  total |-> 1 + l + rest, data |-> begin]
           e2 == [avail |-> s, type |-> t, len |-> s, total |-> all, data |-> begin]
<1>7. e = IF 1 + 3 > N THEN NoElement
          ELSE IF t = Fail \/ s = Fail THEN NoElement
          ELSE IF begin + s > N \/ all <= l THEN e1 ELSE e2
    BY Zenon, <1>3, <1>6 DEF ElementOf
<1>8. CASE ~((N > 3 /\ (k # 0 => N > 2 + k)) /\ n < P)
    <2>1. 1 + 3 > N \/ s = Fail
        <3> HIDE DEF s, l
        <3>1. k = 0 => n < P
            BY <1>1, <1>2
        <3> QED BY <1>1, <1>5, <1>8, <3>1 DEF s
    <2>2. e = NoElement
        BY Zenon, <1>7, <2>1
    <2> QED BY Zenon, <1>8, <2>2 DEF IsElement, N, P, e
<1>9. CASE (N > 3 /\ (k # 0 => N > 2 + k)) /\ n < P
    <2>1. l = k + 1 /\ s = n /\ ~(1 + 3 > N)
        BY <1>1, <1>5, <1>9
    <2>2. s # Fail
        BY <1>1, <2>1 DEF Fail
    <2>3. e = IF begin + s > N \/ all <= l THEN e1 ELSE e2
        BY Zenon, <1>4, <1>7, <2>1, <2>2
    <2>4. /\ e1.avail = rest /\ e1.type = t /\ e1.len = s
          /\ e1.total = 1 + l + rest /\ e1.data = begin
          /\ e2.avail = s /\ e2.type = t /\ e2.len = s
          /\ e2.total = all /\ e2.data = begin
        <3> HIDE DEF rest, s, l, begin, all
        <3> QED OBVIOUS
    <2> HIDE DEF l, s, e1, e2
    <2>5. begin = (2 + k) + 1 /\ 1 + l + s = (2 + k) + n /\ rest = N - (2 + k)
          /\ 1 + l + rest = (2 + k) + (N - (2 + k))
        BY <1>1, <2>1
    <2> HIDE DEF begin, rest
    <2>6. CASE N <= (2 + k) + n
        <3>1. q = N - (2 + k)
            BY <1>1, <2>6 DEF Least
        <3>2. CASE begin + s > N \/ all <= l
            <4>1. e = e1
                BY Zenon, <2>3, <3>2
            <4>2. /\ e.avail = q /\ e.type = t /\ e.len = n
                  /\ e.total = (2 + k) + q /\ e.data = (2 + k) + 1
                BY Zenon, <2>1, <2>4, <2>5, <3>1, <4>1
            <4> QED BY Zenon, <1>9, <4>2 DEF IsElement, e, N, P, q
        <3>3. begin + s > N
            BY <1>1, <2>1, <2>5, <2>6
        <3> QED BY Zenon, <3>2, <3>3
    <2>7. CASE ~(N <= (2 + k) + n)
        <3>1. q = n
            BY <1>1, <2>7 DEF Least
        <3>2. (2 + k) + n \in Nat /\ (2 + k) + n < P
            BY <1>1, <1>2, <2>7
        <3>3. all = (2 + k) + n
            BY Zenon, <2>5, <3>2, UIntIs DEF P
        <3> HIDE DEF all
        <3>4. ~(begin + s > N \/ all <= l)
            BY <1>1, <2>1, <2>5, <2>7, <3>3
        <3>5. e = e2
            BY Zenon, <2>3, <3>4
        <3>6. /\ e.avail = q /\ e.type = t /\ e.len = n
              /\ e.total = (2 + k) + q /\ e.data = (2 + k) + 1
            BY Zenon, <2>1, <2>4, <2>5, <3>1, <3>3, <3>5
        <3> QED BY Zenon, <1>9, <3>6 DEF IsElement, e, N, P, q
    <2> QED BY <2>6, <2>7
<1> QED BY <1>8, <1>9

(* An element of the runs.                                                 *)
IsInput(e) ==
    /\ e.type \in Seq(Byte) /\ Len(e.type) >= 1
    /\ Len(e.type) = 1 => e.type[1] % 32 # 31
    /\ e.k \in 0..127 /\ e.n \in Nat
    /\ IF e.k = 0 THEN e.n < 128 ELSE e.n < Weight[e.k]
    /\ e.first \in Byte /\ e.tail \in Nat
    /\ e.present \in 0..e.n
    /\ Len(Payload(e)) < 256 ^ IntBytes

(* The bytes of a size.                                                    *)
SizeBytes(k, n) ==
    IF k = 0 THEN <<n>> ELSE <<128 + k>> \o [i \in 1..k |-> (n \div Weight[k - i]) % 256]

(* They are read as that size.                                             *)
LEMMA SizeBytesAre ==
    ASSUME NEW k \in 0..127, NEW n \in Nat,
           IF k = 0 THEN n < 128 ELSE n < Weight[k]
    PROVE  LET s == SizeBytes(k, n)
           IN  /\ s \in Seq(Byte) /\ Len(s) = k + 1
               /\ s[1] = IF k = 0 THEN n ELSE 128 + k
               /\ k > 0 => \E d \in Seq(Byte) :
                              /\ Len(d) = k /\ Number(d) = n
                              /\ \A i \in 1..k : s[1 + i] = d[i]
<1> DEFINE s == SizeBytes(k, n)
           d == [i \in 1..k |-> (n \div Weight[k - i]) % 256]
<1>1. CASE k = 0
    <2>1. s = <<n>>
        BY Zenon, <1>1 DEF SizeBytes
    <2>2. n \in Byte
        BY <1>1 DEF Byte
    <2>3. <<n>> \in Seq(Byte) /\ Len(<<n>>) = 1 /\ <<n>>[1] = n
        BY <2>2
    <2>4. ~(k > 0) /\ k + 1 = 1
        BY <1>1
    <2> QED BY Zenon, <1>1, <2>1, <2>3, <2>4
<1>2. CASE k # 0
    <2>1. s = <<128 + k>> \o d
        BY Zenon, <1>2 DEF SizeBytes
    <2>2. d \in Seq(Byte) /\ Len(d) = k /\ Number(d) = n
        BY Zenon, <1>2, DigitsAre
    <2> HIDE DEF d
    <2>3. 128 + k \in Byte
        BY DEF Byte
    <2>4. <<128 + k>> \in Seq(Byte) /\ Len(<<128 + k>>) = 1 /\ <<128 + k>>[1] = 128 + k
        BY <2>3
    <2> DEFINE x == <<128 + k>>
    <2> HIDE DEF x
    <2>5. Joins(Byte, x, d, x \o d)
        BY Zenon, <2>2, <2>4, JoinsIs DEF x
    <2>6. s = x \o d
        BY Zenon, <2>1 DEF x
    <2> HIDE DEF s
    <2>7. s \in Seq(Byte) /\ Len(s) = 1 + k
        BY Zenon, <2>2, <2>4, <2>5, <2>6 DEF Joins, x
    <2>8. s[1] = 128 + k
        <3>1. 1 \in 1..1
            OBVIOUS
        <3> QED BY Zenon, <2>4, <2>5, <2>6, <3>1 DEF Joins, x
    <2>9. \A i \in 1..k : s[1 + i] = d[i]
        BY Zenon, <2>2, <2>4, <2>5, <2>6 DEF Joins, x
    <2>10. 1 + k = k + 1
        OBVIOUS
    <2> QED BY Zenon, <1>2, <2>2, <2>7, <2>8, <2>9, <2>10 DEF s
<1> QED BY <1>1, <1>2

(* The contents are as many bytes as the packet has of them.               *)
LEMMA ContentsAre ==
    ASSUME NEW e, IsInput(e)
    PROVE  Contents(e) \in Seq(Byte) /\ Len(Contents(e)) = e.present
<1>1. e.present \in Nat /\ e.n \in Nat /\ e.present <= e.n /\ e.first \in Byte
    BY DEF IsInput
<1>2. Least(e.present, e.n) = e.present
    BY <1>1 DEF Least
<1>3. 7 \in Byte
    BY Zenon, SomeBytes
<1> DEFINE C(i) == IF i = 1 THEN e.first ELSE 7
           m == e.present
<1>4. \A i \in 1..m : C(i) \in Byte
    BY <1>1, <1>3
<1> HIDE DEF C, m
<1>5. [i \in 1..m |-> C(i)] \in Seq(Byte) /\ Len([i \in 1..m |-> C(i)]) = m
    <2>1. m \in Nat
        BY <1>1 DEF m
    <2> QED BY <1>4, <2>1
<1>6. Contents(e) = [i \in 1..m |-> C(i)]
    BY Zenon, <1>2 DEF Contents, C, m
<1> QED BY Zenon, <1>5, <1>6 DEF m

(* What a packet of an element is.                                         *)
IsPayload(b, e) ==
    /\ b \in Seq(Byte) /\ Len(b) >= 1
    /\ Len(e.type) = 1 =>
        /\ Len(ElementHead(e.type, e.k, e.n)) = 2 + e.k
        /\ Begins(b, e.type[1], e.k, e.n)
        /\ e.present < e.n => Len(b) = 2 + e.k + e.present
        /\ e.present = e.n =>
            /\ Len(b) >= 2 + e.k + e.n
            /\ SubSeq(b, 2 + e.k + 1, 2 + e.k + e.n) = Contents(e)

(* Each packet of the runs is such.                                        *)
LEMMA PayloadIs ==
    ASSUME NEW e, IsInput(e)
    PROVE  IsPayload(Payload(e), e)
<1> DEFINE k == e.k  n == e.n  type == e.type  t == type[1]
           s == SizeBytes(k, n)
           head == ElementHead(type, k, n)
           c == Contents(e)
           m == IF e.present < e.n THEN 0 ELSE e.tail
           tail == [i \in 1..m |-> 7]
           hc == head \o c
           b == Payload(e)
<1>1. /\ type \in Seq(Byte) /\ Len(type) >= 1 /\ k \in 0..127 /\ n \in Nat
      /\ (Len(type) = 1 => t % 32 # 31)
      /\ IF k = 0 THEN n < 128 ELSE n < Weight[k]
      /\ e.present \in 0..n /\ e.tail \in Nat
    BY Zenon DEF IsInput
<1>2. /\ s \in Seq(Byte) /\ Len(s) = k + 1
      /\ s[1] = IF k = 0 THEN n ELSE 128 + k
      /\ k > 0 => \E d \in Seq(Byte) :
                     /\ Len(d) = k /\ Number(d) = n
                     /\ \A i \in 1..k : s[1 + i] = d[i]
    BY Zenon, <1>1, SizeBytesAre
<1>3. head = type \o s
    BY Zenon DEF ElementHead, SizeBytes
<1>4. c \in Seq(Byte) /\ Len(c) = e.present
    BY Zenon, ContentsAre
<1>5. tail \in Seq(Byte) /\ Len(tail) = m /\ m \in Nat /\ (e.present < n => m = 0)
    <2>1. m \in Nat /\ (e.present < n => m = 0)
        BY <1>1
    <2> HIDE DEF m
    <2>2. 7 \in Byte
        BY Zenon, SomeBytes
    <2>3. tail \in Seq(Byte) /\ Len(tail) = m
        BY <2>1, <2>2
    <2> QED BY Zenon, <2>1, <2>3
<1>6. b = hc \o tail
    BY Zenon DEF Payload
<1> HIDE DEF s, head, c, tail, hc, b, m, k, n, type
<1>7. Joins(Byte, type, s, head)
    BY Zenon, <1>1, <1>2, <1>3, JoinsIs
<1>8. head \in Seq(Byte)
    BY Zenon, <1>7 DEF Joins
<1>9. Joins(Byte, head, c, hc)
    BY Zenon, <1>4, <1>8, JoinsIs DEF hc
<1>10. hc \in Seq(Byte)
    BY Zenon, <1>9 DEF Joins
<1>11. Joins(Byte, hc, tail, b)
    BY Zenon, <1>5, <1>6, <1>10, JoinsIs
<1> DEFINE H == Len(head)  p == e.present  N == Len(b)
<1>12. /\ b \in Seq(Byte) /\ H = Len(type) + (k + 1) /\ Len(hc) = H + p
       /\ N = (H + p) + m
    BY Zenon, <1>2, <1>4, <1>5, <1>7, <1>9, <1>11 DEF Joins
<1>13. /\ H \in Nat /\ p \in 0..n /\ Len(type) \in Nat /\ N \in Nat /\ N >= H /\ N >= 1
       /\ N >= H + p /\ H >= 2
    <2>1. Len(type) \in Nat /\ Len(type) >= 1
        BY <1>1
    <2>2. p \in 0..n /\ k \in 0..127 /\ m \in Nat /\ n \in Nat
        BY Zenon, <1>1, <1>5
    <2> DEFINE y == Len(type)
    <2> HIDE DEF H, p, N, y
    <2>3. y \in Nat /\ y >= 1 /\ H = y + (k + 1) /\ N = (H + p) + m
        BY Zenon, <1>12, <2>1 DEF y, H, p, N
    <2>4. H \in Nat /\ N \in Nat /\ N >= H /\ N >= 1 /\ N >= H + p /\ H >= 2
        BY <2>2, <2>3
    <2> QED BY Zenon, <2>2, <2>3, <2>4 DEF y
<1>14. \A i \in 1..H : b[i] = head[i]
    <2>1. \A i \in 1..H : i \in 1..Len(hc)
        <3> HIDE DEF H, p
        <3>1. Len(hc) = H + p
            BY Zenon, <1>12 DEF H, p
        <3> QED BY <1>1, <1>13, <3>1
    <2> QED BY Zenon, <1>9, <1>11, <2>1 DEF Joins
<1>15. \A i \in 1..p : b[H + i] = c[i]
    <2>1. \A i \in 1..p : H + i \in 1..Len(hc) /\ i \in 1..Len(c)
        <3>1. Len(hc) = H + p /\ Len(c) = p
            BY Zenon, <1>4, <1>12
        <3> HIDE DEF H, p
        <3> QED BY <1>1, <1>13, <3>1
    <2>2. \A i \in 1..p : b[H + i] = hc[H + i] /\ hc[H + i] = c[i]
        BY Zenon, <1>9, <1>11, <2>1 DEF Joins
    <2> QED BY Zenon, <2>2
<1> HIDE DEF H, p, N
<1>16. ASSUME Len(type) = 1 PROVE H = 2 + k /\ Begins(b, t, k, n)
    <2>1. H = 2 + k
        BY <1>1, <1>12, <1>16 DEF H
    <2>2. b[1] = t /\ t \in Byte
        <3>1. 1 \in 1..Len(type) /\ 1 \in 1..H
            BY <1>13, <1>16
        <3>2. head[1] = type[1] /\ b[1] = head[1]
            BY Zenon, <1>7, <1>14, <3>1 DEF Joins
        <3>3. type[1] \in Byte
            BY <1>1, <3>1
        <3> QED BY Zenon, <3>2, <3>3
    <2>3. \A i \in 1..(k + 1) : b[1 + i] = s[i]
        <3>1. \A i \in 1..(k + 1) : 1 + i \in 1..H /\ i \in 1..Len(s)
            BY <1>1, <1>2, <2>1
        <3>2. \A i \in 1..(k + 1) : b[1 + i] = head[1 + i] /\ head[1 + i] = s[i]
            BY Zenon, <1>7, <1>14, <1>16, <3>1 DEF Joins
        <3> QED BY Zenon, <3>2
    <2>4. b[2] = IF k = 0 THEN n ELSE 128 + k
        <3>1. 1 \in 1..(k + 1) /\ 1 + 1 = 2
            BY <1>1
        <3>2. b[1 + 1] = s[1]
            BY Zenon, <2>3, <3>1
        <3> QED BY Zenon, <1>2, <3>1, <3>2
    <2>5. ASSUME k > 0
          PROVE  SubSeq(b, 3, 2 + k) \in Seq(Byte) /\ Number(SubSeq(b, 3, 2 + k)) = n
        <3>1. PICK d \in Seq(Byte) : /\ Len(d) = k /\ Number(d) = n
                                     /\ \A i \in 1..k : s[1 + i] = d[i]
            BY Zenon, <1>2, <2>5
        <3>2. 3 \in 1..(N + 1) /\ 2 + k \in 2..N /\ (2 + k) + 1 - 3 = k /\ N = Len(b)
            BY <1>1, <1>13, <2>1 DEF N
        <3>3. SubSeq(b, 3, 2 + k) \in Seq(Byte) /\ Len(SubSeq(b, 3, 2 + k)) = k
              /\ \A i \in 1..k : SubSeq(b, 3, 2 + k)[i] = b[3 + i - 1]
            <4>1. k \in Nat /\ b \in Seq(Byte)
                BY <1>1, <1>12
            <4> QED BY <3>2, <4>1
        <3>4. \A i \in 1..k : SubSeq(b, 3, 2 + k)[i] = d[i]
            <4>1. \A i \in 1..k : 3 + i - 1 = 1 + (1 + i) /\ 1 + i \in 1..(k + 1)
                BY <1>1
            <4> QED BY Zenon, <2>3, <3>1, <3>3, <4>1
        <3>5. SubSeq(b, 3, 2 + k) = d
            <4> DEFINE z == SubSeq(b, 3, 2 + k)
            <4>1. z \in Seq(Byte) /\ Len(z) = Len(d) /\ \A i \in 1..Len(d) : z[i] = d[i]
                BY Zenon, <3>1, <3>3, <3>4
            <4> HIDE DEF z
            <4>2. z = d
                BY <3>1, <4>1, SeqEqual
            <4> QED BY Zenon, <4>2 DEF z
        <3> QED BY Zenon, <3>1, <3>5
    <2>6. Len(b) >= 2 + k
        BY <1>13, <2>1 DEF N
    <2> QED BY Zenon, <1>1, <1>12, <1>16, <2>1, <2>2, <2>4, <2>5, <2>6 DEF Begins
<1>17. ASSUME Len(type) = 1, p < n PROVE N = 2 + k + p
    <2>1. m = 0 /\ N = (H + p) + m /\ H = 2 + k
        BY Zenon, <1>5, <1>12, <1>16, <1>17 DEF N, H, p
    <2> QED BY <1>1, <1>13, <2>1
<1>18. ASSUME Len(type) = 1, p = n
       PROVE  N >= 2 + k + n /\ SubSeq(b, 2 + k + 1, 2 + k + n) = c
    <2>1. H = 2 + k
        BY Zenon, <1>16, <1>18
    <2>2. N >= 2 + k + n /\ N = Len(b)
        BY <1>13, <1>18, <2>1 DEF N
    <2> DEFINE i0 == 2 + k + 1  j0 == 2 + k + n  z == SubSeq(b, i0, j0)
    <2>3. i0 \in 1..(Len(b) + 1) /\ j0 \in (i0 - 1)..Len(b) /\ j0 + 1 - i0 = n /\ i0 = H + 1
        BY <1>1, <1>13, <2>1, <2>2
    <2> HIDE DEF i0, j0
    <2>4. z \in Seq(Byte) /\ Len(z) = n /\ \A i \in 1..n : z[i] = b[i0 + i - 1]
        <3>1. b \in Seq(Byte) /\ n \in Nat
            BY Zenon, <1>1, <1>12
        <3> QED BY <2>3, <3>1
    <2>5. \A i \in 1..n : i0 + i - 1 = H + i
        BY <1>1, <1>13, <2>3
    <2>6. Len(c) = n /\ \A i \in 1..n : z[i] = c[i]
        BY Zenon, <1>4, <1>15, <1>18, <2>4, <2>5 DEF p
    <2> HIDE DEF z
    <2>7. z = c
        BY <1>4, <2>4, <2>6, SeqEqual
    <2> QED BY Zenon, <2>2, <2>7 DEF z, i0, j0
<1>19. N >= 1
    BY Zenon, <1>13
<1> QED BY Zenon, <1>12, <1>16, <1>17, <1>18, <1>19
        DEF IsPayload, N, H, p, k, n, type, head, c, b

(* What the code does with an element, of which BerIsRead asks less: here  *)
(* the elements that may be missed are.  First those that it reads.        *)
IsRead(e) ==
    /\ Len(Payload(e)) > 3
    /\ e.k # 0 => Len(Payload(e)) > Len(ElementHead(e.type, e.k, e.n))

(* The packet has all of its contents.                                     *)
IsWhole(e) == IsRead(e) /\ e.present >= e.n

(* Where its head ends.                                                    *)
Behind(e) == Len(ElementHead(e.type, e.k, e.n))

(* What ber_skip_element returns.                                          *)
IsSkipped(e, r) ==
    /\ Len(e.type) = 1 =>
            r = IF IsWhole(e) /\ e.want = e.type[1] THEN Behind(e) + e.n + 1 ELSE Fail
    /\ r # Fail => r \in 2..(Len(Payload(e)) + 1)

(* What ber_point_to_data returns.                                         *)
IsPointedTo(e, r) ==
    Len(e.type) = 1 =>
        r = IF IsRead(e) /\ e.want = e.type[1] /\ e.n < 256 ^ IntBytes
            THEN Behind(e) + 1 ELSE Fail

(* What ber_extract_int returns.                                           *)
IsExtracted(e, r) ==
    Len(e.type) = 1 =>
        r = IF IsWhole(e) /\ e.type[1] = 2 /\ Number(Contents(e)) < 256 ^ IntBytes
            THEN [cursor |-> Behind(e) + e.n + 1, value |-> Number(Contents(e))]
            ELSE NoInt

(* The element that is got, by what the packet has of it.                  *)
IsGot(e, g) ==
    /\ Behind(e) = 2 + e.k
    /\ IsWhole(e) => e.n < 256 ^ IntBytes
    /\ IF IsRead(e) /\ e.n < 256 ^ IntBytes
       THEN /\ g.avail = e.present /\ g.type = e.type[1] /\ g.len = e.n
            /\ g.total = Behind(e) + e.present /\ g.data = Behind(e) + 1
       ELSE g = NoElement

(* ber_get_element gets it.                                                *)
LEMMA GotIs ==
    ASSUME NEW e, IsInput(e), Len(e.type) = 1
    PROVE  IsGot(e, GetElement(Payload(e), 1))
<1> DEFINE b == Payload(e)  N == Len(b)  k == e.k  n == e.n  p == e.present
           P == 256 ^ IntBytes  t == e.type[1]  g == GetElement(b, 1)
           q == Least(N - (2 + k), n)
<1>1. /\ b \in Seq(Byte) /\ Behind(e) = 2 + k /\ Begins(b, t, k, n)
      /\ (p < n => N = 2 + k + p)
      /\ (p = n => N >= 2 + k + n)
    BY Zenon, PayloadIs DEF IsPayload, Behind
<1>2. N < P /\ k \in 0..127 /\ n \in Nat /\ p \in 0..n
    BY Zenon DEF IsInput
<1>3. IsElement(g, N, t, k, n)
    BY Zenon, <1>1, <1>2, ElementIs
<1>4. N \in Nat /\ P \in Nat
    <2>1. N \in Nat
        BY <1>1
    <2> QED BY <2>1, PowerIs
<1>5. IsRead(e) <=> N > 3 /\ (k # 0 => N > 2 + k)
    BY Zenon, <1>1 DEF IsRead, Behind
<1>6. IsWhole(e) <=> IsRead(e) /\ p >= n
    BY Zenon DEF IsWhole
<1> HIDE DEF b, N, k, n, p, P, t, g
<1>7. q = p /\ (p >= n => n < P)
    BY <1>1, <1>2, <1>4 DEF Least
<1>8. CASE IsRead(e) /\ n < P
    <2>1. /\ g.avail = q /\ g.type = t /\ g.len = n
          /\ g.total = (2 + k) + q /\ g.data = (2 + k) + 1
        BY Zenon, <1>3, <1>5, <1>8 DEF IsElement, P
    <2> HIDE DEF q
    <2>2. /\ g.avail = p /\ g.type = t /\ g.len = n
          /\ g.total = Behind(e) + p /\ g.data = Behind(e) + 1
        BY Zenon, <1>1, <1>7, <2>1
    <2> QED BY Zenon, <1>1, <1>6, <1>7, <1>8, <2>2 DEF IsGot, k, n, p, t, P, g, b
<1>9. CASE ~(IsRead(e) /\ n < P)
    <2>1. g = NoElement
        BY Zenon, <1>3, <1>5, <1>9 DEF IsElement, P
    <2> QED BY Zenon, <1>1, <1>6, <1>7, <1>9, <2>1 DEF IsGot, k, n, p, t, P, g, b
<1> QED BY <1>8, <1>9

(* What is returned of no element is known from all others.                *)
LEMMA NoElementFails == NoElement.avail < 0
BY DEF NoElement, Fail

(* For each element of the runs.                                           *)
LEMMA SkippedIs ==
    ASSUME NEW e, IsInput(e)
    PROVE  IsSkipped(e, SkipElement(Payload(e), 1, e.want))
<1> DEFINE b == Payload(e)  r == SkipElement(b, 1, e.want)  g == GetElement(b, 1)
           n == e.n  p == e.present  t == e.type[1]  H == Behind(e)
<1>1. b \in Seq(Byte) /\ Len(b) >= 1
    BY Zenon, PayloadIs DEF IsPayload
<1>2. r \in {Fail} \cup 2..(Len(b) + 1)
    BY Zenon, <1>1, SkipStays
<1>3. r = IF g.avail < 0 \/ g.type # e.want \/ g.avail # g.len THEN Fail ELSE 1 + g.total
    BY Zenon DEF SkipElement
<1>4. n \in Nat /\ p \in 0..n /\ e.k \in 0..127
    BY Zenon DEF IsInput
<1>5. ASSUME Len(e.type) = 1
      PROVE  r = IF IsWhole(e) /\ e.want = t THEN H + n + 1 ELSE Fail
    <2>1. IsGot(e, g)
        BY Zenon, <1>5, GotIs
    <2>2. IsWhole(e) <=> IsRead(e) /\ p >= n
        BY Zenon DEF IsWhole
    <2>3. H = 2 + e.k /\ (IsWhole(e) => n < 256 ^ IntBytes)
        BY Zenon, <2>1 DEF IsGot
    <2>4. CASE IsRead(e) /\ n < 256 ^ IntBytes
        <3>1. /\ g.avail = p /\ g.type = t /\ g.len = n /\ g.total = H + p
            BY Zenon, <2>1, <2>4 DEF IsGot
        <3> HIDE DEF r, g, n, p, t, H
        <3>2. ~(p < 0) /\ (p = n <=> p >= n) /\ 1 + (H + n) = H + n + 1
            BY <1>4, <2>3
        <3>3. r = IF t # e.want \/ p # n THEN Fail ELSE 1 + (H + p)
            BY Zenon, <1>3, <3>1, <3>2
        <3> QED BY Zenon, <2>2, <2>4, <3>2, <3>3
    <2>5. CASE ~(IsRead(e) /\ n < 256 ^ IntBytes)
        <3>1. g = NoElement /\ ~IsWhole(e)
            BY Zenon, <2>1, <2>2, <2>3, <2>5 DEF IsGot
        <3>2. r = Fail
            BY Zenon, <1>3, <3>1, NoElementFails
        <3> QED BY Zenon, <3>1, <3>2
    <2> QED BY <2>4, <2>5
<1>6. r # Fail => r \in 2..(Len(b) + 1)
    BY Zenon, <1>2
<1> QED BY Zenon, <1>5, <1>6 DEF IsSkipped

(* For each element of the runs.                                           *)
LEMMA PointedToIs ==
    ASSUME NEW e, IsInput(e)
    PROVE  IsPointedTo(e, PointToData(Payload(e), 1, e.want))
<1> DEFINE b == Payload(e)  r == PointToData(b, 1, e.want)  g == GetElement(b, 1)
           n == e.n  p == e.present  t == e.type[1]  H == Behind(e)
<1>1. r = IF g.avail < 0 \/ g.type # e.want THEN Fail ELSE g.data
    BY Zenon DEF PointToData
<1>2. p \in 0..n
    BY Zenon DEF IsInput
<1>3. ASSUME Len(e.type) = 1
      PROVE  r = IF IsRead(e) /\ e.want = t /\ n < 256 ^ IntBytes THEN H + 1 ELSE Fail
    <2>1. IsGot(e, g)
        BY Zenon, <1>3, GotIs
    <2>2. CASE IsRead(e) /\ n < 256 ^ IntBytes
        <3>1. g.avail = p /\ g.type = t /\ g.data = H + 1
            BY Zenon, <2>1, <2>2 DEF IsGot
        <3>2. ~(p < 0)
            <4> HIDE DEF p, n
            <4> QED BY <1>2
        <3> QED BY Zenon, <1>1, <2>2, <3>1, <3>2
    <2>3. CASE ~(IsRead(e) /\ n < 256 ^ IntBytes)
        <3>1. g = NoElement
            BY Zenon, <2>1, <2>3 DEF IsGot
        <3> QED BY Zenon, <1>1, <2>3, <3>1, NoElementFails
    <2> QED BY <2>2, <2>3
<1> QED BY Zenon, <1>3 DEF IsPointedTo

(* For each element of the runs.                                           *)
LEMMA ExtractedIs ==
    ASSUME NEW e, IsInput(e)
    PROVE  IsExtracted(e, ExtractInt(Payload(e), 1))
<1> DEFINE b == Payload(e)  r == ExtractInt(b, 1)  g == GetElement(b, 1)
           n == e.n  p == e.present  t == e.type[1]  H == Behind(e)
           P == 256 ^ IntBytes  c == Contents(e)
           v == GetInt(SubSeq(b, g.data, g.data + g.len - 1))
<1>1. r = IF g.avail < 0 \/ g.avail # g.len \/ g.type # 2 THEN NoInt
          ELSE IF v = Fail THEN NoInt
          ELSE [cursor |-> 1 + g.total, value |-> v]
    BY Zenon DEF ExtractInt
<1>2. n \in Nat /\ p \in 0..n /\ e.k \in 0..127
    BY Zenon DEF IsInput
<1>3. c \in Seq(Byte)
    BY Zenon, ContentsAre
<1>4. Number(c) \in Nat /\ GetInt(c) = IF Number(c) < P THEN Number(c) ELSE Fail
    BY Zenon, <1>3, GetIntIs
<1>5. Number(c) # Fail
    <2> DEFINE x == Number(c)
    <2>1. x \in Nat
        BY Zenon, <1>4
    <2> HIDE DEF x
    <2>2. x # Fail
        BY <2>1 DEF Fail
    <2> QED BY Zenon, <2>2 DEF x
<1>6. ASSUME Len(e.type) = 1
      PROVE  r = IF IsWhole(e) /\ t = 2 /\ Number(c) < P
                 THEN [cursor |-> H + n + 1, value |-> Number(c)] ELSE NoInt
    <2>1. IsGot(e, g)
        BY Zenon, <1>6, GotIs
    <2>2. IsWhole(e) <=> IsRead(e) /\ p >= n
        BY Zenon DEF IsWhole
    <2>3. H = 2 + e.k /\ (IsWhole(e) => n < P)
        BY Zenon, <2>1 DEF IsGot
    <2>4. CASE IsRead(e) /\ n < P
        <3>1. /\ g.avail = p /\ g.type = t /\ g.len = n /\ g.total = H + p
              /\ g.data = H + 1
            BY Zenon, <2>1, <2>4 DEF IsGot
        <3>2. p = n => SubSeq(b, 2 + e.k + 1, 2 + e.k + n) = c
            BY Zenon, <1>6, PayloadIs DEF IsPayload
        <3>3. /\ ~(p < 0) /\ (p = n <=> p >= n) /\ 1 + (H + n) = H + n + 1
              /\ H + 1 = 2 + e.k + 1 /\ (H + 1) + n - 1 = 2 + e.k + n
            <4> HIDE DEF n, p, H
            <4> QED BY <1>2, <2>3
        <3>4. v = GetInt(SubSeq(b, H + 1, (H + 1) + n - 1))
            BY Zenon, <3>1
        <3>5. p = n => v = GetInt(c)
            BY Zenon, <3>2, <3>3, <3>4
        <3> HIDE DEF r, g, v, n, p, t, H, P, c, b
        <3>6. CASE p # n \/ t # 2
            BY Zenon, <1>1, <2>2, <3>1, <3>3, <3>6
        <3>7. CASE p = n /\ t = 2 /\ Number(c) < P
            <4>1. v = Number(c) /\ v # Fail
                BY Zenon, <1>4, <1>5, <3>5, <3>7
            <4>2. r = [cursor |-> 1 + (H + p), value |-> Number(c)]
                BY Zenon, <1>1, <3>1, <3>3, <3>7, <4>1
            <4> QED BY Zenon, <2>2, <2>4, <3>3, <3>7, <4>2
        <3>8. CASE p = n /\ ~(Number(c) < P)
            <4>1. v = Fail
                BY Zenon, <1>4, <3>5, <3>8
            <4> QED BY Zenon, <1>1, <3>8, <4>1
        <3> QED BY Zenon, <3>6, <3>7, <3>8
    <2>5. CASE ~(IsRead(e) /\ n < P)
        <3>1. g = NoElement /\ ~IsWhole(e)
            BY Zenon, <2>1, <2>2, <2>3, <2>5 DEF IsGot
        <3>2. r = NoInt
            BY Zenon, <1>1, <3>1, NoElementFails
        <3> QED BY Zenon, <3>1, <3>2
    <2> QED BY <2>4, <2>5
<1> QED BY Zenon, <1>6 DEF IsExtracted

-----------------------------------------------------------------------------
(* What is returned, of those that may be missed too.                      *)
ReturnsAre ==
    /\ Returned("skip") => IsSkipped(input, result.value)
    /\ Returned("point") => IsPointedTo(input, result.value)
    /\ Returned("int") => IsExtracted(input, result.value)
    /\ Returned("name") => NameSkipped(input, result.value)

(* The invariant: the input is one of those that the function has.         *)
ElementInv ==
    /\ reader \in {"skip", "point", "int"} => input \in Elements
    /\ reader = "name" => input \in Names
    /\ ReturnsAre

(* No call has returned at the beginning.                                  *)
LEMMA ElementInit == CallInit => ElementInv
<1> SUFFICES ASSUME CallInit PROVE ElementInv
    OBVIOUS
<1>1. result = NotYet
    BY DEF CallInit
<1>2. ReturnsAre
    BY <1>1 DEF ReturnsAre, Returned
<1>3. reader = "name" => input \in Names
    BY DEF CallInit
<1>4. reader \in {"skip", "point", "int"} => input \in Elements
    BY DEF CallInit
<1> QED BY <1>2, <1>3, <1>4 DEF ElementInv

(* The elements that may be missed are all that are not read.              *)
LEMMA MissedIs ==
    ASSUME NEW e, IsInput(e), Len(e.type) = 1, ~IsRead(e)
    PROVE  \/ Len(Payload(e)) <= 3
           \/ e.k # 0 /\ Len(Payload(e)) <= Behind(e)
<1> DEFINE N == Len(Payload(e))  H == Behind(e)
<1>1. N \in Nat /\ H \in Nat
    <2> DEFINE b == Payload(e)  k == e.k
    <2>1. b \in Seq(Byte) /\ H = 2 + k /\ k \in 0..127
        BY Zenon, PayloadIs DEF IsPayload, IsInput, Behind
    <2> HIDE DEF b, k, H
    <2>2. Len(b) \in Nat
        BY <2>1
    <2>3. H \in Nat
        BY <2>1
    <2> QED BY Zenon, <2>2, <2>3 DEF b
<1>2. ~(N > 3) \/ (e.k # 0 /\ ~(N > H))
    BY Zenon DEF IsRead, Behind
<1> HIDE DEF N, H
<1>3. N <= 3 \/ (e.k # 0 /\ N <= H)
    BY <1>1, <1>2
<1> QED BY <1>3 DEF N, H

(* What is returned is right, or nothing where that is left open.          *)
LEMMA ReturnsAreRead == ElementInv => ElementsAreRead
<1> SUFFICES ASSUME ElementInv PROVE ElementsAreRead
    OBVIOUS
<1> DEFINE e == input  r == result.value
<1>1. NamesAreSkipped
    BY Zenon DEF ElementInv, ReturnsAre, NamesAreSkipped, NameSkipped
<1>2. IsWhole(e) <=> IsRead(e) /\ e.present >= e.n
    BY Zenon DEF IsWhole
<1>3. CASE reader \notin {"skip", "point", "int"}
    <2>1. ~Returned("skip") /\ ~Returned("point") /\ ~Returned("int")
        BY <1>3 DEF Returned
    <2> QED BY Zenon, <1>1, <2>1 DEF ElementsAreRead, BerIsRead
<1>4. CASE IsRead(e)
    <2>1. BerIsRead
        BY Zenon, <1>2, <1>4
        DEF BerIsRead, ElementInv, ReturnsAre, IsSkipped, IsPointedTo,
            IsExtracted, Behind
    <2> QED BY <1>1, <2>1 DEF ElementsAreRead
<1>5. CASE reader \in {"skip", "point", "int"} /\ ~IsRead(e)
    <2>1. IsInput(e)
        BY Zenon, <1>5, ElementsAssumption DEF IsInput, ElementInv
    <2>2. \/ Len(Payload(e)) <= 3
          \/ e.k # 0 /\ Len(Payload(e)) <= Behind(e)
          \/ Len(e.type) # 1
        BY Zenon, <1>5, <2>1, MissedIs
    <2>3. /\ Returned("skip") /\ Len(e.type) = 1 => r = Fail
          /\ Returned("skip") /\ r # Fail => r \in 2..(Len(Payload(e)) + 1)
          /\ Returned("point") /\ Len(e.type) = 1 => r = Fail
          /\ Returned("int") /\ Len(e.type) = 1 => r = NoInt
        BY Zenon, <1>2, <1>5
        DEF ElementInv, ReturnsAre, IsSkipped, IsPointedTo, IsExtracted
    <2>4. BerIsRead
        BY Zenon, <2>2, <2>3 DEF BerIsRead, Behind
    <2> QED BY <1>1, <2>4 DEF ElementsAreRead
<1> QED BY <1>3, <1>4, <1>5

(* Each call keeps the invariant: by what its reader returns, above.       *)
LEMMA ElementStep == ElementInv /\ [CallNext]_callVars => ElementInv'
<1> SUFFICES ASSUME ElementInv, [CallNext]_callVars PROVE ElementInv'
    OBVIOUS
<1>1. CASE UNCHANGED callVars
    <2>1. reader' = reader /\ input' = input /\ result' = result
        BY <1>1 DEF callVars
    <2>4. ReturnsAre'
        BY Zenon, <2>1 DEF ElementInv, ReturnsAre, Returned
    <2> QED BY <2>1, <2>4 DEF ElementInv
<1>2. ASSUME NEW r, NEW value, Returns(r, value),
             r = "skip" => IsSkipped(input, value),
             r = "point" => IsPointedTo(input, value),
             r = "int" => IsExtracted(input, value),
             r = "name" => NameSkipped(input, value)
      PROVE  ElementInv'
    <2>1. reader = r /\ reader' = reader /\ input' = input /\ result' = [value |-> value]
        BY <1>2 DEF Returns
    <2>2. result'.value = value
        BY <2>1
    <2>3. ReturnsAre'
        BY Zenon, <1>2, <2>1, <2>2 DEF ReturnsAre, Returned
    <2> QED BY <2>1, <2>3 DEF ElementInv
<1>3. ASSUME NEW r, NEW value, Returns(r, value), r \notin {"skip", "point", "int", "name"}
      PROVE  ElementInv'
    BY <1>2, <1>3
<1>4. input \in Elements => IsInput(input)
    BY Zenon, ElementsAssumption DEF IsInput
<1>5. CASE SkipOne
    <2>1. input \in Elements
        BY <1>5 DEF SkipOne, Returns, ElementInv
    <2> QED BY <1>2, <1>4, <1>5, <2>1, SkippedIs DEF SkipOne
<1>6. CASE PointToOne
    <2>1. input \in Elements
        BY <1>6 DEF PointToOne, Returns, ElementInv
    <2> QED BY <1>2, <1>4, <1>6, <2>1, PointedToIs DEF PointToOne
<1>7. CASE ExtractOne
    <2>1. input \in Elements
        BY <1>7 DEF ExtractOne, Returns, ElementInv
    <2> QED BY <1>2, <1>4, <1>7, <2>1, ExtractedIs DEF ExtractOne
<1>8. CASE SkipDnsName
    <2>1. input \in Names
        BY <1>8 DEF SkipDnsName, Returns, ElementInv
    <2>2. NameSkipped(input, SkipName(NamePayload(input), 1))
        BY Zenon, <2>1, NamesAssumption, NameIs
    <2> QED BY <1>2, <1>8, <2>2 DEF SkipDnsName
<1> QED BY <1>1, <1>3, <1>5, <1>6, <1>7, <1>8
        DEF CallNext, WriteHomeNet, GetTalkers, GetRrd, UnfoldHeader, Base64Decode

(* An element that is in the packet is skipped, pointed to and taken as    *)
(* its number, one that is not is refused, and a DNS name is passed as a   *)
(* whole (so-util_ber.c and dns_skip_name), for elements,     *)
(* names and packets of any length below what an integer of the machine    *)
(* counts, except that elements of packets up to three bytes and those     *)
(* whose long size ends the packet may be refused.                         *)
THEOREM ElementsHold == CallSpec => []ElementsAreRead
<1>1. ElementInv => ElementsAreRead
    BY ReturnsAreRead
<1> QED BY <1>1, ElementInit, ElementStep, PTL DEF CallSpec
=============================================================================
