--------------------------- MODULE HandshakeRules ---------------------------
(***************************************************************************)
(* The shared-object rules of the Snort image that compare what a stream   *)
(* says later with what it said before (so_rules/src):                     *)
(*   59879, 59880  the public value of an SRP client with the prime of     *)
(*                 the server (server-other_openssl-srp-bof.c)             *)
(*   41547, 41548  the session id of a TLS server with the client's        *)
(*                 (server-other_f5-bigip-memory-disclosure.c)             *)
(*   13475         the sort key of an LDAP search with that of the first   *)
(*                 page (os-windows_kb946538-active-directory-ldap.c)      *)
(*   31361         the lengths in the fragments of one DTLS message        *)
(*                 (server-other_openssl-dtls-hs-fragment.c)               *)
(* The first two are pairs that share a block of data; they are named by   *)
(* the rule that owns it.                                                  *)
(***************************************************************************)
EXTENDS StreamData, SequencesExt

CONSTANTS
    Records,    \* TLS records that are looked at in a packet: 5
    MaxOid,     \* the longest object identifier that is stored: 300
    TableLen,   \* FRAGMENT_TABLE_LEN
    Window,     \* TIME_WINDOW, in seconds
    MaxClock    \* bound: the seconds that a DTLS stream lasts

HandshakeRuleIds == {59879, 41547, 13475, 31361}

ASSUME BoundsAssumption ==
    /\ Records \in Nat \ {0} /\ MaxOid \in Nat /\ TableLen \in Nat \ {0}
    /\ Window \in Nat /\ MaxClock \in Nat

(***************************************************************************)
(* What packets hold.  A TLS message is a hello with an SRP cipher suite   *)
(* or without, a key exchange with the length of its prime or public       *)
(* value, or another one; -1 is a length that the packet ends before.      *)
(* A search has two object identifiers, each of them with whether the      *)
(* packet has it to its end.  "gap" is the seconds since the last packet   *)
(* of the stream, and a DTLS record that is no handshake has no fragments. *)
(***************************************************************************)
Messages  == [type : {"srphello", "hello", "serverkeyx", "clientkeyx", "other"},
              len : Nat \cup {-1}]
Hellos    == [from : {"client", "server"}, len : 0..255, msb : Nat]
Searches  == [page : Seq(Nat), pageWhole : BOOLEAN,
              sort : Seq(Nat), sortWhole : BOOLEAN]
Fragments == [type : {"hello", "keyx", "cipher", "server"},
              seq : Nat, total : Nat, len : Nat]
Datagrams == [gap : Nat, fragments : Seq(Fragments)]

ASSUME HandshakePacketsAssumption ==
    /\ 59879 \in Rules => Packets[59879] \subseteq Seq(Messages)
    /\ 41547 \in Rules => Packets[41547] \subseteq Hellos
    /\ 13475 \in Rules => Packets[13475] \subseteq Searches
    /\ 31361 \in Rules => Packets[31361] \subseteq Datagrams

NoEntry == [type |-> "none", total |-> 0, time |-> 0]

(* A new block is all zeros.                                               *)
NewSrp   == [state |-> "zero", prime |-> 0]
NewTable == [entry |-> [s \in 0..(TableLen - 1) |-> NoEntry]]

-----------------------------------------------------------------------------
(* isSRPServerHello, checkServerKeyX and checkClientKeyX: the state        *)
(* advances before the length is read.                                     *)
ServerKeyX(d, m) ==
    IF d.state # "srphello" THEN d
    ELSE [state |-> "serverkeyx",
          prime |-> IF m.len = -1 THEN d.prime ELSE m.len]

(* Variant of ClientKeyX: the state is not looked at.                      *)
ClientKeyXAny(d, m) ==
    IF d = NoData THEN [block |-> d, alert |-> FALSE]
    ELSE [block |-> [d EXCEPT !.state = "clientkeyx"],
          alert |-> m.len > d.prime]

ClientKeyX(d, m) ==
    IF d.state # "serverkeyx" THEN [block |-> d, alert |-> FALSE]
    ELSE [block |-> [d EXCEPT !.state = "clientkeyx"],
          alert |-> m.len > d.prime]

(* checkSRPHeapOverflow: hellos and other messages are passed over; a key  *)
(* exchange, or a hello without SRP, is the last that is looked at.        *)
Looked(p) ==
    LET ends == {i \in DOMAIN p : p[i].type \notin {"srphello", "other"}}
        all  == IF Len(p) < Records THEN Len(p) ELSE Records
    IN  IF \E i \in ends : i <= all
        THEN SubSeq(p, 1, CHOOSE i \in ends : \A j \in ends : i <= j)
        ELSE SubSeq(p, 1, all)

Srp(p) ==
    LET msgs   == Looked(p)
        greets == \E i \in DOMAIN msgs : msgs[i].type = "srphello"
        d      == IF greets THEN [Or(NewSrp) EXCEPT !.state = "srphello"]
                  ELSE data
        m      == Last(msgs)
        client == ClientKeyX(d, m)
    IN  /\ msgs # <<>>
        /\ \/ /\ m.type = "serverkeyx"
              /\ data' = ServerKeyX(d, m)
              /\ verdict' = "nomatch"
           \/ /\ m.type = "clientkeyx"
              /\ data' = client.block
              /\ verdict' = Verdict(client.alert)
           \/ /\ m.type \notin {"serverkeyx", "clientkeyx"}
              /\ data' = d
              /\ verdict' = "nomatch"
        /\ seen' = seen \o msgs

-----------------------------------------------------------------------------
(* Variant of SessionHello: the first id of the stream is kept.            *)
SessionHelloFirst(h) ==
    IF h.len = 0 \/ h.len >= 32 \/ data # NoData THEN data
    ELSE [state |-> "session", len |-> h.len, msb |-> h.msb]

(* rule41547eval: an id that is whole, or none, is not stored.             *)
SessionHello(h) ==
    IF h.len = 0 \/ h.len >= 32 THEN data
    ELSE [state |-> "session", len |-> h.len, msb |-> h.msb]

(* rule41548eval                                                           *)
Resumed(h) == /\ h.len = 32
              /\ data # NoData
              /\ data.len < h.len
              /\ data.msb = h.msb

Session(h) ==
    /\ \/ /\ h.from = "client"
          /\ data' = SessionHello(h)
          /\ verdict' = "nomatch"
       \/ /\ h.from = "server"
          /\ verdict' = Verdict(Resumed(h))
          /\ UNCHANGED data
    /\ seen' = Append(seen, h)

-----------------------------------------------------------------------------
(* rule13475eval: the first search whose identifiers are whole, and short  *)
(* enough, is stored; the later ones are compared with it.                 *)
FirstPage(s) == [state |-> "page", page |-> s.page, sort |-> s.sort]

Storable(s) == /\ s.pageWhole /\ s.sortWhole
               /\ Len(s.page) <= MaxOid /\ Len(s.sort) <= MaxOid

(* Lengths that differ decide without the rest of the identifier.          *)
OtherSort(s) ==
    \/ Len(s.sort) # Len(data.sort)
    \/ s.sortWhole /\ s.sort # data.sort

(* Variant of Search: every search is stored.                              *)
SearchKeepsLast(s) ==
    /\ data' = IF Storable(s) THEN FirstPage(s) ELSE data
    /\ verdict' = Verdict(/\ data # NoData
                          /\ s.pageWhole /\ s.page = data.page
                          /\ OtherSort(s))

Search(s) ==
    /\ data' = IF data = NoData /\ Storable(s) THEN FirstPage(s) ELSE data
    /\ verdict' = Verdict(/\ data # NoData
                          /\ s.pageWhole /\ s.page = data.page
                          /\ OtherSort(s))

SearchPage(s) == Search(s) /\ seen' = Append(seen, s)

-----------------------------------------------------------------------------
(* check_msg_seq                                                           *)
Disagrees(entry, f, now) ==
    /\ entry.total # 0
    /\ f.type = entry.type
    /\ now <= entry.time + Window
    /\ f.total # entry.total

(* Variant of Record: a fragment that came in the window is not recorded.  *)
RecordStale(d, f, now) ==
    IF d.entry[f.seq].total # 0 /\ now <= d.entry[f.seq].time + Window THEN d
    ELSE [d EXCEPT !.entry[f.seq] =
            [type |-> f.type, total |-> f.total, time |-> now]]

Record(d, f, now) ==
    [d EXCEPT !.entry[f.seq] =
        [type |-> f.type, total |-> f.total, time |-> now]]

(* The fragments of a datagram are looked at in order, up to one that is   *)
(* no client's, that is longer than its message, or that disagrees.  Those *)
(* of whole messages, and of messages that the table has no place for, are *)
(* passed over.                                                            *)
Fragment(acc, f) ==
    IF acc.stop \/ f.type = "server" \/ f.len > f.total
    THEN [acc EXCEPT !.stop = TRUE]
    ELSE IF f.len = f.total \/ f.seq >= TableLen THEN acc
    ELSE LET bad == Disagrees(acc.block.entry[f.seq], f, acc.now) IN
         [acc EXCEPT
            !.block = IF bad THEN @ ELSE Record(@, f, acc.now),
            !.stop  = bad,
            !.alert = bad,
            !.log   = Append(@, [type |-> f.type, seq |-> f.seq, alert |-> bad,
                                 total |-> f.total, time |-> acc.now])]

Datagram(p) ==
    LET now == clock + p.gap
        end == FoldLeft(Fragment,
                        [block |-> Or(NewTable), now |-> now, stop |-> FALSE,
                         alert |-> FALSE, log |-> seen], p.fragments)
    IN  /\ now <= MaxClock
        /\ clock' = now
        /\ data' = IF end.log = seen THEN data ELSE end.block
        /\ seen' = end.log
        /\ verdict' = Verdict(end.alert)

-----------------------------------------------------------------------------
Compare(p) ==
    \/ rule = 59879 /\ Srp(p) /\ UNCHANGED clock
    \/ rule = 41547 /\ Session(p) /\ UNCHANGED clock
    \/ rule = 13475 /\ SearchPage(p) /\ UNCHANGED clock
    \/ rule = 31361 /\ Datagram(p)

-----------------------------------------------------------------------------
HandshakeTypeOK ==
    data # NoData =>
        /\ rule = 59879 => data \in [state : {"srphello", "serverkeyx",
                                              "clientkeyx"}, prime : Nat]
        /\ rule = 41547 => data \in [state : {"session"}, len : 1..31, msb : Nat]
        /\ rule = 13475 => data \in [state : {"page"}, page : Seq(Nat),
                                     sort : Seq(Nat)]
        /\ rule = 31361 => DOMAIN data.entry = 0..(TableLen - 1)

(* The places of the history, from the first one on, at which P holds.     *)
At(P(_)) == {i \in DOMAIN seen : P(seen[i])}

Latest(S)   == CHOOSE i \in S : \A j \in S : j <= i
Earliest(S) == CHOOSE i \in S : \A j \in S : i <= j

(* The prime that the rule knows: the one that was read last.  It is read  *)
(* from the first key exchange of the server after an SRP hello, if the    *)
(* packet has its length; before any it is 0.                              *)
PrimeRead ==
    LET Answers(i) == \E h \in 1..(i - 1) :
                        /\ seen[h].type = "srphello"
                        /\ \A j \in (h + 1)..(i - 1) : seen[j].type # "serverkeyx"
        reads == {i \in DOMAIN seen : /\ seen[i].type = "serverkeyx"
                                      /\ seen[i].len # -1
                                      /\ Answers(i)}
    IN  IF reads = {} THEN 0 ELSE seen[Latest(reads)].len

(* For the rule, an SRP hello begins a handshake, the first key exchange   *)
(* of the server after it has its prime, and the first one of the client   *)
(* after that is compared; others, repeated or out of order, raise no      *)
(* alert.  Where the length of the prime is in its packet and no hello     *)
(* without SRP has come since the SRP hello, the comparison is with the    *)
(* prime of this handshake and no other.  In the two cases that are left   *)
(* the code goes on comparing (openssl-srp-bof.c:367-371, 409-419), with   *)
(* a prime that need not be of this handshake: of them only this is said,  *)
(* that no value is reported unless it is longer than the prime read last. *)
SrpFollowsHandshake ==
    LET Hello(m)  == m.type = "srphello"
        hellos    == At(Hello)
        begin     == Latest(hellos)
        Server(i) == seen[i].type = "serverkeyx" /\ i > begin
        servers   == {i \in DOMAIN seen : Server(i)}
        keyx      == Earliest(servers)
        between   == {i \in (keyx + 1)..(Len(seen) - 1) :
                        seen[i].type = "clientkeyx"}
        answered  == /\ hellos # {} /\ servers # {}
                     /\ keyx < Len(seen) /\ between = {}
        own       == /\ seen[keyx].len # -1
                     /\ \A i \in (begin + 1)..(Len(seen) - 1) :
                            seen[i].type # "hello"
        alert     == verdict = "match"
    IN  (rule = 59879 /\ seen # <<>> /\ Last(seen).type = "clientkeyx"
            /\ verdict # "none") =>
            /\ ~answered => verdict = "nomatch"
            /\ answered /\ own => (alert <=> Last(seen).len > seen[keyx].len)
            /\ answered /\ alert => Last(seen).len > PrimeRead

(* A server resumes a session, and this is reported, exactly when the last *)
(* part of an id that a client gave in the stream begins as the server's   *)
(* whole id does, whatever other hellos came in between.                   *)
SessionIsResumed ==
    LET Given(h) == h.from = "client" /\ h.len \in 1..31
        given    == At(Given)
    IN  (rule = 41547 /\ seen # <<>> /\ Last(seen).from = "server") =>
            (verdict = "match" <=> /\ Last(seen).len = 32
                                   /\ given # {}
                                   /\ seen[Latest(given)].msb = Last(seen).msb)

(* A search is reported exactly when it names the page of the stream's     *)
(* first search that could be stored, and another sort key.                *)
PagesKeepSort ==
    LET first == At(Storable)
        s     == Last(seen)
        f     == seen[Earliest(first)]
        known == s.sortWhole \/ Len(s.sort) # Len(f.sort)
    IN  (rule = 13475 /\ seen # <<>>) =>
            (verdict = "match" <=> /\ first # {} /\ s.pageWhole
                                   /\ s.page = f.page
                                   /\ s.sort # f.sort /\ known)

(* The fragments of a message agree about its length unless one is         *)
(* reported: of two that follow each other in the window, with the same    *)
(* sequence number and type, the second one has the first one's length or  *)
(* raises an alert; and an alert has such a fragment before it.  One that  *)
(* was reported is not what later ones are compared with.                  *)
Recorded(k) ==
    LET prior == {i \in 1..(k - 1) : ~seen[i].alert /\ seen[i].seq = seen[k].seq}
    IN  IF prior = {} THEN {} ELSE {Latest(prior)}

FragmentsAgree ==
    rule = 31361 =>
        \A k \in DOMAIN seen :
            seen[k].alert <=>
                \E i \in Recorded(k) :
                    /\ seen[i].type = seen[k].type
                    /\ seen[k].time <= seen[i].time + Window
                    /\ seen[i].total # seen[k].total

(* What the rules of sessions and searches compare is what was said.       *)
ComparedAsSaid == SessionIsResumed /\ PagesKeepSort
=============================================================================
