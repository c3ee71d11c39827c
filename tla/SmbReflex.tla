------------------------------ MODULE SmbReflex ------------------------------
(***************************************************************************)
(* Rules 15009, 15453, 15847 and 15124 of the Snort image's shared-object  *)
(* rules (so_rules/src/os-windows_kb957097-smb-reflex.c).  A server's      *)
(* authentication challenge, found in SMB, NTLMSSP, Telnet or HTTP, is     *)
(* compared with those in a list that all streams share; one that another  *)
(* source sent before is reported.                                         *)
(***************************************************************************)
EXTENDS Naturals

CONSTANTS
    Size,       \* CHALLISTSIZE
    Wrap,       \* the values of challenge_index: 256
    Challenges, \* the challenges that servers send; 0 is none
    Sources     \* their addresses and ports

(* "CHALLISTSIZE must be a power of 2 <= 256" (lines 45-46).               *)
SizeAssumption ==
    /\ Size \in Nat \ {0}
    /\ Wrap \in Nat \ {0}
    /\ \E k \in 1..Wrap : Wrap = k * Size
ChallengesAssumption == Challenges \subseteq Nat
SourcesAssumption    == 0 \notin Sources

VARIABLES
    list,       \* challenge_list
    index,      \* challenge_index
    heard,      \* history: the last challenges stored, by age
    last,       \* history: the challenge that was looked up last
    verdict     \* what the rule returned for it

vars == <<list, index, heard, last, verdict>>

Slots   == 0..(Size - 1)
Records == [challenge : Challenges \ {0}, source : Sources]

(* A place of zeros, and no packet.                                        *)
None == [challenge |-> 0, source |-> 0]

(* challenge_index & CHALINDEXMASK                                         *)
Masked(i) == i % Size

Init ==
    /\ list = [i \in Slots |-> None]
    /\ index = 0
    /\ heard = [a \in Slots |-> None]
    /\ last = None
    /\ verdict = "none"

(***************************************************************************)
(* The conditions of the four rules, on what a packet has where they look. *)
(* Rule 15009 takes negotiate responses of a dialect after LANMAN 2.1, in  *)
(* security mode 3, whose capability byte is 0: the code has "&& 0x80".    *)
(* Rules 15453 and 15847 differ in the buffer they read, and 15124 decodes *)
(* the header, of which it needs 32 bytes.                                 *)
(***************************************************************************)
Packets ==
    [rule : {15009}, dialect : {2, 3}, mode : {1, 3}, caps : {0, 64, 128}]
        \cup [rule : {15453, 15847}, complete : BOOLEAN]
        \cup [rule : {15124}, decoded : {0, 31, 32}]

Inspected(p) ==
    \/ p.rule = 15009 /\ p.dialect >= 3 /\ p.mode = 3 /\ p.caps = 0
    \/ p.rule \in {15453, 15847} /\ p.complete
    \/ p.rule = 15124 /\ p.decoded >= 32

(* Variant of Known: the search ends at the place that is next.            *)
KnownToIndex(c) == {i \in 0..(Masked(index) - 1) : list[i].challenge = c}

Known(c) == {i \in Slots : list[i].challenge = c}

(* Variant of NextIndex: the last value of the byte is left out.           *)
NextIndexShort == (index + 1) % (Wrap - 1)

NextIndex == (index + 1) % Wrap

Remember(r) ==
    IF Known(r.challenge) = {}
    THEN /\ list' = [list EXCEPT ![Masked(index)] = r]
         /\ index' = NextIndex
         /\ heard' = [a \in Slots |-> IF a = 0 THEN r ELSE heard[a - 1]]
    ELSE UNCHANGED <<list, index, heard>>

(* check_challenge: the first place that has the challenge decides.        *)
CheckChallenge(r) ==
    /\ r.challenge # 0
    /\ Remember(r)
    /\ last' = r
    /\ verdict' = IF \E i \in Known(r.challenge) :
                        /\ list[i].source # r.source
                        /\ \A j \in Known(r.challenge) : i <= j
                  THEN "match" ELSE "nomatch"

Eval(p, r) == Inspected(p) /\ CheckChallenge(r)

(* The sensor starts again: what rules keep is in its memory.              *)
Restart ==
    /\ list' = [i \in Slots |-> None]
    /\ index' = 0
    /\ heard' = [a \in Slots |-> None]
    /\ last' = None
    /\ verdict' = "none"

Next ==
    \/ \E p \in Packets, c \in Challenges, s \in Sources :
            Eval(p, [challenge |-> c, source |-> s])
    \/ Restart

Spec == Init /\ [][Next]_vars

-----------------------------------------------------------------------------
TypeOK ==
    /\ list \in [Slots -> Records \cup {None}]
    /\ index \in 0..(Wrap - 1)
    /\ heard \in [Slots -> Records \cup {None}]
    /\ last \in Records \cup {None}
    /\ verdict \in {"none", "match", "nomatch"}

(* A challenge is reported if, and only if, it is among the last Size new  *)
(* ones and came from another source: a server that repeats its own, and a *)
(* challenge that nobody sent before, raise no alert.                      *)
ReflectionIsReported ==
    last # None =>
        (verdict = "match" <=>
            \E a \in Slots : /\ heard[a].challenge = last.challenge
                             /\ heard[a].source # last.source)
=============================================================================
