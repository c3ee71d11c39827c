------------------------------- MODULE Readers -------------------------------
(***************************************************************************)
(* The functions of PayloadReaders and CharmLoops, each on the inputs that *)
(* a configuration gives it.  A behaviour is a call: the input is chosen,  *)
(* and one step returns.                                                   *)
(***************************************************************************)
EXTENDS PayloadReaders, CharmLoops

CONSTANTS
    Headers,    \* texts for unfold_header
    Datas,      \* data for base64decode
    Sizes,      \* of the output buffer of both
    Elements,   \* [type, want, k, n, first, present, tail]
    Names,      \* [labels, end, length]: see NamePayload
    Hosts,      \* lists of addresses
    Dumps       \* lists of lines or rows

(* Texts and data are sequences, data of bytes; a size is what is left of  *)
(* the output buffer.                                                      *)
ASSUME TextsAssumption ==
    /\ \A text \in Headers : text \in Seq(Range(text))
    /\ \A data \in Datas : data \in Seq(Byte)
    /\ Sizes \subseteq Nat

(* A dump is lines of text, none of which is the mark of an exception.     *)
ASSUME DumpsAssumption ==
    \A lines \in Dumps :
        /\ lines \in Seq(STRING)
        /\ \A i \in DOMAIN lines : lines[i] # Failed[1]

(* A label is shorter than what makes a byte a pointer; a name ends with a *)
(* zero or with a pointer of two bytes.                                    *)
ASSUME NamesAssumption ==
    \A e \in Names :
        /\ e.labels \in Seq(1..191) /\ e.length \in Nat
        /\ e.end = <<0>> \/ \E c \in 192..255, x \in Byte : e.end = <<c, x>>

(* The addresses that "hostname -I" names are a list.                      *)
ASSUME HostsAssumption == \A list \in Hosts : list \in Seq(Range(list))

VARIABLES
    reader, \* the function
    input,  \* its input
    result  \* what it returned, when it has

callVars == <<reader, input, result>>

NotYet == [pending |-> TRUE]

(* An element of which "present" bytes of data are in the packet, the      *)
(* first of them "first", and, where that is all, "tail" bytes after it.   *)
Contents(e) ==
    [i \in 1..Least(e.present, e.n) |-> IF i = 1 THEN e.first ELSE 7]

Payload(e) ==
    ElementHead(e.type, e.k, e.n) \o Contents(e)
        \o [i \in 1..(IF e.present < e.n THEN 0 ELSE e.tail) |-> 7]

(* A name of labels of these lengths, and a pointer or a zero, in a packet *)
(* that is cut off after "length" bytes.                                   *)
WholeName(e) ==
    FlattenSeq([i \in DOMAIN e.labels |->
        <<e.labels[i]>> \o [j \in 1..e.labels[i] |-> 7]]) \o e.end

NamePayload(e) ==
    LET b == WholeName(e) \o <<7, 0>> IN SubSeq(b, 1, Least(e.length, Len(b)))

(* An element's type is a short identifier, or one of several bytes; its   *)
(* size is written in one byte, or in k bytes that are enough for it; the  *)
(* packet has at most what the size says, and a length that an integer of  *)
(* the machine can count, as every packet has.                             *)
ASSUME ElementsAssumption ==
    \A e \in Elements :
        /\ e.type \in Seq(Byte) /\ Len(e.type) >= 1
        /\ Len(e.type) = 1 => e.type[1] % 32 # 31
        /\ e.k \in 0..127 /\ e.n \in Nat
        /\ IF e.k = 0 THEN e.n < 128 ELSE e.n < Weight[e.k]
        /\ e.first \in Byte /\ e.tail \in Nat
        /\ e.present \in 0..e.n
        /\ Len(Payload(e)) < 256 ^ IntBytes

CallInit ==
    /\ \/ reader = "unfold" /\ input \in [text : Headers, size : Sizes]
       \/ reader = "decode" /\ input \in [data : Datas, junk : 0..3, size : Sizes]
       \/ reader \in {"skip", "point", "int"} /\ input \in Elements
       \/ reader = "name" /\ input \in Names
       \/ reader = "homenet" /\ input \in Hosts
       \/ reader \in {"talkers", "rrd"} /\ input \in Dumps
    /\ result = NotYet

Returns(r, value) ==
    /\ reader = r
    /\ result = NotYet
    /\ result' = [value |-> value]
    /\ UNCHANGED <<reader, input>>

(* The text to decode has a character of no meaning somewhere.             *)
Base64Text(i) ==
    LET text == Encoded(i.data) IN
    IF i.junk > Len(text) THEN text ELSE InsertAt(text, i.junk + 1, Junk)

UnfoldHeader == Returns("unfold", Unfold(input.text, input.size))
Base64Decode == Returns("decode", Decode(Base64Text(input), input.size))
SkipOne      == Returns("skip", SkipElement(Payload(input), 1, input.want))
PointToOne   == Returns("point", PointToData(Payload(input), 1, input.want))
ExtractOne   == Returns("int", ExtractInt(Payload(input), 1))
SkipDnsName  == Returns("name", SkipName(NamePayload(input), 1))
WriteHomeNet == Returns("homenet", HomeNet(input))
GetTalkers   == Returns("talkers", TopTalkers(input))
GetRrd       == Returns("rrd", Rrd(input))

CallNext ==
    \/ UnfoldHeader \/ Base64Decode
    \/ SkipOne \/ PointToOne \/ ExtractOne \/ SkipDnsName
    \/ WriteHomeNet \/ GetTalkers \/ GetRrd

CallSpec == CallInit /\ [][CallNext]_callVars

-----------------------------------------------------------------------------
Returned(r) == reader = r /\ result # NotYet

(* What the two text helpers put out is the header without its folding,    *)
(* and the data that was encoded: all of it where the buffer has a byte    *)
(* more, and else as much as fits beside the final '\0'.  A data error is  *)
(* never reported for text that was encoded, whatever is between.          *)
TextIsRecovered ==
    /\ Returned("unfold") =>
            result.value = Written(Unfolded(input.text), input.size)
    /\ Returned("decode") =>
            /\ result.value.out = Written(input.data, input.size)
            /\ input.size > Len(input.data) => result.value.error = 0
            /\ result.value.error \in {0, 1}

(* The cursor moves behind an element of the type asked for exactly when   *)
(* the packet has it whole, however its size is written and even where     *)
(* sizes overflow an integer; else nothing is skipped.  An integer is its  *)
(* value, or nothing where it is wider than the type, and the cursor that  *)
(* is moved to the data of an element is where they begin, if its size is  *)
(* read.  Two elements may also be missed: ber_get_element refuses packets *)
(* of three bytes, where its comment has "|02 01 01|" as the smallest (142 *)
(* and 143 of so-util_ber.c), and ber_get_size a long size that the packet *)
(* ends with, where its comment says "not enough payload".  An identifier  *)
(* of more than one byte is counted as one, and the cursor moves less than *)
(* that; but it never leaves the packet.                                   *)
BerIsRead ==
    LET b      == Payload(input)
        head   == Len(ElementHead(input.type, input.k, input.n))
        missed == Len(b) <= 3 \/ (input.k # 0 /\ Len(b) <= head)
        fits   == input.n < 256 ^ IntBytes
        number == Number(Contents(input))
        whole  == input.present >= input.n
        asked  == input.want = input.type[1]
        Is(value, none) == \/ result.value = value
                           \/ missed /\ result.value = none
    IN  /\ Returned("skip") /\ Len(input.type) = 1 =>
                Is(IF whole /\ asked THEN head + input.n + 1 ELSE Fail, Fail)
        /\ Returned("skip") /\ result.value # Fail => result.value \in 2..(Len(b) + 1)
        /\ Returned("point") /\ Len(input.type) = 1 =>
                Is(IF asked /\ fits THEN head + 1 ELSE Fail, Fail)
        /\ Returned("int") /\ Len(input.type) = 1 =>
                Is(IF whole /\ input.type[1] = 2 /\ number < 256 ^ IntBytes
                   THEN [cursor |-> head + input.n + 1, value |-> number]
                   ELSE NoInt, NoInt)

(* A name is skipped with what ends it, and a name that the packet ends    *)
(* before is not; of a pointer the first byte is enough.                   *)
NamesAreSkipped ==
    Returned("name") =>
        LET name == WholeName(input)
            need == Len(name) - Len(input.end) + 1
        IN  result.value = IF Len(NamePayload(input)) >= need
                           THEN Len(name) + 1 ELSE Fail

(* What the rules read with the two helpers is what the packet holds.      *)
ElementsAreRead == BerIsRead /\ NamesAreSkipped

(* The loops over lists that they shorten, or take from the end of, lose   *)
(* nothing on the way.  HOME_NET has every IPv4 address of "hostname -I",  *)
(* as it is or as its network, wherever IPv6 ones were taken out before    *)
(* it, nothing but what was named, and without IPv6 each one's network in  *)
(* its place.  The rows of the top talkers, and the end of a dump behind   *)
(* its head, run to the last one without a gap; the last three rows are    *)
(* among them where there are six, and no dump has more than TailLines of  *)
(* its end.                                                                *)
LoopsLoseNothing ==
    /\ Returned("homenet") =>
            LET Ipv4 == {a \in Range(input) : a.family # 6}
                nets == Range(result.value)
            IN  /\ \A a \in Ipv4 : a \in nets \/ Network(a) \in nets
                /\ nets \subseteq Range(input) \cup {Network(a) : a \in Ipv4}
                /\ Range(input) = Ipv4 =>
                        result.value = [j \in DOMAIN input |-> Network(input[j])]
    /\ Returned("talkers") =>
            \/ result.value = Failed /\ Len(input) < 6
            \/ \E i \in DOMAIN input :
                    /\ result.value = SubSeq(input, i, Len(input))
                    /\ Len(input) >= 6 => i <= Len(input) - 2
    /\ Returned("rrd") =>
            \/ result.value = Failed /\ Len(input) < HeadLines + TailLines
            \/ \E i \in DOMAIN input :
                    /\ i > Len(input) - TailLines
                    /\ result.value = SubSeq(input, 1, HeadLines)
                                            \o SubSeq(input, i, Len(input))
=============================================================================
