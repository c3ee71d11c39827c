--------------------------- MODULE PayloadReaders ---------------------------
(***************************************************************************)
(* The helpers with which the shared-object rules of the Snort image read  *)
(* a payload (so_rules/src): so-util_base64-decode.c, so-util_ber.c and    *)
(* so-util_dns.c.  A payload is a sequence of bytes, a cursor a position   *)
(* in it, and the end of the payload the position after its last byte.     *)
(***************************************************************************)
EXTENDS Naturals, Integers, Sequences, SequencesExt

CONSTANT IntBytes   \* the bytes of an unsigned integer: 4

ASSUME IntBytesAssumption == IntBytes \in 1..4

Byte == 0..255
Fail == -1

Least(i, j) == IF i < j THEN i ELSE j

(***************************************************************************)
(* unfold_header.  A header is made of "\r", "\n", white space and other   *)
(* characters; folding is httpheaderfolding.                               *)
(***************************************************************************)
CR == "cr"
LF == "lf"
SP == "space"

(* Variant of UnfoldStep: a folded line may begin with any character.      *)
UnfoldStepAny(size, acc, c) ==
    IF acc.stop \/ Len(acc.out) >= size THEN acc
    ELSE IF c = LF /\ acc.folding # 1 THEN [acc EXCEPT !.folding = 1]
    ELSE IF c = CR /\ acc.folding = 0 THEN [acc EXCEPT !.folding = 2]
    ELSE [acc EXCEPT !.out = Append(@, c), !.folding = 0]

UnfoldStep(size, acc, c) ==
    IF acc.stop \/ Len(acc.out) >= size THEN acc
    ELSE IF c = SP /\ acc.folding # 2
         THEN [acc EXCEPT !.out = Append(@, c), !.folding = 0]
    ELSE IF c = LF /\ acc.folding # 1 THEN [acc EXCEPT !.folding = 1]
    ELSE IF c = CR /\ acc.folding = 0 THEN [acc EXCEPT !.folding = 2]
    ELSE IF acc.folding = 0 THEN [acc EXCEPT !.out = Append(@, c)]
    ELSE [acc EXCEPT !.stop = TRUE]

(* The last byte of the buffer is for the '\0'.                            *)
Written(out, size) == SubSeq(out, 1, Least(Len(out), size - 1))

Unfold(text, size) ==
    LET Step(acc, c) == UnfoldStep(size, acc, c)
        end == FoldLeft(Step, [out |-> <<>>, folding |-> 0, stop |-> FALSE],
                        text)
    IN  Written(end.out, size)

(***************************************************************************)
(* base64decode, on the values that decode64tab has for the characters.    *)
(***************************************************************************)
Pad  == 99
Junk == 100

Ends(acc, out, error) == [acc EXCEPT !.quad = <<>>, !.out = out,
                                     !.error = error, !.stop = TRUE]

Quad(size, acc, q) ==
    LET one   == Append(acc.out, (q[1] * 4 + q[2] \div 16) % 256)
        two   == Append(one, (q[2] * 16 + q[3] \div 4) % 256)
        three == Append(two, (q[3] * 64 + q[4]) % 256)
    IN  IF q[1] = Pad \/ q[2] = Pad   THEN Ends(acc, acc.out, -1)
        ELSE IF Len(acc.out) >= size  THEN Ends(acc, acc.out, 1)
        ELSE IF Len(one) >= size      THEN Ends(acc, one, 1)
        ELSE IF q[3] = Pad            THEN Ends(acc, one, IF q[4] = Pad THEN 0 ELSE -1)
        ELSE IF Len(two) >= size      THEN Ends(acc, two, 1)
        ELSE IF q[4] = Pad            THEN Ends(acc, two, 0)
        ELSE [acc EXCEPT !.quad = <<>>, !.out = three]

DecodeStep(size, acc, v) ==
    IF acc.stop \/ v = Junk THEN acc
    ELSE IF Len(acc.quad) < 3 THEN [acc EXCEPT !.quad = Append(@, v)]
    ELSE Quad(size, acc, Append(acc.quad, v))

Decode(text, size) ==
    LET Step(acc, v) == DecodeStep(size, acc, v)
        end == FoldLeft(Step, [quad |-> <<>>, out |-> <<>>, error |-> 0,
                               stop |-> FALSE], text)
    IN  [error |-> IF end.error = 0 /\ end.quad # <<>> THEN 2 ELSE end.error,
         out   |-> Written(end.out, size)]

(***************************************************************************)
(* so-util_ber.c: an element is an identifier, a size and as many bytes.   *)
(***************************************************************************)
UInt(n) == n % (256 ^ IntBytes)

(* The number that bytes make, the first counting most.                    *)
Number(bytes) ==
    LET Add(acc, byte) == acc * 256 + byte IN FoldLeft(Add, 0, bytes)

(* ber_get_int                                                             *)
GetInt(bytes) ==
    LET value == {i \in DOMAIN bytes : bytes[i] # 0}
        first == IF value = {} THEN Len(bytes) + 1
                 ELSE CHOOSE i \in value : \A j \in value : i <= j
    IN  IF Len(bytes) + 1 - first > IntBytes THEN Fail
        ELSE Number(SubSeq(bytes, first, Len(bytes)))

(* ber_get_size: Fail, or the value and how many bytes it takes.           *)
GetSize(b, p) ==
    LET k == b[p] - 128 IN
    IF p > Len(b) THEN [len |-> 0, size |-> Fail]
    ELSE IF k < 0 THEN [len |-> 1, size |-> b[p]]
    ELSE IF p + 1 + k > Len(b) THEN [len |-> 0, size |-> Fail]
    ELSE [len |-> k + 1, size |-> GetInt(SubSeq(b, p + 1, p + k))]

(* The identifier that begins at p: zero padding is passed over, and one   *)
(* that has more bits than an integer is refused.                          *)
Identifier(b, p) ==
    LET last == CHOOSE q \in (p + 1)..(Len(b) + 1) :
                    /\ q > Len(b) \/ b[q] < 128
                    /\ \A r \in (p + 1)..(q - 1) : b[r] >= 128
        Shift(acc, byte) ==
            IF acc.bits = 0 /\ byte = 128 THEN acc
            ELSE [type |-> UInt(acc.type * 128 + (byte % 128)),
                  bits |-> acc.bits + 7]
        high == FoldLeft(Shift, [type |-> 0, bits |-> 0],
                         SubSeq(b, p + 1, last - 1))
        all  == IF last > Len(b) THEN high
                ELSE [type |-> UInt(high.type * 128 + b[last]),
                      bits |-> high.bits + 7]
    IN  IF b[p] % 32 # 31
        THEN [type |-> b[p], next |-> p + 1]
        ELSE [type |-> IF all.bits > 8 * IntBytes THEN Fail ELSE all.type,
              next |-> Least(last, Len(b)) + 1]

(* ber_get_element: what it returns, and the fields that it fills; "data"  *)
(* is where the data begin.                                                *)
NoElement == [avail |-> Fail, type |-> Fail, len |-> 0, total |-> 0, data |-> 0]

GetElement(b, p) ==
    LET id    == Identifier(b, p)
        size  == GetSize(b, id.next)
        begin == id.next + size.len
        all   == UInt(1 + size.len + size.size)
        rest  == Len(b) + 1 - begin
        Element(avail, total) == [avail |-> avail, type |-> id.type,
                                  len |-> size.size, total |-> total,
                                  data |-> begin]
    IN  IF p + 3 > Len(b) THEN NoElement
        ELSE IF id.type = Fail \/ size.size = Fail THEN NoElement
        ELSE IF begin + size.size > Len(b) \/ all <= size.len
             THEN Element(rest, 1 + size.len + rest)
             ELSE Element(size.size, all)

(* Variant of SkipElement: what is available is not compared.              *)
SkipElementCut(b, p, type) ==
    LET e == GetElement(b, p) IN
    IF e.avail < 0 \/ e.type # type THEN Fail ELSE p + e.total

(* ber_skip_element: the new cursor, or Fail.                              *)
SkipElement(b, p, type) ==
    LET e == GetElement(b, p) IN
    IF e.avail < 0 \/ e.type # type \/ e.avail # e.len THEN Fail
    ELSE p + e.total

(* ber_point_to_data: the new cursor, or Fail.                             *)
PointToData(b, p, type) ==
    LET e == GetElement(b, p) IN
    IF e.avail < 0 \/ e.type # type THEN Fail ELSE e.data

(* ber_extract_int, ber_extract_int_val: the new cursor, or Fail, and the  *)
(* value.                                                                  *)
NoInt == [cursor |-> Fail, value |-> Fail]

ExtractInt(b, p) ==
    LET e     == GetElement(b, p)
        value == GetInt(SubSeq(b, e.data, e.data + e.len - 1))
    IN  IF e.avail < 0 \/ e.avail # e.len \/ e.type # 2 THEN NoInt
        ELSE IF value = Fail THEN NoInt
        ELSE [cursor |-> p + e.total, value |-> value]

(***************************************************************************)
(* dns_skip_name: the new cursor, or Fail.                                 *)
(***************************************************************************)
SkipName(b, p) ==
    LET stop[i \in 1..(Len(b) + 192)] ==
            IF i > Len(b) \/ b[i] = 0 \/ b[i] >= 192 THEN i
            ELSE stop[i + b[i] + 1]
        at == stop[p]
    IN  IF at > Len(b) THEN Fail
        ELSE at + (IF b[at] >= 192 THEN 2 ELSE 1)

-----------------------------------------------------------------------------
(* A header: every "\n" is followed by white space, and every "\r" by a    *)
(* "\n"; what the last character is followed by is not in it.              *)
IsHeader(text) ==
    \A i \in 1..(Len(text) - 1) :
        /\ text[i] = LF => text[i + 1] = SP
        /\ text[i] = CR => text[i + 1] = LF

(* "Removes header folding and exits when the end of a header is found"    *)
(* (lines 46-48): the longest beginning that is a header, without its      *)
(* "\r" and "\n".                                                          *)
Unfolded(text) ==
    LET headers == {n \in 0..Len(text) : IsHeader(SubSeq(text, 1, n))}
        n       == CHOOSE i \in headers : \A j \in headers : j <= i
    IN  FlattenSeq([i \in 1..n |->
            IF text[i] \in {CR, LF} THEN <<>> ELSE <<text[i]>>])

(* The base64 text of data, from its bits.                                 *)
Encoded(data) ==
    LET Bit(k)    == IF k >= 8 * Len(data) THEN 0
                     ELSE (data[k \div 8 + 1] \div 2 ^ (7 - (k % 8))) % 2
        Sextet(j) == 32 * Bit(6 * j) + 16 * Bit(6 * j + 1) + 8 * Bit(6 * j + 2)
                        + 4 * Bit(6 * j + 3) + 2 * Bit(6 * j + 4) + Bit(6 * j + 5)
    IN  [i \in 1..(4 * ((Len(data) + 2) \div 3)) |->
            IF 6 * (i - 1) >= 8 * Len(data) THEN Pad ELSE Sextet(i - 1)]

(* What the first of k + 1 digits of a number counts; a size has at most    *)
(* 127 of them.                                                            *)
Weight[k \in 0..127] == IF k = 0 THEN 1 ELSE 256 * Weight[k - 1]

(* The element with this identifier, whose size takes k bytes after its    *)
(* first, or none, and says n.                                             *)
ElementHead(type, k, n) ==
    type \o (IF k = 0 THEN <<n>>
             ELSE <<128 + k>> \o [i \in 1..k |-> (n \div Weight[k - i]) % 256])
=============================================================================
