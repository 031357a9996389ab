------------------------------ MODULE Numerals ------------------------------
(***************************************************************************)
(* The conversions between numbers and their texts that parameters and     *)
(* columns go through (type_info.h). A conversion that may throw yields    *)
(* the set of its results: empty when it throws.                           *)
(*                                                                         *)
(* A text is what its readers tell apart. A number is its sign, its digits *)
(* and how many of them stand right of a dot; the empty string is a number *)
(* without digits. A word is text that is none of the others and known by  *)
(* its length. Every kind of text has fields of its own.                   *)
(***************************************************************************)
EXTENDS Integers, Sequences, SequencesExt

CONSTANTS
    Base,           \* 10
    ByteBase,       \* 256, the base of SQL_NUMERIC_STRUCT::val
    ValBytes,       \* 16, SQL_MAX_NUMERIC_LEN
    ContainerMax,   \* 2^64 - 1, the largest Decimal in memory
    FloatDigits,    \* 6, what std::to_string() prints after the dot
    WideBits,       \* 64
    BigPrecision,   \* 19, the first precision that takes 128 bits on the wire
    SizeBits,       \* 64, bits of a length in memory
    GroupBits,      \* 7, the bits of a length that a byte carries on the wire
    ShiftMax        \* 255, the largest value of the shift

\* b to the n-th: the library's ^ is beyond the provers.
Power(b, n) ==
    LET pow[i \in 0 .. n] == IF i = 0 THEN 1 ELSE b * pow[i - 1]
    IN  pow[n]

ASSUME NumeralsAssumption ==
    /\ Base \in Nat \ {0, 1} /\ ByteBase \in Nat /\ Base <= ByteBase
    /\ ValBytes \in Nat \ {0} /\ ContainerMax \in Nat
    /\ FloatDigits \in Nat \ {0} /\ WideBits \in Nat \ {0} /\ BigPrecision \in Nat
    /\ SizeBits \in Nat \ {0} /\ GroupBits \in Nat \ {0} /\ ShiftMax \in Nat
    /\ ContainerMax < Power(ByteBase, ValBytes)

Is(v, kind) == kind \in DOMAIN v

Digit == 0 .. Base - 1
NumberText(minus, digits, dot, right) ==
    [minus |-> minus, digits |-> digits, dot |-> dot, right |-> right]
EmptyText == NumberText(FALSE, <<>>, FALSE, 0)
Word(n) == [units |-> n]

-----------------------------------------------------------------------------
(* Digits *)

\* How many digits of base b the number v has; none for 0.
Count(v, b) == CHOOSE n \in 0 .. v : Power(b, n) > v /\ (n = 0 \/ Power(b, n - 1) <= v)
DigitsOf(v, n, b) == [i \in 1 .. n |-> (v \div Power(b, n - i)) % b]

\* Mutant: the sum is not checked, only the product.
Accumulate_Product(digits, b, max) ==
    LET acc[i \in 0 .. Len(digits)] ==
            IF i = 0 THEN 0
            ELSE LET v == acc[i - 1]
                 IN  IF v >= 0 /\ v <= max \div b THEN (v * b + digits[i]) % (max + 1) ELSE -1
    IN  acc[Len(digits)]

\* The digits taken one after the other into a container that holds at most
\* max; -1 once they do not fit.
Accumulate(digits, b, max) ==
    LET acc[i \in 0 .. Len(digits)] ==
            IF i = 0 THEN 0
            ELSE LET v == acc[i - 1]
                     fits == v >= 0 /\ v <= max \div b /\ v * b <= max - digits[i]
                 IN  IF fits THEN v * b + digits[i] ELSE -1
    IN  acc[Len(digits)]

-----------------------------------------------------------------------------
(* Integers of w bits *)

IntType(bits, signed) == [bits |-> bits, signed |-> signed]
LowestOf(t) == IF t.signed THEN -Power(2, t.bits - 1) ELSE 0
HighestOf(t) == IF t.signed THEN Power(2, t.bits - 1) - 1 ELSE Power(2, t.bits) - 1

\* Mutant: a value kept in a wider integer.
Narrow_Wide(i, t) == i

\* An assignment between integers of different types.
Narrow(i, t) == LowestOf(t) + ((i - LowestOf(t)) % Power(2, t.bits))

IntText(i) ==
    LET abs == IF i < 0 THEN -i ELSE i
        n == IF abs = 0 THEN 1 ELSE Count(abs, Base)
    IN  NumberText(i < 0, DigitsOf(abs, n, Base), FALSE, 0)

\* stoll() or stoull() on all of the text, then the check of the narrower range;
\* stoull() negates what follows a minus sign within its width.
IntFromText(text, t) ==
    LET wide == IntType(WideBits, t.signed)
        abs == Accumulate(text.digits, Base, Power(2, WideBits))
        value == IF text.minus THEN -abs ELSE abs
        read == IF t.signed THEN value ELSE Narrow(value, wide)
    IN  IF /\ Is(text, "digits") /\ text.digits # <<>> /\ ~text.dot
           /\ abs >= 0 /\ (t.signed \/ abs <= HighestOf(wide))
           /\ read \in LowestOf(t) .. HighestOf(t)
        THEN {read} ELSE {}

-----------------------------------------------------------------------------
(* Floating point: a number of units of the first digit that is not printed *)

UnitsPerOne == Power(Base, FloatDigits + 1)

FloatText(x) ==
    LET abs == IF x < 0 THEN -x ELSE x
        shown == (2 * abs + Base) \div (2 * Base)
        n == IF Count(shown, Base) > FloatDigits THEN Count(shown, Base) ELSE FloatDigits + 1
    IN  NumberText(x < 0, DigitsOf(shown, n, Base), FloatDigits > 0, FloatDigits)

FloatFromText(text) ==
    IF Is(text, "digits") /\ text.digits # <<>>
    THEN LET value == Accumulate(text.digits, Base, Power(Base, Len(text.digits)))
             abs == (value * UnitsPerOne) \div Power(Base, text.right)
         IN  {IF text.minus THEN -abs ELSE abs}
    ELSE {}

\* A double assigned to an integer loses its fraction.
Truncated(x) == IF x < 0 THEN -((-x) \div UnitsPerOne) ELSE x \div UnitsPerOne

-----------------------------------------------------------------------------
(* Decimals, and SQL_NUMERIC_STRUCT with its least significant byte first *)

Decimal(value, sign, precision, scale) ==
    [value |-> value, sign |-> sign, precision |-> precision, scale |-> scale]

DecimalFromText(text) ==
    LET value == Accumulate(text.digits, Base, ContainerMax)
        sign == IF text.minus /\ value # 0 THEN 0 ELSE 1
    IN  IF Is(text, "digits") /\ value >= 0
        THEN {Decimal(value, sign, Len(text.digits), text.right)} ELSE {}

\* No digit is printed left of the dot when there is none but zeros.
DecimalText(d) ==
    LET count == Count(d.value, Base)
        n == IF count > d.scale THEN count ELSE d.scale
    IN  IF n = 0 THEN IntText(0)
        ELSE NumberText(d.sign = 0 /\ d.value # 0, DigitsOf(d.value, n, Base), d.scale > 0, d.scale)

Rescaled(d, scale) ==
    LET up == d.value * Power(Base, scale - d.scale)
    IN  IF d.scale < scale THEN (IF up <= ContainerMax THEN {up} ELSE {})
        ELSE {d.value \div Power(Base, d.scale - scale)}

\* The precision asked for bounds the bytes of the value, not its digits.
NumericFromDecimal(d, precision, scale) ==
    LET p == IF precision = 0 THEN d.precision ELSE precision
        s == IF precision = 0 THEN d.scale ELSE scale
    IN  IF precision < scale THEN {}
        ELSE {[sign |-> d.sign, precision |-> p, scale |-> s,
               val |-> Reverse(DigitsOf(v, ValBytes, ByteBase))] :
                 v \in {w \in Rescaled(d, s) : Count(w, ByteBase) <= p + 1}}

DecimalFromNumeric(n) ==
    LET value == Accumulate(Reverse(n.val), ByteBase, ContainerMax)
    IN  IF value >= 0 THEN {Decimal(value, n.sign, n.precision, n.scale)} ELSE {}

-----------------------------------------------------------------------------
(* Lengths on the wire (ULEB128): the lowest bits first, a flag on all but the last *)

\* What a server writes (external).
SizeOnWire(n) ==
    LET chunk == Power(2, GroupBits)
        groups == IF n = 0 THEN 1 ELSE Count(n, chunk)
    IN  Reverse(DigitsOf(n, groups, chunk))

\* A shift past the width of the result is undefined; no server writes one.
ReadSize(groups) ==
    LET width == Power(2, SizeBits)
        shift(i) == GroupBits * (i - 1)
        segment(i) == (groups[i] * Power(2, shift(i))) % width
        fits(i) == segment(i) \div Power(2, shift(i)) = groups[i] /\ shift(i) <= ShiftMax - GroupBits
        sum[i \in 0 .. Len(groups)] == IF i = 0 THEN 0 ELSE sum[i - 1] + segment(i)
    IN  IF \A i \in DOMAIN groups : fits(i) THEN {sum[Len(groups)]} ELSE {}
=============================================================================
