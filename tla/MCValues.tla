------------------------------ MODULE MCValues ------------------------------
(* The parameters, columns and buffers that TLC tries. *)
EXTENDS Values

Bound(ctype, value, indicator, size, precision, scale) ==
    [ctype |-> ctype, value |-> value, indicator |-> indicator, size |-> size,
     precision |-> precision, scale |-> scale]
Fixed(ctype, value) == Bound(ctype, value, NTS, NoPtr, 0, 0)

WestOffset == -1    \* a time zone west of UTC

Days == {ZeroDate, -1, 0, 2}
Stamps == [date : Days, time : {0, DaySeconds - 1}, fraction : {0, 1, Power(Base, FractionDigits) - 1}]
NumericBytes == [1 .. ValBytes -> 0 .. ByteBase - 1]
Scales == {<<1, 0>>, <<2, 2>>, <<3, 1>>}

NumberTexts == {NumberText(m, d, r > 0, r) : m \in BOOLEAN, r \in 0 .. 1,
                d \in {<<1>>, <<0, 2>>, <<2, 0, 1>>, <<1, 2, 2, 2>>}}

MCParams ==
    {Fixed(c, [int |-> i]) : c \in {"sbigint"}, i \in -8 .. 7}
    \cup {Fixed(c, [int |-> i]) : c \in {"ubigint"}, i \in 0 .. 15}
    \cup {Fixed("double", [float |-> x]) : x \in -20 .. 20}
    \cup {Bound("numeric", [numeric |-> [sign |-> s, precision |-> 0, scale |-> 0, val |-> b]],
                NTS, NoPtr, ps[1], ps[2]) : s \in {0, 1}, ps \in Scales, b \in NumericBytes}
    \cup {Fixed("guid", [guid |-> "g1"])}
    \cup {Fixed("date", [day |-> d]) : d \in Days}
    \cup {Fixed("time", [second |-> 1])}
    \cup {Fixed("timestamp", [timestamp |-> t]) : t \in Stamps}
    \cup {Fixed("char", [text |-> t]) : t \in NumberTexts}
    \cup {Bound(c, [text |-> Word(n)], i, z, 0, 0) :
             c \in {"char", "wchar"}, n \in {0, 3}, i \in {NoPtr, NTS, 0, 2}, z \in {NoPtr, NTS, 2}}
    \cup {Bound(c, [text |-> Word(3)], i, i, 0, 0) : c \in {"char", "wchar"}, i \in {NullData, -2, DefaultParam}}
    \cup {Bound("char", Nothing, NTS, NoPtr, 0, 0), Bound("sbigint", Nothing, NullData, NullData, 0, 0),
          Bound("sbigint", [int |-> 3], NullData, NullData, 0, 0)}

Typed(value, precision) == [value |-> value, precision |-> precision]
MCColumns ==
    {Typed([int |-> i], 0) : i \in -8 .. 15}
    \cup {Typed([float |-> x], 0) : x \in -20 .. 40}
    \cup {Typed([decimal |-> Decimal(v, s, p, q)], 0) :
             v \in 0 .. 26, s \in {1}, p \in {3, BigPrecision}, q \in 0 .. 2}
    \cup {Typed([decimal |-> Decimal(v, 0, 3, q)], 0) : v \in 1 .. 26, q \in 0 .. 2}
    \cup {Typed([day |-> d], 0) : d \in 0 .. 2}
    \cup {Typed([ticks |-> t], p) : t \in 0 .. 4, p \in {0}}
    \cup {Typed([ticks |-> t], p) : t \in -8 .. 20, p \in 1 .. FractionDigits}
    \cup {Typed([guid |-> "g1"], 0), Typed(Nothing, 0)}

Buffer(ctype, room, ptr, indicator, precision, scale) ==
    [ctype |-> ctype, room |-> room, ptr |-> ptr, indicator |-> indicator,
     precision |-> precision, scale |-> scale]
MCTargets ==
    {Buffer(c, 8, TRUE, "own", 0, 0) : c \in IntCTypes \cup {"double", "guid", "date", "time", "timestamp"}}
    \cup {Buffer("sbigint", 8, TRUE, i, 0, 0) : i \in {"none", "same"}}
    \cup {Buffer("numeric", 8, TRUE, "own", ps[1], ps[2]) : ps \in Scales \cup {<<0, 0>>, <<1, 2>>}}
    \cup {Buffer(c, r, TRUE, "same", 0, 0) : c \in {"char", "wchar"}, r \in 0 .. 6}
    \cup {Buffer("char", r, FALSE, "same", 0, 0) : r \in {0, 4}}
    \cup {Buffer("char", 40, TRUE, "own", 0, 0)}
=============================================================================
