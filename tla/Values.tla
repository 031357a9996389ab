------------------------------- MODULE Values -------------------------------
(***************************************************************************)
(* A value on its way through the driver: bound by the application, turned *)
(* into the text of a query parameter (readReadyDataTo), answered by the   *)
(* server in one of two formats, decoded into a field, and written to the  *)
(* application's buffer (writeDataFrom).                                   *)
(*                                                                         *)
(* A value is a record whose one field names its type. A date is its day   *)
(* since the epoch, a time its second of the day, a timestamp both and a   *)
(* fraction. The server and what it holds are external.                    *)
(***************************************************************************)
EXTENDS Numerals

CONSTANTS
    NarrowBits,     \* bits of the narrow integers, fewer than WideBits
    MaxScale,       \* the largest scale of a NUMERIC or a Decimal here
    DaySeconds,     \* 24 * 60 * 60
    FractionDigits, \* 9, digits of SQL_TIMESTAMP_STRUCT::fraction
    Offset,         \* seconds of the local time zone east of UTC
    Params,         \* the parameters an application binds
    Columns,        \* the typed columns a server answers with
    Targets         \* the buffers an application reads into

ASSUME ValuesAssumption ==
    /\ NarrowBits \in 1 .. WideBits - 1 /\ MaxScale \in Nat
    /\ FloatDigits < MaxScale
    /\ DaySeconds \in Nat \ {0} /\ FractionDigits \in Nat
    /\ Offset \in -(DaySeconds - 1) .. DaySeconds - 1

VARIABLES
    at,         \* how far the value is
    param,      \* the parameter bound, and the text made of it
    column,     \* what the server answered, and in which format
    field,      \* Field::data
    target,     \* the buffer it is to be written to
    cell        \* what the application finds afterwards

vars == <<at, param, column, field, target, cell>>

Nothing == [null |-> TRUE]
NoPtr == -99                \* no variable for a length or an indicator
NTS == -3                   \* SQL_NTS
NullData == -1              \* SQL_NULL_DATA
DefaultParam == -5          \* SQL_DEFAULT_PARAM
ZeroDate == -100            \* year, month and day are 0

IntCTypes == {"sbigint", "ubigint", "stinyint", "utinyint"}
CTypes == IntCTypes \cup {"double", "numeric", "guid", "date", "time", "timestamp", "char", "wchar"}
IntTypeOf(c) == IntType(IF c \in {"sbigint", "ubigint"} THEN WideBits ELSE NarrowBits,
                        c \in {"sbigint", "stinyint"})
UnitOf(c) == IF c = "wchar" THEN 2 ELSE 1

\* A conversion that only some values allow.
When(possible, v) == IF possible THEN {v} ELSE {}

-----------------------------------------------------------------------------
(* Texts of moments: a date, a date and time with or without a fraction, a time *)

MomentText(date, time, fraction) == [date |-> date, time |-> time, fraction |-> fraction]
NoTime == -1
Normal(date) == IF date = ZeroDate THEN 0 ELSE date

TimestampText(t) == MomentText(t.date, t.time,
    IF t.fraction > 0 THEN DigitsOf(t.fraction, FractionDigits, Base) ELSE <<>>)

\* Mutant: the digits of a short fraction count from its end.
FractionFromText_Unscaled(digits) == Accumulate(digits, Base, Power(Base, Len(digits)))

FractionFromText(digits) ==
    LET n == Len(digits)
    IN  Accumulate(digits, Base, Power(Base, n)) * Power(Base, FractionDigits - n)

TimestampFromText(text) ==
    When(Is(text, "date"),
         [date |-> Normal(text.date),
          time |-> IF text.time = NoTime THEN 0 ELSE text.time,
          fraction |-> FractionFromText(text.fraction)])

LengthOf(text) ==
    IF Is(text, "units") THEN text.units
    ELSE IF Is(text, "digits")
         THEN Len(text.digits) + (IF text.minus THEN 1 ELSE 0) + (IF text.dot THEN 1 ELSE 0)
    ELSE IF Is(text, "date")
         THEN IF text.time = NoTime THEN 10
              ELSE IF text.fraction = <<>> THEN 19 ELSE 20 + Len(text.fraction)
    ELSE IF Is(text, "clock") THEN 8
    ELSE IF Is(text, "uuid") THEN 36 ELSE 2

-----------------------------------------------------------------------------
(* Conversions: value_manip::from_value<>::to_value<> *)

\* Into std::string.
TextOf(v) ==
    IF Is(v, "text") THEN {v.text}
    ELSE IF Is(v, "int") THEN {IntText(v.int)}
    ELSE IF Is(v, "float") THEN {FloatText(v.float)}
    ELSE IF Is(v, "decimal") THEN {DecimalText(v.decimal)}
    ELSE IF Is(v, "numeric") THEN {DecimalText(d) : d \in DecimalFromNumeric(v.numeric)}
    ELSE IF Is(v, "guid") THEN {[uuid |-> v.guid]}
    ELSE IF Is(v, "day") THEN {MomentText(v.day, NoTime, <<>>)}
    ELSE IF Is(v, "second") THEN {[clock |-> v.second]}
    ELSE {TimestampText(v.timestamp)}

\* From std::string into the type of a buffer.
FromText(text, to) ==
    CASE to.ctype \in IntCTypes -> {[int |-> i] : i \in IntFromText(text, IntTypeOf(to.ctype))}
      [] to.ctype = "double" -> {[float |-> x] : x \in FloatFromText(text)}
      [] to.ctype = "numeric" ->
           {[numeric |-> n] : n \in UNION {NumericFromDecimal(d, to.precision, to.scale) :
                                              d \in DecimalFromText(text)}}
      [] to.ctype = "guid" -> When(Is(text, "uuid"), [guid |-> text.uuid])
      [] to.ctype = "date" -> When(Is(text, "date"), [day |-> Normal(text.date)])
      [] to.ctype = "time" ->
           When(Is(text, "date"), [second |-> IF text.time = NoTime THEN 0 ELSE text.time])
      [] to.ctype = "timestamp" -> {[timestamp |-> t] : t \in TimestampFromText(text)}
      [] OTHER -> {[text |-> text]}

\* Seconds and ticks on the wire, in the local time zone.
Clock(seconds, fraction) ==
    LET local == seconds + Offset
    IN  [timestamp |-> [date |-> local \div DaySeconds, time |-> local % DaySeconds,
                        fraction |-> fraction]]

\* Both the quotient and the remainder are cut towards 0.
ClockOfTicks(ticks, precision) ==
    LET abs == IF ticks < 0 THEN -ticks ELSE ticks
        seconds == abs \div Power(Base, precision)
    IN  When(ticks >= 0 \/ seconds = 0, Clock(seconds, abs % Power(Base, precision)))

Unwired(v) ==
    IF Is(v, "wireDate")
    THEN {[day |-> Clock(v.wireDate * DaySeconds, 0).timestamp.date]}
    ELSE IF Is(v, "wireDateTime") THEN {Clock(v.wireDateTime, 0)}
    ELSE IF Is(v, "wireTicks") THEN ClockOfTicks(v.wireTicks, v.precision)
    ELSE {v}

KindOf(c) ==
    CASE c \in IntCTypes -> "int" [] c = "double" -> "float" [] c = "date" -> "day"
      [] c = "time" -> "second" [] c \in {"char", "wchar"} -> "text" [] OTHER -> c

\* A double assigned to an integer loses its fraction; out of range is undefined.
FloatAsInt(x, t) ==
    LET range == LowestOf(t) .. HighestOf(t)
    IN  IF Truncated(x) \in range THEN {Truncated(x)} ELSE range

\* Integers and floats that do not convert implicitly go through their text.
IntConverted(i, to) ==
    CASE KindOf(to.ctype) = "int" -> {[int |-> Narrow(i, IntTypeOf(to.ctype))]}
      [] KindOf(to.ctype) = "float" -> {[float |-> i * UnitsPerOne]}
      [] OTHER -> FromText(IntText(i), to)

FloatConverted(x, to) ==
    CASE KindOf(to.ctype) = "int" -> {[int |-> i] : i \in FloatAsInt(x, IntTypeOf(to.ctype))}
      [] KindOf(to.ctype) = "float" -> {[float |-> x]}
      [] OTHER -> FromText(FloatText(x), to)

\* A Decimal converts only to SQL_NUMERIC_STRUCT.
DecimalConverted(d, to) ==
    IF to.ctype = "numeric"
    THEN {[numeric |-> n] : n \in NumericFromDecimal(d, to.precision, to.scale)} ELSE {}

\* What a field becomes in the type of the buffer; structures stay what they are.
Converted(v, to) ==
    IF KindOf(to.ctype) = "text" THEN {[text |-> t] : t \in TextOf(v)}
    ELSE IF Is(v, "text") THEN FromText(v.text, to)
    ELSE IF Is(v, "int") THEN IntConverted(v.int, to)
    ELSE IF Is(v, "float") THEN FloatConverted(v.float, to)
    ELSE IF Is(v, "decimal") THEN DecimalConverted(v.decimal, to)
    ELSE When(Is(v, KindOf(to.ctype)), v)

-----------------------------------------------------------------------------
(* What an application binds and reads into, and what a server answers with *)

DigitTexts ==
    {t \in [minus : BOOLEAN, digits : Seq(Digit), dot : BOOLEAN, right : 0 .. MaxScale] :
       t.right <= Len(t.digits) /\ (t.right > 0 => t.dot)}
MomentTexts ==
    {t \in [date : Int, time : Nat \cup {NoTime}, fraction : Seq(Digit)] :
       Len(t.fraction) <= FractionDigits}
Texts == [units : Nat] \cup DigitTexts \cup MomentTexts \cup [clock : Int] \cup [uuid : STRING]

Moments == [date : Int, time : Nat, fraction : 0 .. Power(Base, FractionDigits) - 1]
Numerics == [sign : {0, 1}, precision : Nat, scale : 0 .. MaxScale,
             val : [1 .. ValBytes -> 0 .. ByteBase - 1]]
Decimals ==
    {d \in [value : 0 .. ContainerMax, sign : {0, 1}, precision : Nat, scale : 0 .. MaxScale] :
       d.scale <= d.precision}

ParamValues ==
    {Nothing} \cup [text : Texts] \cup [int : Int] \cup [float : Int] \cup [numeric : Numerics]
    \cup [guid : STRING] \cup [day : Int] \cup [second : Int] \cup [timestamp : Moments]

ColumnValues ==
    {Nothing} \cup [int : Int] \cup [float : Int] \cup [decimal : Decimals]
    \cup [guid : STRING] \cup [day : Int \ {ZeroDate}] \cup [ticks : Int]

\* What the server's clock shows for a column.
LocalMoment(c) ==
    LET pow == Power(Base, c.precision)
        local == c.value.ticks \div pow + Offset
    IN  [date |-> local \div DaySeconds, time |-> local % DaySeconds,
         fraction |-> (c.value.ticks % pow) * Power(Base, FractionDigits - c.precision)]

ASSUME ParamsAssumption ==
    /\ Params \subseteq [ctype : CTypes, value : ParamValues, indicator : Int, size : Int,
                         precision : Nat, scale : 0 .. MaxScale]
    /\ \A p \in Params : \/ p.value = Nothing
                         \/ /\ Is(p.value, KindOf(p.ctype))
                            /\ p.ctype \in IntCTypes =>
                                 LET t == IntTypeOf(p.ctype)
                                 IN  p.value.int \in LowestOf(t) .. HighestOf(t)

ASSUME ColumnsAssumption ==
    \A c \in Columns : /\ c.value \in ColumnValues /\ c.precision \in 0 .. FractionDigits
                       /\ Is(c.value, "ticks") => LocalMoment(c).date # ZeroDate

ASSUME TargetsAssumption ==
    \A to \in Targets : /\ to.ctype \in CTypes /\ to.room \in Nat /\ to.ptr \in BOOLEAN
                        /\ to.precision \in Nat /\ to.scale \in 0 .. MaxScale

-----------------------------------------------------------------------------
(* A parameter: what is read from the application's buffer *)

\* A text of which only the first n units are taken.
Cut(text, n) == IF n >= LengthOf(text) THEN text ELSE Word(n)

\* A NUMERIC has the precision and the scale of its binding, not its own.
Described(p) == [p.value.numeric EXCEPT !.precision = p.precision, !.scale = p.scale]

\* The buffer of p as text, which the length may cut short.
Buffered(p) ==
    IF Is(p.value, "numeric") THEN TextOf([numeric |-> Described(p)])
    ELSE IF ~Is(p.value, "text") THEN TextOf(p.value)
    ELSE {IF p.indicator \in {0, NTS} \/ p.size = NoPtr \/ p.size < 0
          THEN p.value.text ELSE Cut(p.value.text, p.size \div UnitOf(p.ctype))}

\* A value that the indicator declares null or defaulted is an empty text; only
\* a missing buffer is sent as a NULL.
ParameterText(p) ==
    IF p.value = Nothing THEN {Nothing}
    ELSE IF p.indicator \in {NullData, DefaultParam} THEN {EmptyText}
    ELSE IF p.indicator < 0 /\ p.indicator \notin {NTS, NoPtr} THEN {}
    ELSE Buffered(p)

-----------------------------------------------------------------------------
(* A column: what the server writes (external), and what a format reads of it *)

\* The server prints every digit of the scale and at least one before the dot.
ServerText(c) ==
    IF Is(c.value, "decimal")
    THEN LET d == c.value.decimal
             n == IF Count(d.value, Base) > d.scale THEN Count(d.value, Base) ELSE d.scale + 1
         IN  NumberText(d.sign = 0, DigitsOf(d.value, n, Base), d.scale > 0, d.scale)
    ELSE IF Is(c.value, "float")
    THEN LET x == c.value.float
             abs == IF x < 0 THEN -x ELSE x
             n == IF Count(abs, Base) > FloatDigits + 1 THEN Count(abs, Base) ELSE FloatDigits + 2
         IN  NumberText(x < 0, DigitsOf(abs, n, Base), TRUE, FloatDigits + 1)
    ELSE IF Is(c.value, "ticks")
    THEN LET local == c.value.ticks \div Power(Base, c.precision) + Offset
         IN  MomentText(local \div DaySeconds, local % DaySeconds,
                        DigitsOf(c.value.ticks % Power(Base, c.precision), c.precision, Base))
    ELSE CHOOSE t \in TextOf(c.value) : TRUE

\* ODBCDriver2: a length, negative for NULL, and the text.
ReadODBCDriver2(c) ==
    IF c.value = Nothing THEN {Nothing} ELSE {[text |-> ServerText(c)]}

\* RowBinaryWithNamesAndTypes: a flag where the column is nullable, then the value,
\* a string behind its length.
ReadRowBinary(c) ==
    IF c.value = Nothing THEN {Nothing}
    ELSE IF Is(c.value, "text")
         THEN {[text |-> Cut(c.value.text, n)] : n \in ReadSize(SizeOnWire(LengthOf(c.value.text)))}
    ELSE IF Is(c.value, "decimal") THEN When(c.value.decimal.precision < BigPrecision, c.value)
    ELSE IF Is(c.value, "day") THEN {[wireDate |-> c.value.day]}
    ELSE IF Is(c.value, "ticks")
         THEN {IF c.precision = 0 THEN [wireDateTime |-> c.value.ticks]
               ELSE [wireTicks |-> c.value.ticks, precision |-> c.precision]}
    ELSE {c.value}

Formats == {"ODBCDriver2", "RowBinary"}
ReadValue(c) == IF c.format = "ODBCDriver2" THEN ReadODBCDriver2(c) ELSE ReadRowBinary(c)

-----------------------------------------------------------------------------
(* The application's buffer *)

Untouched == [ret |-> "error", got |-> Nothing, size |-> NoPtr, indicator |-> NoPtr,
              touched |-> 0, stored |-> 0, ended |-> FALSE]

\* The indicator is cleared before anything can fail, if it is not the length.
Cleared(to) == [Untouched EXCEPT !.indicator = IF to.indicator = "own" THEN 0 ELSE NoPtr]

Least(a, b) == IF a < b THEN a ELSE b

\* Mutant: the terminator is put behind the last unit that fits.
FillString_Behind(text, to) ==
    LET n == LengthOf(text)
        unit == UnitOf(to.ctype)
        room == to.room \div unit
        end == Least(n, room)
    IN  IF to.ptr /\ to.room % unit # 0 THEN Cleared(to)
        ELSE [Cleared(to) EXCEPT
                !.ret = IF n + 1 > room THEN "info" ELSE "success",
                !.got = [text |-> text], !.size = n * unit,
                !.ended = to.ptr, !.stored = IF to.ptr THEN end ELSE 0,
                !.touched = IF to.ptr THEN (end + 1) * unit ELSE 0]

\* fillOutputString(): the units of the text that fit, a terminator behind them or
\* in the place of the last one, the full length, and a warning when it was cut.
FillString(text, to) ==
    LET n == LengthOf(text)
        unit == UnitOf(to.ctype)
        room == to.room \div unit
        end == IF n < room THEN n ELSE room - 1
        copied == Least(n * unit, to.room)
    IN  IF to.ptr /\ to.room % unit # 0 THEN Cleared(to)
        ELSE [Cleared(to) EXCEPT
                !.ret = IF n + 1 > room THEN "info" ELSE "success",
                !.got = [text |-> text], !.size = n * unit,
                !.ended = to.ptr /\ room > 0,
                !.stored = IF to.ptr /\ room > 0 THEN end ELSE 0,
                !.touched = IF ~to.ptr THEN 0
                            ELSE IF copied > (end + 1) * unit THEN copied ELSE (end + 1) * unit]

\* fillOutputPOD(): a value of fixed length is written whole or not at all.
FillPOD(v, to) == [Cleared(to) EXCEPT !.ret = "success", !.got = IF to.ptr THEN v ELSE Nothing]

\* fillOutputNULL(): without an indicator a NULL cannot be told.
FillNULL(to) ==
    IF to.indicator = "none" THEN Untouched
    ELSE [Untouched EXCEPT !.ret = "success", !.indicator = NullData]

\* The cells that writing v to a buffer may leave.
WriteData(v, to) ==
    LET objects == UNION {Converted(u, to) : u \in Unwired(v)}
    IN  IF v = Nothing THEN {FillNULL(to)}
        ELSE IF objects = {} THEN {Cleared(to)}
        ELSE {IF Is(o, "text") THEN FillString(o.text, to) ELSE FillPOD(o, to) : o \in objects}

-----------------------------------------------------------------------------
(* The way of a value *)

NoParam == [bound |-> Nothing, text |-> Nothing]
NoColumn == [value |-> Nothing, precision |-> 0, format |-> "none"]
NoTarget == [ctype |-> "none"]

Init ==
    /\ at = "idle"
    /\ param = NoParam
    /\ column = NoColumn
    /\ field = Nothing
    /\ target = NoTarget
    /\ cell = Untouched

\* A bound parameter goes into the URI of the request, or the execution throws.
SendParameter(p) ==
    /\ at = "idle"
    /\ \E t \in ParameterText(p) : param' = [bound |-> p, text |-> t]
    /\ at' = "sent"
    /\ UNCHANGED <<column, field, target, cell>>

RefuseParameter(p) ==
    /\ at = "idle"
    /\ ParameterText(p) = {}
    /\ param' = [bound |-> p, text |-> Nothing]
    /\ at' = "failed"
    /\ UNCHANGED <<column, field, target, cell>>

\* The server answers with the parameter itself, as a column of strings (external).
Echo(format) ==
    /\ at = "sent"
    /\ column' = [value |-> IF param.text = Nothing THEN Nothing ELSE [text |-> param.text],
                  precision |-> 0, format |-> format]
    /\ at' = "answered"
    /\ UNCHANGED <<param, field, target, cell>>

\* The server answers a query without parameters with a typed column (external).
Answer(c, format) ==
    /\ at = "idle"
    /\ column' = [value |-> c.value, precision |-> c.precision, format |-> format]
    /\ at' = "answered"
    /\ UNCHANGED <<param, field, target, cell>>

Read ==
    /\ at = "answered"
    /\ \E v \in ReadValue(column) : field' = v
    /\ at' = "read"
    /\ UNCHANGED <<param, column, target, cell>>

ReadFails ==
    /\ at = "answered"
    /\ ReadValue(column) = {}
    /\ at' = "failed"
    /\ UNCHANGED <<param, column, field, target, cell>>

\* The field is extracted into a bound column or by SQLGetData.
Extract(to) ==
    /\ at = "read"
    /\ \E c \in WriteData(field, to) : cell' = c
    /\ target' = to
    /\ at' = "given"
    /\ UNCHANGED <<param, column, field>>

Next ==
    \/ \E p \in Params : SendParameter(p)
    \/ \E p \in Params : RefuseParameter(p)
    \/ \E f \in Formats : Echo(f)
    \/ \E c \in Columns, f \in Formats : Answer(c, f)
    \/ Read
    \/ ReadFails
    \/ \E to \in Targets : Extract(to)

Spec == Init /\ [][Next]_vars

-----------------------------------------------------------------------------
(* Properties *)

NumberKinds == {"int", "float", "numeric", "decimal"}
IsNumber(v) == (\E k \in NumberKinds : Is(v, k)) \/ (Is(v, "text") /\ Is(v.text, "digits"))

\* A number in units of the last digit that any of them has.
Amount(v) ==
    LET signed(minus, n) == IF minus THEN -n ELSE n
        places(n, scale) == n * Power(Base, MaxScale - scale)
    IN  IF Is(v, "int") THEN places(v.int, 0)
        ELSE IF Is(v, "float") THEN places(v.float, FloatDigits + 1)
        ELSE IF Is(v, "text")
             THEN signed(v.text.minus,
                         places(Accumulate(v.text.digits, Base, Power(Base, Len(v.text.digits))),
                                v.text.right))
        ELSE IF Is(v, "decimal") THEN signed(v.decimal.sign = 0, places(v.decimal.value, v.decimal.scale))
        ELSE signed(v.numeric.sign = 0,
                    places(Accumulate(Reverse(v.numeric.val), ByteBase, Power(ByteBase, ValBytes)),
                           v.numeric.scale))

\* What a number may lose: the digits that a float's text leaves out, and those
\* beyond a float, beyond the scale of a NUMERIC or behind the point of an integer.
Unsaid(v, got, texted) ==
      (IF Is(v, "float") /\ texted THEN Power(Base, MaxScale - FloatDigits) ELSE 0)
    + (IF Is(got, "float") THEN Power(Base, MaxScale - FloatDigits - 1) ELSE 0)
    + (IF Is(got, "numeric") THEN Power(Base, MaxScale - got.numeric.scale) ELSE 0)
    + (IF Is(got, "int") /\ Is(v, "float") THEN Power(Base, MaxScale) ELSE 0)

\* The number found is the number given, up to what its type cannot say, and up
\* to multiples of modulus where it is not 0.
SameNumber(v, got, texted, modulus) ==
    LET diff == Amount(v) - Amount(got)
        unsaid == Unsaid(v, got, texted)
    IN  \/ diff = 0
        \/ diff < unsaid /\ -diff < unsaid
        \/ modulus # 0 /\ diff % (modulus * Power(Base, MaxScale)) = 0

FieldKinds == {"null", "text", "int", "float", "decimal", "guid", "wireDate", "wireDateTime",
               "wireTicks", "precision"}

Given == at = "given" /\ cell.ret # "error" /\ cell.got # Nothing

\* A value that fits the type it is bound with must come back into that type.
FitsOwnType(p) ==
    IF p.ctype = "numeric"
    THEN /\ p.scale <= p.precision
         /\ \E d \in DecimalFromNumeric(Described(p)) : Count(d.value, Base) <= p.precision
    ELSE p.ctype \in IntCTypes \cup {"double", "guid", "date", "timestamp"}

\* Every value is in the range of its type, in memory and in the buffer: a Decimal
\* in its container, an integer in its width, a NUMERIC in its bytes, a fraction
\* in its digits (the structures of type_info.h and of ODBC).
TypeOK ==
    /\ at \in {"idle", "sent", "answered", "read", "given", "failed"}
    /\ DOMAIN field \subseteq FieldKinds
    /\ Is(field, "decimal") => field.decimal \in Decimals
    /\ cell.ret \in {"success", "info", "error"}
    /\ Is(cell.got, "int") =>
         LET t == IntTypeOf(target.ctype) IN cell.got.int \in LowestOf(t) .. HighestOf(t)
    /\ Is(cell.got, "numeric") =>
         /\ cell.got.numeric.val \in [1 .. ValBytes -> 0 .. ByteBase - 1]
         /\ cell.got.numeric.scale <= cell.got.numeric.precision
    /\ Is(cell.got, "timestamp") =>
         cell.got.timestamp.fraction \in 0 .. Power(Base, FractionDigits) - 1
    /\ Is(cell.got, "text") => LengthOf(cell.got.text) \in Nat

\* A parameter that the server sends back is what the application finds, in a buffer
\* of the type it was bound with, where it fits, or of another one, unless an error:
\* the texts that readReadyDataTo() writes are read back by writeDataFrom(). A NULL
\* told by its indicator is left out, and a length of 0, which is taken for NTS; a
\* negative number read as unsigned is negated in 64 bits, as stoull() does.
EchoIsFaithful ==
    LET p == param.bound
        v == IF Is(p.value, "numeric") THEN [numeric |-> Described(p)] ELSE p.value
        got == cell.got
        modulus == IF target.ctype \in {"ubigint", "utinyint"} THEN Power(2, WideBits) ELSE 0
        told == p.indicator \notin {NullData, DefaultParam}
        same == /\ target.ctype = p.ctype /\ target.precision = p.precision
                /\ target.scale = p.scale
    IN  /\ at = "given" /\ param # NoParam /\ v # Nothing /\ told /\ same /\ FitsOwnType(p) =>
             cell.ret = "success"
        /\ Given /\ param # NoParam /\ v # Nothing /\ told =>
          /\ IsNumber(v) /\ IsNumber(got) => SameNumber(v, got, TRUE, modulus)
          /\ \A k \in {"guid", "second"} : Is(v, k) /\ Is(got, k) => got = v
          /\ Is(v, "day") /\ Is(got, "day") => got.day = Normal(v.day)
          /\ Is(v, "timestamp") /\ Is(got, "timestamp") =>
               got.timestamp = [v.timestamp EXCEPT !.date = Normal(@)]
          /\ Is(v, "day") /\ Is(got, "timestamp") =>
               got.timestamp = [date |-> Normal(v.day), time |-> 0, fraction |-> 0]
          /\ Is(v, "text") /\ Is(v.text, "units") /\ Is(got, "text") /\ p.indicator # 0 =>
               LengthOf(got.text) = IF p.size < 0 \/ p.indicator = NTS THEN v.text.units
                                    ELSE Least(p.size \div UnitOf(p.ctype), v.text.units)

\* A column of the server is what the application finds, or the call reports an
\* error. RowBinary keeps an integer's low bits when the buffer is narrower, and
\* its moments are right where FormatsAgree does not fail: from the epoch on, with
\* no fraction or a full one, and dates not west of UTC (type_info.h:1802-1901).
ColumnIsShown ==
    LET v == column.value
        got == cell.got
        binary == column.format = "RowBinary"
        modulus == IF binary /\ target.ctype \in IntCTypes THEN Power(2, IntTypeOf(target.ctype).bits)
                   ELSE IF target.ctype \in {"ubigint", "utinyint"} THEN Power(2, WideBits) ELSE 0
    IN  Given /\ param = NoParam =>
          /\ IsNumber(v) /\ IsNumber(got) =>
               \/ SameNumber(v, got, binary, modulus)
               \/ Is(v, "float") /\ Is(got, "int") /\ Truncated(v.float) # got.int
                    /\ Truncated(v.float) \notin
                         LET t == IntTypeOf(target.ctype) IN LowestOf(t) .. HighestOf(t)
          /\ Is(v, "guid") /\ Is(got, "guid") => got = v
          /\ Is(v, "day") /\ Is(got, "day") /\ (binary => Offset >= 0) => got.day = v.day
          /\ Is(v, "ticks") /\ Is(got, "timestamp")
             /\ (binary => v.ticks >= 0 /\ column.precision \in {0, FractionDigits}) =>
               got.timestamp = LocalMoment(column)
          /\ Is(v, "ticks") /\ Is(got, "day") => got.day = LocalMoment(column).date

\* A text buffer never lies: success means that all of the text is there and
\* terminated, a warning that some of it is not; the length reported is that of all
\* of it, nothing is written past the buffer and what is in it is terminated
\* (fillOutputString(), also when the application only asks for the length).
TextBufferHonest ==
    at = "given" /\ Is(cell.got, "text") /\ cell.ret # "error" =>
        LET n == LengthOf(cell.got.text)
        IN  /\ cell.size = n * UnitOf(target.ctype)
            /\ cell.touched <= target.room
            /\ target.ptr /\ target.room > 0 => cell.ended
            /\ cell.ret = "success" /\ target.ptr => cell.stored = n
            /\ cell.ret = "info" /\ target.ptr => cell.stored < n \/ ~cell.ended

\* README.md:128: "If server and ODBC application timezones are the same, date and
\* time values handling will effectively be identical between these two formats."
FormatsAgree ==
    at = "given" /\ (Is(column.value, "day") \/ Is(column.value, "ticks"))
      /\ target.ctype \in {"date", "time", "timestamp"} /\ cell.ret # "error" =>
        cell \in UNION {WriteData(v, target) : v \in ReadODBCDriver2(column)}
=============================================================================
