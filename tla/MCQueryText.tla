---------------------------- MODULE MCQueryText ----------------------------
(* Texts to prepare: every short text of the characters that the scanner   *)
(* of markers looks at, every nest of two escape sequences with what it    *)
(* means, and every type of a parameter.                                   *)
EXTENDS QueryText, Escapes

CONSTANT MaxLength

IntType == [sql_type |-> "INTEGER", c_type |-> "SLONG", value_max_size |-> "0", precision |-> "0",
        scale |-> "0", is_nullable |-> FALSE, means |-> "int32"]

Statement(text, noscan, meaning, type) ==
  [text |-> text, noscan |-> noscan, meaning |-> meaning, type |-> type]

Characters == {"'", "\"", "\\", "?", "@", "w", "1"}
Marked ==
  {Statement(text, TRUE, <<>>, IntType) : text \in UNION {[1 .. n -> Characters] : n \in 0 .. MaxLength}}

-----------------------------------------------------------------------------
\* Escape sequences: how they are written and what they mean, without spaces.

Text(writing, meaning) == [writing |-> writing, meaning |-> meaning]
Flat(writing) == Text(writing, SelectSeq(writing, LAMBDA x : x # " "))

\* Every place where a space may be has one, or none has.
Spaced == {<<>>, <<" ">>}

Plain == {Flat(<<"col">>), Flat(<<"'", "x", "'">>)}
Stamp == Text(<<"{", "TS", " ", "'", "0", ":", "0", ".", "1", "'", "}">>,
              <<"to_datetime", "(", "'", "0", ":", "0", "'", ")">>)
Day == Text(<<"{", "D", "'", "0", "'", "}">>, <<"to_date", "(", "'", "0", "'", ")">>)

Fn(s, name, args) == <<"{">> \o s \o <<"FN", " ", name>> \o args \o s \o <<"}">>

\* Arguments in parentheses, as they are written.
Args1(s, a) == <<"(">> \o s \o a.writing \o s \o <<")">>
Args2(s, a, b) == <<"(">> \o s \o a.writing \o s \o <<",">> \o s \o b.writing \o s \o <<")">>
ArgsOf(first, s, a, b) ==
  <<"(">> \o first \o s \o <<",">> \o s \o a.writing \o s \o <<",">> \o s \o b.writing \o s \o <<")">>

\* One function around a, or around a and b.
Around(a, b, s) ==
  { Text(Fn(s, "ABS", Args1(s, a)), <<"abs", "(">> \o a.meaning \o <<")">>),
    Text(Fn(s, "CONVERT", Args2(s, a, Flat(<<"SQL_BIGINT">>))),
         <<"to_int64", "(">> \o a.meaning \o <<")">>),
    Text(Fn(s, "LTRIM", Args1(s, a)), SelectSeq(Trimmed(a.meaning), LAMBDA x : x # " ")),
    Text(Fn(s, "DAYOFWEEK", Args1(s, a)), SelectSeq(Sunday(a.meaning), LAMBDA x : x # " ")),
    Text(<<"cast">> \o Args1(s, a), <<"cast", "(">> \o a.meaning \o <<")">>),
    Text(Fn(s, "LOCATE", ArgsOf(a.writing, s, b, Flat(<<"1">>))),
         <<"position", "(">> \o b.meaning \o <<",">> \o a.meaning \o <<")">>),
    Text(Fn(s, "TIMESTAMPADD", ArgsOf(<<"SQL_TSI_DAY">>, s, a, b)),
         <<"add_days", "(">> \o b.meaning \o <<",">> \o a.meaning \o <<")">>),
    Text(Fn(s, "TIMESTAMPDIFF", ArgsOf(<<"SQL_TSI_DAY">>, s, a, b)),
         <<"date_diff", "(", "'", "day", "'", ",">> \o a.meaning \o <<",">> \o b.meaning \o <<")">>),
    Text(Fn(s, "CURRENT_TIMESTAMP", Args1(s, a)), Now),
    Text(Fn(s, "ABS", <<"(", "EXTRACT">> \o Args1(s, a) \o <<")">>),
         <<"abs", "(", "EXTRACT", "(">> \o a.meaning \o <<")", ")">>) }

\* A marker is lexed with what follows it, up to a space.
Marker == Text(<<"cast", "(", "?", " ", ")">>, <<"cast", "(", "?", ")">>)

Simple == Plain \cup {Stamp, Day, Marker, Text(<<"{", "FN", " ", "CURRENT_TIMESTAMP", "}">>, Now)}
Once == UNION {Around(a, b, s) : a \in Simple, b \in Plain \cup {Day}, s \in Spaced}
Twice == UNION {Around(a, b, s) \cup Around(b, a, s) :
                  a \in UNION {Around(c, d, <<>>) : c \in Plain, d \in {Day}},
                  b \in Plain \cup {Marker}, s \in Spaced}

\* No escape sequences, or of functions the driver does not know, or broken off.
Unknown ==
  {Flat(w) : w \in {
     <<"{", "x", ":", "0", "}">>, <<"{", "T", " ", "'", "0", "'", "}">>,
     <<"{", "FN", " ", "FOO", "(", "1", ")", "}">>, <<"{", "FN", " ", "LTRIM", "}">>,
     <<"{", "FN", " ", "CONVERT", "(", "1", ",", "SQL_FOO", ")", "}">>,
     <<"{", "FN", " ", "CONVERT", "(", "1", "}">>, <<"{", "D", " ", "1", "}">>,
     <<"{", "TS", " ", "1", "}">>,
     <<"{", "FN", " ", "TIMESTAMPADD", "(", "FOO", ",", "1", ",", "1", ")", "}">>,
     <<"{", "FN", " ", "CONVERT", "(", "1", ",", "1", ")", "}">>}}

\* Two of them side by side.
Beside(a, b) ==
  Text(<<"w", " ">> \o a.writing \o <<"?">> \o b.writing, <<"w">> \o a.meaning \o <<"?">> \o b.meaning)

\* A brace that nothing opens takes the text as it is; one that nothing closes
\* takes the rest.
Stray(a) == Flat(a.writing \o <<"}">>)
Unfinished(a) == Text(a.writing \o <<"{", "FN", " ">>, a.meaning \o <<"{", "FN">>)

Escaped2 ==
  {Statement(t.writing, FALSE, t.meaning, IntType) :
     t \in Once \cup Twice
           \cup {Beside(a, b) : a \in Unknown \cup {Day}, b \in Unknown \cup {Stamp}}
           \cup {Stray(Day), Unfinished(Day)}}

\* One that is no escape sequence, within one that the driver knows: what comes
\* of it means nothing, but the rest of the text is kept.
Failing ==
  {Statement(t.writing, FALSE, <<>>, IntType) :
     t \in UNION {Around(a, Flat(<<"col">>), s) : a \in Unknown, s \in Spaced}}

\* Every short text of braces: an empty sequence becomes an empty text.
Braced ==
  {Statement(text, FALSE, <<>>, IntType) :
     text \in UNION {[1 .. n -> {"{", "}", "w"}] : n \in 0 .. MaxLength}}

-----------------------------------------------------------------------------
\* Types, with the type that the server's answer has.

Type(sql, c, size, nullable, means) ==
  [sql_type |-> sql, c_type |-> c, value_max_size |-> size, precision |-> "9", scale |-> "2",
   is_nullable |-> nullable, means |-> means]

\* SQLBindParameter does not know the old codes of dates: the C type decides.
Typed ==
  LET OfSQL == {<<s, SQLNames[s]>> : s \in DOMAIN SQLNames}
               \cup {<<"DECIMAL", "decimal">>, <<"NUMERIC", "decimal">>}
               \cup {<<s, "unparsed">> : s \in {"VARCHAR", "VARBINARY", "TYPE_TIME", "INTERVAL"}}
      OfC == {<<c, CNames[c]>> : c \in DOMAIN CNames}
             \cup {<<"NUMERIC", "decimal">>, <<"TIME", "unparsed">>, <<"INTERVAL", "unparsed">>}
  IN  {Statement(<<"?">>, TRUE, <<>>, [t EXCEPT !.scale = scale]) :
         scale \in {"0", "2"}, t \in UNION {
           {Type(x[1], "CHAR", "0", nullable, x[2]) : x \in OfSQL, nullable \in BOOLEAN},
           {Type("DATE", x[1], "0", nullable, x[2]) : x \in OfC, nullable \in BOOLEAN},
           {Type(s, "BINARY", size, nullable, IF size = "0" THEN "string" ELSE "unparsed") :
              s \in {"BINARY", "DATE"}, size \in {"0", "16"}, nullable \in BOOLEAN}}}

MCStatements == Marked \cup Escaped2 \cup Failing \cup Braced \cup Typed
=============================================================================
