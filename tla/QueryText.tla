----------------------------- MODULE QueryText -----------------------------
(***************************************************************************)
(* From the text that an application prepares to the text that is sent:    *)
(* escape sequences are rewritten (replaceEscapeSequences), parameter      *)
(* markers are replaced by placeholders (Statement::extractParametersinfo) *)
(* and the placeholders, on execution, by the server's own parameters      *)
(* (Statement::buildFinalQuery).                                           *)
(*                                                                         *)
(* The two scanners are state machines here, a step for each character or  *)
(* for those that the code skips together.                                 *)
(***************************************************************************)
EXTENDS TypeNames, TLC

CONSTANTS
  Statements,       \* what is prepared: text, noscan, what the text means when it is
                    \* known, and the type of the parameters
  Letters, Digits,  \* of the names of parameters
  Placeholders,     \* unlike any text
  MaxParameters,    \* bounds the parameters of a statement
  RewriteEscape(_)  \* what the text of one escape sequence becomes

NameParts == Letters \cup Digits

IpdName == "ipd"

\* What the driver itself writes into the final query.
OwnTexts == {"{", ":", "}", IpdName, "odbc_positional_", "nullable", "(", "nothing", ")"}

ASSUME TextsAssumption ==
  /\ MaxParameters \in Nat
  /\ \A t \in OwnTexts : t \in STRING
  /\ \A s \in Statements : s.text \in Seq(STRING) /\ NameOf(s.type) \in Seq(STRING)
  /\ \A k \in 1 .. MaxParameters : ToString(k) \in STRING
  /\ NameParts \cap {"'", "\"", "\\", "?", "@"} = {}
  /\ \A p \in Placeholders : p \notin STRING

\* Escape sequences, as they are cut from the statements, become texts.
ASSUME RewriterAssumption ==
  \A s \in Statements : \A j, k \in DOMAIN s.text :
    j < k /\ s.text[j] = "{" /\ s.text[k] = "}" => RewriteEscape(SubSeq(s.text, j, k)) \in Seq(STRING)

\* What the server's answer is to make of a type with this code.
MeansBy(type, code, names, decimals, texts) ==
  \/ code \in DOMAIN names /\ type.means = names[code]
  \/ code \in decimals /\ type.means = "decimal"
  \/ code = "BINARY" /\ type.means = IF type.value_max_size = "0" THEN "string" ELSE "unparsed"
  \/ code \in texts /\ type.means = "unparsed"

DecimalCodes == {"DECIMAL", "NUMERIC"}
TextCodes == {"VARCHAR", "VARBINARY", "TYPE_TIME", "INTERVAL"}

\* Types are bound with codes that the driver has names for, those of SQL before
\* those of C, and a precision and scale that are not negative.
ASSUME TypesAssumption ==
  \A s \in Statements :
    /\ s.type.is_nullable \in BOOLEAN /\ s.type.precision \in Numbers /\ s.type.scale \in Numbers
    /\ \/ MeansBy(s.type, s.type.sql_type, SQLNames, DecimalCodes, TextCodes)
       \/ /\ s.type.sql_type \notin DOMAIN SQLNames \cup DecimalCodes \cup TextCodes \cup {"BINARY"}
          /\ MeansBy(s.type, s.type.c_type, CNames, {"NUMERIC"}, {"TIME", "INTERVAL"})

VARIABLES
  given,       \* the statement
  phase,       \* the scanner at work
  query,       \* Statement::query
  i,           \* the place of the scanner
  st, level,   \* replaceEscapeSequences(): start of what is not copied, open braces
  ret,         \*   and what it returns
  quoted_by,   \* extractParametersinfo(): the open quote
  parameters,  \* Statement::parameters
  bound,       \* how many parameters are bound when it is executed
  named,       \* the parameters with a name of their own in the IPD
  final        \* the text so far, and the number of parameters in it

vars == <<given, phase, query, i, st, level, ret, quoted_by, parameters, bound, named, final>>

Quotes == {"'", "\""}
NotQuoted == "none"

curr == query[i]
AtEnd == i > Len(query)

\* Skips as many characters, with nothing else to do.
Skip(n) == i' = i + n

Init ==
  /\ given \in Statements
  /\ phase = IF given.noscan THEN "markers" ELSE "escapes"
  /\ query = given.text
  /\ i = 1 /\ st = 1 /\ level = 0
  /\ ret = IF given.noscan THEN given.text ELSE <<>>
  /\ quoted_by = NotQuoted /\ parameters = <<>>
  /\ bound = 0 /\ named = {}
  /\ final = [text |-> <<>>, count |-> 0]

-----------------------------------------------------------------------------
\* replaceEscapeSequences()

Escaping == phase = "escapes" /\ UNCHANGED <<given, quoted_by, parameters, bound, named, final>>

\* Mutant: every brace begins what is not copied, a nested one too.
OpenBrace_Restarts ==
  /\ Escaping /\ ~AtEnd /\ curr = "{"
  /\ level' = level + 1
  /\ ret' = ret \o SubSeq(query, st, i - 1) /\ st' = i
  /\ Skip(1)
  /\ UNCHANGED <<query, phase>>

OpenBrace ==
  /\ Escaping /\ ~AtEnd /\ curr = "{"
  /\ level' = level + 1
  /\ IF level = 0 THEN ret' = ret \o SubSeq(query, st, i - 1) /\ st' = i
                  ELSE UNCHANGED <<ret, st>>
  /\ Skip(1)
  /\ UNCHANGED <<query, phase>>

CloseBrace ==
  /\ Escaping /\ ~AtEnd /\ curr = "}" /\ level > 0
  /\ level' = level - 1
  /\ IF level = 1 THEN /\ ret' = ret \o RewriteEscape(SubSeq(query, st, i))
                       /\ st' = i + 1
                  ELSE UNCHANGED <<ret, st>>
  /\ Skip(1)
  /\ UNCHANGED <<query, phase>>

Replaced(result) ==
  /\ ret' = result /\ query' = result
  /\ phase' = "markers" /\ i' = 1
  /\ UNCHANGED <<st, level>>

\* The whole text is given back as it was.
UnexpectedBrace == Escaping /\ ~AtEnd /\ curr = "}" /\ level = 0 /\ Replaced(query)

NoBrace ==
  /\ Escaping /\ ~AtEnd /\ curr \notin {"{", "}"}
  /\ Skip(1)
  /\ UNCHANGED <<query, phase, ret, st, level>>

EscapesEnd == Escaping /\ AtEnd /\ Replaced(ret \o SubSeq(query, st, Len(query)))

-----------------------------------------------------------------------------
\* extractParametersinfo()

Extracting == phase = "markers" /\ UNCHANGED <<given, ret, st, level, bound, named, final>>

Backslash ==
  /\ Extracting /\ ~AtEnd /\ curr = "\\"
  /\ Skip(2)
  /\ UNCHANGED <<query, phase, quoted_by, parameters>>

\* Every quote that is open is closed by the next, doubled or not.
DoubledQuote_Opens ==
  /\ Extracting /\ ~AtEnd /\ curr \in Quotes /\ quoted_by = curr
  /\ i < Len(query) /\ query[i + 1] = curr
  /\ quoted_by' = NotQuoted
  /\ Skip(2)
  /\ UNCHANGED <<query, phase, parameters>>

OpenQuote ==
  /\ Extracting /\ ~AtEnd /\ curr \in Quotes /\ quoted_by # curr
  /\ quoted_by' = curr
  /\ Skip(1)
  /\ UNCHANGED <<query, phase, parameters>>

\* Two of them stand for one, inside.
DoubledQuote ==
  /\ Extracting /\ ~AtEnd /\ curr \in Quotes /\ quoted_by = curr
  /\ i < Len(query) /\ query[i + 1] = curr
  /\ Skip(2)
  /\ UNCHANGED <<query, phase, quoted_by, parameters>>

CloseQuote ==
  /\ Extracting /\ ~AtEnd /\ curr \in Quotes /\ quoted_by = curr
  /\ i < Len(query) => query[i + 1] # curr
  /\ quoted_by' = NotQuoted
  /\ Skip(1)
  /\ UNCHANGED <<query, phase, parameters>>

Unquoted == Extracting /\ ~AtEnd /\ quoted_by = NotQuoted

\* generate_placeholder() tries until it has one that is not in the query.
Fresh == {p \in Placeholders : ~Contains(query, p)}

AddParameter(name, length) ==
  LET placeholder == CHOOSE p \in Fresh : TRUE
  IN  /\ Fresh # {} /\ Len(parameters) < MaxParameters
      /\ query' = SubSeq(query, 1, i - 1) \o <<placeholder>> \o SubSeq(query, i + length, Len(query))
      /\ parameters' = Append(parameters, [name |-> name, tmp_placeholder |-> placeholder])
      /\ Skip(1)
      /\ UNCHANGED <<phase, quoted_by>>

QuestionMark == Unquoted /\ curr = "?" /\ AddParameter(<<>>, 1)

\* The name at an @ at p, which does not begin with a digit.
NameLength(text, p) ==
  Max({n \in 1 .. Len(text) - p + 1 :
         \A k \in 1 .. n - 1 : text[p + k] \in (IF k = 1 THEN Letters ELSE NameParts)})

NameAt(text, p) == SubSeq(text, p, p + NameLength(text, p) - 1)

NamedMarker ==
  /\ Unquoted /\ curr = "@"
  /\ NameLength(query, i) > 1
  /\ AddParameter(NameAt(query, i), NameLength(query, i))

\* 42000: the statement is not prepared.
NamelessMarker ==
  /\ Unquoted /\ curr = "@"
  /\ NameLength(query, i) = 1
  /\ phase' = "refused"
  /\ UNCHANGED <<query, i, quoted_by, parameters>>

OtherCharacter ==
  /\ Extracting /\ ~AtEnd
  /\ curr \notin Quotes \cup {"\\"}
  /\ curr \in {"?", "@"} => quoted_by # NotQuoted
  /\ Skip(1)
  /\ UNCHANGED <<query, phase, quoted_by, parameters>>

\* The application binds some of the parameters and executes.
MarkersEnd ==
  /\ phase = "markers" /\ AtEnd
  /\ phase' = "final"
  /\ bound' \in 0 .. Len(parameters)
  /\ named' \in SUBSET (1 .. Len(parameters))
  /\ final' = [text |-> query, count |-> 0]
  /\ UNCHANGED <<given, query, i, st, level, ret, quoted_by, parameters>>

-----------------------------------------------------------------------------
\* buildFinalQuery()

ParamFinalName(k) ==
  CASE k \in named -> <<IpdName>>
    [] k \notin named /\ parameters[k].name # <<>> -> Tail(parameters[k].name)
    [] OTHER -> <<"odbc_positional_", ToString(k)>>

TypeOfParameter(k) == IF k > bound THEN NameOfUnbound ELSE NameOf(given.type)

\* The placeholder is always found (07002 otherwise): no other text looks like it.
SubstituteParameter ==
  LET k == final.count + 1
      pos == CHOOSE p \in DOMAIN final.text :
               /\ final.text[p] = parameters[k].tmp_placeholder
               /\ \A q \in 1 .. p - 1 : final.text[q] # parameters[k].tmp_placeholder
  IN  /\ phase = "final" /\ final.count < Len(parameters)
      /\ final' = [count |-> k,
                   text |-> SubSeq(final.text, 1, pos - 1)
                            \o <<"{">> \o ParamFinalName(k) \o <<":">> \o TypeOfParameter(k) \o <<"}">>
                            \o SubSeq(final.text, pos + 1, Len(final.text))]
      /\ UNCHANGED <<given, phase, query, i, st, level, ret, quoted_by, parameters, bound, named>>

Next ==
  \/ OpenBrace \/ CloseBrace \/ UnexpectedBrace \/ NoBrace \/ EscapesEnd
  \/ Backslash \/ OpenQuote \/ DoubledQuote \/ CloseQuote
  \/ QuestionMark \/ NamedMarker \/ NamelessMarker \/ OtherCharacter \/ MarkersEnd
  \/ SubstituteParameter

Spec == Init /\ [][Next]_vars
-----------------------------------------------------------------------------
(* What escape sequences are: braces, in a literal too, as they balance.   *)

OpenBraces(text, p) ==
  Cardinality({q \in 1 .. p : text[q] = "{"}) - Cardinality({q \in 1 .. p : text[q] = "}"})

Unbalanced(text) == \E p \in DOMAIN text : OpenBraces(text, p) < 0

\* Where the outermost ones begin and end.
EscapesOf(text) ==
  {x \in (DOMAIN text) \X (DOMAIN text) :
     /\ x[1] < x[2] /\ text[x[1]] = "{" /\ text[x[2]] = "}"
     /\ OpenBraces(text, x[1] - 1) = 0 /\ OpenBraces(text, x[2]) = 0
     /\ \A p \in x[1] .. x[2] - 1 : OpenBraces(text, p) > 0}

WithEscapes(text) ==
  LET escapes == EscapesOf(text)
      End(p) == {x \in escapes : x[2] = p}
  IN  FlattenSeq([p \in DOMAIN text |->
        IF End(p) # {} THEN RewriteEscape(SubSeq(text, (CHOOSE x \in End(p) : TRUE)[1], p))
        ELSE IF \E x \in escapes : p \in x[1] .. x[2] THEN <<>> ELSE <<text[p]>>])

-----------------------------------------------------------------------------
(* What SQL says of quotes, place by place.                                *)

\* A backslash takes the next character with it: an odd number of them ends
\* before p.
Escaped(text, p) ==
  \E j \in 0 .. p - 1 :
    /\ j > 0 => text[j] # "\\"
    /\ \A k \in j + 1 .. p - 1 : text[k] = "\\"
    /\ (p - j) % 2 = 0

\* The quote of the literal that is open after a place: one ends with the quote
\* it began with.
Opener(text) ==
  LET O[p \in 0 .. Len(text)] ==
        CASE p = 0 -> NotQuoted
          [] p > 0 /\ (text[p] \notin Quotes \/ Escaped(text, p)) -> O[p - 1]
          [] OTHER -> CASE O[p - 1] = NotQuoted -> text[p]
                        [] O[p - 1] = text[p]   -> NotQuoted
                        [] OTHER                -> O[p - 1]
  IN  O

\* No literal has a quote of the other kind in it.
PlainQuotes(text) ==
  \A p \in DOMAIN text :
    text[p] \in Quotes /\ ~Escaped(text, p) /\ Opener(text)[p - 1] # NotQuoted
      => Opener(text)[p - 1] = text[p]

Markers(text) ==
  {p \in DOMAIN text :
     text[p] \in {"?", "@"} /\ ~Escaped(text, p) /\ Opener(text)[p - 1] = NotQuoted}

Nameless(text) == {p \in Markers(text) : text[p] = "@" /\ NameLength(text, p) = 1}

\* The server's parameter for the marker at p.
Parameter(text, p) ==
  LET k == Cardinality({q \in Markers(text) : q <= p})
      name == CASE k \in named -> <<IpdName>>
                [] k \notin named /\ text[p] = "@" -> Tail(NameAt(text, p))
                [] OTHER -> <<"odbc_positional_", ToString(k)>>
  IN  <<"{">> \o name \o <<":">> \o TypeOfParameter(k) \o <<"}">>

InName(text, p) ==
  \E q \in Markers(text) : text[q] = "@" /\ p \in q + 1 .. q + NameLength(text, q) - 1

WithParameters(text) ==
  FlattenSeq([p \in DOMAIN text |->
    IF p \in Markers(text) THEN Parameter(text, p)
    ELSE IF InName(text, p) THEN <<>> ELSE <<text[p]>>])

-----------------------------------------------------------------------------
(* Properties.                                                             *)

\* Every marker outside of quotes, and nothing else, becomes a parameter of the
\* server, with its name and the type it is bound with, all other text kept;
\* unless a literal has a quote of the other kind in it, which the scanner
\* takes for the open one.  Only a marker without a name is refused.
MarkersAreParameters ==
  PlainQuotes(ret) =>
    /\ phase = "final" /\ final.count = Len(parameters) => final.text = WithParameters(ret)
    /\ phase = "refused" => Nameless(ret) # {}

\* Every outermost escape sequence that is closed, and nothing else, is rewritten,
\* once and where it stands; the rest of the text is kept, a sequence that
\* nothing closes with it.  One brace that closes nothing, wherever it is, takes
\* back every rewriting (replaceEscapeSequences: the unexpected '}').
EscapesInPlace ==
  phase \in {"final", "refused"} /\ ~given.noscan =>
    ret = IF Unbalanced(given.text) THEN given.text ELSE WithEscapes(given.text)

\* Escape sequences that the driver knows mean what they stand for, at any depth,
\* and an outermost one that it does not know, or that is broken off, is sent as
\* it is; spaces aside.  Excepted is one that fails within one that does not: the
\* nested call returns all of the outer sequence as its result and leaves the rest
\* of its own to the caller, which goes on with both (escape_sequences.cpp:290-293,
\* 395), whatever escape_sequences.h:7 says of errors.
EscapesRewritten ==
  given.meaning # <<>> /\ phase \notin {"escapes"} =>
    SelectSeq(ret, LAMBDA x : x # " ") = given.meaning

\* The type that a parameter is sent with, when the server answers with a column
\* of it: both formats know the type again, with its size and with NULL.  Excepted
\* are the names with an underscore, at which the parser stops (type_parser.cpp:107):
\* RowBinaryWithNamesAndTypes cannot read such a column (line 30), although a test
\* expects it of fixed_string (column_bindings_it.cpp:38, 222).
TypeNamesUnderstood ==
  LET name == NameOf(given.type)
      known == [type |-> given.type.means, is_nullable |-> given.type.is_nullable,
                precision |-> IF given.type.means = "decimal" THEN given.type.precision ELSE "0",
                scale |-> IF given.type.means = "decimal" THEN given.type.scale ELSE "0"]
  IN  phase = "final" /\ given.type.means # "unparsed" =>
        ColumnOfODBCDriver2(name) = {known} /\ ColumnOfRowBinary(name) = {known}
=============================================================================
