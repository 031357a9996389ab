------------------------------ MODULE Escapes ------------------------------
(***************************************************************************)
(* The rewriting of one ODBC escape sequence: escaping/lexer.cpp and       *)
(* escaping/escape_sequences.cpp.  A text is a sequence of lexemes: a word *)
(* or a number is one, every other character is one of its own.  Every     *)
(* operator of the parser takes the whole sequence, which it falls back to,*)
(* and the lexer, and returns what it wrote and the lexer after it.        *)
(***************************************************************************)
EXTENDS Naturals, Sequences, SequencesExt

\* function_declare.h: a few of the functions that only change their name.
function_map == [ABS |-> "abs", CURDATE |-> "today", TIMESTAMPDIFF |-> "date_diff",
                 EXTRACT |-> "EXTRACT"]
Special == {"CONVERT", "TIMESTAMPADD", "LOCATE", "LTRIM", "DAYOFWEEK", "CURRENT_TIMESTAMP"}
literal_map == [SQL_TSI_DAY |-> <<"'", "day", "'">>, SQL_TSI_YEAR |-> <<"'", "year", "'">>]
timeadd_func_map == [SQL_TSI_DAY |-> "add_days", SQL_TSI_YEAR |-> "add_years"]
fn_convert_map == [SQL_BIGINT |-> "to_int64", SQL_DATE |-> "to_date"]

Keywords ==
  {"FN", "D", "T", "TS"} \cup DOMAIN function_map \cup Special \cup DOMAIN literal_map
Delimiters == {"(", ")", "{", "}", ","}
Numerals == {"0", "1"}
Idents == {"col", "cast", "x", "FOO", "SQL_BIGINT", "SQL_DATE", "SQL_FOO"}

-----------------------------------------------------------------------------
\* The lexer

\* The place of the quote that ends a string begun at the front: a backslash
\* takes the next character with it.
ClosingQuote(text) ==
  LET Odd[j \in 1 .. Len(text)] == j > 1 /\ text[j - 1] = "\\" /\ ~Odd[j - 1]
  IN  {j \in 2 .. Len(text) : text[j] = "'" /\ ~Odd[j] /\ \A k \in 2 .. j - 1 : text[k] = "'" => Odd[k]}

\* What is neither a word nor a delimiter takes everything up to a space.
WordEnd(text) ==
  CHOOSE n \in 1 .. Len(text) :
    /\ \A j \in 2 .. n : text[j] # " "
    /\ n < Len(text) => text[n + 1] = " "

Token(type, literal) == [type |-> type, literal |-> literal]

\* Of a text that is empty or begins with the token.
NextToken(text) ==
  CASE text = <<>> -> Token("EOS", <<>>)
    [] text # <<>> /\ Head(text) = " " -> Token("SPACE", <<" ">>)
    [] text # <<>> /\ Head(text) = "'" ->
         IF ClosingQuote(text) = {} THEN Token("INVALID", text)
         ELSE Token("STRING", SubSeq(text, 1, CHOOSE j \in ClosingQuote(text) : TRUE))
    [] text # <<>> /\ Head(text) \in Keywords \cup Delimiters -> Token(Head(text), <<Head(text)>>)
    [] text # <<>> /\ Head(text) \in Idents -> Token("IDENT", <<Head(text)>>)
    [] text # <<>> /\ Head(text) \in Numerals -> Token("NUMBER", <<Head(text)>>)
    [] OTHER -> Token("OTHER", SubSeq(text, 1, WordEnd(text)))

RECURSIVE WithoutSpaces(_)
WithoutSpaces(text) ==
  IF text # <<>> /\ Head(text) = " " THEN WithoutSpaces(Tail(text)) ELSE text

\* Spaces are dropped when a token is read, not when it is looked at: one that
\* was read ahead keeps the mode it was read in.
RECURSIVE LookAhead(_, _)
LookAhead(lex, n) ==
  IF Len(lex.readed) >= n THEN lex
  ELSE LET text == IF lex.emit_space THEN lex.text ELSE WithoutSpaces(lex.text)
           token == NextToken(text)
       IN  LookAhead([lex EXCEPT !.readed = Append(@, token),
                                 !.text = SubSeq(text, Len(token.literal) + 1, Len(text))], n)

Peek(lex) == LookAhead(lex, 1).readed[1]
Consume(lex) == LET l == LookAhead(lex, 1) IN [l EXCEPT !.readed = Tail(@)]
SetEmitSpaces(lex, value) == [lex EXCEPT !.emit_space = value]

\* Ends with the token after the spaces read ahead.
RECURSIVE SkipSpaces(_)
SkipSpaces(lex) ==
  LET l == LookAhead(lex, 1)
  IN  IF l.readed[1].type = "SPACE" THEN SkipSpaces(Consume(l)) ELSE l

-----------------------------------------------------------------------------
\* The rewriter

Wrote(out, lex) == [out |-> out, lex |-> lex]
After(out, r) == [r EXCEPT !.out = out \o @]

RECURSIVE processEscapeSequencesImpl(_, _), processItems(_, _, _), processFunction(_, _),
          copyParentheses(_, _, _), copyFunction(_, _, _, _), Matched(_, _, _, _)

\* Mutant: the spaces are left on.
Nested_Spaces(seq, lex) == processEscapeSequencesImpl(seq, lex)

\* A nested escape is read without spaces, what follows it with them.
Nested(seq, lex) ==
  LET On(r) == Wrote(r.out, SetEmitSpaces(r.lex, TRUE))
  IN  On(processEscapeSequencesImpl(seq, SetEmitSpaces(lex, FALSE)))

processParentheses(seq, lex) ==
  LET l == SetEmitSpaces(lex, TRUE)
  IN  copyParentheses(seq, Consume(l), Peek(l).literal)

\* Up to the closing parenthesis, from a lexer that has read a token ahead.
copyParenthesesFrom(seq, l, out) ==
  LET t == l.readed[1]
      Go(r) == copyParentheses(seq, r.lex, out \o r.out)
  IN CASE t.type = ")" -> Wrote(out \o t.literal, Consume(l))
       [] t.type = "(" -> Go(processParentheses(seq, l))
       [] t.type = "{" -> Go(Nested(seq, l))
       [] t.type \in {"EOS", "INVALID"} -> Wrote(out, l)
       [] OTHER -> Go(Wrote(t.literal, Consume(l)))

copyParentheses(seq, lex, out) == copyParenthesesFrom(seq, LookAhead(lex, 1), out)

Now == <<"now", "(", ")">>

\* Writes nothing when there is no argument.  CURRENT_TIMESTAMP is written and
\* left to be read again.
identOrFunctionFrom(seq, l) ==
  LET t == l.readed[1]
      named == t.type \in {"IDENT"} \cup DOMAIN function_map \cup (Special \ {"CURRENT_TIMESTAMP"})
      two == LookAhead(l, 2)
      called == two.readed[2].type = "("
      Spaced(r) == Wrote(r.out, SkipSpaces(r.lex))
  IN CASE t.type = "{" -> Spaced(Nested(seq, l))
       [] t.type = "(" -> Spaced(processParentheses(seq, l))
       [] t.type = "CURRENT_TIMESTAMP" -> Spaced(Wrote(Now, l))
       [] named /\ called -> Spaced(After(t.literal, processParentheses(seq, Consume(two))))
       [] t.type = "IDENT" /\ ~called -> Spaced(Wrote(t.literal, Consume(two)))
       [] t.type \in {"NUMBER", "STRING"} -> Spaced(Wrote(t.literal, Consume(l)))
       [] OTHER -> Wrote(<<>>, IF named THEN two ELSE l)

processIdentOrFunction(seq, lex) == identOrFunctionFrom(seq, SkipSpaces(lex))

\* The functions that are taken apart, as the calls made on the lexer in turn:
\* a delimiter must come next, "any" token is skipped, spaces are skipped, and
\* the rest is kept.  A failure leaves the lexer where it is.
Pattern ==
  [CONVERT |-> <<"(", "argument", " ", ",", " ", "type">>,
   TIMESTAMPADD |-> <<"(", "unit", ",", "argument", " ", ",", "argument", " ", ")">>,
   LOCATE |-> <<"(", "argument", "any", "argument", "any", "optional", "any">>,
   LTRIM |-> <<"(", "argument", "any">>,
   DAYOFWEEK |-> <<"(", "argument", "any">>]

Matched(seq, lex, pattern, kept) ==
  IF pattern = <<>> THEN [ok |-> TRUE, kept |-> kept, lex |-> lex]
  ELSE
  LET step == Head(pattern)
      t == Peek(lex)
      Failed(l) == [ok |-> FALSE, kept |-> kept, lex |-> l]
      Go(l, more) == Matched(seq, l, Tail(pattern), kept \o more)
      Argument(r) == IF r.out = <<>> /\ step = "argument" THEN Failed(r.lex)
                     ELSE Go(r.lex, <<r.out>>)
  IN CASE step = " " -> Go(SkipSpaces(lex), <<>>)
       [] step = "any" -> Go(Consume(lex), <<>>)
       [] step \in {"argument", "optional"} ->
            Argument(processIdentOrFunction(seq, lex))
       [] step = "type" ->
            IF t.type # "IDENT" THEN Failed(Consume(lex)) ELSE Go(Consume(lex), <<t.literal>>)
       [] step = "unit" ->
            IF t.type \notin DOMAIN timeadd_func_map THEN Failed(Consume(lex))
            ELSE Go(Consume(lex), << <<timeadd_func_map[t.type]>> >>)
       [] OTHER -> IF t.type # step THEN Failed(LookAhead(lex, 1)) ELSE Go(Consume(lex), <<>>)

Call(f, args) == <<f, "(">> \o args \o <<")">>

Sunday(day) ==
  <<"if", "(">> \o Call("to_day_of_week", day) \o <<" ", "=", " ", "7", ",", " ", "1", ",", " ">>
  \o Call("to_day_of_week", day) \o <<" ", "+", " ", "1", ")">>

Trimmed(text) ==
  Call("replace_regexp_one",
       text \o <<",", " ", "'", "^", "\\", "\\", "s", "+", "'", ",", " ", "'", "'">>)

Rewritten(function, kept) ==
  CASE function = "TIMESTAMPADD" -> Call(kept[1][1], kept[3] \o <<",", " ">> \o kept[2])
    [] function = "LOCATE"       -> Call("position", kept[2] \o <<",">> \o kept[1])
    [] function = "LTRIM"        -> Trimmed(kept[1])
    [] function = "DAYOFWEEK"    -> Sunday(kept[1])

\* A conversion to a type that is not known drops the function, and its
\* closing parenthesis is left for the caller.
processConvert(seq, m) ==
  LET type == m.kept[2][1]
      Close(c) == Wrote(IF c.ok THEN Call(fn_convert_map[type], m.kept[1]) ELSE seq, c.lex)
  IN  IF type \notin DOMAIN fn_convert_map THEN Wrote(m.kept[1], m.lex)
      ELSE Close(Matched(seq, m.lex, <<" ", ")">>, <<>>))

\* What the matched pattern of a function becomes.
Assembled(seq, fn, m) ==
  CASE ~m.ok -> Wrote(seq, m.lex)
    [] m.ok /\ fn = "CONVERT" -> processConvert(seq, m)
    [] OTHER -> Wrote(Rewritten(fn, m.kept), m.lex)

processFunction(seq, lex) ==
  LET fn == Peek(lex).type
      l == LookAhead(Consume(lex), 1)
  IN CASE fn \in DOMAIN Pattern ->
            Assembled(seq, fn, Matched(seq, Consume(lex), Pattern[fn], <<>>))
       [] fn = "CURRENT_TIMESTAMP" ->
            Wrote(Now, IF Peek(l).type = "(" THEN processParentheses(seq, l).lex ELSE l)
       [] fn \in DOMAIN function_map ->
            copyFunction(seq, SetEmitSpaces(Consume(lex), TRUE), fn, <<function_map[fn]>>)
       [] OTHER -> Wrote(seq, Consume(lex))

\* All up to the closing brace, whatever the function.
copyFunctionFrom(seq, l, fn, out) ==
  LET t == l.readed[1]
      Go(r) == copyFunction(seq, r.lex, fn, out \o r.out)
  IN CASE t.type \in {"}", "EOS", "INVALID"} -> Wrote(out, SetEmitSpaces(l, FALSE))
       [] t.type = "{" -> Go(Nested(seq, l))
       [] t.type = "EXTRACT" -> Go(processFunction(seq, l))
       [] t.type \in DOMAIN literal_map /\ fn # "EXTRACT" ->
            Go(Wrote(literal_map[t.type], Consume(l)))
       [] OTHER -> Go(Wrote(t.literal, Consume(l)))

copyFunction(seq, lex, fn, out) == copyFunctionFrom(seq, LookAhead(lex, 1), fn, out)

\* A fraction is digits, after the only dot that follows some other character.
removeMilliseconds(string) ==
  LET body == Front(string)
      others == {j \in 2 .. Len(body) : body[j] \notin Numerals \cup {"."}}
      dots == {j \in 2 .. Len(body) : body[j] = "." /\ \A k \in others : k < j}
  IN  IF others # {} /\ Cardinality(dots) = 1
      THEN Append(SubSeq(body, 1, (CHOOSE j \in dots : TRUE) - 1), "'")
      ELSE string

processDate(seq, lex) ==
  IF Peek(lex).type # "STRING" THEN Wrote(seq, LookAhead(lex, 1))
  ELSE Wrote(Call("to_date", Peek(lex).literal), Consume(lex))

processDateTime(seq, lex) ==
  IF Peek(lex).type # "STRING" THEN Wrote(seq, LookAhead(lex, 1))
  ELSE Wrote(Call("to_datetime", removeMilliseconds(Peek(lex).literal)), Consume(lex))

\* What follows a brace, from a lexer past the spaces.
itemsFrom(seq, l, out) ==
  LET t == l.readed[1]
      Go(r) == processItems(seq, r.lex, out \o r.out)
  IN CASE t.type = "FN" -> Go(processFunction(seq, Consume(l)))
       [] t.type = "D"  -> Go(processDate(seq, Consume(l)))
       [] t.type = "TS" -> Go(processDateTime(seq, Consume(l)))
       [] t.type = "}"  -> Wrote(out, Consume(l))
       [] OTHER -> Wrote(seq, Consume(l))

processItems(seq, lex, out) == itemsFrom(seq, SkipSpaces(lex), out)

processEscapeSequencesImpl(seq, lex) ==
  IF Peek(lex).type # "{" THEN Wrote(seq, LookAhead(lex, 1))
  ELSE processItems(seq, Consume(lex), <<>>)

processEscapeSequences(seq) ==
  processEscapeSequencesImpl(seq, [text |-> seq, readed |-> <<>>, emit_space |-> FALSE]).out
=============================================================================
