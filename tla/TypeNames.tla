----------------------------- MODULE TypeNames -----------------------------
(***************************************************************************)
(* The names of the data source's types: how the driver names the type of  *)
(* a parameter (utils/type_info.cpp), how it parses the name of a column's *)
(* type (utils/type_parser.cpp) and what it takes from it (result_set.cpp).*)
(* A name is a sequence of lexemes.  An empty name, or no column, is an    *)
(* exception.                                                              *)
(***************************************************************************)
EXTENDS Naturals, Sequences, SequencesExt

CONSTANT Numbers  \* as they are written

CNames ==
  [CHAR |-> "string", WCHAR |-> "string", BIT |-> "uint8", STINYINT |-> "int8",
   UTINYINT |-> "uint8", SSHORT |-> "int16", USHORT |-> "uint16", SLONG |-> "int32",
   ULONG |-> "uint32", SBIGINT |-> "int64", UBIGINT |-> "uint64", FLOAT |-> "float32",
   DOUBLE |-> "float64", GUID |-> "uuid", DATE |-> "date", TIMESTAMP |-> "datetime"]

SQLNames ==
  [TYPE_NULL |-> "nothing", CHAR |-> "string", LONGVARCHAR |-> "string",
   LONGVARBINARY |-> "string", BIT |-> "uint8", TINYINT |-> "int8", SMALLINT |-> "int16",
   INTEGER |-> "int32", BIGINT |-> "int64", REAL |-> "float32", DOUBLE |-> "float64",
   GUID |-> "uuid", TYPE_DATE |-> "date", TYPE_TIMESTAMP |-> "datetime"]

-----------------------------------------------------------------------------
\* Naming the type of a parameter

Within(wrapper, name) == <<wrapper, "(">> \o name \o <<")">>

WithNullability(type, name) == IF type.is_nullable THEN Within("nullable", name) ELSE name

LowCardinality(type) == Within("low_cardinality", WithNullability(type, <<"string">>))

DecimalName(type) == <<"decimal", "(", type.precision, ",", type.scale, ")">>

BinaryName(type) ==
  IF type.value_max_size # "0" THEN Within("fixed_string", <<type.value_max_size>>)
  ELSE <<"string">>

NameOfCType(type) ==
  CASE type.c_type \in DOMAIN CNames       -> WithNullability(type, <<CNames[type.c_type]>>)
    [] type.c_type = "NUMERIC"             -> WithNullability(type, DecimalName(type))
    [] type.c_type = "BINARY"              -> WithNullability(type, BinaryName(type))
    [] type.c_type \in {"TIME", "INTERVAL"} -> LowCardinality(type)
    [] OTHER                               -> <<>>

NameOfSQLType(type) ==
  CASE type.sql_type \in DOMAIN SQLNames -> WithNullability(type, <<SQLNames[type.sql_type]>>)
    [] type.sql_type \in {"DECIMAL", "NUMERIC"} -> WithNullability(type, DecimalName(type))
    [] type.sql_type = "BINARY"          -> WithNullability(type, BinaryName(type))
    [] type.sql_type \in {"VARCHAR", "VARBINARY", "TYPE_TIME", "INTERVAL"} -> LowCardinality(type)
    [] OTHER                             -> <<>>

NameOf(type) ==
  IF NameOfSQLType(type) # <<>> THEN NameOfSQLType(type) ELSE NameOfCType(type)

\* convertSQLOrCTypeToDataSourceType() is not asked about a parameter beyond the
\* bound ones.
NameOfUnbound == <<"nullable", "(", "nothing", ")">>

-----------------------------------------------------------------------------
\* Parsing a name.  The tree is a function of paths; `at' is the element
\* being filled, `open' the stack of those it may return to.

\* A name is letters and digits: the parser gives up at an underscore.
Underscored == {"low_cardinality", "fixed_string"}

TypeWords ==
  {CNames[c] : c \in DOMAIN CNames} \cup {SQLNames[c] : c \in DOMAIN SQLNames}
  \cup {"decimal", "nullable"} \cup Underscored \cup {"(", ")", ",", "end"}

ASSUME NumbersAssumption == Numbers \cap TypeWords = {}

Meta(name) == IF name \in {"array", "null", "nullable", "tuple"} THEN name ELSE "terminal"

Element == [meta |-> "array", name |-> "", size |-> "0"]

Elements(ast, path) == Cardinality({k \in 1 .. 9 : Append(path, k) \in DOMAIN ast})

ElementAdded(parse, parent, open) ==
  LET ast == parse.ast
      child == Append(parent, Elements(ast, parent) + 1)
  IN  [parse EXCEPT !.ast = [path \in {child} \cup DOMAIN ast |-> IF path = child THEN Element ELSE ast[path]],
                    !.at = child, !.open = Append(open, parent)]

Named(parse, name) ==
  [parse EXCEPT !.ast[parse.at] = [meta |-> Meta(name), name |-> name, size |-> @.size]]

Sized(parse, number) ==
  [parse EXCEPT !.ast[parse.at] = [meta |-> "number", name |-> @.name, size |-> number]]

\* Mutant: a comma opens an element below the one before it.
Read_CommaNests(parse, token) ==
  IF parse.result # "more" THEN parse
  ELSE CASE token \in {"(", ","} -> ElementAdded(parse, parse.at, parse.open)
         [] token = ")" -> [parse EXCEPT !.at = Last(parse.open), !.open = Front(parse.open)]
         [] token = "end" -> [parse EXCEPT !.result = "parsed"]
         [] token \in Underscored -> [parse EXCEPT !.result = "failed"]
         [] token \in Numbers -> Sized(parse, token)
         [] OTHER -> Named(parse, token)

Read(parse, token) ==
  IF parse.result # "more" THEN parse
  ELSE CASE token = "(" -> ElementAdded(parse, parse.at, parse.open)
         [] token = ")" -> [parse EXCEPT !.at = Last(parse.open), !.open = Front(parse.open)]
         [] token = "," -> ElementAdded(parse, Last(parse.open), Front(parse.open))
         [] token = "end" -> [parse EXCEPT !.result = "parsed"]
         [] token \in Underscored -> [parse EXCEPT !.result = "failed"]
         [] token \in Numbers -> Sized(parse, token)
         [] OTHER -> Named(parse, token)

Unread == [ast |-> [path \in {<<>>} |-> Element], at |-> <<>>, open |-> << <<>> >>, result |-> "more"]

Parse(name) ==
  LET tokens == Append(name, "end")
      After[n \in 0 .. Len(tokens)] == IF n = 0 THEN Unread ELSE Read(After[n - 1], tokens[n])
  IN  After[Len(tokens)]

-----------------------------------------------------------------------------
\* What a column takes from the tree

KnownTypes ==
  {"date", "datetime", "datetime64", "decimal", "string", "float32", "float64", "int8", "int16",
   "int32", "int64", "nothing", "uint8", "uint16", "uint32", "uint64", "uuid"}

Column(type, nullable, precision, scale) ==
  {[type |-> type, is_nullable |-> nullable, precision |-> precision, scale |-> scale]}

Throws == {}

\* What is in the wrappers of NULL: the first element, over and over.
Inner(depth) == [k \in 1 .. depth |-> 1]

Depth(ast) ==
  CHOOSE n \in 0 .. Cardinality(DOMAIN ast) :
    /\ \A m \in 0 .. n - 1 : ast[Inner(m)].meta = "nullable"
    /\ ast[Inner(n)].meta # "nullable"

TakenFrom(ast, path, nullable) ==
  LET element == ast[path]
      count == Elements(ast, path)
      Size(k) == ast[Append(path, k)].size
  IN CASE element.meta # "terminal" -> Column("string", nullable, "0", "0")
       [] element.meta = "terminal" /\ element.name = "datetime" ->
            IF count \in {0, 1} THEN Column("datetime", nullable, "0", "0") ELSE Throws
       [] element.meta = "terminal" /\ element.name = "datetime64" ->
            IF count \in {1, 2} /\ Size(1) \in {"0", "2", "3", "9"}
            THEN Column("datetime64", nullable, Size(1), "0") ELSE Throws
       [] element.meta = "terminal" /\ element.name = "decimal" ->
            IF count = 2 THEN Column("decimal", nullable, Size(1), Size(2)) ELSE Throws
       [] OTHER -> Column(element.name, nullable, "0", "0")

AssignTypeInfo(ast) == TakenFrom(ast, Inner(Depth(ast)), Depth(ast) > 0)

\* A column of ODBCDriver2 whose type is not parsed, or not known, is text;
\* RowBinaryWithNamesAndTypes throws.
ColumnOfODBCDriver2(name) ==
  LET parse == Parse(name)
  IN  IF parse.result = "failed" THEN Column("string", FALSE, "0", "0")
      ELSE {IF c.type \in KnownTypes THEN c ELSE [c EXCEPT !.type = "string"] :
              c \in AssignTypeInfo(parse.ast)}

ColumnOfRowBinary(name) ==
  LET parse == Parse(name)
  IN  IF parse.result = "failed" THEN Throws
      ELSE {c \in AssignTypeInfo(parse.ast) : c.type \in KnownTypes}
=============================================================================
