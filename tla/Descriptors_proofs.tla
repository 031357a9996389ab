------------------------- MODULE Descriptors_proofs -------------------------
(***************************************************************************)
(* Theorems about Descriptors, for any number of records and any types.    *)
(***************************************************************************)
EXTENDS Descriptors, TLAPS

Agreeing == {record \in Record : TypesAgreeIn(record)}

Everyone == {"ard", "apd", "ipd"}

-----------------------------------------------------------------------------
\* A record that agrees still does after each of its fields is set.

LEMMA InitAgrees == \A role \in Everyone : InitRecord(role) \in Agreeing
  BY DEF InitRecord, Agreeing, Record, TypesAgreeIn, AllTypes, NoType, Roles, Pointers,
         Verbose, ConciseOfFamily, Everyone

LEMMA PointersAgree ==
  ASSUME NEW record \in Agreeing, NEW data \in Pointers, NEW ind \in Pointers
  PROVE  SetPointers(record, data, ind) \in Agreeing
  BY DEF SetPointers, Agreeing, Record, TypesAgreeIn

LEMMA ConciseAgrees ==
  ASSUME NEW record \in Agreeing, NEW type \in AllTypes
  PROVE  SetConcise(record, type) \in Agreeing
<1>1. CASE record.concise = type
  BY <1>1 DEF SetConcise
<1>2. CASE record.concise # type /\ Verbose(type)
  BY <1>2 DEF SetConcise, Agreeing, Record, TypesAgreeIn
<1>3. CASE record.concise # type /\ ~Verbose(type)
  <2>1. /\ SetConcise(record, type) = [record EXCEPT !.concise = type, !.type = Family(type),
                                                     !.code = Code(type), !.data = "null"]
        /\ record \in Record
    BY <1>3 DEF SetConcise, Agreeing
  <2>2. Family(type) \in AllTypes /\ Code(type) \in Nat
    BY DEF Family, Code, AllTypes
  <2>3. SetConcise(record, type) \in Record
    BY <2>1, <2>2 DEF Record, Pointers
  <2>4. /\ SetConcise(record, type).concise = type
        /\ SetConcise(record, type).type = Family(type)
        /\ SetConcise(record, type).code = Code(type)
    BY <2>1 DEF Record
  <2>5. Verbose(Family(type)) => type = Concise(Code(type), Family(type))
    BY <1>3 DEF Verbose, Family, Concise, Code
  <2>6. ~Verbose(Family(type)) => Family(type) = type
    BY DEF Verbose, Family
  <2>7. TypesAgreeIn(SetConcise(record, type))
    BY <2>4, <2>5, <2>6 DEF TypesAgreeIn
  <2> QED
    BY <2>3, <2>7 DEF Agreeing
<1> QED
  BY <1>1, <1>2, <1>3

LEMMA TypeAgrees ==
  ASSUME NEW record \in Agreeing, NEW type \in AllTypes
  PROVE  SetType(record, type) \in Agreeing
<1>1. Concise(record.code, type) \in AllTypes
  BY DEF Concise, AllTypes
<1>2. CASE record.type = type
  BY <1>2 DEF SetType, Agreeing, Record
<1>3. CASE record.type # type /\ ConciseOfFamily(type)
  BY <1>3 DEF SetType, Agreeing, Record, TypesAgreeIn
<1>4. CASE record.type # type /\ ~ConciseOfFamily(type) /\ ~Verbose(type)
  BY <1>4 DEF SetType, Agreeing, Record, TypesAgreeIn, Pointers
<1>5. CASE record.type # type /\ ~ConciseOfFamily(type) /\ Verbose(type) /\ record.code = 0
  BY <1>5 DEF SetType, Agreeing, Record, TypesAgreeIn
<1>6. CASE record.type # type /\ ~ConciseOfFamily(type) /\ Verbose(type) /\ record.code # 0
  BY <1>1, <1>6 DEF SetType, Agreeing, Record, TypesAgreeIn, Pointers
<1> QED
  BY <1>2, <1>3, <1>4, <1>5, <1>6

LEMMA CodeAgrees ==
  ASSUME NEW record \in Agreeing, NEW code \in Nat
  PROVE  SetCode(record, code) \in Agreeing
<1>1. Concise(code, record.type) \in AllTypes
  BY DEF Concise, AllTypes
<1>2. CASE record.code # code /\ code # 0 /\ Verbose(record.type)
  BY <1>1, <1>2 DEF SetCode, Agreeing, Record, TypesAgreeIn, Pointers
<1>3. CASE ~(record.code # code /\ code # 0 /\ Verbose(record.type))
  BY <1>3 DEF SetCode, Agreeing, Record, TypesAgreeIn
<1> QED
  BY <1>2, <1>3

-----------------------------------------------------------------------------
\* What fetching a record makes of the records of a descriptor.

LEMMA FetchedFacts ==
  ASSUME TypeOK, TypesAgree, NEW d \in Descs, NEW num \in Nums, NEW role \in Everyone
  PROVE  /\ Fetched(d, num, role) \in Seq(Agreeing)
         /\ Len(Fetched(d, num, role)) = Larger(Len(records[d]), Larger(count[d], num))
         /\ Len(Fetched(d, num, role)) <= MaxRec
         /\ num \in 1 .. Len(Fetched(d, num, role))
         /\ \A i \in count[d] + 1 .. num : Fetched(d, num, role)[i] = InitRecord(role)
<1> DEFINE m == Larger(Len(records[d]), Larger(count[d], num))
<1>1. /\ records[d] \in Seq(Record) /\ Len(records[d]) \in Nat /\ Len(records[d]) <= MaxRec
      /\ count[d] \in Nat /\ count[d] <= MaxRec /\ num \in Nat /\ 1 <= num /\ num <= MaxRec
  BY MaxRecAssumption DEF TypeOK, Nums
<1>2. m \in Nat /\ m <= MaxRec /\ num <= m
  BY <1>1, MaxRecAssumption DEF Larger
<1>3. \A i \in 1 .. Len(records[d]) : records[d][i] \in Agreeing
  BY <1>1 DEF TypesAgree, Agreeing
<1> HIDE DEF m
<1>4. Fetched(d, num, role) =
        [i \in 1 .. m |-> IF i <= Len(records[d]) /\ ~(count[d] < i /\ i <= num)
                          THEN records[d][i] ELSE InitRecord(role)]
  BY DEF Fetched, m
<1>5. \A i \in 1 .. m : (IF i <= Len(records[d]) /\ ~(count[d] < i /\ i <= num)
                         THEN records[d][i] ELSE InitRecord(role)) \in Agreeing
  BY <1>1, <1>2, <1>3, InitAgrees
<1>6. Fetched(d, num, role) \in Seq(Agreeing) /\ Len(Fetched(d, num, role)) = m
  BY <1>2, <1>4, <1>5
<1>7. \A i \in count[d] + 1 .. num : Fetched(d, num, role)[i] = InitRecord(role)
  BY <1>1, <1>2, <1>4
<1> QED
  BY <1>1, <1>2, <1>6, <1>7 DEF m

LEMMA InitUnbound == \A role \in Everyone : ~Bound(InitRecord(role))
  BY DEF InitRecord, Bound

\* A sequence is one over any set that has its elements.
LEMMA ElementsIn ==
  ASSUME NEW S, NEW T, NEW q \in Seq(S), \A i \in 1 .. Len(q) : q[i] \in T
  PROVE  q \in Seq(T)
  OBVIOUS

\* Storing a record in one place.
LEMMA StoreFacts ==
  ASSUME NEW q \in Seq(Agreeing), NEW num \in 1 .. Len(q), NEW record \in Agreeing
  PROVE  /\ [q EXCEPT ![num] = record] \in Seq(Agreeing)
         /\ Len([q EXCEPT ![num] = record]) = Len(q)
         /\ \A i \in 1 .. Len(q) : i # num => [q EXCEPT ![num] = record][i] = q[i]
  OBVIOUS

-----------------------------------------------------------------------------
\* The part of the invariant that is about counts and records.
Shape(counts, recs) ==
  /\ counts \in [Descs -> 0 .. MaxRec]
  /\ recs \in [Descs -> Seq(Agreeing)]
  /\ \A d \in Descs : Len(recs[d]) <= MaxRec

\* No record but number num enters the count bound.
NoReturn(num) ==
  \A d \in Descs : \A i \in count[d] + 1 .. Smaller(count'[d], Len(records'[d])) :
    i # num => ~Bound(records'[d][i])

LEMMA ShapeOfInvariant ==
  ASSUME TypeOK, TypesAgree
  PROVE  /\ Shape(count, records)
         /\ \A d \in Descs : count[d] \in Nat /\ Len(records[d]) \in Nat
<1>1. ASSUME NEW d \in Descs PROVE records[d] \in Seq(Agreeing)
  <2>1. records[d] \in Seq(Record)
    BY DEF TypeOK
  <2>2. \A i \in 1 .. Len(records[d]) : records[d][i] \in Agreeing
    BY <2>1 DEF TypesAgree, Agreeing
  <2> QED
    BY <2>1, <2>2, ElementsIn
<1> QED
  BY <1>1, MaxRecAssumption DEF TypeOK, Shape

LEMMA InvariantOfShape ==
  ASSUME Shape(count', records'), TypeOK,
         explicit' \in [Roles -> Descs \ {"ipd"}],
         call'.op \in {"bind", "failed", "unbind", "reset", "prepare", "columns", "direct"},
         calls' \in 0 .. MaxCalls, direct' \in 0 .. MaxDirect
  PROVE  TypeOK' /\ TypesAgree'
<1>1. records' \in [Descs -> Seq(Record)]
  <2>1. ASSUME NEW d \in Descs PROVE records'[d] \in Seq(Record)
    <3>1. records'[d] \in Seq(Agreeing)
      BY DEF Shape
    <3>2. \A i \in 1 .. Len(records'[d]) : records'[d][i] \in Record
      BY <3>1 DEF Agreeing
    <3> QED
      BY <3>1, <3>2, ElementsIn
  <2> QED
    BY <2>1 DEF Shape
<1>2. TypesAgree'
  <2> SUFFICES ASSUME NEW d \in Descs, NEW i \in 1 .. Len(records'[d])
               PROVE  TypesAgreeIn(records'[d][i])
    BY DEF TypesAgree
  <2>1. records'[d] \in Seq(Agreeing)
    BY DEF Shape
  <2>2. records'[d][i] \in Agreeing
    BY <2>1
  <2> QED
    BY <2>2 DEF Agreeing
<1> QED
  BY <1>1, <1>2 DEF TypeOK, Shape

\* A descriptor d whose count becomes c and whose records become q, so that
\* no bound record but number num enters the count.
Entry(d, c, q, num) ==
  /\ c \in 0 .. MaxRec
  /\ q \in Seq(Agreeing) /\ Len(q) <= MaxRec
  /\ \A i \in count[d] + 1 .. Smaller(c, Len(q)) : i # num => ~Bound(q[i])

LEMMA FromEntries ==
  ASSUME NEW num,
         count' = [d \in Descs |-> count'[d]], records' = [d \in Descs |-> records'[d]],
         \A d \in Descs : Entry(d, count'[d], records'[d], num)
  PROVE  Shape(count', records') /\ NoReturn(num)
<1>1. count' \in [Descs -> 0 .. MaxRec]
  BY DEF Entry
<1>2. records' \in [Descs -> Seq(Agreeing)]
  BY DEF Entry
<1>3. \A d \in Descs : Len(records'[d]) <= MaxRec
  BY DEF Entry
<1> QED
  BY <1>1, <1>2, <1>3 DEF Shape, NoReturn, Entry

\* Under a count that is no larger no record enters.
LEMMA SmallerEntry ==
  ASSUME TypeOK, TypesAgree, NEW d \in Descs, NEW c \in 0 .. MaxRec, c <= count[d],
         NEW q \in Seq(Agreeing), Len(q) <= MaxRec, NEW num
  PROVE  Entry(d, c, q, num)
<1>1. count[d] \in Nat /\ c \in Nat /\ Len(q) \in Nat
  BY ShapeOfInvariant, MaxRecAssumption
<1>2. Smaller(c, Len(q)) \in Nat /\ Smaller(c, Len(q)) <= count[d]
  BY <1>1 DEF Smaller
<1> QED
  BY <1>1, <1>2 DEF Entry

LEMMA KeptEntry ==
  ASSUME TypeOK, TypesAgree, NEW d \in Descs, NEW num
  PROVE  Entry(d, count[d], records[d], num)
<1>1. /\ count[d] \in 0 .. MaxRec /\ count[d] <= count[d]
      /\ records[d] \in Seq(Agreeing) /\ Len(records[d]) <= MaxRec
  BY ShapeOfInvariant, MaxRecAssumption DEF Shape
<1> QED
  BY <1>1, SmallerEntry

LEMMA WrittenEntry ==
  ASSUME TypeOK, TypesAgree, NEW d \in Descs, NEW num \in Nums, NEW role \in Everyone,
         NEW record \in Agreeing,
         NEW c \in {count[d], CountWith(d, num)}
  PROVE  Entry(d, c, [Fetched(d, num, role) EXCEPT ![num] = record], num)
<1> DEFINE q == Fetched(d, num, role)
           w == [q EXCEPT ![num] = record]
<1>1. /\ q \in Seq(Agreeing) /\ Len(q) <= MaxRec /\ num \in 1 .. Len(q)
      /\ \A i \in count[d] + 1 .. num : q[i] = InitRecord(role)
  BY FetchedFacts
<1> HIDE DEF q
<1>2. /\ w \in Seq(Agreeing) /\ Len(w) = Len(q)
      /\ \A i \in 1 .. Len(q) : i # num => w[i] = q[i]
  BY <1>1, StoreFacts
<1> HIDE DEF w
<1>3. /\ count[d] \in 0 .. MaxRec /\ num \in 1 .. MaxRec /\ count[d] \in Nat
  BY ShapeOfInvariant DEF Shape, Nums
<1>4. c \in 0 .. MaxRec /\ c <= Larger(count[d], num)
  BY <1>3, MaxRecAssumption DEF CountWith, Larger
<1>5. ASSUME NEW i \in count[d] + 1 .. Smaller(c, Len(w)), i # num
      PROVE  ~Bound(w[i])
  <2>1. i \in Nat /\ count[d] < i /\ i <= c /\ i <= Len(w)
    BY <1>1, <1>2, <1>3, <1>4, MaxRecAssumption DEF Smaller
  <2>2. i \in count[d] + 1 .. num /\ i \in 1 .. Len(q)
    BY <1>2, <1>3, <1>4, <2>1, MaxRecAssumption DEF Larger
  <2>3. w[i] = InitRecord(role)
    BY <1>1, <1>2, <1>5, <2>2
  <2> QED
    BY <2>3, InitUnbound
<1>6. Entry(d, c, w, num)
  BY <1>1, <1>2, <1>4, <1>5 DEF Entry
<1> QED
  BY <1>6 DEF w, q

\* Fetching alone, under a count that is no larger.
LEMMA FetchedEntry ==
  ASSUME TypeOK, TypesAgree, NEW d \in Descs, NEW num \in Nums, NEW role \in Everyone,
         NEW c \in 0 .. MaxRec, c <= count[d], NEW n
  PROVE  Entry(d, c, Fetched(d, num, role), n)
  BY FetchedFacts, SmallerEntry

\* A call that changes one descriptor only.
LEMMA OneEntry ==
  ASSUME TypeOK, TypesAgree, NEW d \in Descs, NEW c, NEW q, NEW num,
         count' = [count EXCEPT ![d] = c], records' = [records EXCEPT ![d] = q],
         Entry(d, c, q, num)
  PROVE  Shape(count', records') /\ NoReturn(num)
<1>1. count = [e \in Descs |-> count[e]] /\ records = [e \in Descs |-> records[e]]
  BY DEF TypeOK
<1>2. count' = [e \in Descs |-> count'[e]] /\ records' = [e \in Descs |-> records'[e]]
  BY <1>1
<1>3. ASSUME NEW e \in Descs PROVE Entry(e, count'[e], records'[e], num)
  <2>1. CASE e = d
    <3>1. count'[e] = c /\ records'[e] = q
      BY <1>1, <2>1
    <3> QED
      BY <2>1, <3>1
  <2>2. CASE e # d
    <3>1. count'[e] = count[e] /\ records'[e] = records[e]
      BY <1>1, <2>2
    <3> QED
      BY <3>1, KeptEntry
  <2> QED
    BY <2>1, <2>2
<1> QED
  BY <1>2, <1>3, FromEntries

\* A call that leaves counts, and records but those of one descriptor, alone.
LEMMA OneRecords ==
  ASSUME TypeOK, TypesAgree, NEW d \in Descs, NEW q, NEW num,
         count' = count, records' = [records EXCEPT ![d] = q],
         Entry(d, count[d], q, num)
  PROVE  Shape(count', records') /\ NoReturn(num)
<1>1. count' = [count EXCEPT ![d] = count[d]]
  BY DEF TypeOK
<1> QED
  BY <1>1, OneEntry

-----------------------------------------------------------------------------
\* The calls, one by one.

LEMMA RoleDescs ==
  ASSUME TypeOK
  PROVE  /\ \A role \in Roles : explicit[role] \in Descs \ {"ipd"}
         /\ "ipd" \in Descs
         /\ \A num \in Nums : num \in 1 .. MaxRec
  BY DEF TypeOK, Descs, Nums

LEMMA UnbindStep ==
  ASSUME TypeOK, TypesAgree, NEW d \in Descs, NEW num \in Nums, UnbindLast(d, num), NEW n
  PROVE  Shape(count', records') /\ NoReturn(n)
<1> DEFINE below == Smaller(count[d], num - 1)
           searched == IF below = 0 THEN records[d] ELSE Fetched(d, below, "ard")
<1>1. /\ count[d] \in 0 .. MaxRec /\ num \in 1 .. MaxRec
      /\ records[d] \in Seq(Agreeing) /\ Len(records[d]) <= MaxRec
  BY ShapeOfInvariant, RoleDescs DEF Shape
<1>2. below \in 0 .. MaxRec /\ below <= count[d]
  BY <1>1, MaxRecAssumption DEF Smaller
<1>3. PICK highest \in 0 .. below : count' = [count EXCEPT ![d] = highest]
  BY DEF UnbindLast
<1>4. records' = [records EXCEPT ![d] = searched]
  BY DEF UnbindLast
<1> HIDE DEF below
<1>5. highest \in 0 .. MaxRec /\ highest <= count[d]
  BY <1>1, <1>2, <1>3, MaxRecAssumption
<1>6. Entry(d, highest, searched, n)
  <2>1. CASE below = 0
    BY <1>1, <1>5, <2>1, SmallerEntry
  <2>2. CASE below # 0
    <3>1. below \in Nums /\ "ard" \in Everyone
      BY <1>2, <2>2, MaxRecAssumption DEF Nums, Everyone
    <3> QED
      BY <1>5, <2>2, <3>1, FetchedEntry
  <2> QED
    BY <2>1, <2>2
<1> HIDE DEF searched
<1> QED
  BY <1>3, <1>4, <1>6, OneEntry

\* Reading records makes them.
LEMMA ReadStep ==
  ASSUME TypeOK, TypesAgree, NEW d \in Descs, NEW num \in Nums, NEW role \in Everyone,
         records' = [records EXCEPT ![d] = Fetched(d, num, role)], count' = count
  PROVE  Shape(count', records')
<1>1. count[d] \in 0 .. MaxRec /\ count[d] <= count[d]
  BY ShapeOfInvariant, MaxRecAssumption DEF Shape
<1>2. Entry(d, count[d], Fetched(d, num, role), 0)
  BY <1>1, FetchedEntry
<1> QED
  BY <1>2, OneRecords

LEMMA ColumnStep ==
  ASSUME TypeOK, TypesAgree, ColumnCall
  PROVE  Shape(count', records') /\ NoReturn(call'.num)
<1> DEFINE d == explicit["ard"]
<1>1. d \in Descs /\ "ard" \in Everyone
  BY RoleDescs DEF Roles, Everyone
<1>2. ASSUME NEW num \in Nums, UnbindCol(num) PROVE Shape(count', records') /\ NoReturn(call'.num)
  BY <1>1, <1>2, UnbindStep DEF UnbindCol
<1>3. ASSUME NEW num \in Nums, NEW ctype \in CTypes,
             NEW p \in BindingPointers \cup {<<"null", "null">>}, BindCol(num, ctype, p[1], p[2])
      PROVE  Shape(count', records') /\ NoReturn(call'.num)
  <2> DEFINE record == SetPointers(SetConcise(Fetched(d, num, "ard")[num], ctype), p[1], p[2])
  <2>1. Fetched(d, num, "ard")[num] \in Agreeing
    BY <1>1, FetchedFacts
  <2>2. p[1] \in Pointers /\ p[2] \in Pointers /\ ctype \in AllTypes
    BY DEF BindingPointers, Pointers, AllTypes
  <2>3. record \in Agreeing
    BY <2>1, <2>2, ConciseAgrees, PointersAgree
  <2>4. /\ records' = [records EXCEPT ![d] = [Fetched(d, num, "ard") EXCEPT ![num] = record]]
        /\ count' = [count EXCEPT ![d] = CountWith(d, num)]
        /\ call'.num = num
    BY <1>3 DEF BindCol, CalledOnColumns, Called
  <2> HIDE DEF record, d
  <2>5. Entry(d, CountWith(d, num), [Fetched(d, num, "ard") EXCEPT ![num] = record], num)
    BY <1>1, <2>3, WrittenEntry
  <2> QED
    BY <1>1, <2>4, <2>5, OneEntry
<1>4. ASSUME NEW num \in Nums, NEW ctype \in CTypes, BindColFails(num, ctype)
      PROVE  Shape(count', records') /\ NoReturn(call'.num)
  <2> DEFINE record == SetConcise(Fetched(d, num, "ard")[num], ctype)
  <2>1. Fetched(d, num, "ard")[num] \in Agreeing
    BY <1>1, FetchedFacts
  <2>2. record \in Agreeing
    BY <2>1, ConciseAgrees DEF AllTypes
  <2>3. /\ records' = [records EXCEPT ![d] = [Fetched(d, num, "ard") EXCEPT ![num] = record]]
        /\ count' = count /\ call'.num = num
    BY <1>4 DEF BindColFails, CalledOnColumns, Called
  <2> HIDE DEF record, d
  <2>4. Entry(d, count[d], [Fetched(d, num, "ard") EXCEPT ![num] = record], num)
    BY <1>1, <2>2, WrittenEntry
  <2> QED
    BY <1>1, <2>3, <2>4, OneRecords
<1>5. ASSUME ResetColBindings PROVE Shape(count', records') /\ NoReturn(call'.num)
  <2>1. /\ count' = [count EXCEPT ![d] = 0] /\ records' = [records EXCEPT ![d] = records[d]]
    BY <1>5, ShapeOfInvariant DEF ResetColBindings, Shape
  <2>2. /\ 0 \in 0 .. MaxRec /\ 0 <= count[d]
        /\ records[d] \in Seq(Agreeing) /\ Len(records[d]) <= MaxRec
    BY <1>1, ShapeOfInvariant, MaxRecAssumption DEF Shape
  <2> HIDE DEF d
  <2>3. Entry(d, 0, records[d], call'.num)
    BY <1>1, <2>2, SmallerEntry
  <2> QED
    BY <1>1, <2>1, <2>3, OneEntry
<1> QED
  BY <1>2, <1>3, <1>4, <1>5 DEF ColumnCall

\* A call about a parameter writes its two records, in different descriptors.
LEMMA TwoEntries ==
  ASSUME TypeOK, TypesAgree, NEW d \in Descs \ {"ipd"}, NEW num \in Nums,
         NEW apd_record \in Agreeing, NEW ipd_record \in Agreeing,
         records' = [records EXCEPT
           ![d] = [Fetched(d, num, "apd") EXCEPT ![num] = apd_record],
           !["ipd"] = [Fetched("ipd", num, "ipd") EXCEPT ![num] = ipd_record]],
         \/ count' = [count EXCEPT ![d] = CountWith(d, num), !["ipd"] = CountWith("ipd", num)]
         \/ count' = count
  PROVE  Shape(count', records') /\ NoReturn(num)
<1> DEFINE q == [Fetched(d, num, "apd") EXCEPT ![num] = apd_record]
           r == [Fetched("ipd", num, "ipd") EXCEPT ![num] = ipd_record]
<1>1. count = [e \in Descs |-> count[e]] /\ records = [e \in Descs |-> records[e]]
  BY DEF TypeOK
<1>2. records' = [records EXCEPT ![d] = q, !["ipd"] = r]
  OBVIOUS
<1>3. /\ \A c \in {count[d], CountWith(d, num)} : Entry(d, c, q, num)
      /\ \A c \in {count["ipd"], CountWith("ipd", num)} : Entry("ipd", c, r, num)
  BY WrittenEntry, RoleDescs DEF Everyone
<1> HIDE DEF q, r
<1>4. count' = [e \in Descs |-> count'[e]] /\ records' = [e \in Descs |-> records'[e]]
  BY <1>1, <1>2
<1>5. "ipd" \in Descs
  BY RoleDescs
<1>6. /\ records'[d] = q /\ count'[d] \in {count[d], CountWith(d, num)}
      /\ records'["ipd"] = r /\ count'["ipd"] \in {count["ipd"], CountWith("ipd", num)}
  BY <1>1, <1>2, <1>5
<1>7. ASSUME NEW e \in Descs PROVE Entry(e, count'[e], records'[e], num)
  <2>1. CASE e = d
    BY <1>3, <1>6, <2>1
  <2>2. CASE e = "ipd"
    BY <1>3, <1>6, <2>2
  <2>3. CASE e # d /\ e # "ipd"
    <3>1. count'[e] = count[e] /\ records'[e] = records[e]
      BY <1>1, <1>2, <2>3
    <3> QED
      BY <3>1, KeptEntry
  <2> QED
    BY <2>1, <2>2, <2>3
<1> QED
  BY <1>4, <1>7, FromEntries

LEMMA ParameterRecords ==
  ASSUME TypeOK, TypesAgree, NEW num \in Nums, NEW ctype \in CTypes \cup {"default"},
         NEW sqltype \in SqlTypes
  PROVE  ApdRecord(num, ctype, sqltype) \in Agreeing /\ IpdRecord(num, sqltype) \in Agreeing
<1>1. /\ explicit["apd"] \in Descs /\ "ipd" \in Descs
      /\ "apd" \in Everyone /\ "ipd" \in Everyone
  BY RoleDescs DEF Roles, Everyone
<1>2. /\ Fetched(explicit["apd"], num, "apd")[num] \in Agreeing
      /\ Fetched("ipd", num, "ipd")[num] \in Agreeing
  <2>1. /\ Fetched(explicit["apd"], num, "apd") \in Seq(Agreeing)
        /\ num \in 1 .. Len(Fetched(explicit["apd"], num, "apd"))
    BY <1>1, FetchedFacts
  <2>2. /\ Fetched("ipd", num, "ipd") \in Seq(Agreeing)
        /\ num \in 1 .. Len(Fetched("ipd", num, "ipd"))
    BY <1>1, FetchedFacts
  <2> QED
    BY <2>1, <2>2
<1>3. sqltype \in AllTypes /\ (IF ctype = "default" THEN DefaultCType(sqltype) ELSE ctype) \in AllTypes
  BY DEF AllTypes, DefaultCType
<1> QED
  BY <1>2, <1>3, ConciseAgrees DEF ApdRecord, IpdRecord

LEMMA ParameterStep ==
  ASSUME TypeOK, TypesAgree, ParameterCall
  PROVE  Shape(count', records') /\ NoReturn(call'.num)
<1> DEFINE d == explicit["apd"]
<1>1. d \in Descs \ {"ipd"} /\ "ipd" \in Descs /\ "ipd" \in Everyone
  BY RoleDescs DEF Roles, Everyone
<1>2. ASSUME NEW num \in Nums, UnbindParameter(num)
      PROVE  Shape(count', records') /\ NoReturn(call'.num)
  BY <1>1, <1>2, UnbindStep DEF UnbindParameter
<1>3. ASSUME NEW num \in Nums, NEW ctype \in CTypes \cup {"default"}, NEW sqltype \in SqlTypes,
             NEW p \in BindingPointers \cup {<<"null", "null">>},
             BindParameter(num, ctype, sqltype, p[1], p[2])
      PROVE  Shape(count', records') /\ NoReturn(call'.num)
  <2> DEFINE apd_record == SetPointers(ApdRecord(num, ctype, sqltype), p[1], p[2])
             ipd_record == IpdRecord(num, sqltype)
  <2>1. p[1] \in Pointers /\ p[2] \in Pointers
    BY DEF BindingPointers, Pointers
  <2>2. apd_record \in Agreeing /\ ipd_record \in Agreeing
    BY <2>1, ParameterRecords, PointersAgree
  <2>3. /\ StoreParameter(num, apd_record, ipd_record)
        /\ count' = [count EXCEPT ![d] = CountWith(d, num), !["ipd"] = CountWith("ipd", num)]
    BY <1>3 DEF BindParameter
  <2>4. call'.num = num
    BY <1>3 DEF BindParameter, Called
  <2> HIDE DEF apd_record, ipd_record
  <2> QED
    BY <1>1, <2>2, <2>3, <2>4, TwoEntries DEF StoreParameter
<1>4. ASSUME NEW num \in Nums, NEW ctype \in CTypes \cup {"default"}, NEW sqltype \in SqlTypes,
             BindParameterFails(num, ctype, sqltype)
      PROVE  Shape(count', records') /\ NoReturn(call'.num)
  <2>1. /\ StoreParameter(num, ApdRecord(num, ctype, sqltype), IpdRecord(num, sqltype))
        /\ count' = count /\ call'.num = num
    BY <1>4 DEF BindParameterFails, Called
  <2> QED
    BY <1>1, <2>1, ParameterRecords, TwoEntries DEF StoreParameter
<1>5. ASSUME ResetParamBindings PROVE Shape(count', records') /\ NoReturn(call'.num)
  <2>1. /\ count' = [count EXCEPT ![d] = 0] /\ records' = [records EXCEPT ![d] = records[d]]
    BY <1>5, ShapeOfInvariant DEF ResetParamBindings, Shape
  <2>2. /\ 0 \in 0 .. MaxRec /\ 0 <= count[d]
        /\ records[d] \in Seq(Agreeing) /\ Len(records[d]) <= MaxRec
    BY <1>1, ShapeOfInvariant, MaxRecAssumption DEF Shape
  <2> HIDE DEF d
  <2>3. Entry(d, 0, records[d], call'.num)
    BY <1>1, <2>2, SmallerEntry
  <2> QED
    BY <1>1, <2>1, <2>3, OneEntry
<1>6. ASSUME NEW n \in 0 .. MaxRec, PrepareParameters(n)
      PROVE  Shape(count', records') /\ NoReturn(call'.num)
  <2> DEFINE kept == Smaller(count[d], count["ipd"])
             old == records["ipd"]
             m == Larger(Len(old), n)
             made == IF n <= kept THEN old
                     ELSE [i \in 1 .. m |-> IF i <= kept /\ i <= Len(old) THEN old[i]
                                             ELSE IF i <= n THEN InitRecord("ipd") ELSE old[i]]
  <2>1. /\ records' = [records EXCEPT !["ipd"] = made]
        /\ count' = [count EXCEPT !["ipd"] = Larger(kept, n)]
    BY <1>6 DEF PrepareParameters, IpdCountFrom
  <2>2. /\ old \in Seq(Agreeing) /\ Len(old) \in Nat /\ Len(old) <= MaxRec
        /\ count["ipd"] \in 0 .. MaxRec /\ count[d] \in 0 .. MaxRec
    BY <1>1, ShapeOfInvariant DEF Shape
  <2>3. kept \in 0 .. MaxRec /\ kept <= count["ipd"] /\ n \in Nat /\ n <= MaxRec
    BY <2>2, MaxRecAssumption DEF Smaller
  <2> HIDE DEF kept, old
  <2>4. CASE n <= kept
    <3>1. made = old /\ Larger(kept, n) = kept
      BY <2>3, <2>4 DEF Larger
    <3>2. Entry("ipd", kept, old, call'.num)
      BY <1>1, <2>2, <2>3, SmallerEntry
    <3> QED
      BY <1>1, <2>1, <3>1, <3>2, OneEntry
  <2>5. CASE ~(n <= kept)
    <3>1. m \in Nat /\ m <= MaxRec /\ n <= m /\ Larger(kept, n) = n
      BY <2>2, <2>3, <2>5 DEF Larger
    <3>2. \A i \in 1 .. m : i <= n \/ i \in 1 .. Len(old)
      BY <2>2, <2>3 DEF Larger
    <3> HIDE DEF m
    <3>3. made = [i \in 1 .. m |-> IF i <= kept /\ i <= Len(old) THEN old[i]
                                   ELSE IF i <= n THEN InitRecord("ipd") ELSE old[i]]
      BY <2>5
    <3>4. \A i \in 1 .. m : (IF i <= kept /\ i <= Len(old) THEN old[i]
                             ELSE IF i <= n THEN InitRecord("ipd") ELSE old[i]) \in Agreeing
      <4>1. \A i \in 1 .. Len(old) : old[i] \in Agreeing
        BY <2>2
      <4>2. InitRecord("ipd") \in Agreeing
        BY <1>1, InitAgrees
      <4> QED
        BY <2>2, <2>3, <3>1, <3>2, <4>1, <4>2
    <3>5. made \in Seq(Agreeing) /\ Len(made) = m
      BY <3>1, <3>3, <3>4
    <3>6. \A i \in count["ipd"] + 1 .. n : made[i] = InitRecord("ipd")
      BY <2>2, <2>3, <3>1, <3>3
    <3> HIDE DEF made
    <3>7. Smaller(n, Len(made)) = n
      BY <2>3, <3>1, <3>5 DEF Smaller
    <3>8. \A i \in count["ipd"] + 1 .. n : ~Bound(made[i])
      BY <1>1, <3>6, InitUnbound
    <3>9. Entry("ipd", n, made, call'.num)
      BY <2>3, <3>1, <3>5, <3>7, <3>8 DEF Entry
    <3> QED
      BY <1>1, <2>1, <3>1, <3>9, OneEntry
  <2> QED
    BY <2>4, <2>5
<1> QED
  BY <1>2, <1>3, <1>4, <1>5, <1>6 DEF ParameterCall

\* Writing a field of a record.
LEMMA OnRecordStep ==
  ASSUME TypeOK, TypesAgree, NEW d \in Descs, NEW num \in Nums, NEW record \in Agreeing,
         OnRecord(d, num, record)
  PROVE  Shape(count', records')
<1>1. Entry(d, CountWith(d, num), [Fetched(d, num, "ard") EXCEPT ![num] = record], num)
  BY WrittenEntry DEF Everyone
<1> QED
  BY <1>1, OneEntry DEF OnRecord

LEMMA DescriptorStep ==
  ASSUME TypeOK, TypesAgree, DescriptorCall
  PROVE  Shape(count', records')
<1> USE DEF Everyone
<1>1. ASSUME NEW d \in Descs, NEW num \in Nums PROVE Target(d, num) \in Agreeing
  <2>1. Fetched(d, num, "ard") \in Seq(Agreeing) /\ num \in 1 .. Len(Fetched(d, num, "ard"))
    BY FetchedFacts
  <2> QED
    BY <2>1 DEF Target
<1>2. DescTypes \subseteq AllTypes /\ Codes \cup {0} \subseteq Nat
  BY CodesAssumption DEF AllTypes
<1>3. ASSUME NEW d \in Descs, NEW num \in Nums, NEW type \in DescTypes,
             SetDescType(d, num, type) \/ SetDescConcise(d, num, type)
      PROVE  Shape(count', records')
  BY <1>1, <1>2, <1>3, TypeAgrees, ConciseAgrees, OnRecordStep DEF SetDescType, SetDescConcise
<1>4. ASSUME NEW d \in Descs, NEW num \in Nums, NEW code \in Codes \cup {0}, SetDescCode(d, num, code)
      PROVE  Shape(count', records')
  BY <1>1, <1>2, <1>4, CodeAgrees, OnRecordStep DEF SetDescCode
<1>5. ASSUME NEW d \in Descs, NEW num \in Nums, NEW ptr \in Pointers, SetDescDataPtr(d, num, ptr)
      PROVE  Shape(count', records')
  <2>1. [Target(d, num) EXCEPT !.data = ptr] \in Agreeing
    BY <1>1 DEF Agreeing, Record, TypesAgreeIn
  <2> QED
    BY <1>5, <2>1, OnRecordStep DEF SetDescDataPtr
<1>6. ASSUME NEW d \in Descs, NEW num \in Nums, NEW type \in DescTypes, NEW code \in Codes,
             SetDescRec(d, num, type, code, "ptr", "ptr")
      PROVE  Shape(count', records')
  <2> DEFINE typed == SetType(Target(d, num), type)
             coded == IF Verbose(type) THEN SetCode(typed, code) ELSE typed
             refused == ConciseOfFamily(type) /\ Target(d, num).type # type
             record == IF refused THEN typed ELSE SetPointers(coded, "ptr", "ptr")
  <2>1. typed \in Agreeing
    BY <1>1, <1>2, TypeAgrees
  <2>2. OnRecord(d, num, record)
    BY <1>6 DEF SetDescRec
  <2> HIDE DEF typed
  <2>3. coded \in Agreeing
    BY <1>2, <2>1, CodeAgrees
  <2> HIDE DEF coded, refused
  <2>4. record \in Agreeing
    BY <2>1, <2>3, PointersAgree DEF Pointers
  <2> HIDE DEF record
  <2> QED
    BY <2>2, <2>4, OnRecordStep
<1>7. ASSUME NEW d \in Descs, NEW num \in Nums, GetDescField(d, num) \/ GetDescRec(d, num)
      PROVE  Shape(count', records')
  BY <1>7, ReadStep DEF GetDescField, GetDescRec, ReadRecord
<1>8. ASSUME NEW num \in Nums, DescribeParam(num) PROVE Shape(count', records')
  BY <1>8, ReadStep, RoleDescs DEF DescribeParam, ReadRecord
<1>9. ASSUME NEW d \in Descs, NEW n \in 0 .. MaxRec, SetDescCount(d, n)
      PROVE  Shape(count', records')
  BY <1>9, ShapeOfInvariant DEF SetDescCount, Shape
<1>10. ASSUME NEW source \in Descs, NEW target \in Descs, CopyDesc(source, target)
       PROVE  Shape(count', records')
  <2>1. /\ count \in [Descs -> 0 .. MaxRec] /\ records \in [Descs -> Seq(Agreeing)]
        /\ \A d \in Descs : Len(records[d]) <= MaxRec
    BY ShapeOfInvariant DEF Shape
  <2>2. count' \in [Descs -> 0 .. MaxRec] /\ records' \in [Descs -> Seq(Agreeing)]
    BY <1>10, <2>1 DEF CopyDesc
  <2>3. ASSUME NEW d \in Descs PROVE Len(records'[d]) <= MaxRec
    <3>1. records'[d] = records[d] \/ records'[d] = records[source]
      BY <1>10, <2>1 DEF CopyDesc
    <3> QED
      BY <2>1, <3>1
  <2> QED
    BY <2>2, <2>3 DEF Shape
<1>11. ASSUME NEW role \in Roles, NEW d \in UserDescs \cup {role}, SetDescriptor(role, d)
       PROVE  Shape(count', records')
  BY <1>11, ShapeOfInvariant DEF SetDescriptor, Shape
<1> QED
  BY ONLY DescriptorCall, <1>3, <1>4, <1>5, <1>6, <1>7, <1>8, <1>9, <1>10, <1>11 DEF DescriptorCall

\* Calls that address a descriptor count themselves, and only they choose which
\* descriptor plays which role.
LEMMA DirectCall ==
  ASSUME DescriptorCall
  PROVE  /\ calls' = calls + 1 /\ direct' = direct + 1 /\ call'.op = "direct"
         /\ \/ explicit' = explicit
            \/ \E role \in Roles : \E d \in UserDescs \cup {role} :
                 explicit' = [explicit EXCEPT ![role] = d]
  BY DEF DescriptorCall, SetDescType, SetDescConcise, SetDescCode, SetDescDataPtr, SetDescRec,
         GetDescField, GetDescRec, DescribeParam, ReadRecord, SetDescCount, CopyDesc,
         SetDescriptor, OnRecord, CalledDirectly

LEMMA CallStep ==
  ASSUME TypeOK, Next
  PROVE  /\ explicit' \in [Roles -> Descs \ {"ipd"}]
         /\ call'.op \in {"bind", "failed", "unbind", "reset", "prepare", "columns", "direct"}
         /\ calls' \in 0 .. MaxCalls /\ direct' \in 0 .. MaxDirect
<1>1. /\ explicit \in [Roles -> Descs \ {"ipd"}]
      /\ calls \in Nat /\ calls < MaxCalls /\ direct \in Nat /\ direct <= MaxDirect
  BY MaxCallsAssumption DEF TypeOK, Next
<1>2. CASE ColumnCall
  <2>1. /\ calls' = calls + 1 /\ direct' = direct /\ explicit' = explicit
        /\ call'.op \in {"direct", "columns"}
    <3>1. UNCHANGED explicit /\ \E num : CalledOnColumns(num)
      BY <1>2 DEF ColumnCall, UnbindCol, BindCol, BindColFails, ResetColBindings
    <3> QED
      BY <3>1 DEF CalledOnColumns, Called
  <2> QED
    BY <1>1, <2>1, MaxCallsAssumption
<1>3. CASE ParameterCall
  <2>1. /\ calls' = calls + 1 /\ direct' = direct /\ explicit' = explicit
        /\ call'.op \in {"bind", "failed", "unbind", "reset", "prepare"}
    BY <1>3 DEF ParameterCall, UnbindParameter, BindParameter, BindParameterFails,
                ResetParamBindings, PrepareParameters, Called
  <2> QED
    BY <1>1, <2>1, MaxCallsAssumption
<1>4. CASE direct < MaxDirect /\ DescriptorCall
  <2>1. \A role \in Roles : UserDescs \cup {role} \subseteq Descs \ {"ipd"}
    BY UserDescsAssumption DEF Roles, Descs
  <2>2. explicit' \in [Roles -> Descs \ {"ipd"}]
    BY <1>1, <1>4, <2>1, DirectCall
  <2> QED
    BY <1>1, <1>4, <2>2, DirectCall, MaxCallsAssumption
<1> QED
  BY <1>2, <1>3, <1>4 DEF Next

\* No call breaks the invariant, and only a direct one brings a binding back.
LEMMA InvStep ==
  ASSUME TypeOK, TypesAgree, Next
  PROVE  /\ TypeOK' /\ TypesAgree'
         /\ call'.op # "direct" => NoReturn(call'.num)
<1>1. /\ Shape(count', records')
      /\ call'.op # "direct" => NoReturn(call'.num)
  BY ColumnStep, ParameterStep, DescriptorStep, DirectCall DEF Next
<1> QED
  BY <1>1, CallStep, InvariantOfShape

-----------------------------------------------------------------------------
\* Counts, records and roles stay in their ranges, and every record keeps a
\* verbose type, a concise type and a code that agree, whatever order they are
\* set in (descriptor.cpp:5-101).
THEOREM RecordsStayTyped == Spec => [](TypeOK /\ TypesAgree)
<1>1. Init => TypeOK /\ TypesAgree
  <2> SUFFICES ASSUME Init PROVE TypeOK /\ TypesAgree
    OBVIOUS
  <2>1. count \in [Descs -> 0 .. MaxRec] /\ calls \in 0 .. MaxCalls /\ direct \in 0 .. MaxDirect
    BY MaxRecAssumption, MaxCallsAssumption DEF Init
  <2>2. records \in [Descs -> Seq(Record)] /\ \A d \in Descs : Len(records[d]) = 0
    BY DEF Init
  <2>3. explicit \in [Roles -> Descs \ {"ipd"}]
    BY DEF Init, Roles, Descs
  <2>4. TypesAgree
    BY <2>2 DEF TypesAgree
  <2> QED
    BY <2>1, <2>2, <2>3, <2>4, MaxRecAssumption DEF TypeOK, Init, NoCall
<1>2. TypeOK /\ TypesAgree /\ [Next]_vars => TypeOK' /\ TypesAgree'
  <2>1. CASE Next
    BY <2>1, InvStep
  <2>2. CASE UNCHANGED vars
    BY <2>2 DEF vars, TypeOK, TypesAgree
  <2> QED
    BY <2>1, <2>2
<1> QED
  BY <1>1, <1>2, PTL DEF Spec

\* The three types of a record agree in every state (onAttrChange,
\* descriptor.cpp:5).
THEOREM TypesStayAgreed == Spec => []TypesAgree
  BY RecordsStayTyped, PTL

\* No call on columns or parameters brings an old binding back, for any number
\* of records and descriptors (getRecord, descriptor.cpp:183).
THEOREM NothingReturns == Spec => NothingComesBack
<1>1. TypeOK /\ TypesAgree /\ [Next]_vars =>
        [call'.op # "direct" =>
           \A d \in Descs : \A i \in count[d] + 1 .. Smaller(count'[d], Len(records'[d])) :
             i # call'.num => ~Bound(records'[d][i])]_vars
  BY InvStep DEF NoReturn
<1> QED
  BY <1>1, RecordsStayTyped, PTL DEF Spec, NothingComesBack

-----------------------------------------------------------------------------
\* Parameters are those that BoundParameters promises.

\* The record that reading finds at a number the count includes.
There(d, i, role) == IF i <= Len(records[d]) THEN records[d][i] ELSE InitRecord(role)

SentFor(i) ==
  LET apd == explicit["apd"] IN
  IF i > count[apd] \/ i > count["ipd"] \/ There(apd, i, "apd").data = "null" THEN Unbound
  ELSE <<There(apd, i, "apd").concise, There("ipd", i, "ipd").concise, There(apd, i, "apd").ind>>

LEMMA FetchedInside ==
  ASSUME TypeOK, TypesAgree, NEW d \in Descs, NEW num \in Nums, NEW role \in Everyone,
         NEW i \in Nums, i <= count[d]
  PROVE  /\ Fetched(d, num, role)[i] = There(d, i, role)
         /\ i \in 1 .. Len(Fetched(d, num, role))
<1>1. count[d] \in Nat /\ Len(records[d]) \in Nat /\ i \in Nat /\ 1 <= i /\ num \in Nat
  BY ShapeOfInvariant DEF Nums
<1>2. i \in 1 .. Larger(Len(records[d]), Larger(count[d], num))
  BY <1>1 DEF Larger
<1>3. Len(Fetched(d, num, role)) = Larger(Len(records[d]), Larger(count[d], num))
  BY FetchedFacts
<1>4. ~(count[d] < i /\ i <= num)
  BY <1>1
<1> QED
  BY <1>2, <1>3, <1>4 DEF Fetched, There

LEMMA ParameterIs == TypeOK /\ TypesAgree => \A i \in Nums : Parameter(i) = SentFor(i)
<1> SUFFICES ASSUME TypeOK, TypesAgree, NEW i \in Nums PROVE Parameter(i) = SentFor(i)
  OBVIOUS
<1> DEFINE apd == explicit["apd"]
<1>1. apd \in Descs /\ "ipd" \in Descs /\ "apd" \in Everyone /\ "ipd" \in Everyone
  BY RoleDescs DEF Roles, Everyone
<1>2. count[apd] \in Nat /\ count["ipd"] \in Nat /\ i \in Nat
  BY <1>1, ShapeOfInvariant DEF Nums
<1>3. i > Smaller(count[apd], count["ipd"]) <=> i > count[apd] \/ i > count["ipd"]
  BY <1>2 DEF Smaller
<1>4. Effective("apd") = apd
  BY DEF Effective, Roles
<1>5. i <= count[apd] => Fetched(apd, i, "apd")[i] = There(apd, i, "apd")
  BY <1>1, FetchedInside
<1>6. i <= count["ipd"] => Fetched("ipd", i, "ipd")[i] = There("ipd", i, "ipd")
  BY <1>1, FetchedInside
<1>7. Parameter(i) =
        IF i > Smaller(count[apd], count["ipd"]) \/ Fetched(apd, i, "apd")[i].data = "null" THEN Unbound
        ELSE <<Fetched(apd, i, "apd")[i].concise, Fetched("ipd", i, "ipd")[i].concise,
               Fetched(apd, i, "apd")[i].ind>>
  BY <1>4 DEF Parameter
<1>8. SentFor(i) =
        IF i > count[apd] \/ i > count["ipd"] \/ There(apd, i, "apd").data = "null" THEN Unbound
        ELSE <<There(apd, i, "apd").concise, There("ipd", i, "ipd").concise,
               There(apd, i, "apd").ind>>
  BY DEF SentFor
<1> HIDE DEF apd
<1>9. CASE i <= count[apd] /\ i <= count["ipd"]
  BY <1>2, <1>3, <1>5, <1>6, <1>7, <1>8, <1>9
<1>10. CASE ~(i <= count[apd] /\ i <= count["ipd"])
  BY <1>2, <1>3, <1>7, <1>8, <1>10
<1> QED
  BY <1>9, <1>10

LEMMA ParameterIsNext == (TypeOK /\ TypesAgree => \A i \in Nums : Parameter(i) = SentFor(i))'
  BY ParameterIs, PTL

\* Number i of descriptor d is found after the call if and as it was before.
Keeps(d, i, role) ==
  i <= count[d] => i <= count'[d] /\ There(d, i, role)' = There(d, i, role)

LEMMA KeptOf ==
  ASSUME TypeOK, TypesAgree, TypeOK', TypesAgree', explicit' = explicit, NEW i \in Nums,
         Parameter(i) # Unbound =>
           Keeps(explicit["apd"], i, "apd") /\ Keeps("ipd", i, "ipd")
  PROVE  Parameter(i) # Unbound => Parameter(i)' = Parameter(i)
<1> SUFFICES ASSUME Parameter(i) # Unbound PROVE Parameter(i)' = Parameter(i)
  OBVIOUS
<1> DEFINE apd == explicit["apd"]
<1>1. Parameter(i) = SentFor(i) /\ Parameter(i)' = SentFor(i)'
  BY ParameterIs, ParameterIsNext
<1>2. /\ count[apd] \in Nat /\ count["ipd"] \in Nat /\ i \in Nat
      /\ count'[apd] \in Nat /\ count'["ipd"] \in Nat
  BY RoleDescs, MaxRecAssumption DEF Roles, Nums, TypeOK
<1>3. i <= count[apd] /\ i <= count["ipd"] /\ There(apd, i, "apd").data # "null"
  BY <1>1, <1>2 DEF SentFor
<1>4. /\ i <= count'[apd] /\ There(apd, i, "apd")' = There(apd, i, "apd")
      /\ i <= count'["ipd"] /\ There("ipd", i, "ipd")' = There("ipd", i, "ipd")
  BY <1>3 DEF Keeps
<1>5. SentFor(i)' = SentFor(i)
  BY <1>2, <1>3, <1>4 DEF SentFor
<1> QED
  BY <1>1, <1>5

\* Writing one record keeps the others.
LEMMA WriteKeeps ==
  ASSUME TypeOK, TypesAgree, NEW d \in Descs, NEW num \in Nums, NEW role \in Everyone,
         NEW record \in Agreeing,
         records'[d] = [Fetched(d, num, role) EXCEPT ![num] = record],
         count'[d] \in {count[d], CountWith(d, num)},
         NEW i \in Nums, i # num
  PROVE  Keeps(d, i, role)
<1> SUFFICES ASSUME i <= count[d]
             PROVE  i <= count'[d] /\ There(d, i, role)' = There(d, i, role)
  BY DEF Keeps
<1>1. count[d] \in Nat /\ i \in Nat /\ num \in Nat
  BY ShapeOfInvariant DEF Nums
<1>2. i <= count'[d]
  BY <1>1 DEF CountWith, Larger
<1>3. /\ Fetched(d, num, role) \in Seq(Agreeing) /\ num \in 1 .. Len(Fetched(d, num, role))
  BY FetchedFacts
<1>4. Fetched(d, num, role)[i] = There(d, i, role) /\ i \in 1 .. Len(Fetched(d, num, role))
  BY FetchedInside
<1>5. records'[d][i] = There(d, i, role) /\ Len(records'[d]) = Len(Fetched(d, num, role))
  BY <1>3, <1>4, StoreFacts
<1>6. i <= Len(records'[d])
  BY <1>3, <1>4, <1>5
<1> QED
  BY <1>2, <1>5, <1>6 DEF There

\* What a call about parameter num keeps of the others.
OthersKept(num) == \A i \in Nums \ {num} : Parameter(i) # Unbound => Parameter(i)' = Parameter(i)

\* A binding that is still inside the count was bound.
LEMMA ParameterInside ==
  ASSUME TypeOK, TypesAgree, NEW i \in Nums, Parameter(i) # Unbound
  PROVE  /\ i <= count[explicit["apd"]] /\ i <= count["ipd"]
         /\ There(explicit["apd"], i, "apd").data # "null"
<1>1. Parameter(i) = SentFor(i)
  BY ParameterIs
<1>2. /\ count[explicit["apd"]] \in Nat /\ count["ipd"] \in Nat /\ i \in Nat
  BY RoleDescs, ShapeOfInvariant DEF Roles, Nums
<1> QED
  BY <1>1, <1>2 DEF SentFor

\* Unbinding the last parameter forgets it, and counts those before it that
\* are bound.
LEMMA UnbindKeeps ==
  ASSUME TypeOK, TypesAgree, TypeOK', TypesAgree', NEW num \in Nums, UnbindParameter(num)
  PROVE  OthersKept(num) /\ Parameter(num)' = Unbound
<1> DEFINE d == explicit["apd"]
           below == Smaller(count[d], num - 1)
           searched == IF below = 0 THEN records[d] ELSE Fetched(d, below, "ard")
<1>1. d \in Descs \ {"ipd"} /\ "ipd" \in Descs /\ explicit' = explicit
      /\ num >= count[d] /\ UnbindLast(d, num)
  BY RoleDescs DEF Roles, UnbindParameter
<1>2. PICK highest \in 0 .. below :
        /\ \A i \in highest + 1 .. below : ~Bound(searched[i])
        /\ count' = [count EXCEPT ![d] = highest]
  BY <1>1 DEF UnbindLast
<1>3. records' = [records EXCEPT ![d] = searched]
  BY <1>1 DEF UnbindLast
<1>4. /\ records'[d] = searched /\ count'[d] = highest
      /\ records'["ipd"] = records["ipd"] /\ count'["ipd"] = count["ipd"]
  BY <1>1, <1>2, <1>3 DEF TypeOK
<1>5. /\ count[d] \in Nat /\ num \in Nat /\ 1 <= num /\ num <= MaxRec
      /\ below \in Nat /\ below <= count[d] /\ below <= num - 1 /\ count[d] <= MaxRec
      /\ count[d] - 1 <= below /\ highest \in Nat /\ highest <= below
  <2>1. count[d] \in Nat /\ num \in Nat /\ 1 <= num /\ num <= MaxRec /\ count[d] <= MaxRec
    BY <1>1, MaxRecAssumption DEF Nums, TypeOK
  <2> QED
    BY <1>1, <1>2, <2>1, MaxRecAssumption DEF Smaller
<1>6. Parameter(num)' = Unbound
  <2>1. num > count'[d]
    BY <1>4, <1>5
  <2> QED
    BY <1>1, <2>1, ParameterIsNext DEF SentFor
<1>7. ASSUME NEW i \in Nums \ {num}, Parameter(i) # Unbound PROVE Parameter(i)' = Parameter(i)
  <2>1. i <= count[d] /\ There(d, i, "apd").data # "null" /\ i \in Nat /\ 1 <= i
    BY <1>7, ParameterInside DEF Nums
  <2>2. i <= below
    BY <1>1, <1>5, <1>7, <2>1 DEF Smaller, Nums
  <2>3. below \in Nums /\ below # 0
    BY <1>5, <2>1, <2>2, MaxRecAssumption DEF Nums
  <2> HIDE DEF below
  <2>4. searched = Fetched(d, below, "ard")
    BY <2>3
  <2>5. /\ searched[i] = There(d, i, "ard") /\ i \in 1 .. Len(searched)
    BY <1>1, <2>1, <2>3, <2>4, FetchedInside DEF Everyone
  <2>6. There(d, i, "ard") = There(d, i, "apd")
    BY DEF There, InitRecord, Roles
  <2> HIDE DEF searched
  <2>7. Bound(searched[i])
    <3>1. d \in Descs /\ i \in Nums
      BY <1>1, <1>7
    <3>2. There(d, i, "apd") \in Agreeing
      <4>1. records[d] \in Seq(Agreeing)
        BY <3>1, ShapeOfInvariant DEF Shape
      <4>2. i <= Len(records[d]) => records[d][i] \in Agreeing
        BY <2>1, <4>1
      <4>3. InitRecord("apd") \in Agreeing
        BY InitAgrees DEF Everyone
      <4> HIDE DEF d
      <4> QED
        BY <4>2, <4>3 DEF There
    <3>3. There(d, i, "apd").data = "ptr"
      BY <2>1, <3>2 DEF Agreeing, Record, Pointers
    <3> QED
      BY <2>5, <2>6, <3>3 DEF Bound
  <2>8. i <= highest
    BY <1>2, <1>5, <2>1, <2>2, <2>7
  <2>9. Keeps(d, i, "apd")
    <3>1. Len(searched) \in Nat
      BY <1>1, <2>3, <2>4, FetchedFacts DEF Everyone
    <3>2. i <= Len(searched) /\ explicit' = explicit
      BY <1>1, <2>5, <3>1
    <3>3. There(d, i, "apd")' = searched[i]
      BY <1>4, <3>2 DEF There
    <3> QED
      BY <1>4, <2>5, <2>6, <2>8, <3>3 DEF Keeps
  <2>10. Keeps("ipd", i, "ipd")
    BY <1>4 DEF Keeps, There
  <2> QED
    BY <1>1, <1>7, <2>9, <2>10, KeptOf
<1> QED
  BY <1>6, <1>7 DEF OthersKept

\* Writing the two records of a parameter keeps the other parameters.
LEMMA StoreKeeps ==
  ASSUME TypeOK, TypesAgree, TypeOK', TypesAgree', NEW num \in Nums,
         NEW apd_record \in Agreeing, NEW ipd_record \in Agreeing,
         StoreParameter(num, apd_record, ipd_record), explicit' = explicit,
         \/ count' = count
         \/ count' = [count EXCEPT ![explicit["apd"]] = CountWith(explicit["apd"], num),
                                  !["ipd"] = CountWith("ipd", num)]
  PROVE  /\ OthersKept(num)
         /\ records'[explicit["apd"]] =
               [Fetched(explicit["apd"], num, "apd") EXCEPT ![num] = apd_record]
         /\ records'["ipd"] = [Fetched("ipd", num, "ipd") EXCEPT ![num] = ipd_record]
<1> DEFINE d == explicit["apd"]
           q == [Fetched(d, num, "apd") EXCEPT ![num] = apd_record]
           r == [Fetched("ipd", num, "ipd") EXCEPT ![num] = ipd_record]
<1>1. d \in Descs \ {"ipd"} /\ "ipd" \in Descs /\ "apd" \in Everyone /\ "ipd" \in Everyone
  BY RoleDescs DEF Roles, Everyone
<1>2. records' = [records EXCEPT ![d] = q, !["ipd"] = r]
  BY DEF StoreParameter
<1>3. records'[d] = q /\ records'["ipd"] = r
  <2> HIDE DEF d, q, r
  <2> QED
    BY <1>1, <1>2 DEF TypeOK
<1>4. count'[d] \in {count[d], CountWith(d, num)} /\ count'["ipd"] \in {count["ipd"], CountWith("ipd", num)}
  BY <1>1 DEF TypeOK
<1>5. ASSUME NEW i \in Nums \ {num} PROVE Parameter(i) # Unbound => Parameter(i)' = Parameter(i)
  <2>1. Keeps(d, i, "apd")
    BY <1>1, <1>3, <1>4, WriteKeeps
  <2>2. Keeps("ipd", i, "ipd")
    BY <1>1, <1>3, <1>4, WriteKeeps
  <2> QED
    BY <2>1, <2>2, KeptOf
<1> QED
  BY <1>3, <1>5 DEF OthersKept

\* Binding a parameter binds it as told, or unbinds it when there is no data.
LEMMA BindBinds ==
  ASSUME TypeOK, TypesAgree, TypeOK', TypesAgree', NEW num \in Nums,
         NEW ctype \in CTypes \cup {"default"}, NEW sqltype \in SqlTypes,
         NEW data \in Pointers, NEW ind \in Pointers,
         BindParameter(num, ctype, sqltype, data, ind)
  PROVE  /\ OthersKept(num)
         /\ call'.num = num
         /\ data = "null" => call'.op = "unbind" /\ Parameter(num)' = Unbound
         /\ data # "null" => call'.op = "bind" /\ Parameter(num)' = call'.param
<1> DEFINE d == explicit["apd"]
           given == IF ctype = "default" THEN DefaultCType(sqltype) ELSE ctype
           apd_record == SetPointers(ApdRecord(num, ctype, sqltype), data, ind)
           ipd_record == IpdRecord(num, sqltype)
<1>1. /\ d \in Descs \ {"ipd"} /\ "ipd" \in Descs /\ "apd" \in Everyone /\ "ipd" \in Everyone
      /\ explicit' = explicit
  BY RoleDescs DEF Roles, Everyone, BindParameter
<1>2. /\ StoreParameter(num, apd_record, ipd_record)
      /\ count' = [count EXCEPT ![d] = CountWith(d, num), !["ipd"] = CountWith("ipd", num)]
  BY DEF BindParameter
<1>3. /\ data = "null" => call'.op = "unbind" /\ call'.num = num
      /\ data # "null" => /\ call'.op = "bind" /\ call'.num = num
                          /\ call'.param = <<given, sqltype, ind>>
  BY DEF BindParameter, Called
<1>4. ApdRecord(num, ctype, sqltype) \in Agreeing /\ ipd_record \in Agreeing
  BY ParameterRecords
<1>5. apd_record \in Agreeing
  BY <1>4, PointersAgree
<1>6. /\ apd_record.data = data /\ apd_record.ind = ind /\ apd_record.concise = given
      /\ ipd_record.concise = sqltype
  <2>1. ASSUME NEW record \in Record, NEW type PROVE SetConcise(record, type).concise = type
    BY DEF SetConcise, Record
  <2>2. /\ Fetched(d, num, "apd")[num] \in Record /\ Fetched("ipd", num, "ipd")[num] \in Record
    <3>1. /\ Fetched(d, num, "apd") \in Seq(Agreeing) /\ num \in 1 .. Len(Fetched(d, num, "apd"))
      BY <1>1, FetchedFacts
    <3>2. /\ Fetched("ipd", num, "ipd") \in Seq(Agreeing)
          /\ num \in 1 .. Len(Fetched("ipd", num, "ipd"))
      BY <1>1, FetchedFacts
    <3> QED
      BY <3>1, <3>2 DEF Agreeing
  <2>3. ApdRecord(num, ctype, sqltype).concise = given /\ ipd_record.concise = sqltype
    BY <2>1, <2>2 DEF ApdRecord, IpdRecord
  <2>4. ApdRecord(num, ctype, sqltype) \in Record
    BY <1>4 DEF Agreeing
  <2> HIDE DEF given
  <2> QED
    BY <2>3, <2>4 DEF SetPointers, Record
<1> HIDE DEF apd_record, ipd_record, given
<1>7. /\ OthersKept(num)
      /\ records'[d] = [Fetched(d, num, "apd") EXCEPT ![num] = apd_record]
      /\ records'["ipd"] = [Fetched("ipd", num, "ipd") EXCEPT ![num] = ipd_record]
  BY <1>1, <1>2, <1>4, <1>5, StoreKeeps
<1>8. /\ records'[d][num] = apd_record /\ num <= Len(records'[d])
      /\ records'["ipd"][num] = ipd_record /\ num <= Len(records'["ipd"])
  <2>1. /\ Fetched(d, num, "apd") \in Seq(Agreeing) /\ num \in 1 .. Len(Fetched(d, num, "apd"))
        /\ Len(Fetched(d, num, "apd")) \in Nat
    BY <1>1, FetchedFacts
  <2>2. /\ Fetched("ipd", num, "ipd") \in Seq(Agreeing)
        /\ num \in 1 .. Len(Fetched("ipd", num, "ipd")) /\ Len(Fetched("ipd", num, "ipd")) \in Nat
    BY <1>1, FetchedFacts
  <2> HIDE DEF d
  <2> QED
    BY <1>4, <1>5, <1>7, <2>1, <2>2
<1>9. num <= count'[d] /\ num <= count'["ipd"] /\ count'[d] \in Nat /\ count'["ipd"] \in Nat /\ num \in Nat
  <2>1. count[d] \in Nat /\ count["ipd"] \in Nat /\ num \in Nat
    BY <1>1, ShapeOfInvariant DEF Nums
  <2>2. count'[d] = CountWith(d, num) /\ count'["ipd"] = CountWith("ipd", num)
    BY <1>1, <1>2 DEF TypeOK
  <2> QED
    BY <2>1, <2>2 DEF CountWith, Larger
<1>10. There(d, num, "apd")' = apd_record /\ There("ipd", num, "ipd")' = ipd_record
  BY <1>1, <1>8 DEF There
<1>11. SentFor(num)' = IF apd_record.data = "null" THEN Unbound
                       ELSE <<apd_record.concise, ipd_record.concise, apd_record.ind>>
  BY <1>1, <1>9, <1>10 DEF SentFor
<1>12. Parameter(num)' = SentFor(num)'
  BY ParameterIsNext
<1> QED
  BY <1>3, <1>6, <1>7, <1>11, <1>12

\* Preparing forgets the implementation records of no bound parameter.
LEMMA PrepareKeeps ==
  ASSUME TypeOK, TypesAgree, TypeOK', TypesAgree', NEW n \in 0 .. MaxRec, PrepareParameters(n),
         NEW i \in Nums
  PROVE  Parameter(i) # Unbound => Parameter(i)' = Parameter(i)
<1> SUFFICES ASSUME Parameter(i) # Unbound PROVE Parameter(i)' = Parameter(i)
  OBVIOUS
<1> DEFINE d == explicit["apd"]
           kept == Smaller(count[d], count["ipd"])
           old == records["ipd"]
<1>1. d \in Descs \ {"ipd"} /\ "ipd" \in Descs
  BY RoleDescs DEF Roles
<1>2. explicit' = explicit
  BY DEF PrepareParameters
<1>3. /\ count' = [count EXCEPT !["ipd"] = Larger(kept, n)]
      /\ records' = [records EXCEPT !["ipd"] =
           IF n <= kept THEN old
           ELSE [j \in 1 .. Larger(Len(old), n) |->
                   IF j <= kept /\ j <= Len(old) THEN old[j]
                   ELSE IF j <= n THEN InitRecord("ipd") ELSE old[j]]]
  BY DEF PrepareParameters, IpdCountFrom
<1>4. /\ count'[d] = count[d] /\ records'[d] = records[d]
      /\ count'["ipd"] = Larger(kept, n)
      /\ records'["ipd"] = IF n <= kept THEN old
           ELSE [j \in 1 .. Larger(Len(old), n) |->
                   IF j <= kept /\ j <= Len(old) THEN old[j]
                   ELSE IF j <= n THEN InitRecord("ipd") ELSE old[j]]
  <2> HIDE DEF d, kept, old
  <2> QED
    BY <1>1, <1>3 DEF TypeOK
<1>5. /\ count[d] \in Nat /\ count["ipd"] \in Nat /\ Len(old) \in Nat /\ i \in Nat /\ 1 <= i
      /\ n \in Nat
  BY <1>1, ShapeOfInvariant, MaxRecAssumption DEF Nums
<1>6. i <= kept /\ kept \in Nat
  BY <1>5, ParameterInside DEF Smaller
<1>7. Keeps(d, i, "apd")
  BY <1>2, <1>4 DEF Keeps, There
<1>8. Keeps("ipd", i, "ipd")
  <2> HIDE DEF kept, old
  <2>1. i <= count'["ipd"]
    BY <1>4, <1>5, <1>6 DEF Larger
  <2>2. CASE n <= kept
    BY <1>4, <2>1, <2>2 DEF Keeps, There, old
  <2>3. CASE ~(n <= kept)
    <3> DEFINE m == Larger(Len(old), n)
    <3>1. i \in 1 .. m /\ m \in Nat /\ i <= n
      BY <1>5, <1>6, <2>3 DEF Larger
    <3> HIDE DEF m
    <3>2. records'["ipd"] = [j \in 1 .. m |->
                   IF j <= kept /\ j <= Len(old) THEN old[j]
                   ELSE IF j <= n THEN InitRecord("ipd") ELSE old[j]]
      BY <1>4, <2>3 DEF m
    <3>3. Len(records'["ipd"]) = m
      BY <3>1, <3>2
    <3>4. records'["ipd"][i] = IF i <= Len(old) THEN old[i] ELSE InitRecord("ipd")
      BY <1>6, <3>1, <3>2
    <3>5. There("ipd", i, "ipd")' = records'["ipd"][i]
      BY <3>1, <3>3 DEF There
    <3> QED
      BY <2>1, <3>4, <3>5 DEF Keeps, There, old
  <2> QED
    BY <2>2, <2>3
<1> QED
  BY <1>2, <1>7, <1>8, KeptOf

\* Columns in a descriptor of their own do not touch parameters.
LEMMA ColumnsApart ==
  ASSUME TypeOK, TypesAgree, TypeOK', TypesAgree', ColumnCall, call'.op # "direct"
  PROVE  call'.op = "columns" /\ \A i \in Nums : Parameter(i)' = Parameter(i)
<1> DEFINE d == explicit["ard"]
           e == explicit["apd"]
<1>1. UNCHANGED explicit /\ \E num : CalledOnColumns(num)
  BY DEF ColumnCall, UnbindCol, BindCol, BindColFails, ResetColBindings
<1>2. call'.op = "columns" /\ d # e
  BY <1>1 DEF CalledOnColumns, Called
<1>3. \E c, q : /\ count' = [count EXCEPT ![d] = c] \/ count' = count
                /\ records' = [records EXCEPT ![d] = q] \/ records' = records
  BY DEF ColumnCall, UnbindCol, UnbindLast, BindCol, BindColFails, ResetColBindings
<1>4. d \in Descs \ {"ipd"} /\ e \in Descs \ {"ipd"} /\ "ipd" \in Descs
  BY RoleDescs DEF Roles
<1>5. /\ count'[e] = count[e] /\ records'[e] = records[e]
      /\ count'["ipd"] = count["ipd"] /\ records'["ipd"] = records["ipd"]
  <2> HIDE DEF d, e
  <2> QED
    BY <1>2, <1>3, <1>4 DEF TypeOK
<1>6. \A i \in Nums : SentFor(i)' = SentFor(i)
  BY <1>1, <1>5 DEF SentFor, There
<1> QED
  BY <1>2, <1>6, ParameterIs, ParameterIsNext

LEMMA ResetUnbinds ==
  ASSUME TypeOK, TypesAgree, TypeOK', TypesAgree', ResetParamBindings, NEW i \in Nums
  PROVE  Parameter(i)' = Unbound
<1>1. explicit["apd"] \in Descs /\ i \in Nat /\ i > 0
  BY RoleDescs DEF Roles, Nums
<1>2. explicit' = explicit /\ count'[explicit["apd"]] = 0
  BY <1>1 DEF ResetParamBindings, TypeOK
<1>3. SentFor(i)' = Unbound
  BY <1>1, <1>2 DEF SentFor
<1> QED
  BY <1>3, ParameterIsNext

\* What is sent for a parameter is what it was last bound to: descriptors are
\* the parameters that BoundParameters specifies (BindParameter, impl.cpp:718-867;
\* getParamsBindingInfo, statement.cpp:403-466).
THEOREM Implements == Spec => BindsParameters
<1>1. TypeOK /\ TypesAgree /\ Init => Promised!Init
  <2> SUFFICES ASSUME TypeOK, TypesAgree, Init PROVE Promised!Init
    OBVIOUS
  <2>1. ASSUME NEW i \in Nums PROVE Parameter(i) = Unbound
    <3>1. count["ipd"] = 0 /\ i > 0
      BY <2>1 DEF Init, Nums, Descs
    <3>2. SentFor(i) = Unbound
      BY <3>1 DEF SentFor
    <3> QED
      BY <3>2, ParameterIs
  <2>2. call.op = "none"
    BY DEF Init, NoCall
  <2> QED
    BY <2>1, <2>2 DEF Promised!Init, Promised!Unbound, Unbound
<1>2. TypeOK /\ TypesAgree /\ TypeOK' /\ TypesAgree' /\ [Next]_vars => [Promised!Next]_(Promised!bvars)
  <2> SUFFICES ASSUME TypeOK, TypesAgree, TypeOK', TypesAgree', [Next]_vars
               PROVE  Promised!Next \/ UNCHANGED Promised!bvars
    OBVIOUS
  <2> DEFINE Kept(i) == Parameter(i) # Unbound => Parameter(i)' = Parameter(i)
  <2>1. \A i \in Nums : Kept(i) => Promised!Kept(i)
    BY DEF Promised!Kept, Promised!Unbound, Unbound
  <2>2. \A num \in Nums : OthersKept(num) => \A i \in Nums \ {num} : Promised!Kept(i)
    BY <2>1 DEF OthersKept
  <2> HIDE DEF Kept
  <2>3. CASE call'.op = "direct"
    BY <2>3 DEF Promised!Next, Promised!Direct
  <2>4. CASE ColumnCall /\ call'.op # "direct"
    <3>1. call'.op = "columns" /\ \A i \in Nums : Parameter(i)' = Parameter(i)
      BY <2>4, ColumnsApart
    <3>2. [i \in Nums |-> Parameter(i)]' = [i \in Nums |-> Parameter(i)]
      BY <3>1
    <3>3. Promised!Columns
      BY <3>1, <3>2 DEF Promised!Columns
    <3> QED
      BY <3>3 DEF Promised!Next
  <2>5. ASSUME NEW num \in Nums, UnbindParameter(num) PROVE Promised!Next
    <3>1. OthersKept(num) /\ Parameter(num)' = Unbound
      BY <2>5, UnbindKeeps
    <3>2. call'.op = "unbind" /\ call'.num = num
      BY <2>5 DEF UnbindParameter, Called
    <3>3. Promised!Unbind(num)
      BY <2>2, <3>1, <3>2 DEF Promised!Unbind, Promised!Unbound, Unbound
    <3> QED
      BY <3>3 DEF Promised!Next
  <2>6. ASSUME NEW num \in Nums, NEW ctype \in CTypes \cup {"default"}, NEW sqltype \in SqlTypes,
               NEW p \in BindingPointers \cup {<<"null", "null">>},
               BindParameter(num, ctype, sqltype, p[1], p[2])
        PROVE  Promised!Next
    <3>1. p[1] \in Pointers /\ p[2] \in Pointers
      BY DEF BindingPointers, Pointers
    <3>2. /\ OthersKept(num)
          /\ call'.num = num
          /\ p[1] = "null" => call'.op = "unbind" /\ Parameter(num)' = Unbound
          /\ p[1] # "null" => call'.op = "bind" /\ Parameter(num)' = call'.param
      BY <2>6, <3>1, BindBinds
    <3>3. Promised!Unbind(num) \/ Promised!Bind(num)
      BY <2>2, <3>2 DEF Promised!Unbind, Promised!Bind, Promised!Unbound, Unbound
    <3> QED
      BY <3>3 DEF Promised!Next
  <2>7. ASSUME NEW num \in Nums, NEW ctype \in CTypes \cup {"default"}, NEW sqltype \in SqlTypes,
               BindParameterFails(num, ctype, sqltype)
        PROVE  Promised!Next
    <3>1. OthersKept(num)
      <4>1. ApdRecord(num, ctype, sqltype) \in Agreeing /\ IpdRecord(num, sqltype) \in Agreeing
        BY ParameterRecords
      <4>2. /\ StoreParameter(num, ApdRecord(num, ctype, sqltype), IpdRecord(num, sqltype))
            /\ count' = count /\ explicit' = explicit
        BY <2>7 DEF BindParameterFails
      <4> QED
        BY <4>1, <4>2, StoreKeeps
    <3>2. call'.op = "failed" /\ call'.num = num
      BY <2>7 DEF BindParameterFails, Called
    <3>3. Promised!BindFails(num)
      BY <2>2, <3>1, <3>2 DEF Promised!BindFails
    <3> QED
      BY <3>3 DEF Promised!Next
  <2>8. CASE ResetParamBindings
    <3>1. \A i \in Nums : Parameter(i)' = Unbound
      BY <2>8, ResetUnbinds
    <3>2. call'.op = "reset"
      BY <2>8 DEF ResetParamBindings, Called
    <3> QED
      BY <3>1, <3>2 DEF Promised!Next, Promised!Reset, Promised!Unbound, Unbound
  <2>9. ASSUME NEW n \in 0 .. MaxRec, PrepareParameters(n) PROVE Promised!Next
    <3>1. \A i \in Nums : Promised!Kept(i)
      BY <2>1, <2>9, PrepareKeeps DEF Kept
    <3>2. call'.op = "prepare"
      BY <2>9 DEF PrepareParameters, Called
    <3> QED
      BY <3>1, <3>2 DEF Promised!Next, Promised!Prepare
  <2>10. CASE UNCHANGED vars
    <3>1. ASSUME NEW i \in Nums PROVE Parameter(i)' = Parameter(i)
      <4>1. SentFor(i)' = SentFor(i)
        BY <2>10 DEF vars, SentFor, There
      <4> QED
        BY <4>1, ParameterIs, ParameterIsNext
    <3>2. call' = call
      BY <2>10 DEF vars
    <3> QED
      BY <3>1, <3>2 DEF Promised!bvars
  <2>11. CASE DescriptorCall
    BY <2>3, <2>11, DirectCall
  <2>12. CASE ParameterCall
    BY ONLY <2>12, <2>5, <2>6, <2>7, <2>8, <2>9 DEF ParameterCall
  <2> QED
    BY <2>3, <2>4, <2>10, <2>11, <2>12 DEF Next
<1> QED
  BY <1>1, <1>2, RecordsStayTyped, PTL DEF Spec, BindsParameters, Promised!Spec
=============================================================================
