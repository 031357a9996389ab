---------------------------- MODULE Descriptors ----------------------------
(***************************************************************************)
(* The descriptors of one statement and the calls that read and write      *)
(* them: binding columns and parameters, the descriptor functions, and     *)
(* what preparing a text does to the parameter descriptors.                *)
(*                                                                         *)
(* A descriptor is a vector of records that never shrinks, and a count     *)
(* that does.  A record keeps three descriptions of its type (verbose      *)
(* type, concise type, interval code), which onAttrChange() propagates     *)
(* into one another as they are set.  Record 0, the bookmark, is left out. *)
(***************************************************************************)
EXTENDS Naturals, Sequences

CONSTANTS
  UserDescs,  \* descriptors allocated by the application
  MaxRec,     \* bound on the record numbers that are used
  CTypes,     \* types given as a C type
  SqlTypes,   \* types given as an SQL type
  DescTypes,  \* types given to a descriptor function
  Codes,      \* interval codes other than 0 that the application sets
  MaxCalls,   \* bound on the number of calls
  MaxDirect   \* bound on those among them that address a descriptor

ASSUME MaxRecAssumption == MaxRec \in Nat \ {0}
ASSUME UserDescsAssumption == {"ard", "apd", "ipd"} \cap UserDescs = {}
ASSUME CodesAssumption == Codes \subseteq Nat
ASSUME MaxCallsAssumption == MaxCalls \in Nat /\ MaxDirect \in Nat

VARIABLES
  count,      \* SQL_DESC_COUNT of each descriptor
  records,    \* Descriptor::records from 1, as far as they were created
  explicit,   \* explicit_ard, explicit_apd: a user descriptor, or the implicit one
  call,       \* the latest call: which, about which number, what it bound
  calls,      \* the number of calls made
  direct      \* how many of them addressed a descriptor

vars == <<count, records, explicit, call, calls, direct>>

Descs == {"ard", "apd", "ipd"} \cup UserDescs
Roles == {"ard", "apd"}
Nums == 1 .. MaxRec
Pointers == {"null", "ptr"}
NoType == "none"  \* the attribute is absent

Larger(a, b) == IF a < b THEN b ELSE a
Smaller(a, b) == IF a < b THEN a ELSE b

-----------------------------------------------------------------------------
\* Types.  The two families have a verbose type; the rest are their own.

Family(type) ==
  CASE type \in {"date", "time", "timestamp"} -> "datetime"
    [] type \in {"year", "day", "day_to_second"} -> "interval"
    [] OTHER -> type

Verbose(type) == type \in {"datetime", "interval"}
ConciseOfFamily(type) == ~Verbose(type) /\ Verbose(Family(type))

\* The codes are numbered by family: 1 is a date, or a year.
Code(type) ==
  CASE type \in {"date", "year"} -> 1
    [] type = "time" -> 2
    [] type \in {"timestamp", "day"} -> 3
    [] type = "day_to_second" -> 10
    [] OTHER -> 0

Concise(code, verbose) ==
  CASE verbose = "datetime" /\ code = 1 -> "date"
    [] verbose = "datetime" /\ code = 2 -> "time"
    [] verbose = "datetime" /\ code = 3 -> "timestamp"
    [] verbose = "interval" /\ code = 1 -> "year"
    [] verbose = "interval" /\ code = 3 -> "day"
    [] verbose = "interval" /\ code = 10 -> "day_to_second"
    [] OTHER -> "unknown"

\* The C type that stands for SQL_C_DEFAULT.
DefaultCType(type) ==
  CASE type \in {"unknown", "char", "decimal"} -> "char"
    [] type \in {"long", "binary"} \/ ConciseOfFamily(type) -> type
    [] OTHER -> "default"

TakesLength(ctype) == ctype \in {"char", "binary"}

\* SQL_C_DATE and SQL_C_TIME are the numbers of the two verbose types.
HasOctetLength(ctype) == ctype \in {"long", "datetime", "interval", "date", "time", "timestamp"}

AllTypes ==
  {NoType, "unknown", "default", "datetime", "interval", "date", "time", "timestamp",
   "year", "day", "day_to_second", "char", "binary", "long"} \cup CTypes \cup SqlTypes \cup DescTypes

-----------------------------------------------------------------------------
\* Records.  The pointers to a length and to an indicator are set together,
\* to the same place, and are one field here.

Record == [type: AllTypes, concise: AllTypes, code: Nat,
           data: Pointers, ind: Pointers]

\* A record of an application descriptor is of the default type, one of an
\* implementation descriptor of none.
InitRecord(role) ==
  [type |-> IF role \in Roles THEN "default" ELSE NoType,
   concise |-> IF role \in Roles THEN "default" ELSE NoType,
   code |-> 0, data |-> "null", ind |-> "null"]

Bound(record) == "ptr" \in {record.data, record.ind}

SetType_KeepConcise(record, type) ==
  LET new == [record EXCEPT !.type = type] IN
  IF record.type = type \/ ConciseOfFamily(type) \/ (Verbose(type) /\ record.code = 0) THEN new
  ELSE IF ~Verbose(type) THEN [new EXCEPT !.code = 0, !.data = "null"]
  ELSE [new EXCEPT !.concise = Concise(record.code, type), !.data = "null"]

\* A change of the verbose type; one that is given a concise type of a family
\* is refused with HY021 after it was stored.
SetType(record, type) ==
  LET new == [record EXCEPT !.type = type] IN
  IF record.type = type \/ ConciseOfFamily(type) THEN new
  ELSE IF ~Verbose(type) THEN [new EXCEPT !.concise = type, !.code = 0, !.data = "null"]
  ELSE IF record.code = 0 THEN new
  ELSE [new EXCEPT !.concise = Concise(record.code, type), !.data = "null"]

\* A change of the concise type carries the other two with it, except to the
\* verbose types.
SetConcise(record, type) ==
  IF record.concise = type THEN record
  ELSE IF Verbose(type) THEN [record EXCEPT !.concise = type]
  ELSE [record EXCEPT !.concise = type, !.type = Family(type), !.code = Code(type), !.data = "null"]

SetCode(record, code) ==
  LET new == [record EXCEPT !.code = code] IN
  IF record.code # code /\ code # 0 /\ Verbose(record.type)
  THEN [new EXCEPT !.concise = Concise(code, record.type), !.data = "null"]
  ELSE new

SetPointers(record, data, ind) ==
  [record EXCEPT !.data = data, !.ind = ind]

-----------------------------------------------------------------------------
\* Descriptors

Effective(role) == IF role \in Roles THEN explicit[role] ELSE role

\* The records after getRecord(num, role): those that num brings inside the
\* count start anew, and those the count promised are created.
Fetched_KeepOld(d, num, role) ==
  [i \in 1 .. Larger(Len(records[d]), Larger(count[d], num)) |->
     IF i <= Len(records[d]) THEN records[d][i] ELSE InitRecord(role)]

Fetched(d, num, role) ==
  [i \in 1 .. Larger(Len(records[d]), Larger(count[d], num)) |->
     IF i <= Len(records[d]) /\ ~(count[d] < i /\ i <= num)
     THEN records[d][i] ELSE InitRecord(role)]

CountWith_Next(d, num) == Larger(count[d], num + 1)

CountWith(d, num) == Larger(count[d], num)

\* A parameter is taken from the records that both descriptors count, and is
\* NULL when it has no data.
Unbound == <<>>

Parameter(i) ==
  LET apd == Effective("apd")
      there(d, role) == Fetched(d, i, role)[i]
  IN  IF i > Smaller(count[apd], count["ipd"]) \/ there(apd, "apd").data = "null" THEN Unbound
      ELSE <<there(apd, "apd").concise, there("ipd", "ipd").concise, there(apd, "apd").ind>>

-----------------------------------------------------------------------------
NoCall == [op |-> "none", num |-> 0, param |-> Unbound]

TypeOK ==
  /\ count \in [Descs -> 0 .. MaxRec]
  /\ records \in [Descs -> Seq(Record)]
  /\ \A d \in Descs : Len(records[d]) <= MaxRec
  /\ explicit \in [Roles -> Descs \ {"ipd"}]
  /\ call.op \in {"none", "bind", "failed", "unbind", "reset", "prepare", "columns", "direct"}
  /\ calls \in 0 .. MaxCalls /\ direct \in 0 .. MaxDirect

Init ==
  /\ count = [d \in Descs |-> 0]
  /\ records = [d \in Descs |-> <<>>]
  /\ explicit = [role \in Roles |-> role]
  /\ call = NoCall
  /\ calls = 0 /\ direct = 0

Called(op, num, param) ==
  /\ calls' = calls + 1
  /\ call' = [op |-> op, num |-> num, param |-> param]
  /\ direct' = direct

CalledDirectly ==
  /\ calls' = calls + 1 /\ direct' = direct + 1
  /\ call' = [op |-> "direct", num |-> 0, param |-> Unbound]

\* Columns and parameters may be bound in one and the same user descriptor.
CalledOnColumns(num) ==
  Called(IF explicit["ard"] = explicit["apd"] THEN "direct" ELSE "columns", num, Unbound)

-----------------------------------------------------------------------------
\* Binding columns

\* The count becomes the highest number below `num' that is still bound, or
\* 0.  Looking for it creates records, when there are any to look at.
UnbindLast(d, num) ==
  LET below == Smaller(count[d], num - 1)
      searched == IF below = 0 THEN records[d] ELSE Fetched(d, below, "ard")
  IN  /\ records' = [records EXCEPT ![d] = searched]
      /\ \E highest \in 0 .. below :
           /\ highest > 0 => Bound(searched[highest])
           /\ \A i \in highest + 1 .. below : ~Bound(searched[i])
           /\ count' = [count EXCEPT ![d] = highest]

UnbindCol(num) ==
  /\ num >= count[explicit["ard"]]
  /\ UnbindLast(explicit["ard"], num)
  /\ CalledOnColumns(num)
  /\ UNCHANGED explicit

BindCol(num, ctype, data, ind) ==
  LET d == explicit["ard"]
      fetched == Fetched(d, num, "ard")
      bound == SetPointers(SetConcise(fetched[num], ctype), data, ind)
  IN  /\ data = "ptr" \/ ind = "ptr" \/ num < count[d]
      /\ TakesLength(ctype) \/ HasOctetLength(ctype)
      /\ records' = [records EXCEPT ![d] = [fetched EXCEPT ![num] = bound]]
      /\ count' = [count EXCEPT ![d] = CountWith(d, num)]
      /\ CalledOnColumns(num)
      /\ UNCHANGED explicit

\* A negative length, or a type without a length: the count is put back, and
\* the record stays half written.
BindColFails(num, ctype) ==
  LET d == explicit["ard"]
      fetched == Fetched(d, num, "ard")
  IN  /\ TakesLength(ctype) \/ ~HasOctetLength(ctype)
      /\ records' = [records EXCEPT ![d] = [fetched EXCEPT ![num] = SetConcise(fetched[num], ctype)]]
      /\ CalledOnColumns(num)
      /\ UNCHANGED <<count, explicit>>

ResetColBindings ==
  /\ count' = [count EXCEPT ![explicit["ard"]] = 0]
  /\ CalledOnColumns(0)
  /\ UNCHANGED <<records, explicit>>

-----------------------------------------------------------------------------
\* Binding parameters

UnbindParameter(num) ==
  /\ num >= count[explicit["apd"]]
  /\ UnbindLast(explicit["apd"], num)
  /\ Called("unbind", num, Unbound)
  /\ UNCHANGED explicit

\* Both records of the parameter, with what is set before a length is looked at.
ApdRecord(num, ctype, sqltype) ==
  SetConcise(Fetched(explicit["apd"], num, "apd")[num],
             IF ctype = "default" THEN DefaultCType(sqltype) ELSE ctype)
IpdRecord(num, sqltype) == SetConcise(Fetched("ipd", num, "ipd")[num], sqltype)

StoreParameter(num, apd_record, ipd_record) ==
  LET apd == explicit["apd"] IN
  records' = [records EXCEPT
    ![apd] = [Fetched(apd, num, "apd") EXCEPT ![num] = apd_record],
    !["ipd"] = [Fetched("ipd", num, "ipd") EXCEPT ![num] = ipd_record]]

BindParameter(num, ctype, sqltype, data, ind) ==
  LET apd == explicit["apd"]
      apd_record == SetPointers(ApdRecord(num, ctype, sqltype), data, ind)
      ipd_record == IpdRecord(num, sqltype)
  IN  /\ data = "ptr" \/ ind = "ptr" \/ num < count[apd]
      /\ TakesLength(DefaultCType(sqltype)) \/ HasOctetLength(DefaultCType(sqltype))
      /\ StoreParameter(num, apd_record, ipd_record)
      /\ count' = [count EXCEPT ![apd] = CountWith(apd, num), !["ipd"] = CountWith("ipd", num)]
      /\ IF data = "null" THEN Called("unbind", num, Unbound)
         ELSE Called("bind", num, <<IF ctype = "default" THEN DefaultCType(sqltype) ELSE ctype,
                                    sqltype, ind>>)
      /\ UNCHANGED explicit

\* A negative length, or an SQL type whose C type has none, intervals among them.
BindParameterFails(num, ctype, sqltype) ==
  /\ TakesLength(DefaultCType(sqltype)) \/ ~HasOctetLength(DefaultCType(sqltype))
  /\ StoreParameter(num, ApdRecord(num, ctype, sqltype), IpdRecord(num, sqltype))
  /\ Called("failed", num, Unbound)
  /\ UNCHANGED <<count, explicit>>

ResetParamBindings ==
  /\ count' = [count EXCEPT ![explicit["apd"]] = 0]
  /\ Called("reset", 0, Unbound)
  /\ UNCHANGED <<records, explicit>>

\* A text with n markers: IPD records beyond those bound are forgotten, and
\* as many as there are markers are made.
IpdCountFrom_None(apd, ipd) == 0

IpdCountFrom(apd, ipd) == Smaller(apd, ipd)

PrepareParameters(n) ==
  LET kept == IpdCountFrom(count[explicit["apd"]], count["ipd"])
      made == IF n <= kept THEN records["ipd"]
              ELSE [i \in 1 .. Larger(Len(records["ipd"]), n) |->
                      IF i <= kept /\ i <= Len(records["ipd"]) THEN records["ipd"][i]
                      ELSE IF i <= n THEN InitRecord("ipd") ELSE records["ipd"][i]]
  IN  /\ records' = [records EXCEPT !["ipd"] = made]
      /\ count' = [count EXCEPT !["ipd"] = Larger(kept, n)]
      /\ Called("prepare", 0, Unbound)
      /\ UNCHANGED explicit

-----------------------------------------------------------------------------
\* Descriptor functions.  A record they need is made as one of a row
\* descriptor, whatever descriptor it is in.

OnRecord(d, num, record) ==
  /\ records' = [records EXCEPT ![d] = [Fetched(d, num, "ard") EXCEPT ![num] = record]]
  /\ count' = [count EXCEPT ![d] = CountWith(d, num)]
  /\ CalledDirectly
  /\ UNCHANGED explicit

Target(d, num) == Fetched(d, num, "ard")[num]

SetDescType(d, num, type) == OnRecord(d, num, SetType(Target(d, num), type))
SetDescConcise(d, num, type) == OnRecord(d, num, SetConcise(Target(d, num), type))
SetDescCode(d, num, code) == OnRecord(d, num, SetCode(Target(d, num), code))
SetDescDataPtr(d, num, ptr) == OnRecord(d, num, [Target(d, num) EXCEPT !.data = ptr])

SetDescCount(d, n) ==
  /\ count' = [count EXCEPT ![d] = n]
  /\ CalledDirectly
  /\ UNCHANGED <<records, explicit>>

\* A type that is refused leaves the record with its type only.
SetDescRec(d, num, type, code, data, ind) ==
  LET typed == SetType(Target(d, num), type)
      coded == IF Verbose(type) THEN SetCode(typed, code) ELSE typed
      refused == ConciseOfFamily(type) /\ Target(d, num).type # type
  IN  OnRecord(d, num, IF refused THEN typed ELSE SetPointers(coded, data, ind))

\* Reading makes the records that the count promised, and changes nothing else.
ReadRecord(d, num, role) ==
  /\ num <= count[d]
  /\ records' = [records EXCEPT ![d] = Fetched(d, num, role)]
  /\ CalledDirectly
  /\ UNCHANGED <<count, explicit>>

GetDescField(d, num) == ReadRecord(d, num, "ard")
GetDescRec(d, num) == ReadRecord(d, num, "ard")
DescribeParam(num) == ReadRecord("ipd", num, "ipd")

CopyDesc(source, target) ==
  /\ source # target
  /\ records' = [records EXCEPT ![target] = records[source]]
  /\ count' = [count EXCEPT ![target] = count[source]]
  /\ CalledDirectly
  /\ UNCHANGED explicit

SetDescriptor(role, d) ==
  /\ explicit' = [explicit EXCEPT ![role] = d]
  /\ CalledDirectly
  /\ UNCHANGED <<count, records>>

-----------------------------------------------------------------------------
BindingPointers == {<<"ptr", "ptr">>, <<"null", "ptr">>}

ColumnCall ==
  \/ \E num \in Nums : UnbindCol(num)
  \/ \E num \in Nums, ctype \in CTypes :
       \/ \E p \in BindingPointers \cup {<<"null", "null">>} : BindCol(num, ctype, p[1], p[2])
       \/ BindColFails(num, ctype)
  \/ ResetColBindings

ParameterCall ==
  \/ \E num \in Nums : UnbindParameter(num)
  \/ \E num \in Nums, ctype \in CTypes \cup {"default"}, sqltype \in SqlTypes :
       \/ \E p \in BindingPointers \cup {<<"null", "null">>} :
            BindParameter(num, ctype, sqltype, p[1], p[2])
       \/ BindParameterFails(num, ctype, sqltype)
  \/ ResetParamBindings
  \/ \E n \in 0 .. MaxRec : PrepareParameters(n)

DescriptorCall ==
  \/ \E d \in Descs, num \in Nums :
       \/ \E type \in DescTypes : SetDescType(d, num, type) \/ SetDescConcise(d, num, type)
       \/ \E code \in Codes \cup {0} : SetDescCode(d, num, code)
       \/ \E ptr \in Pointers : SetDescDataPtr(d, num, ptr)
       \/ \E type \in DescTypes, code \in Codes : SetDescRec(d, num, type, code, "ptr", "ptr")
       \/ GetDescField(d, num) \/ GetDescRec(d, num)
  \/ \E num \in Nums : DescribeParam(num)
  \/ \E d \in Descs, n \in 0 .. MaxRec : SetDescCount(d, n)
  \/ \E source, target \in Descs : CopyDesc(source, target)
  \/ \E role \in Roles, d \in UserDescs : SetDescriptor(role, d)
  \/ \E role \in Roles : SetDescriptor(role, role)

Next ==
  /\ calls < MaxCalls
  /\ \/ ColumnCall
     \/ ParameterCall
     \/ direct < MaxDirect /\ DescriptorCall

Spec == Init /\ [][Next]_vars

-----------------------------------------------------------------------------
(* The three descriptions of a type agree in every record, in whichever     *)
(* order they were set (onAttrChange, descriptor.cpp:5): unless the concise  *)
(* type is itself verbose, as SQL_C_DATE is, or the verbose one was refused. *)
TypesAgreeIn(record) ==
  \/ Verbose(record.concise) \/ ConciseOfFamily(record.type)
  \/ IF Verbose(record.type) THEN record.code # 0 => record.concise = Concise(record.code, record.type)
     ELSE record.concise = record.type

TypesAgree ==
  \A d \in Descs : \A i \in 1 .. Len(records[d]) : TypesAgreeIn(records[d][i])

(* Binding, unbinding or preparing brings no old binding back: a record that *)
(* enters the count in such a call, other than the one the call binds, is    *)
(* unbound (getRecord, descriptor.cpp:183).  Setting SQL_DESC_COUNT does, and *)
(* so does making a descriptor explicit.                                     *)
NothingComesBack ==
  [][call'.op # "direct" =>
       \A d \in Descs : \A i \in count[d] + 1 .. Smaller(count'[d], Len(records'[d])) :
         i # call'.num => ~Bound(records'[d][i])]_vars

Promised == INSTANCE BoundParameters WITH Params <- Nums, bound <- [i \in Nums |-> Parameter(i)]

(* What is sent for a parameter is what SQLBindParameter was last told for  *)
(* its number, whatever is bound, unbound, prepared or fails for others.     *)
BindsParameters == Promised!Spec
=============================================================================
