---------------------------- MODULE Fetch_proofs ----------------------------
(***************************************************************************)
(* What holds of Fetch for every length of the response, every size of the *)
(* row array, every read-ahead and wherever the response breaks.           *)
(***************************************************************************)
EXTENDS Fetch, TLAPS

\* What appending a row does to a queue of rows.
LEMMA AppendFacts ==
  ASSUME NEW S, NEW q \in Seq(S), NEW x \in S
  PROVE  /\ Append(q, x) \in Seq(S)
         /\ Len(Append(q, x)) = Len(q) + 1
         /\ \A i \in 1..Len(q) : Append(q, x)[i] = q[i]
         /\ Append(q, x)[Len(q) + 1] = x
  OBVIOUS

\* What taking the first k rows of a queue leaves.
LEMMA SplitFacts ==
  ASSUME NEW S, NEW q \in Seq(S), NEW k \in 0..Len(q)
  PROVE  /\ SubSeq(q, 1, k) \in Seq(S)
         /\ Len(SubSeq(q, 1, k)) = k
         /\ \A i \in 1..k : SubSeq(q, 1, k)[i] = q[i]
         /\ SubSeq(q, k + 1, Len(q)) \in Seq(S)
         /\ Len(SubSeq(q, k + 1, Len(q))) = Len(q) - k
         /\ \A i \in 1..(Len(q) - k) : SubSeq(q, k + 1, Len(q))[i] = q[k + i]
<1>1. k \in Nat /\ Len(q) \in Nat /\ k <= Len(q)
  OBVIOUS
<1>2. SubSeq(q, 1, k) \in Seq(S) /\ Len(SubSeq(q, 1, k)) = k
  BY <1>1
<1>3. \A i \in 1..k : SubSeq(q, 1, k)[i] = q[i]
  BY <1>1
<1>4. Len(SubSeq(q, k + 1, Len(q))) = Len(q) - k
  BY <1>1
<1>5. SubSeq(q, k + 1, Len(q)) \in Seq(S)
  BY <1>1
<1>6. \A i \in 1..(Len(q) - k) : SubSeq(q, k + 1, Len(q))[i] = q[k + i]
  BY <1>1
<1> QED
  BY <1>2, <1>3, <1>4, <1>5, <1>6

\* Every step keeps the types.
LEMMA TypeStep == TypeOK /\ [Next]_vars => TypeOK'
<1> SUFFICES ASSUME TypeOK, [Next]_vars PROVE TypeOK'
  OBVIOUS
<1> USE MaxSizeAssumption
    DEF TypeOK, Rows, Codes, streamVars, windowVars, applicationVars, callVars
<1>1. ASSUME UNCHANGED vars PROVE TypeOK'
  BY <1>1 DEF vars
<1>2. ASSUME NEW n \in 0..MaxRows, NEW broken \in BOOLEAN, NEW columns \in BOOLEAN, OpenResult(n, broken, columns)
      PROVE  TypeOK'
  BY <1>2 DEF OpenResult, FreshResultSet
<1>3. ASSUME CloseResult PROVE TypeOK'
  <2>1. aligned' \in BOOLEAN /\ result_set' \in BOOLEAN /\ finished' \in BOOLEAN
    BY <1>3, Zenon DEF CloseResult, FreshResultSet
  <2>2. prefetched_rows' \in Seq(Rows) /\ row_set' \in Seq(Rows)
    BY <1>3 DEF CloseResult, FreshResultSet
  <2> QED
    BY <1>3, <2>1, <2>2 DEF CloseResult, FreshResultSet
<1>4. ASSUME NEW b \in BOOLEAN, Bind(b) PROVE TypeOK'
  BY <1>4 DEF Bind
<1>5. ASSUME NEW n \in 0..MaxSize, FetchNothing(n) PROVE TypeOK'
  BY <1>5 DEF FetchNothing, NoRowFrom, Return
<1>6. ASSUME NEW n \in 0..MaxSize, FetchOutOfRange(n) PROVE TypeOK'
  BY <1>6 DEF FetchOutOfRange, Return
<1>7. ASSUME NEW n \in 0..MaxSize, StartFetch(n) PROVE TypeOK'
  BY <1>7 DEF StartFetch, ReadAhead
<1>8. ASSUME ReadRow PROVE TypeOK'
  <2>1. prefetched_rows' \in Seq(Rows)
    <3>1. PICK row \in Rows : prefetched_rows' = Append(prefetched_rows, row)
      BY <1>8 DEF ReadRow
    <3>2. prefetched_rows \in Seq(Rows)
      OBVIOUS
    <3> HIDE DEF Rows, TypeOK
    <3> QED
      BY <3>1, <3>2, AppendFacts
  <2>2. next' \in Nat /\ torn' \in Nat
    BY <1>8 DEF ReadRow
  <2> QED
    BY <1>8, <2>1, <2>2 DEF ReadRow
<1>9. ASSUME ReadThrows PROVE TypeOK'
  <2>1. aligned' \in BOOLEAN
    BY <1>9, Zenon DEF ReadThrows
  <2>2. prefetched_rows' \in Seq(Rows) /\ torn' \in Nat
    BY <1>9, AppendFacts DEF ReadThrows
  <2> QED
    BY <1>9, <2>1, <2>2 DEF ReadThrows, Return
<1>10. ASSUME ReadEnd PROVE TypeOK'
  BY <1>10 DEF ReadEnd, Prefetching
<1>11. ASSUME TakeRows PROVE TypeOK'
  BY <1>11 DEF TakeRows, PrefetchDone
<1>12. ASSUME TakeNothing PROVE TypeOK'
  BY <1>12 DEF TakeNothing, PrefetchDone, NoRowFrom, Return
<1>13. ASSUME BindRow PROVE TypeOK'
  <2>1. row_status' \in [1..MaxSize -> {"unset", "success", "no_row"}]
    BY <1>13 DEF BindRow
  <2>2. row_idx' \in Nat
    BY <1>13 DEF BindRow
  <2> QED
    BY <1>13, <2>1, <2>2 DEF BindRow
<1>14. ASSUME NEW code \in {"info", "error"}, BindThrows(code) PROVE TypeOK'
  BY <1>14 DEF BindThrows, Return
<1>15. ASSUME EndBind PROVE TypeOK'
  BY <1>15 DEF EndBind, NoRowFrom, Return
<1> QED
  BY ONLY [Next]_vars, <1>1, <1>2, <1>3, <1>4, <1>5, <1>6, <1>7, <1>8, <1>9, <1>10,
     <1>11, <1>12, <1>13, <1>14, <1>15 DEF Next

\* No step breaks the invariant.
LEMMA InvStep == IInv /\ [Next]_vars => IInv'
<1> SUFFICES ASSUME IInv, [Next]_vars PROVE IInv'
  OBVIOUS
<1>0. TypeOK'
  BY TypeStep DEF IInv
<1> USE MaxSizeAssumption, PrefetchAssumption, TornAssumption
    DEF IInv, TypeOK, Rows, Codes, QueueInPlace, WindowInPlace, ReaderInPlace,
        CallInPlace, NoDataMeansAllShown, StatusTellsRows,
        streamVars, windowVars, applicationVars, callVars
<1>1. ASSUME UNCHANGED vars PROVE IInv'
  BY <1>0, <1>1 DEF vars
<1>2. ASSUME NEW n \in 0..MaxRows, NEW broken \in BOOLEAN, NEW columns \in BOOLEAN, OpenResult(n, broken, columns)
      PROVE  IInv'
  <2>1. QueueInPlace'
    BY <1>2 DEF OpenResult, FreshResultSet
  <2>2. WindowInPlace'
    BY <1>2 DEF OpenResult, FreshResultSet
  <2>3. ReaderInPlace'
    <3>1. finished' => n = 0
      BY <1>2, Zenon DEF OpenResult
    <3> QED
      BY <1>2, <3>1 DEF OpenResult, FreshResultSet
  <2>4. CallInPlace'
    BY <1>2 DEF OpenResult, FreshResultSet
  <2>5. NoDataMeansAllShown'
    BY <1>2 DEF OpenResult, FreshResultSet
  <2>6. StatusTellsRows'
    BY <1>2 DEF OpenResult, FreshResultSet
  <2> QED
    BY ONLY <1>0, <2>1, <2>2, <2>3, <2>4, <2>5, <2>6 DEF IInv
<1>3. ASSUME CloseResult PROVE IInv'
  BY <1>0, <1>3 DEF CloseResult, FreshResultSet
<1>4. ASSUME NEW b \in BOOLEAN, Bind(b) PROVE IInv'
  BY <1>0, <1>4 DEF Bind
<1>5. ASSUME NEW n \in 0..MaxSize, FetchNothing(n) PROVE IInv'
  BY <1>0, <1>5 DEF FetchNothing, NoRowFrom, Return
<1>6. ASSUME NEW n \in 0..MaxSize, FetchOutOfRange(n) PROVE IInv'
  BY <1>0, <1>6 DEF FetchOutOfRange, Return
<1>7. ASSUME NEW n \in 0..MaxSize, StartFetch(n) PROVE IInv'
  BY <1>0, <1>7 DEF StartFetch, ReadAhead
<1>8. ASSUME ReadRow PROVE IInv'
  <2>1. QueueInPlace'
    <3>1. PICK row \in Rows : /\ prefetched_rows' = Append(prefetched_rows, row)
                              /\ row \in {affected_row_count + Len(prefetched_rows) + 1, Torn}
      BY <1>8 DEF ReadRow
    <3>2. affected_row_count' = affected_row_count
      BY <1>8 DEF ReadRow
    <3> QED
      BY <3>1, <3>2, AppendFacts
  <2>2. WindowInPlace'
    BY <1>8 DEF ReadRow, Prefetching
  <2>3. ReaderInPlace'
    <3>1. \E row : prefetched_rows' = Append(prefetched_rows, row)
      BY <1>8 DEF ReadRow
    <3>2. Len(prefetched_rows') = Len(prefetched_rows) + 1
      BY <3>1
    <3>3. CASE aligned
      BY <1>8, <3>2, <3>3 DEF ReadRow
    <3>4. CASE ~aligned
      BY <1>8, <3>2, <3>4 DEF ReadRow
    <3> QED
      BY <3>3, <3>4
  <2>4. CallInPlace'
    BY <1>8 DEF ReadRow, Prefetching
  <2>5. NoDataMeansAllShown'
    BY <1>8 DEF ReadRow, Prefetching
  <2>6. StatusTellsRows'
    BY <1>8 DEF ReadRow, Prefetching
  <2> QED
    BY ONLY <1>0, <2>1, <2>2, <2>3, <2>4, <2>5, <2>6 DEF IInv
<1>9. ASSUME ReadThrows PROVE IInv'
  <2>1. QueueInPlace'
    <3>1. /\ prefetched_rows' = Append(prefetched_rows, Torn)
          /\ affected_row_count' = affected_row_count
      BY <1>9 DEF ReadThrows
    <3> QED
      BY <3>1, AppendFacts
  <2>2. WindowInPlace'
    BY <1>9 DEF ReadThrows, Prefetching, Return
  <2>3. ReaderInPlace'
    BY <1>9 DEF ReadThrows, Prefetching, Return
  <2>4. CallInPlace'
    BY <1>9 DEF ReadThrows, Prefetching, Return
  <2>5. NoDataMeansAllShown'
    BY <1>9 DEF ReadThrows, Prefetching, Return
  <2>6. StatusTellsRows'
    BY <1>9 DEF ReadThrows, Prefetching, Return
  <2> QED
    BY ONLY <1>0, <2>1, <2>2, <2>3, <2>4, <2>5, <2>6 DEF IInv
<1>10. ASSUME ReadEnd PROVE IInv'
  BY <1>0, <1>10 DEF ReadEnd, Prefetching
<1>11. ASSUME TakeRows PROVE IInv'
  <2> DEFINE k == IF Len(prefetched_rows) < size THEN Len(prefetched_rows) ELSE size
  <2>1. /\ phase = "prefetch" /\ row_set = <<>> /\ size \in 1..MaxSize
        /\ prefetched_rows \in Seq(Rows) /\ prefetched_rows # <<>>
    BY <1>11 DEF TakeRows, PrefetchDone
  <2>2. k \in 0..Len(prefetched_rows) /\ k \in 1..size
    BY <2>1
  <2>3. /\ row_set' = SubSeq(prefetched_rows, 1, k)
        /\ prefetched_rows' = SubSeq(prefetched_rows, k + 1, Len(prefetched_rows))
        /\ affected_row_count' = affected_row_count + k
        /\ rows_fetched' = k
        /\ row_set_position' = IF row_set_position = 0 THEN 1 ELSE row_set_position
        /\ row_position' = row_set_position'
        /\ row_idx' = 1 /\ phase' = "bind"
        /\ UNCHANGED <<result_set, finished, aligned, last, next, bound, size, returned>>
    BY <1>11 DEF TakeRows
  <2> HIDE DEF k
  <2>4. /\ Len(row_set') = k /\ Len(prefetched_rows') = Len(prefetched_rows) - k
        /\ \A i \in 1..k : row_set'[i] = prefetched_rows[i]
        /\ \A i \in 1..(Len(prefetched_rows) - k) :
             prefetched_rows'[i] = prefetched_rows[k + i]
    BY <2>1, <2>2, <2>3, SplitFacts
  <2>5. QueueInPlace'
    BY <2>1, <2>2, <2>3, <2>4
  <2>6. WindowInPlace'
    BY <2>1, <2>2, <2>3, <2>4
  <2>7. ReaderInPlace'
    <3>1. affected_row_count \in Nat
      BY ONLY IInv DEF IInv, TypeOK
    <3>2. Len(prefetched_rows) \in Nat
      BY <2>1
    <3>3. k \in Nat
      BY ONLY <2>2, <3>2
    <3>4. affected_row_count' + Len(prefetched_rows') = affected_row_count + Len(prefetched_rows)
      <4>1. affected_row_count' = affected_row_count + k
        BY <2>3
      <4>2. Len(prefetched_rows') = Len(prefetched_rows) - k
        BY <2>4
      <4> QED
        BY ONLY <4>1, <4>2, <3>1, <3>2, <3>3
    <3>5. UNCHANGED <<finished, aligned, last, next>>
      BY <2>3
    <3>6. ReaderInPlace
      BY ONLY IInv DEF IInv
    <3> QED
      BY ONLY <3>4, <3>5, <3>6 DEF ReaderInPlace
  <2>8. CallInPlace'
    BY <1>0, <2>1, <2>2, <2>3, <2>4
  <2>9. NoDataMeansAllShown' /\ StatusTellsRows'
    BY <2>1, <2>3
  <2> QED
    BY ONLY <1>0, <2>5, <2>6, <2>7, <2>8, <2>9 DEF IInv
<1>12. ASSUME TakeNothing PROVE IInv'
  <2>1. /\ phase = "prefetch" /\ result_set
        /\ finished /\ prefetched_rows = <<>> /\ row_set = <<>>
    BY <1>12 DEF TakeNothing, PrefetchDone
  <2>2. QueueInPlace' /\ WindowInPlace' /\ ReaderInPlace' /\ CallInPlace'
    BY <1>12, <2>1 DEF TakeNothing, Return
  <2>3. NoDataMeansAllShown' /\ StatusTellsRows'
    BY <1>12, <2>1 DEF TakeNothing, Return
  <2> QED
    BY ONLY <1>0, <2>2, <2>3 DEF IInv
<1>13. ASSUME BindRow PROVE IInv'
  BY <1>0, <1>13 DEF BindRow
<1>14. ASSUME NEW code \in {"info", "error"}, BindThrows(code) PROVE IInv'
  BY <1>0, <1>14 DEF BindThrows, Return
<1>15. ASSUME EndBind PROVE IInv'
  BY <1>0, <1>15 DEF EndBind, NoRowFrom, Return
<1> QED
  BY ONLY [Next]_vars, <1>1, <1>2, <1>3, <1>4, <1>5, <1>6, <1>7, <1>8, <1>9, <1>10,
     <1>11, <1>12, <1>13, <1>14, <1>15 DEF Next

\* The invariant holds of every state.
LEMMA Invariant == Spec => []IInv
<1>1. Init => IInv
  <2> SUFFICES ASSUME Init PROVE IInv
    OBVIOUS
  <2> USE DEF Init
  <2>1. /\ result_set \in BOOLEAN /\ fault \in BOOLEAN /\ aligned \in BOOLEAN
        /\ finished \in BOOLEAN /\ bound \in BOOLEAN
    BY Zenon
  <2>2. prefetched_rows \in Seq(Rows) /\ row_set \in Seq(Rows)
    OBVIOUS
  <2>3. row_status \in [1..MaxSize -> {"unset", "success", "no_row"}]
    OBVIOUS
  <2>4. TypeOK
    BY <2>1, <2>2, <2>3, MaxSizeAssumption DEF TypeOK, Codes
  <2> QED
    BY <2>4 DEF IInv, QueueInPlace, WindowInPlace, ReaderInPlace, CallInPlace,
                NoDataMeansAllShown, StatusTellsRows
<1>2. IInv /\ [Next]_vars => IInv'
  BY InvStep
<1> QED
  BY <1>1, <1>2, PTL DEF Spec

\* The members of the result set, the arrays of the application and the state of
\* the call keep their types (result_set.h:112-124).
THEOREM TypeCorrect == Spec => []TypeOK
  BY Invariant, PTL DEF IInv

\* SQL_ATTR_ROW_NUMBER is the number of the row that SQLGetData reads, after any
\* fetches, failed ones too (result_set.cpp:156-204).
THEOREM RowNumberStaysTrue == Spec => []RowNumberIsTrue
<1>1. IInv => RowNumberIsTrue
  <2> SUFFICES ASSUME IInv, CurrentRowPosition # 0
               PROVE  row_set[CurrentRowPosition - row_set_position + 1]
                        \in {CurrentRowPosition, Torn}
    BY DEF RowNumberIsTrue
  <2>1. /\ row_position \in row_set_position..(row_set_position + Len(row_set) - 1)
        /\ CurrentRowPosition = row_position
    BY DEF CurrentRowPosition
  <2>2. row_set \in Seq(Rows) /\ row_set_position \in Nat /\ affected_row_count \in Nat
    BY DEF IInv, TypeOK
  <2>3. row_set # <<>> /\ Len(row_set) \in Nat /\ Len(row_set) >= 1
    BY <2>1, <2>2
  <2>4. row_position = row_set_position
    BY <2>3 DEF IInv, WindowInPlace
  <2>5. row_set_position + Len(row_set) = affected_row_count + 1
    BY <2>3 DEF IInv, WindowInPlace
  <2>6. row_set[1] \in {affected_row_count - Len(row_set) + 1, Torn}
    BY <2>3 DEF IInv, WindowInPlace
  <2> QED
    BY <2>1, <2>2, <2>3, <2>4, <2>5, <2>6
<1> QED
  BY <1>1, Invariant, PTL

\* SQL_NO_DATA is returned only once every complete row of the response was shown
\* (result_set.cpp:217-255, impl.cpp:1319-1329).
THEOREM NoDataIsTheEnd == Spec => []NoDataMeansAllShown
  BY Invariant, PTL DEF IInv

\* A fetch that succeeds writes a status for every row of the array
\* (impl.cpp:1398-1427).
THEOREM StatusIsWritten == Spec => []StatusTellsRows
  BY Invariant, PTL DEF IInv

\* The read-ahead never holds more rows than one request may ask for, however
\* the sizes of requests change (result_set.cpp:167-175).
THEOREM ReadAheadIsBounded == Spec => []PrefetchBounded
<1>1. Init => PrefetchBounded /\ TargetBounded
  BY MaxSizeAssumption DEF Init, PrefetchBounded, TargetBounded
<1>2. TypeOK /\ PrefetchBounded /\ TargetBounded /\ [Next]_vars => PrefetchBounded' /\ TargetBounded'
  <2> SUFFICES ASSUME TypeOK, PrefetchBounded, TargetBounded, [Next]_vars
               PROVE  PrefetchBounded' /\ TargetBounded'
    OBVIOUS
  <2> USE MaxSizeAssumption, PrefetchAssumption
      DEF TypeOK, PrefetchBounded, TargetBounded, streamVars, windowVars, applicationVars, callVars
  <2>1. ASSUME UNCHANGED vars PROVE PrefetchBounded' /\ TargetBounded'
    BY <2>1 DEF vars
  <2>2. ASSUME NEW n \in 0..MaxRows, NEW broken \in BOOLEAN, NEW columns \in BOOLEAN,
               OpenResult(n, broken, columns) \/ CloseResult
        PROVE  PrefetchBounded' /\ TargetBounded'
    BY <2>2 DEF OpenResult, CloseResult, FreshResultSet
  <2>3. ASSUME CloseResult PROVE PrefetchBounded' /\ TargetBounded'
    BY <2>3 DEF CloseResult, FreshResultSet
  <2>4. ASSUME NEW n \in 0..MaxSize, StartFetch(n) PROVE PrefetchBounded' /\ TargetBounded'
    BY <2>4 DEF StartFetch, ReadAhead
  <2>5. ASSUME ReadRow \/ ReadThrows PROVE PrefetchBounded' /\ TargetBounded'
    <3>1. PICK row \in Rows : prefetched_rows' = Append(prefetched_rows, row)
      BY <2>5 DEF ReadRow, ReadThrows, Rows
    <3>2. Len(prefetched_rows) < target /\ UNCHANGED target
      BY <2>5 DEF ReadRow, ReadThrows, Prefetching
    <3>3. Len(prefetched_rows') = Len(prefetched_rows) + 1 /\ Len(prefetched_rows) \in Nat
      BY <3>1, AppendFacts
    <3>4. Len(prefetched_rows') <= target
      BY <3>2, <3>3
    <3> QED
      BY <3>2, <3>3, <3>4
  <2>6. ASSUME TakeRows PROVE PrefetchBounded' /\ TargetBounded'
    <3> DEFINE k == IF Len(prefetched_rows) < size THEN Len(prefetched_rows) ELSE size
    <3>1. prefetched_rows \in Seq(Rows) /\ size \in Nat
      BY <2>6 DEF Rows
    <3>2. k \in 0..Len(prefetched_rows)
      BY <3>1
    <3>3. prefetched_rows' = SubSeq(prefetched_rows, k + 1, Len(prefetched_rows)) /\ UNCHANGED target
      BY <2>6 DEF TakeRows
    <3> HIDE DEF k
    <3>4. Len(prefetched_rows') = Len(prefetched_rows) - k
      BY <3>1, <3>2, <3>3, SplitFacts
    <3>5. k \in Nat /\ Len(prefetched_rows) \in Nat
      BY <3>1, <3>2
    <3>6. Len(prefetched_rows') <= Len(prefetched_rows)
      BY ONLY <3>4, <3>5
    <3> QED
      BY <3>3, <3>4, <3>5, <3>6
  <2>7. ASSUME ReadEnd \/ TakeNothing \/ BindRow \/ EndBind
        PROVE  PrefetchBounded' /\ TargetBounded'
    BY <2>7 DEF ReadEnd, TakeNothing, BindRow, EndBind, Return
  <2>8. ASSUME NEW code, BindThrows(code) PROVE PrefetchBounded' /\ TargetBounded'
    BY <2>8 DEF BindThrows, Return
  <2>9. ASSUME NEW n \in 0..MaxSize, FetchNothing(n) \/ FetchOutOfRange(n)
        PROVE  PrefetchBounded' /\ TargetBounded'
    BY <2>9 DEF FetchNothing, FetchOutOfRange, Return
  <2>10. ASSUME NEW b, Bind(b) PROVE PrefetchBounded' /\ TargetBounded'
    BY <2>10 DEF Bind
  <2> QED
    BY ONLY [Next]_vars, <2>1, <2>2, <2>3, <2>4, <2>5, <2>6, <2>7, <2>8, <2>9, <2>10 DEF Next
<1> QED
  BY <1>1, <1>2, TypeCorrect, PTL DEF Spec

\* The result set is the forward cursor that RowCursor specifies
\* (result_set.cpp:156-185).
THEOREM Implements == Spec => ShowsRowsInOrder
<1>1. Init => Cursor!Init
  BY DEF Init, Cursor!Init
<1>2. IInv /\ IInv' /\ [Next]_vars => [Cursor!Next]_(Cursor!vars)
  <2> SUFFICES ASSUME IInv, IInv', [Next]_vars
               PROVE  Cursor!Next \/ UNCHANGED Cursor!vars
    OBVIOUS
  <2> USE DEF Cursor!vars, windowVars
  <2>1. ASSUME NEW n \in 0..MaxRows, NEW broken \in BOOLEAN, NEW columns \in BOOLEAN,
               OpenResult(n, broken, columns) \/ CloseResult
        PROVE  Cursor!Open
    BY <2>1 DEF OpenResult, CloseResult, FreshResultSet, Cursor!Open
  <2>2. CloseResult => Cursor!Open
    BY DEF CloseResult, FreshResultSet, Cursor!Open
  <2>3. ASSUME NEW n \in 0..MaxSize, StartFetch(n) PROVE Cursor!Hide
    BY <2>3 DEF StartFetch, Cursor!Hide
  <2>4. ASSUME TakeRows PROVE Cursor!Show
    <3>1. row_set = <<>> /\ prefetched_rows \in Seq(Rows)
      BY <2>4 DEF TakeRows, PrefetchDone, IInv, TypeOK, CallInPlace
    <3>2. PICK k \in 0..Len(prefetched_rows) :
                 /\ row_set' = SubSeq(prefetched_rows, 1, k)
                 /\ affected_row_count' = affected_row_count + k
      BY <2>4, <3>1 DEF TakeRows, IInv, TypeOK
    <3>3. Len(row_set') = k /\ DOMAIN row_set' = 1..k
      BY <3>1, <3>2, SplitFacts
    <3>4. \A i \in 1..k : row_set'[i] \in {affected_row_count + i, Torn}
      BY <3>1, <3>2, SplitFacts DEF IInv, QueueInPlace
    <3> QED
      BY <3>1, <3>2, <3>3, <3>4 DEF Cursor!Show
  <2>5. ASSUME ReadRow \/ ReadThrows \/ ReadEnd PROVE UNCHANGED Cursor!vars
    BY <2>5 DEF ReadRow, ReadThrows, ReadEnd
  <2>6. ASSUME TakeNothing PROVE UNCHANGED Cursor!vars
    BY <2>6 DEF TakeNothing
  <2>7. ASSUME BindRow \/ EndBind PROVE UNCHANGED Cursor!vars
    BY <2>7 DEF BindRow, EndBind
  <2>8. ASSUME NEW code, BindThrows(code) PROVE UNCHANGED Cursor!vars
    BY <2>8 DEF BindThrows
  <2>9. ASSUME NEW n \in 0..MaxSize, FetchNothing(n) \/ FetchOutOfRange(n)
        PROVE  UNCHANGED Cursor!vars
    BY <2>9 DEF FetchNothing, FetchOutOfRange
  <2>10. ASSUME NEW b, Bind(b) PROVE UNCHANGED Cursor!vars
    BY <2>10 DEF Bind
  <2>11. CASE UNCHANGED vars
    BY <2>11 DEF vars
  <2> QED
    BY <2>1, <2>2, <2>3, <2>4, <2>5, <2>6, <2>7, <2>8, <2>9, <2>10, <2>11 DEF Next, Cursor!Next
<1> QED
  BY Invariant, <1>1, <1>2, PTL DEF Spec, ShowsRowsInOrder, Cursor!Spec
=============================================================================
