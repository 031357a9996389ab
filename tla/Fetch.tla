------------------------------- MODULE Fetch -------------------------------
(***************************************************************************)
(* Fetching from the result set of one statement: impl::fetchBindings, and *)
(* ResultSet::fetchRowSet with its read-ahead.  A row of the response is   *)
(* its number, from 1; a row whose reading threw, or that was read from    *)
(* where another row left off, is Torn.                                    *)
(*                                                                         *)
(* One step per row read and per row bound, because each may throw and     *)
(* leave the loops where they are.                                         *)
(***************************************************************************)
EXTENDS Naturals, Sequences

CONSTANTS
  MaxRows,          \* bound on the rows of a response
  MaxSize,          \* bound on SQL_DESC_ARRAY_SIZE, the length of the status array
  MaxTorn,          \* bound on the rows read after one could not be read
  PrefetchAtLeast,  \* prefetch_at_least (result_set.cpp:168)
  Torn              \* a row that is not a row of the response

ASSUME MaxRowsAssumption == MaxRows \in Nat
ASSUME MaxSizeAssumption == MaxSize \in Nat \ {0}
ASSUME MaxTornAssumption == MaxTorn \in Nat
ASSUME PrefetchAssumption == PrefetchAtLeast \in Nat \ {0}
ASSUME TornAssumption == Torn \notin Nat

VARIABLES
  result_set,          \* the statement has a result set
  last,                \* the complete rows of its response
  fault,               \* the row after the last cannot be read
  next,                \* the next row of the response
  aligned,             \* the reader stands at the start of a row
  torn,                \* the torn rows read
  prefetched_rows,     \* ResultSet::prefetched_rows
  finished,            \* ResultSet::finished
  row_set,             \* ResultSet::row_set
  row_set_position,    \* ResultSet::row_set_position
  row_position,        \* ResultSet::row_position
  affected_row_count,  \* ResultSet::affected_row_count
  bound,               \* SQL_DESC_COUNT of the row descriptor is not 0
  rows_fetched,        \* *rows_fetched_ptr
  row_status,          \* array_status_ptr
  row_count,           \* SQL_DIAG_ROW_COUNT
  size,                \* row_set_size of the call in progress or the last one
  target,              \* the rows tryPrefetchRows() is asked for
  row_idx,             \* row_idx of the binding loop, from 1
  phase,               \* where the call in progress is
  returned             \* what the last SQLFetch or SQLFetchScroll returned

streamVars == <<last, fault, next, aligned, torn>>
windowVars == <<row_set, row_set_position, row_position, affected_row_count>>
applicationVars == <<rows_fetched, row_status, row_count>>
callVars == <<size, target, row_idx, phase, returned>>
vars == <<result_set, streamVars, prefetched_rows, finished, windowVars, bound,
          applicationVars, callVars>>

Rows == Nat \cup {Torn}
Codes == {"none", "success", "info", "error", "no_data"}

TypeOK ==
  /\ result_set \in BOOLEAN
  /\ last \in Nat
  /\ fault \in BOOLEAN
  /\ next \in Nat
  /\ aligned \in BOOLEAN
  /\ torn \in Nat
  /\ prefetched_rows \in Seq(Rows)
  /\ finished \in BOOLEAN
  /\ row_set \in Seq(Rows)
  /\ row_set_position \in Nat
  /\ row_position \in Nat
  /\ affected_row_count \in Nat
  /\ bound \in BOOLEAN
  /\ rows_fetched \in Nat
  /\ row_status \in [1..MaxSize -> {"unset", "success", "no_row"}]
  /\ row_count \in Nat
  /\ size \in 0..MaxSize
  /\ target \in Nat
  /\ row_idx \in Nat
  /\ phase \in {"idle", "prefetch", "bind"}
  /\ returned \in Codes

Init ==
  /\ result_set = FALSE
  /\ last = 0
  /\ fault = FALSE
  /\ next = 1
  /\ aligned = TRUE
  /\ torn = 0
  /\ prefetched_rows = <<>>
  /\ finished = FALSE
  /\ row_set = <<>>
  /\ row_set_position = 0
  /\ row_position = 0
  /\ affected_row_count = 0
  /\ bound = FALSE
  /\ rows_fetched = 0
  /\ row_status = [i \in 1..MaxSize |-> "unset"]
  /\ row_count = 0
  /\ size = 0
  /\ target = 0
  /\ row_idx = 1
  /\ phase = "idle"
  /\ returned = "none"

-----------------------------------------------------------------------------
(* The result set as a whole.                                              *)

\* The members of ResultSet as its constructor leaves them; a row waits in
\* neither queue.
FreshResultSet ==
  /\ prefetched_rows' = <<>>
  /\ row_set' = <<>>
  /\ row_set_position' = 0
  /\ row_position' = 0
  /\ affected_row_count' = 0
  /\ next' = 1
  /\ aligned' = TRUE
  /\ torn' = 0

\* Any execution: a response of n rows, of which the one after may be cut
\* short or unreadable.  A result of no columns is finished at once.
OpenResult(n, broken, columns) ==
  /\ phase = "idle"
  /\ columns \/ (n = 0 /\ ~broken)
  /\ FreshResultSet
  /\ result_set' = TRUE
  /\ last' = n
  /\ fault' = broken
  /\ finished' = ~columns
  /\ returned' = "none"
  /\ row_count' = 0
  /\ UNCHANGED <<bound, rows_fetched, row_status, size, target, row_idx, phase>>

\* advanceToNextResultSet(), closeCursor(), or a response without a body.
CloseResult ==
  /\ phase = "idle"
  /\ FreshResultSet
  /\ result_set' = FALSE
  /\ finished' = FALSE
  /\ returned' = "none"
  /\ UNCHANGED <<last, fault, bound, applicationVars, size, target, row_idx, phase>>

\* SQLBindCol, SQLFreeStmt(SQL_UNBIND).
Bind(b) ==
  /\ phase = "idle"
  /\ bound' = b
  /\ returned' = "none"
  /\ UNCHANGED <<result_set, streamVars, prefetched_rows, finished, windowVars,
                 applicationVars, size, target, row_idx, phase>>

-----------------------------------------------------------------------------
(* fetchBindings() and fetchRowSet().                                      *)

Return(code) ==
  /\ phase' = "idle"
  /\ returned' = code

\* Every place of the application's status array from the k-th on.
NoRowFrom(k, n) ==
  [i \in 1..MaxSize |-> IF i \in k..n THEN "no_row" ELSE row_status[i]]

\* There is nothing to fetch from, or nowhere to put it.
FetchNothing(n) ==
  /\ phase = "idle"
  /\ ~result_set \/ n = 0
  /\ size' = n
  /\ rows_fetched' = 0
  /\ row_status' = NoRowFrom(1, n)
  /\ Return("no_data")
  /\ UNCHANGED <<result_set, streamVars, prefetched_rows, finished, windowVars, bound,
                 row_count, target, row_idx>>

\* SQLFetchScroll with another orientation than SQL_FETCH_NEXT (HY106).
FetchOutOfRange(n) ==
  /\ phase = "idle"
  /\ result_set /\ n > 0
  /\ size' = n
  /\ rows_fetched' = 0
  /\ Return("error")
  /\ UNCHANGED <<result_set, streamVars, prefetched_rows, finished, windowVars, bound,
                 row_status, row_count, target, row_idx>>

\* The number of rows to have in the queue: at least prefetch_at_least, unless
\* the queue already has what is asked for.
ReadAhead(n) ==
  IF Len(prefetched_rows) >= n THEN 0
  ELSE IF n > PrefetchAtLeast THEN n ELSE PrefetchAtLeast

StartFetch_CountOnce(n) ==
  /\ phase = "idle"
  /\ result_set /\ n > 0
  /\ size' = n
  /\ rows_fetched' = 0
  /\ row_set' = <<>>
  /\ row_set_position' = IF row_set = <<>> THEN row_set_position ELSE row_set_position + 1
  /\ target' = ReadAhead(n)
  /\ phase' = "prefetch"
  /\ returned' = "none"
  /\ UNCHANGED <<result_set, streamVars, prefetched_rows, finished, row_position,
                 affected_row_count, bound, row_status, row_count, row_idx>>

StartFetch_LastShown(n) ==
  /\ phase = "idle"
  /\ result_set /\ n > 0
  /\ size' = n
  /\ rows_fetched' = 0
  /\ row_set' = <<>>
  /\ row_set_position' = row_set_position + Len(row_set) - 1
  /\ target' = ReadAhead(n)
  /\ phase' = "prefetch"
  /\ returned' = "none"
  /\ UNCHANGED <<result_set, streamVars, prefetched_rows, finished, row_position,
                 affected_row_count, bound, row_status, row_count, row_idx>>

StartFetch_ReadMore(n) ==
  /\ phase = "idle"
  /\ result_set /\ n > 0
  /\ size' = n
  /\ rows_fetched' = 0
  /\ row_set' = <<>>
  /\ row_set_position' = row_set_position + Len(row_set)
  /\ target' = Len(prefetched_rows) + PrefetchAtLeast
  /\ phase' = "prefetch"
  /\ returned' = "none"
  /\ UNCHANGED <<result_set, streamVars, prefetched_rows, finished, row_position,
                 affected_row_count, bound, row_status, row_count, row_idx>>

\* The row set is retired, and rows are read ahead unless enough are there.
StartFetch(n) ==
  /\ phase = "idle"
  /\ result_set /\ n > 0
  /\ size' = n
  /\ rows_fetched' = 0
  /\ row_set' = <<>>
  /\ row_set_position' = row_set_position + Len(row_set)
  /\ target' = ReadAhead(n)
  /\ phase' = "prefetch"
  /\ returned' = "none"
  /\ UNCHANGED <<result_set, streamVars, prefetched_rows, finished, row_position,
                 affected_row_count, bound, row_status, row_count, row_idx>>

Prefetching ==
  /\ phase = "prefetch"
  /\ ~finished
  /\ Len(prefetched_rows) < target

\* readNextRow() reads the next row; off the start of a row it reads what it
\* takes for one.
ReadRow ==
  /\ Prefetching
  /\ IF aligned
     THEN /\ next <= last
          /\ prefetched_rows' = Append(prefetched_rows, next)
          /\ next' = next + 1
          /\ UNCHANGED torn
     ELSE /\ torn < MaxTorn
          /\ prefetched_rows' = Append(prefetched_rows, Torn)
          /\ torn' = torn + 1
          /\ UNCHANGED next
  /\ UNCHANGED <<result_set, last, fault, aligned, finished, windowVars, bound,
                 applicationVars, callVars>>

\* readNextRow() throws: the row was already put into the queue, and what was
\* left of it before is there to be shown.
ReadThrows ==
  /\ Prefetching
  /\ IF aligned THEN next > last /\ fault ELSE torn < MaxTorn
  /\ prefetched_rows' = Append(prefetched_rows, Torn)
  /\ aligned' = FALSE
  /\ torn' = torn + 1
  /\ Return("error")
  /\ UNCHANGED <<result_set, last, fault, next, finished, windowVars, bound,
                 applicationVars, size, target, row_idx>>

ReadEnd_Early ==
  /\ Prefetching
  /\ aligned => next >= last /\ ~fault
  /\ finished' = TRUE
  /\ UNCHANGED <<result_set, streamVars, prefetched_rows, windowVars, bound,
                 applicationVars, callVars>>

\* The stream is at its end, or was cut where a row ended: eof() makes no
\* difference between the two.
ReadEnd ==
  /\ Prefetching
  /\ aligned => next > last /\ ~fault
  /\ finished' = TRUE
  /\ UNCHANGED <<result_set, streamVars, prefetched_rows, windowVars, bound,
                 applicationVars, callVars>>

PrefetchDone ==
  /\ phase = "prefetch"
  /\ finished \/ Len(prefetched_rows) >= target

TakeRows_KeepLast ==
  /\ PrefetchDone
  /\ prefetched_rows # <<>>
  /\ LET k == IF Len(prefetched_rows) < size THEN Len(prefetched_rows) ELSE size
     IN  /\ row_set' = SubSeq(prefetched_rows, 1, k)
         /\ prefetched_rows' = SubSeq(prefetched_rows, k, Len(prefetched_rows))
         /\ affected_row_count' = affected_row_count + k
         /\ rows_fetched' = k
  /\ row_set_position' = IF row_set_position = 0 THEN 1 ELSE row_set_position
  /\ row_position' = row_set_position'
  /\ row_idx' = 1
  /\ phase' = "bind"
  /\ UNCHANGED <<result_set, streamVars, finished, bound, row_status, row_count, size,
                 target, returned>>

\* The window is over the first rows of the queue.
TakeRows ==
  /\ PrefetchDone
  /\ prefetched_rows # <<>>
  /\ LET k == IF Len(prefetched_rows) < size THEN Len(prefetched_rows) ELSE size
     IN  /\ row_set' = SubSeq(prefetched_rows, 1, k)
         /\ prefetched_rows' = SubSeq(prefetched_rows, k + 1, Len(prefetched_rows))
         /\ affected_row_count' = affected_row_count + k
         /\ rows_fetched' = k
  /\ row_set_position' = IF row_set_position = 0 THEN 1 ELSE row_set_position
  /\ row_position' = row_set_position'
  /\ row_idx' = 1
  /\ phase' = "bind"
  /\ UNCHANGED <<result_set, streamVars, finished, bound, row_status, row_count, size,
                 target, returned>>

\* No row came: the row count goes to the diagnostics.
TakeNothing ==
  /\ PrefetchDone
  /\ prefetched_rows = <<>>
  /\ row_set_position' = 0
  /\ row_position' = 0
  /\ row_count' = affected_row_count
  /\ row_status' = NoRowFrom(1, size)
  /\ Return("no_data")
  /\ UNCHANGED <<result_set, streamVars, prefetched_rows, finished, row_set,
                 affected_row_count, bound, rows_fetched, size, target, row_idx>>

\* Every bound column of one row is filled.  With no column bound the inner
\* loop does not run, and the row's status is not written.
BindRow ==
  /\ phase = "bind"
  /\ row_idx <= Len(row_set)
  /\ row_status' = IF bound THEN [row_status EXCEPT ![row_idx] = "success"] ELSE row_status
  /\ row_idx' = row_idx + 1
  /\ UNCHANGED <<result_set, streamVars, prefetched_rows, finished, windowVars, bound,
                 rows_fetched, row_count, size, target, phase, returned>>

\* A value that is truncated (01004, with SQL_SUCCESS_WITH_INFO) or cannot be
\* converted throws: the rows after it are not bound, nor are their statuses.
BindThrows(code) ==
  /\ phase = "bind"
  /\ bound
  /\ row_idx <= Len(row_set)
  /\ row_status' \in {row_status, [row_status EXCEPT ![row_idx] = "success"]}
  /\ Return(code)
  /\ UNCHANGED <<result_set, streamVars, prefetched_rows, finished, windowVars, bound,
                 rows_fetched, row_count, size, target, row_idx>>

EndBind_FromFetched ==
  /\ phase = "bind"
  /\ row_idx > Len(row_set)
  /\ row_status' = NoRowFrom(rows_fetched, size)
  /\ Return("success")
  /\ UNCHANGED <<result_set, streamVars, prefetched_rows, finished, windowVars, bound,
                 rows_fetched, row_count, size, target, row_idx>>

EndBind ==
  /\ phase = "bind"
  /\ row_idx > Len(row_set)
  /\ row_status' = NoRowFrom(rows_fetched + 1, size)
  /\ Return("success")
  /\ UNCHANGED <<result_set, streamVars, prefetched_rows, finished, windowVars, bound,
                 rows_fetched, row_count, size, target, row_idx>>

Next ==
  \/ \E n \in 0..MaxRows, broken \in BOOLEAN, columns \in BOOLEAN :
       OpenResult(n, broken, columns)
  \/ CloseResult
  \/ \E b \in BOOLEAN : Bind(b)
  \/ \E n \in 0..MaxSize : FetchNothing(n) \/ FetchOutOfRange(n) \/ StartFetch(n)
  \/ ReadRow
  \/ ReadThrows
  \/ ReadEnd
  \/ TakeRows
  \/ TakeNothing
  \/ BindRow
  \/ \E code \in {"info", "error"} : BindThrows(code)
  \/ EndBind

Spec == Init /\ [][Next]_vars

-----------------------------------------------------------------------------
(* What must hold.                                                         *)

\* ResultSet::getCurrentRowPosition().
CurrentRowPosition ==
  IF row_position \in row_set_position..(row_set_position + Len(row_set) - 1)
  THEN row_position
  ELSE 0

\* The row number that SQL_ATTR_ROW_NUMBER reports is that of the row which
\* SQLGetData reads, whatever fetches failed before; a torn row takes the
\* number of the row it stands for.
RowNumberIsTrue ==
  CurrentRowPosition # 0 =>
    LET idx == CurrentRowPosition - row_set_position
    IN  row_set[idx + 1] \in {CurrentRowPosition, Torn}

\* SQL_NO_DATA ends a result only after every complete row of the response was
\* shown, and leaves the number of rows shown for SQLRowCount.
NoDataMeansAllShown ==
  returned = "no_data" /\ result_set /\ size > 0 =>
    /\ row_count = affected_row_count
    /\ affected_row_count >= last
    /\ aligned => affected_row_count = last

\* A fetch that succeeds and has columns bound leaves a status for every row
\* of the array: success for the rows fetched, SQL_ROW_NOROW for the others.
StatusTellsRows ==
  returned = "success" /\ bound =>
    /\ rows_fetched = Len(row_set)
    /\ \A i \in 1..size : row_status[i] = IF i <= rows_fetched THEN "success" ELSE "no_row"

\* The read-ahead never holds more than one request's worth of rows.
PrefetchBounded ==
  \/ Len(prefetched_rows) <= MaxSize
  \/ Len(prefetched_rows) <= PrefetchAtLeast

\* The rows come to the application in windows that neither overlap nor leave
\* a gap, however reading ahead, failures and window sizes mix.
Cursor == INSTANCE RowCursor WITH shown <- row_set, passed <- affected_row_count

ShowsRowsInOrder == Cursor!Spec

\* A row is shown only if all of it was read: a reused Row brings its capacity
\* and not its content (object_pool.h:8), and an incomplete read is reported by
\* an exception (amortized_istream_reader.h:15).
TornRowNotShown ==
  [][\A i \in DOMAIN row_set' : row_set'[i] # Torn]_vars
-----------------------------------------------------------------------------
(* The invariant that the properties follow from.                          *)

\* The rows of the queue come right after those shown so far.
QueueInPlace ==
  \A i \in 1..Len(prefetched_rows) : prefetched_rows[i] \in {affected_row_count + i, Torn}

\* The window ends with the last row shown, and its position counts from there.
WindowInPlace ==
  /\ Len(row_set) <= affected_row_count
  /\ \A i \in 1..Len(row_set) :
       row_set[i] \in {affected_row_count - Len(row_set) + i, Torn}
  /\ row_set # <<>> => row_position = row_set_position
  /\ \/ row_set_position + Len(row_set) = affected_row_count + 1
     \/ /\ row_set = <<>>
        /\ row_set_position = 0
        /\ affected_row_count = 0 \/ (finished /\ prefetched_rows = <<>>)

\* The reader stands right after the queue, or past every complete row.
ReaderInPlace ==
  /\ next <= last + 1
  /\ aligned => next = affected_row_count + Len(prefetched_rows) + 1
  /\ ~aligned => next = last + 1 /\ affected_row_count + Len(prefetched_rows) >= last
  /\ finished => next = last + 1

\* No call asks for more than one request's worth of rows.
TargetBounded == target <= MaxSize \/ target <= PrefetchAtLeast

\* A call retires the window, fills it and binds its rows in turn.
CallInPlace ==
  /\ phase # "idle" => result_set /\ size > 0 /\ returned = "none"
  /\ phase = "prefetch" => row_set = <<>> /\ (target > 0 \/ prefetched_rows # <<>>)
  /\ phase = "bind" =>
       /\ rows_fetched = Len(row_set) /\ Len(row_set) \in 1..size
       /\ row_idx \in 1..(Len(row_set) + 1)
       /\ bound => \A i \in 1..(row_idx - 1) : row_status[i] = "success"

IInv ==
  /\ TypeOK
  /\ QueueInPlace
  /\ WindowInPlace
  /\ ReaderInPlace
  /\ CallInPlace
  /\ NoDataMeansAllShown
  /\ StatusTellsRows
=============================================================================
