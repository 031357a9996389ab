--------------------------- MODULE StatementExec ---------------------------
(***************************************************************************)
(* The statements of one connection and the HTTP session they share.       *)
(*                                                                         *)
(* A Connection owns one Poco::Net::HTTPClientSession (connection.h:48).   *)
(* Each Statement keeps a raw pointer `in' to the stream of its latest     *)
(* response, but that stream belongs to the session, which destroys it     *)
(* when the next request is sent, whoever sends it.  The module follows    *)
(* every entry point that touches this shared state, and the retry and     *)
(* redirect loop of Statement::requestNextPackOfResultSets one attempt at  *)
(* a time.                                                                 *)
(*                                                                         *)
(* The driver holds no lock: calls on one connection are serialised by the *)
(* caller, so a call in progress (phase # "idle") excludes the others.     *)
(***************************************************************************)
EXTENDS Naturals

CONSTANTS
  Stmts,          \* statement handles of the connection
  Queries,        \* query texts
  RetryCount,     \* Connection::retry_count (connection.h:49)
  RedirectLimit,  \* Connection::redirect_limit (connection.h:50)
  MaxParamSets,   \* bound on SQL_DESC_ARRAY_SIZE of the parameter descriptor
  None,           \* no statement, no query, no result
  Orphan          \* the owner of unread bytes whose statement was freed

ASSUME RetryCountAssumption == RetryCount \in Nat
ASSUME RedirectLimitAssumption == RedirectLimit \in Nat \ {0}
ASSUME MaxParamSetsAssumption == MaxParamSets \in Nat \ {0}
ASSUME NoneAssumption == None \notin Stmts \cup Queries
ASSUME OrphanAssumption == Orphan \notin Stmts \cup {None}

VARIABLES
  statements,           \* the allocated statements
  is_prepared,          \* Statement::is_prepared
  is_forward_executed,  \* Statement::is_forward_executed
  is_executed,          \* Statement::is_executed
  query,                \* Statement::query
  response,             \* Statement::response is not null
  in,                   \* Statement::in is not null
  reader_query,         \* the query whose result result_reader reads, or None
  reader_set,           \* the parameter set of that result
  next_param_set_idx,   \* Statement::next_param_set_idx
  array_size,           \* SQL_DESC_ARRAY_SIZE of the parameter descriptor
  session,              \* "none": null, "down": not connected, "up": connected
  stream,               \* whose response stream the session holds, or None
  rdstate,              \* "good", or "ended": that stream has eofbit and failbit set
  unread,               \* whose response bytes are left on the socket
  phase,                \* where the call in progress is
  caller,               \* the statement of the call in progress, or None
  kind,                 \* the entry point of the call in progress
  tries,                \* i of the retry loop
  redirect_count,       \* redirect_count of the same loop
  sent                  \* history: the requests that the call has sent already

flagVars == <<is_prepared, is_forward_executed, is_executed, query>>
resultVars == <<reader_query, reader_set, next_param_set_idx>>
streamVars == <<response, in, stream, rdstate>>
socketVars == <<session, unread>>
callVars == <<phase, caller, kind, tries, redirect_count, sent>>
vars == <<statements, array_size, flagVars, resultVars, streamVars, socketVars, callVars>>

Phases == {"idle", "request", "attempt", "free"}
Kinds == {"none", "execute", "forward", "more", "verify"}

\* What the two limits of the connection allow one call to send.
MaxSends == RetryCount + RedirectLimit

TypeOK ==
  /\ statements \subseteq Stmts
  /\ is_prepared \in [Stmts -> BOOLEAN]
  /\ is_forward_executed \in [Stmts -> BOOLEAN]
  /\ is_executed \in [Stmts -> BOOLEAN]
  /\ query \in [Stmts -> Queries \cup {None}]
  /\ response \in [Stmts -> BOOLEAN]
  /\ in \in [Stmts -> BOOLEAN]
  /\ reader_query \in [Stmts -> Queries \cup {None}]
  /\ reader_set \in [Stmts -> Nat]
  /\ next_param_set_idx \in [Stmts -> Nat]
  /\ array_size \in [Stmts -> 0..MaxParamSets]
  /\ session \in {"none", "down", "up"}
  /\ stream \in Stmts \cup {None}
  /\ rdstate \in {"good", "ended"}
  /\ unread \in Stmts \cup {None, Orphan}
  /\ phase \in Phases
  /\ caller \in Stmts \cup {None}
  /\ kind \in Kinds
  /\ tries \in Nat
  /\ redirect_count \in Nat
  /\ sent \in 0..MaxSends

Init ==
  /\ statements = {}
  /\ is_prepared = [s \in Stmts |-> FALSE]
  /\ is_forward_executed = [s \in Stmts |-> FALSE]
  /\ is_executed = [s \in Stmts |-> FALSE]
  /\ query = [s \in Stmts |-> None]
  /\ response = [s \in Stmts |-> FALSE]
  /\ in = [s \in Stmts |-> FALSE]
  /\ reader_query = [s \in Stmts |-> None]
  /\ reader_set = [s \in Stmts |-> 0]
  /\ next_param_set_idx = [s \in Stmts |-> 0]
  /\ array_size = [s \in Stmts |-> 1]
  /\ session = "none"
  /\ stream = None
  /\ rdstate = "good"
  /\ unread = None
  /\ phase = "idle"
  /\ caller = None
  /\ kind = "none"
  /\ tries = 0
  /\ redirect_count = 0
  /\ sent = 0

-----------------------------------------------------------------------------
(* The session, as Poco keeps it.                                          *)

HasReader(s) == reader_query[s] # None

Idle(s) == phase = "idle" /\ s \in statements

\* HTTPClientSession::reset(): the socket is closed and what was on it is
\* gone; the response stream object lives on.
ResetSession ==
  /\ session' = IF session = "up" THEN "down" ELSE session
  /\ unread' = None

\* The istream is read in blocks: a read that meets the end of the response is
\* short, and sets eofbit and failbit together.
StreamFail == rdstate = "ended"
StreamEof == rdstate = "ended"

MustReset_FailedOnly(s) ==
  IF stream = s THEN {StreamFail} ELSE BOOLEAN

\* in->fail() || !in->eof(), where a stream that the session has destroyed may
\* say anything.
MustReset(s) ==
  IF stream = s THEN {StreamFail \/ ~StreamEof} ELSE BOOLEAN

\* The check that opens closeCursor and requestNextPackOfResultSets.
DropUnreadResponse(s) ==
  IF session # "none" /\ response[s] /\ in[s]
  THEN \E reset \in MustReset(s) :
          IF reset THEN ResetSession ELSE UNCHANGED socketVars
  ELSE UNCHANGED socketVars

-----------------------------------------------------------------------------
(* Calls: how a call in progress begins and ends.                          *)

Begin(s, k) ==
  /\ phase' = "request"
  /\ caller' = s
  /\ kind' = k
  /\ UNCHANGED <<tries, redirect_count, sent>>

\* The call returns or throws.  The statement that verifies a connection is
\* freed either way.
End ==
  /\ phase' = IF kind = "verify" THEN "free" ELSE "idle"
  /\ caller' = IF kind = "verify" THEN caller ELSE None
  /\ kind' = IF kind = "verify" THEN kind ELSE "none"
  /\ tries' = 0
  /\ redirect_count' = 0
  /\ sent' = 0

-----------------------------------------------------------------------------
(* Handles and the connection.                                             *)

\* A driver manager lets an application allocate statements only on a
\* connected handle.
AllocStmt(s) ==
  /\ phase = "idle"
  /\ session # "none"
  /\ s \notin statements
  /\ statements' = statements \cup {s}
  /\ UNCHANGED <<array_size, flagVars, resultVars, streamVars, socketVars, callVars>>

\* The members of s as a new Statement has them.
Forget(s) ==
  /\ is_prepared' = [is_prepared EXCEPT ![s] = FALSE]
  /\ is_forward_executed' = [is_forward_executed EXCEPT ![s] = FALSE]
  /\ is_executed' = [is_executed EXCEPT ![s] = FALSE]
  /\ query' = [query EXCEPT ![s] = None]
  /\ response' = [response EXCEPT ![s] = FALSE]
  /\ in' = [in EXCEPT ![s] = FALSE]
  /\ reader_query' = [reader_query EXCEPT ![s] = None]
  /\ reader_set' = [reader_set EXCEPT ![s] = 0]
  /\ next_param_set_idx' = [next_param_set_idx EXCEPT ![s] = 0]
  /\ array_size' = [array_size EXCEPT ![s] = 1]

\* ~Statement frees its members and leaves the session as it is.
Deallocate(s) ==
  /\ statements' = statements \ {s}
  /\ Forget(s)
  /\ stream' = IF stream = s THEN None ELSE stream
  /\ rdstate' = IF stream = s THEN "good" ELSE rdstate
  /\ unread' = IF unread = s THEN Orphan ELSE unread
  /\ UNCHANGED session

FreeStmt(s) ==
  /\ Idle(s)
  /\ Deallocate(s)
  /\ UNCHANGED callVars

\* Connection::connect() replaces the session object, and with it every
\* stream it gave out.
NewSession ==
  /\ session' = "down"
  /\ unread' = None
  /\ stream' = None
  /\ rdstate' = "good"

Connect ==
  /\ phase = "idle"
  /\ session # "up"
  /\ NewSession
  /\ UNCHANGED <<statements, array_size, flagVars, resultVars, response, in, callVars>>

\* connect() with VerifyConnectionEarly: a statement of the driver's own runs
\* "SELECT 1" on the new session.
ConnectAndVerify(s, q) ==
  /\ phase = "idle"
  /\ session # "up"
  /\ s \notin statements
  /\ NewSession
  /\ statements' = statements \cup {s}
  /\ is_prepared' = [is_prepared EXCEPT ![s] = TRUE]
  /\ query' = [query EXCEPT ![s] = q]
  /\ Begin(s, "verify")
  /\ UNCHANGED <<array_size, is_forward_executed, is_executed, resultVars, response, in>>

FreeVerifier ==
  /\ phase = "free"
  /\ Deallocate(caller)
  /\ phase' = "idle"
  /\ caller' = None
  /\ kind' = "none"
  /\ UNCHANGED <<tries, redirect_count, sent>>

\* SQLDisconnect closes the socket; the statements and their readers stay.
Disconnect ==
  /\ phase = "idle"
  /\ session # "none"
  /\ ResetSession
  /\ UNCHANGED <<statements, array_size, flagVars, resultVars, streamVars, callVars>>

SetParamsetSize(s, n) ==
  /\ Idle(s)
  /\ array_size' = [array_size EXCEPT ![s] = n]
  /\ UNCHANGED <<statements, flagVars, resultVars, streamVars, socketVars, callVars>>

-----------------------------------------------------------------------------
(* The statement's operations.                                             *)

\* Statement::closeCursor(), but for is_prepared and query.
Close_KeepReader(s) ==
  /\ DropUnreadResponse(s)
  /\ UNCHANGED <<reader_query, reader_set>>
  /\ in' = [in EXCEPT ![s] = FALSE]
  /\ response' = [response EXCEPT ![s] = FALSE]
  /\ is_executed' = [is_executed EXCEPT ![s] = FALSE]
  /\ is_forward_executed' = [is_forward_executed EXCEPT ![s] = FALSE]

Close(s) ==
  /\ DropUnreadResponse(s)
  /\ reader_query' = [reader_query EXCEPT ![s] = None]
  /\ reader_set' = [reader_set EXCEPT ![s] = 0]
  /\ in' = [in EXCEPT ![s] = FALSE]
  /\ response' = [response EXCEPT ![s] = FALSE]
  /\ is_executed' = [is_executed EXCEPT ![s] = FALSE]
  /\ is_forward_executed' = [is_forward_executed EXCEPT ![s] = FALSE]

\* SQLCloseCursor, SQLFreeStmt(SQL_CLOSE), SQLCancel.
CloseCursor(s) ==
  /\ Idle(s)
  /\ Close(s)
  /\ UNCHANGED <<statements, array_size, is_prepared, query, next_param_set_idx,
                 stream, rdstate, callVars>>

\* Statement::prepareQuery(): the parameter scan may throw (SQLSTATE 42000),
\* after the cursor is closed and the text replaced.
PrepareQuery(s, q, parsed) ==
  /\ Close(s)
  /\ query' = [query EXCEPT ![s] = q]
  /\ is_prepared' = [is_prepared EXCEPT ![s] = parsed]

SQLPrepare(s, q) ==
  /\ Idle(s)
  /\ \E parsed \in BOOLEAN : PrepareQuery(s, q, parsed)
  /\ UNCHANGED <<statements, array_size, next_param_set_idx, stream, rdstate, callVars>>

\* executeQuery() up to the request, when there is a request to make.
StartRun(s, k) ==
  /\ next_param_set_idx' = [next_param_set_idx EXCEPT ![s] = 0]
  /\ Begin(s, k)

\* executeQuery() after forwardExecuteQuery(): the result is already there.
ClaimForwarded(s) ==
  /\ is_forward_executed' = [is_forward_executed EXCEPT ![s] = FALSE]
  /\ UNCHANGED <<statements, array_size, is_prepared, is_executed, query,
                 resultVars, streamVars, socketVars, callVars>>

SQLExecute_Rerun(s) ==
  /\ Idle(s)
  /\ is_prepared[s]
  /\ StartRun(s, "execute")
  /\ UNCHANGED <<statements, array_size, flagVars, reader_query, reader_set,
                 streamVars, socketVars>>

SQLExecute(s) ==
  /\ Idle(s)
  /\ is_prepared[s]
  /\ IF is_executed[s] /\ is_forward_executed[s]
     THEN ClaimForwarded(s)
     ELSE /\ StartRun(s, "execute")
          /\ UNCHANGED <<statements, array_size, flagVars, reader_query, reader_set,
                         streamVars, socketVars>>

\* SQLExecDirect and the catalogue functions: prepareQuery(), then
\* executeQuery() on flags that closeCursor() has just cleared.
SQLExecDirect(s, q) ==
  /\ Idle(s)
  /\ PrepareQuery(s, q, TRUE)
  /\ StartRun(s, "execute")
  /\ UNCHANGED <<statements, array_size, stream, rdstate>>

\* SQLNumResultCols on a prepared statement runs it ahead of SQLExecute.
SQLNumResultCols(s) ==
  /\ Idle(s)
  /\ is_prepared[s]
  /\ ~is_executed[s]
  /\ StartRun(s, "forward")
  /\ UNCHANGED <<statements, array_size, flagVars, reader_query, reader_set,
                 streamVars, socketVars>>

SQLMoreResults(s) ==
  /\ Idle(s)
  /\ is_executed[s]
  /\ Begin(s, "more")
  /\ UNCHANGED <<statements, array_size, flagVars, resultVars, streamVars, socketVars>>

-----------------------------------------------------------------------------
(* Statement::requestNextPackOfResultSets().                               *)

MarkExecuted_ForwardOnly(s) ==
  /\ is_executed' = [is_executed EXCEPT ![s] = @ \/ kind \notin {"more", "forward"}]
  /\ is_forward_executed' = [is_forward_executed EXCEPT ![s] = @ \/ kind = "forward"]
  /\ UNCHANGED <<is_prepared, query>>

\* executeQuery() and forwardExecuteQuery() mark the statement once the
\* request has returned; a throw passes them by.
MarkExecuted(s) ==
  /\ is_executed' = [is_executed EXCEPT ![s] = @ \/ kind # "more"]
  /\ is_forward_executed' = [is_forward_executed EXCEPT ![s] = @ \/ kind = "forward"]
  /\ UNCHANGED <<is_prepared, query>>

DropReader(s) ==
  /\ reader_query' = [reader_query EXCEPT ![s] = None]
  /\ reader_set' = [reader_set EXCEPT ![s] = 0]
  /\ UNCHANGED next_param_set_idx

OpenRequest_KeepReader(s) == DropUnreadResponse(s) /\ UNCHANGED resultVars

OpenRequest_KeepSocket(s) == DropReader(s) /\ UNCHANGED socketVars

\* The old result goes first, then what is left of its response.
OpenRequest(s) == DropReader(s) /\ DropUnreadResponse(s)

\* Every parameter set has been run: there is no result to show.
NoMoreParamSets(s) ==
  /\ phase = "request"
  /\ s = caller
  /\ next_param_set_idx[s] >= array_size[s]
  /\ DropReader(s)
  /\ MarkExecuted(s)
  /\ End
  /\ UNCHANGED <<statements, array_size, streamVars, socketVars>>

\* An unsupported parameter direction throws once the old result is gone.
BadParameter(s) ==
  /\ phase = "request"
  /\ s = caller
  /\ next_param_set_idx[s] < array_size[s]
  /\ OpenRequest(s)
  /\ End
  /\ UNCHANGED <<statements, array_size, flagVars, streamVars>>

StartAttempts(s) ==
  /\ phase = "request"
  /\ s = caller
  /\ next_param_set_idx[s] < array_size[s]
  /\ OpenRequest(s)
  /\ phase' = "attempt"
  /\ tries' = 1
  /\ redirect_count' = 0
  /\ sent' = 0
  /\ UNCHANGED <<statements, array_size, flagVars, streamVars, caller, kind>>

\* sendRequest() has been called once more; the count stops at its bound.
Sent == IF sent < MaxSends THEN sent + 1 ELSE sent

\* sendRequest() destroys the session's stream.  If it throws, `response' and
\* `in' are the old ones; if receiveResponse() does, `response' is new.
RequestLost(s) ==
  /\ phase = "attempt"
  /\ s = caller
  /\ stream' = None
  /\ rdstate' = "good"
  /\ \E created \in BOOLEAN : response' = [response EXCEPT ![s] = @ \/ created]
  /\ UNCHANGED in

AfterIOException_Restart ==
  /\ tries' = 1
  /\ redirect_count' = 0
  /\ sent' = Sent
  /\ UNCHANGED <<phase, caller, kind>>

AfterIOException_RenewRedirects ==
  IF tries > RetryCount
  THEN End
  ELSE /\ tries' = tries + 1
       /\ redirect_count' = 0
       /\ sent' = Sent
       /\ UNCHANGED <<phase, caller, kind>>

\* The handler of the retry loop, after it has reset the session.
AfterIOException ==
  IF tries > RetryCount
  THEN End
  ELSE /\ tries' = tries + 1
       /\ sent' = Sent
       /\ UNCHANGED <<phase, caller, kind, redirect_count>>

\* A refused or broken connection, or bytes of another response where the
\* status line should be.
AttemptFails(s) ==
  /\ RequestLost(s)
  /\ ResetSession
  /\ AfterIOException
  /\ UNCHANGED <<statements, array_size, flagVars, resultVars>>

\* An exception the handler does not catch: a timeout is no Poco::IOException.
\* Poco closes the socket before it rethrows.
AttemptThrows(s) ==
  /\ RequestLost(s)
  /\ ResetSession
  /\ End
  /\ UNCHANGED <<statements, array_size, flagVars, resultVars>>

\* A response can be parsed only where no other is left on the socket.
Reply(s) ==
  /\ phase = "attempt"
  /\ s = caller
  /\ unread = None
  /\ response' = [response EXCEPT ![s] = TRUE]
  /\ in' = [in EXCEPT ![s] = TRUE]
  /\ stream' = s

\* A redirect: the session is reset before anything else is looked at.
RedirectReply(s) ==
  /\ Reply(s)
  /\ session' = "down"
  /\ unread' = None
  /\ rdstate' = "good"

Redirected(s) ==
  /\ RedirectReply(s)
  /\ redirect_count + 1 < RedirectLimit
  /\ redirect_count' = redirect_count + 1
  /\ sent' = Sent
  /\ UNCHANGED <<statements, array_size, flagVars, resultVars, phase, caller, kind, tries>>

RedirectsExceeded(s) ==
  /\ RedirectReply(s)
  /\ redirect_count + 1 >= RedirectLimit
  /\ End
  /\ UNCHANGED <<statements, array_size, flagVars, resultVars>>

\* A redirect without a Location header, or with one that is no URI, throws
\* what the handler of the retry loop does not catch.
RedirectUnreadable(s) ==
  /\ RedirectReply(s)
  /\ End
  /\ UNCHANGED <<statements, array_size, flagVars, resultVars>>

\* Any other status throws once the body has been copied to the message, as
\* far as the connection gave it.
ReplyRefused(s) ==
  /\ Reply(s)
  /\ session' = "up"
  /\ unread' \in {None, s}
  /\ rdstate' = "good"
  /\ End
  /\ UNCHANGED <<statements, array_size, flagVars, resultVars>>

\* A status of 200.  The reader's constructor reads the first block, which may
\* be all there is.
ReplyAccepted(s) ==
  /\ Reply(s)
  /\ session' = "up"
  /\ rdstate' \in {"good", "ended"}
  /\ unread' = IF rdstate' = "ended" THEN None ELSE s

\* make_result_reader() throws: unknown format, or a header cut short.
ReplyUnreadable(s) ==
  /\ ReplyAccepted(s)
  /\ End
  /\ UNCHANGED <<statements, array_size, flagVars, resultVars>>

InstallReader_CountDown(s) ==
  /\ reader_query' = [reader_query EXCEPT ![s] = query[s]]
  /\ reader_set' = [reader_set EXCEPT ![s] = next_param_set_idx[s]]
  /\ next_param_set_idx' = [next_param_set_idx EXCEPT ![s] = @ - 1]

InstallReader(s) ==
  /\ reader_query' = [reader_query EXCEPT ![s] = query[s]]
  /\ reader_set' = [reader_set EXCEPT ![s] = next_param_set_idx[s]]
  /\ next_param_set_idx' = [next_param_set_idx EXCEPT ![s] = @ + 1]

ReplyRead(s) ==
  /\ ReplyAccepted(s)
  /\ InstallReader(s)
  /\ MarkExecuted(s)
  /\ End
  /\ UNCHANGED <<statements, array_size>>

Attempt(s) ==
  \/ AttemptFails(s)
  \/ AttemptThrows(s)
  \/ Redirected(s)
  \/ RedirectsExceeded(s)
  \/ RedirectUnreadable(s)
  \/ ReplyRefused(s)
  \/ ReplyUnreadable(s)
  \/ ReplyRead(s)

-----------------------------------------------------------------------------
(* Fetching, as far as the socket is concerned: the reader's blocks run to *)
(* the end of the response, or the connection breaks under them.  A reader *)
(* whose stream was destroyed changes nothing that is kept here.           *)

ReadToEnd(s) ==
  /\ Idle(s)
  /\ HasReader(s)
  /\ stream = s
  /\ rdstate = "good"
  /\ rdstate' = "ended"
  /\ unread' \in {unread, IF unread = s THEN None ELSE unread}
  /\ UNCHANGED <<statements, array_size, flagVars, resultVars, response, in, stream,
                 session, callVars>>

CallStep ==
  \/ FreeVerifier
  \/ \E s \in Stmts :
       \/ NoMoreParamSets(s)
       \/ BadParameter(s)
       \/ StartAttempts(s)
       \/ Attempt(s)

Next ==
  \/ Connect
  \/ Disconnect
  \/ CallStep
  \/ \E s \in Stmts :
       \/ AllocStmt(s)
       \/ FreeStmt(s)
       \/ CloseCursor(s)
       \/ SQLExecute(s)
       \/ SQLNumResultCols(s)
       \/ SQLMoreResults(s)
       \/ ReadToEnd(s)
       \/ \E n \in 0..MaxParamSets : SetParamsetSize(s, n)
       \/ \E q \in Queries :
            \/ ConnectAndVerify(s, q)
            \/ SQLPrepare(s, q)
            \/ SQLExecDirect(s, q)

Spec == Init /\ [][Next]_vars

\* Every network operation ends: it answers, fails or runs into the timeouts
\* set on the session (connection.cpp:204).
FairSpec == Spec /\ WF_vars(CallStep)

-----------------------------------------------------------------------------
(* What must hold.                                                         *)

\* The flags of a statement agree: a result, and the mark of a result obtained
\* ahead of SQLExecute, exist only on an executed statement, and only a
\* prepared one is executed.  Every entry point of statement.cpp tests one
\* flag and relies on the others, whatever calls failed before.
FlagsCoherent ==
  \A s \in Stmts :
    /\ HasReader(s) => is_executed[s]
    /\ is_forward_executed[s] => is_executed[s]
    /\ is_executed[s] => is_prepared[s] /\ s \in statements

\* executeQuery() has counted from zero again, and the old reader is the first
\* thing that requestNextPackOfResultSets() will drop.
Restarting(s) == phase = "request" /\ caller = s

\* The rows a statement shows are the answer to its current text, for the
\* parameter set just before the next one to send, whichever preparations,
\* executions and requests failed in between.
ResultIsCurrent ==
  \A s \in Stmts : HasReader(s) =>
    /\ reader_query[s] = query[s]
    /\ Restarting(s) \/ reader_set[s] + 1 = next_param_set_idx[s]
    /\ response[s] /\ in[s]

\* Between two calls, bytes left on the socket belong to a response whose
\* statement still holds its stream, and will close the socket before it sends
\* again, or to a statement that was freed (~Statement does not look).
UnreadHasOwner ==
  unread \in Stmts => stream = unread /\ in[unread] /\ response[unread]

\* A statement never sends a request on top of its own unread response: one
\* answer is not taken for the next (statement.cpp:79-81 and 366-371).
NotOverOwnResponse ==
  phase = "attempt" => unread # caller

\* One call sends at most retry_count + redirect_limit requests in all, whatever
\* the order of its failures and redirects: a retry does not renew the redirects
\* that redirect_limit allows, nor a redirect the retries, although the loop of
\* one is inside the loop of the other (statement.cpp:127-157).
SendsBounded == phase = "attempt" => sent < MaxSends

\* An open result loses the stream it reads from only to a request of another
\* statement or to a new session: a statement drops its own reader before its
\* own request destroys the stream (statement.cpp:69).
StreamLostToOthers ==
  [][\A s \in Stmts :
       HasReader(s) /\ stream = s /\ HasReader(s)' /\ stream' # s
         => caller # s]_vars

\* Every call returns: the retry and redirect loop ends however the network
\* behaves.
CallsReturn == phase # "idle" ~> phase = "idle"

\* The promise to the application: each statement shows the results of its
\* text, one per parameter set and in order, and SQLExecute takes over a run
\* made by SQLNumResultCols instead of running the text again.
Cursor == INSTANCE StatementCursor WITH
  text <- query,
  prepared <- is_prepared,
  run <- is_executed,
  described <- is_forward_executed,
  shown <- reader_query,
  position <- next_param_set_idx,
  sets <- array_size

ShowsResultsInOrder == Cursor!Spec

\* Any number of statements may be active on a connection, as SQLGetInfo
\* reports (SQL_MAX_CONCURRENT_ACTIVITIES is 0): a call on one statement leaves
\* the result that another is reading its stream.
ActiveStatementsUnlimited ==
  [][\A s \in Stmts :
       HasReader(s) /\ stream = s /\ caller \in Stmts \ {s} => stream' = s]_vars
-----------------------------------------------------------------------------
(* The invariant that the safety properties follow from.                   *)

\* A call in progress has a statement, which is prepared; a request under way
\* has dropped the statement's result; the verifier is freed last.
CallCoherent ==
  /\ phase = "idle" <=> caller = None
  /\ phase = "idle" <=> kind = "none"
  /\ phase = "free" => kind = "verify"
  /\ phase # "idle" => caller \in statements
  /\ phase \in {"request", "attempt"} =>
       /\ is_prepared[caller]
       /\ ~(is_executed[caller] /\ is_forward_executed[caller] /\ kind # "more")
       /\ kind = "more" => is_executed[caller]
       /\ kind = "forward" => ~is_executed[caller]
  /\ phase = "attempt" =>
       ~HasReader(caller) /\ next_param_set_idx[caller] < array_size[caller]

\* A handle that is not allocated carries nothing over; a prepared statement
\* has a text.
HandlesClean ==
  \A s \in Stmts :
    /\ s \notin statements =>
         /\ ~is_prepared[s] /\ ~response[s] /\ ~in[s]
         /\ query[s] = None
    /\ is_prepared[s] => query[s] # None

\* Bytes are left only on an open socket.
SocketOpen == unread # None => session = "up"

\* Every request but the one about to be sent is counted by one of the loops.
SendsCounted ==
  phase = "attempt" =>
    /\ tries \in 1..RetryCount + 1
    /\ redirect_count < RedirectLimit
    /\ sent = (tries - 1) + redirect_count

IInv ==
  /\ TypeOK
  /\ CallCoherent
  /\ HandlesClean
  /\ SocketOpen
  /\ FlagsCoherent
  /\ ResultIsCurrent
  /\ UnreadHasOwner
  /\ NotOverOwnResponse
  /\ SendsCounted

=============================================================================
