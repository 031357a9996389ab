------------------------ MODULE StatementExec_proofs ------------------------
(***************************************************************************)
(* What holds of StatementExec for every set of statements and queries and *)
(* every retry count, redirect limit and bound on parameter sets.          *)
(***************************************************************************)
EXTENDS StatementExec, TLAPS

\* A freed statement leaves every variable well typed.
LEMMA DeallocateTypes ==
  ASSUME TypeOK, NEW s, Deallocate(s)
  PROVE  /\ statements' \subseteq Stmts
         /\ is_prepared' \in [Stmts -> BOOLEAN]
         /\ is_forward_executed' \in [Stmts -> BOOLEAN]
         /\ is_executed' \in [Stmts -> BOOLEAN]
         /\ query' \in [Stmts -> Queries \cup {None}]
         /\ response' \in [Stmts -> BOOLEAN]
         /\ in' \in [Stmts -> BOOLEAN]
         /\ reader_query' \in [Stmts -> Queries \cup {None}]
         /\ reader_set' \in [Stmts -> Nat]
         /\ next_param_set_idx' \in [Stmts -> Nat]
         /\ array_size' \in [Stmts -> 0..MaxParamSets]
         /\ session' \in {"none", "down", "up"}
         /\ stream' \in Stmts \cup {None}
         /\ rdstate' \in {"good", "ended"}
         /\ unread' \in Stmts \cup {None, Orphan}
<1>1. Forget(s)
  BY DEF Deallocate
<1>2. /\ is_prepared' \in [Stmts -> BOOLEAN]
      /\ is_forward_executed' \in [Stmts -> BOOLEAN]
      /\ is_executed' \in [Stmts -> BOOLEAN]
      /\ response' \in [Stmts -> BOOLEAN]
      /\ in' \in [Stmts -> BOOLEAN]
  BY <1>1 DEF TypeOK, Forget
<1>3. /\ query' \in [Stmts -> Queries \cup {None}]
      /\ reader_query' \in [Stmts -> Queries \cup {None}]
      /\ reader_set' \in [Stmts -> Nat]
      /\ next_param_set_idx' \in [Stmts -> Nat]
  BY <1>1 DEF TypeOK, Forget
<1>4. array_size' \in [Stmts -> 0..MaxParamSets]
  <2>1. 1 \in 0..MaxParamSets
    BY MaxParamSetsAssumption
  <2>2. array_size' = [array_size EXCEPT ![s] = 1]
    BY <1>1 DEF Forget
  <2>3. array_size \in [Stmts -> 0..MaxParamSets]
    BY DEF TypeOK
  <2> QED
    BY <2>1, <2>2, <2>3
<1>5. /\ statements' \subseteq Stmts
      /\ session' \in {"none", "down", "up"}
      /\ stream' \in Stmts \cup {None}
      /\ rdstate' \in {"good", "ended"}
      /\ unread' \in Stmts \cup {None, Orphan}
  BY DEF TypeOK, Deallocate
<1> QED
  BY <1>2, <1>3, <1>4, <1>5

\* Every step of the driver keeps the types.
LEMMA TypeStep == TypeOK /\ [Next]_vars => TypeOK'
<1> USE RetryCountAssumption, RedirectLimitAssumption
<1> USE DEF TypeOK, Phases, Kinds, MaxSends, Sent, RedirectReply
<1>1. ASSUME TypeOK, [Next]_vars PROVE TypeOK'
  <2> USE <1>1
  <2> USE DEF flagVars, resultVars, streamVars, socketVars, callVars
  <2>1. CASE UNCHANGED vars
    BY <2>1 DEF vars
  <2>2. CASE Connect
    BY <2>2 DEF Connect, NewSession
  <2>3. CASE Disconnect
    BY <2>3 DEF Disconnect, ResetSession
  <2>4. CASE FreeVerifier
    BY <2>4, DeallocateTypes DEF FreeVerifier
  <2>5. ASSUME NEW s \in Stmts, NoMoreParamSets(s) PROVE TypeOK'
    BY <2>5 DEF NoMoreParamSets, DropReader, MarkExecuted, End
  <2>6. ASSUME NEW s \in Stmts, BadParameter(s) PROVE TypeOK'
    BY <2>6 DEF BadParameter, OpenRequest, DropReader, DropUnreadResponse, ResetSession, End
  <2>7. ASSUME NEW s \in Stmts, StartAttempts(s) PROVE TypeOK'
    BY <2>7 DEF StartAttempts, OpenRequest, DropReader, DropUnreadResponse, ResetSession
  <2>8. ASSUME NEW s \in Stmts, Attempt(s) PROVE TypeOK'
    <3>1. CASE AttemptFails(s)
      BY <3>1 DEF AttemptFails, RequestLost, ResetSession, AfterIOException, End
    <3>2. CASE AttemptThrows(s)
      BY <3>2 DEF AttemptThrows, RequestLost, ResetSession, End
    <3>3. CASE Redirected(s)
      BY <3>3 DEF Redirected, Reply
    <3>4. CASE RedirectsExceeded(s)
      BY <3>4 DEF RedirectsExceeded, Reply, End
    <3>5. CASE RedirectUnreadable(s)
      BY <3>5 DEF RedirectUnreadable, Reply, End
    <3>6. CASE ReplyRefused(s)
      BY <3>6 DEF ReplyRefused, Reply, End
    <3>7. CASE ReplyUnreadable(s)
      BY <3>7 DEF ReplyUnreadable, ReplyAccepted, Reply, End
    <3>8. CASE ReplyRead(s)
      BY <3>8 DEF ReplyRead, ReplyAccepted, Reply, InstallReader, MarkExecuted, End
    <3> QED BY <2>8, <3>1, <3>2, <3>3, <3>4, <3>5, <3>6, <3>7, <3>8 DEF Attempt
  <2>9. ASSUME NEW s \in Stmts, AllocStmt(s) PROVE TypeOK'
    BY <2>9 DEF AllocStmt
  <2>10. ASSUME NEW s \in Stmts, FreeStmt(s) PROVE TypeOK'
    BY <2>10, DeallocateTypes DEF FreeStmt
  <2>11. ASSUME NEW s \in Stmts, CloseCursor(s) PROVE TypeOK'
    BY <2>11 DEF CloseCursor, Close, DropUnreadResponse, ResetSession
  <2>12. ASSUME NEW s \in Stmts, SQLExecute(s) PROVE TypeOK'
    <3>1. CASE is_executed[s] /\ is_forward_executed[s]
      BY <2>12, <3>1 DEF SQLExecute, ClaimForwarded
    <3>2. CASE ~(is_executed[s] /\ is_forward_executed[s])
      BY <2>12, <3>2 DEF SQLExecute, StartRun, Begin
    <3> QED BY <3>1, <3>2
  <2>13. ASSUME NEW s \in Stmts, SQLNumResultCols(s) PROVE TypeOK'
    BY <2>13 DEF SQLNumResultCols, StartRun, Begin
  <2>14. ASSUME NEW s \in Stmts, SQLMoreResults(s) PROVE TypeOK'
    BY <2>14 DEF SQLMoreResults, Begin
  <2>15. ASSUME NEW s \in Stmts, ReadToEnd(s) PROVE TypeOK'
    BY <2>15 DEF ReadToEnd
  <2>16. ASSUME NEW s \in Stmts, NEW n \in 0..MaxParamSets, SetParamsetSize(s, n)
         PROVE TypeOK'
    BY <2>16 DEF SetParamsetSize
  <2>17. ASSUME NEW s \in Stmts, NEW q \in Queries, ConnectAndVerify(s, q) PROVE TypeOK'
    BY <2>17 DEF ConnectAndVerify, NewSession, Begin
  <2>18. ASSUME NEW s \in Stmts, NEW q \in Queries, SQLPrepare(s, q) PROVE TypeOK'
    BY <2>18 DEF SQLPrepare, PrepareQuery, Close, DropUnreadResponse, ResetSession
  <2>19. ASSUME NEW s \in Stmts, NEW q \in Queries, SQLExecDirect(s, q) PROVE TypeOK'
    BY <2>19 DEF SQLExecDirect, PrepareQuery, Close, DropUnreadResponse, ResetSession,
                 StartRun, Begin
  <2> QED
    BY <2>1, <2>2, <2>3, <2>4, <2>5, <2>6, <2>7, <2>8, <2>9, <2>10, <2>11, <2>12,
       <2>13, <2>14, <2>15, <2>16, <2>17, <2>18, <2>19 DEF Next, CallStep
<1> QED
  BY <1>1

\* Every variable keeps its type: the flags and results of all statements, the
\* session, and the counters of the retry loop (statement.h:99-108).
THEOREM TypeCorrect == Spec => []TypeOK
<1>1. Init => TypeOK
  BY NoneAssumption, MaxParamSetsAssumption, RetryCountAssumption, RedirectLimitAssumption
     DEF Init, TypeOK, Phases, Kinds, MaxSends
<1>2. TypeOK /\ [Next]_vars => TypeOK'
  BY TypeStep
<1> QED
  BY <1>1, <1>2, PTL DEF Spec

\* No step of the driver breaks the invariant.
LEMMA InvStep == IInv /\ [Next]_vars => IInv'
<1> SUFFICES ASSUME IInv, [Next]_vars PROVE IInv'
  OBVIOUS
<1>0. TypeOK'
  BY TypeStep DEF IInv
<1> USE NoneAssumption, OrphanAssumption
    DEF IInv, TypeOK, Phases, Kinds, CallCoherent, HandlesClean, SocketOpen,
        FlagsCoherent, ResultIsCurrent, UnreadHasOwner, NotOverOwnResponse,
        SendsCounted, HasReader, Restarting,
        flagVars, resultVars, streamVars, socketVars, callVars
<1>1. ASSUME UNCHANGED vars PROVE IInv'
  BY <1>0, <1>1 DEF vars
<1>2. ASSUME Connect PROVE IInv'
  BY <1>0, <1>2 DEF Connect, NewSession
<1>3. ASSUME Disconnect PROVE IInv'
  BY <1>0, <1>3 DEF Disconnect, ResetSession
<1>4. ASSUME FreeVerifier PROVE IInv'
  <2>1. CallCoherent'
    BY <1>4 DEF FreeVerifier, Deallocate, Forget
  <2>2. HandlesClean'
    BY <1>4 DEF FreeVerifier, Deallocate, Forget
  <2>3. SocketOpen'
    BY <1>4 DEF FreeVerifier, Deallocate, Forget
  <2>4. FlagsCoherent'
    BY <1>4 DEF FreeVerifier, Deallocate, Forget
  <2>5. ResultIsCurrent'
    BY <1>4 DEF FreeVerifier, Deallocate, Forget
  <2>6. UnreadHasOwner'
    BY <1>4 DEF FreeVerifier, Deallocate, Forget
  <2>7. NotOverOwnResponse'
    BY <1>4 DEF FreeVerifier, Deallocate, Forget
  <2>8. SendsCounted'
    BY <1>4 DEF FreeVerifier, Deallocate, Forget
  <2> QED
    BY ONLY <1>0, <2>1, <2>2, <2>3, <2>4, <2>5, <2>6, <2>7, <2>8 DEF IInv
<1>5. ASSUME NEW s \in Stmts, NoMoreParamSets(s) PROVE IInv'
  BY <1>0, <1>5 DEF NoMoreParamSets, DropReader, MarkExecuted, End
<1>6. ASSUME NEW s \in Stmts, BadParameter(s) PROVE IInv'
  BY <1>0, <1>6 DEF BadParameter, OpenRequest, DropReader, DropUnreadResponse,
         MustReset, StreamFail, StreamEof, ResetSession, End
<1>7. ASSUME NEW s \in Stmts, StartAttempts(s) PROVE IInv'
  BY <1>0, <1>7, RetryCountAssumption, RedirectLimitAssumption DEF StartAttempts,
         OpenRequest, DropReader, DropUnreadResponse, MustReset, StreamFail,
         StreamEof, ResetSession
<1>8. ASSUME NEW s \in Stmts, AttemptFails(s) PROVE IInv'
  <2>1. SendsCounted'
    BY <1>8, RetryCountAssumption, RedirectLimitAssumption DEF AttemptFails,
           AfterIOException, End, Sent, MaxSends
  <2>2. CallCoherent'
    <3>1. CASE tries > RetryCount
      BY <1>8, <3>1 DEF AttemptFails, RequestLost, AfterIOException, End
    <3>2. CASE ~(tries > RetryCount)
      BY <1>8, <3>2 DEF AttemptFails, RequestLost, AfterIOException
    <3> QED
      BY <3>1, <3>2
  <2>3. UnreadHasOwner' /\ SocketOpen'
    BY <1>8 DEF AttemptFails, ResetSession
  <2>4. NotOverOwnResponse'
    <3>1. phase' = "attempt" => caller' = caller /\ caller \in Stmts
      BY <1>8 DEF AttemptFails, RequestLost, AfterIOException, End
    <3>2. unread' = None
      BY <1>8 DEF AttemptFails, ResetSession
    <3> QED
      BY <3>1, <3>2
  <2>5. HandlesClean' /\ FlagsCoherent'
    BY <1>8 DEF AttemptFails, RequestLost
  <2>6. ResultIsCurrent'
    BY <1>8 DEF AttemptFails, RequestLost
  <2> QED
    BY ONLY <1>0, <2>1, <2>2, <2>3, <2>4, <2>5, <2>6 DEF IInv
<1>9. ASSUME NEW s \in Stmts, AttemptThrows(s) PROVE IInv'
  BY <1>0, <1>9 DEF AttemptThrows, RequestLost, ResetSession, End
<1>10. ASSUME NEW s \in Stmts, Redirected(s) PROVE IInv'
  <2>1. SendsCounted'
    BY <1>10, RetryCountAssumption, RedirectLimitAssumption DEF Redirected, RedirectReply,
           Reply, Sent, MaxSends
  <2>2. CallCoherent'
    BY <1>10 DEF Redirected
  <2>3. UnreadHasOwner' /\ NotOverOwnResponse' /\ SocketOpen'
    BY <1>10 DEF Redirected, RedirectReply
  <2>4. HandlesClean' /\ FlagsCoherent'
    BY <1>10 DEF Redirected, RedirectReply, Reply
  <2>5. ResultIsCurrent'
    BY <1>10 DEF Redirected, RedirectReply, Reply
  <2> QED
    BY ONLY <1>0, <2>1, <2>2, <2>3, <2>4, <2>5 DEF IInv
<1>11. ASSUME NEW s \in Stmts, RedirectsExceeded(s) \/ RedirectUnreadable(s) PROVE IInv'
  <2>1. CASE RedirectsExceeded(s)
    BY <1>0, <2>1 DEF RedirectsExceeded, RedirectReply, Reply, End
  <2>2. CASE RedirectUnreadable(s)
    BY <1>0, <2>2 DEF RedirectUnreadable, RedirectReply, Reply, End
  <2> QED
    BY ONLY <1>11, <2>1, <2>2
<1>12. ASSUME NEW s \in Stmts, ReplyRefused(s) PROVE IInv'
  BY <1>0, <1>12 DEF ReplyRefused, Reply, End
<1>13. ASSUME NEW s \in Stmts, ReplyUnreadable(s) PROVE IInv'
  BY <1>0, <1>13 DEF ReplyUnreadable, ReplyAccepted, Reply, End
<1>14. ASSUME NEW s \in Stmts, ReplyRead(s) PROVE IInv'
  BY <1>0, <1>14 DEF ReplyRead, ReplyAccepted, Reply, InstallReader, MarkExecuted,
         End
<1>15. ASSUME NEW s \in Stmts, AllocStmt(s) PROVE IInv'
  BY <1>0, <1>15 DEF AllocStmt
<1>16. ASSUME NEW s \in Stmts, FreeStmt(s) PROVE IInv'
  <2>1. CallCoherent'
    BY <1>16 DEF FreeStmt, Idle, Deallocate, Forget
  <2>2. HandlesClean'
    BY <1>16 DEF FreeStmt, Idle, Deallocate, Forget
  <2>3. SocketOpen'
    BY <1>16 DEF FreeStmt, Idle, Deallocate, Forget
  <2>4. FlagsCoherent'
    BY <1>16 DEF FreeStmt, Idle, Deallocate, Forget
  <2>5. ResultIsCurrent'
    BY <1>16 DEF FreeStmt, Idle, Deallocate, Forget
  <2>6. UnreadHasOwner'
    BY <1>16 DEF FreeStmt, Idle, Deallocate, Forget
  <2>7. NotOverOwnResponse'
    BY <1>16 DEF FreeStmt, Idle, Deallocate, Forget
  <2>8. SendsCounted'
    BY <1>16 DEF FreeStmt, Idle, Deallocate, Forget
  <2> QED
    BY ONLY <1>0, <2>1, <2>2, <2>3, <2>4, <2>5, <2>6, <2>7, <2>8 DEF IInv
<1>17. ASSUME NEW s \in Stmts, CloseCursor(s) PROVE IInv'
  BY <1>0, <1>17 DEF CloseCursor, Idle, Close, DropUnreadResponse, MustReset,
         StreamFail, StreamEof, ResetSession
<1>18. ASSUME NEW s \in Stmts, SQLExecute(s) PROVE IInv'
  <2>1. CallCoherent'
    BY <1>18 DEF SQLExecute, Idle, ClaimForwarded, StartRun, Begin
  <2>2. HandlesClean'
    BY <1>18 DEF SQLExecute, Idle, ClaimForwarded, StartRun, Begin
  <2>3. SocketOpen'
    BY <1>18 DEF SQLExecute, Idle, ClaimForwarded, StartRun, Begin
  <2>4. FlagsCoherent'
    BY <1>18 DEF SQLExecute, Idle, ClaimForwarded, StartRun, Begin
  <2>5. ResultIsCurrent'
    BY <1>18 DEF SQLExecute, Idle, ClaimForwarded, StartRun, Begin
  <2>6. UnreadHasOwner'
    BY <1>18 DEF SQLExecute, Idle, ClaimForwarded, StartRun, Begin
  <2>7. NotOverOwnResponse'
    BY <1>18 DEF SQLExecute, Idle, ClaimForwarded, StartRun, Begin
  <2>8. SendsCounted'
    BY <1>18 DEF SQLExecute, Idle, ClaimForwarded, StartRun, Begin
  <2> QED
    BY ONLY <1>0, <2>1, <2>2, <2>3, <2>4, <2>5, <2>6, <2>7, <2>8 DEF IInv
<1>19. ASSUME NEW s \in Stmts, SQLNumResultCols(s) PROVE IInv'
  BY <1>0, <1>19 DEF SQLNumResultCols, Idle, StartRun, Begin
<1>20. ASSUME NEW s \in Stmts, SQLMoreResults(s) PROVE IInv'
  BY <1>0, <1>20 DEF SQLMoreResults, Idle, Begin
<1>21. ASSUME NEW s \in Stmts, ReadToEnd(s) PROVE IInv'
  BY <1>0, <1>21 DEF ReadToEnd, Idle
<1>22. ASSUME NEW s \in Stmts, NEW n \in 0..MaxParamSets, SetParamsetSize(s, n) PROVE IInv'
  BY <1>0, <1>22 DEF SetParamsetSize, Idle
<1>23. ASSUME NEW s \in Stmts, NEW q \in Queries, ConnectAndVerify(s, q) PROVE IInv'
  BY <1>0, <1>23 DEF ConnectAndVerify, NewSession, Begin
<1>24. ASSUME NEW s \in Stmts, NEW q \in Queries, SQLPrepare(s, q) PROVE IInv'
  BY <1>0, <1>24 DEF SQLPrepare, Idle, PrepareQuery, Close, DropUnreadResponse,
         MustReset, StreamFail, StreamEof, ResetSession
<1>25. ASSUME NEW s \in Stmts, NEW q \in Queries, SQLExecDirect(s, q) PROVE IInv'
  BY <1>0, <1>25 DEF SQLExecDirect, Idle, PrepareQuery, Close, DropUnreadResponse,
         MustReset, StreamFail, StreamEof, ResetSession, StartRun, Begin
<1> QED
  BY ONLY [Next]_vars, <1>1, <1>2, <1>3, <1>4, <1>5, <1>6, <1>7, <1>8, <1>9, <1>10,
     <1>11, <1>12, <1>13, <1>14, <1>15, <1>16, <1>17, <1>18, <1>19, <1>20, <1>21,
     <1>22, <1>23, <1>24, <1>25 DEF Next, CallStep, Attempt

\* The invariant holds of every state the driver can be in.
LEMMA Invariant == Spec => []IInv
<1>1. Init => IInv
  <2>1. Init => TypeOK
    BY NoneAssumption, MaxParamSetsAssumption, RetryCountAssumption, RedirectLimitAssumption
     DEF Init, TypeOK, Phases, Kinds, MaxSends
  <2> QED
    BY <2>1, NoneAssumption DEF Init, IInv, CallCoherent, HandlesClean, SocketOpen, FlagsCoherent,
                ResultIsCurrent, UnreadHasOwner, NotOverOwnResponse, SendsCounted, HasReader
<1>2. IInv /\ [Next]_vars => IInv'
  BY InvStep
<1> QED
  BY <1>1, <1>2, PTL DEF Spec

\* Whatever calls failed before, the flags that guard executeQuery(),
\* forwardExecuteQuery() and advanceToNextResultSet() agree (statement.cpp:50-66,
\* 328-337, 347-349).
THEOREM FlagsStayCoherent == Spec => []FlagsCoherent
  BY Invariant, PTL DEF IInv

\* A statement never shows the rows of a text or a parameter set other than its
\* latest: no failed preparation or execution leaves an old reader behind
\* (statement.cpp:32-40, 69, 171-177).
THEOREM ResultsStayCurrent == Spec => []ResultIsCurrent
  BY Invariant, PTL DEF IInv

\* Unread bytes always have a statement that will close the socket over them, or
\* had one that was freed (statement.cpp:79-81, 368-371).
THEOREM UnreadIsOwned == Spec => []UnreadHasOwner
  BY Invariant, PTL DEF IInv

\* No request is sent on top of the sender's own unread response
\* (statement.cpp:79-81).
THEOREM NeverOverOwnResponse == Spec => []NotOverOwnResponse
  BY Invariant, PTL DEF IInv

\* Whatever the order of failures and redirects, one call sends at most
\* retry_count + redirect_limit requests: every request but the one about to be
\* sent was counted by one of the two loops, and neither starts its count again
\* within a call (statement.cpp:127-157).
THEOREM SendsStayBounded == Spec => []SendsBounded
<1>1. IInv => SendsBounded
  BY RetryCountAssumption, RedirectLimitAssumption
  DEF IInv, TypeOK, SendsCounted, SendsBounded, MaxSends
<1> QED
  BY <1>1, Invariant, PTL

\* A statement's result is never left behind by its own request: only another
\* statement's request, or a new session, takes the stream from under it
\* (statement.cpp:69, 134; connection.cpp:194).
THEOREM StreamKept == Spec => StreamLostToOthers
<1> DEFINE Kept == \A s \in Stmts :
                      HasReader(s) /\ stream = s /\ HasReader(s)' /\ stream' # s => caller # s
<1>1. IInv /\ [Next]_vars => Kept
  <2> SUFFICES ASSUME IInv, [Next]_vars, NEW u \in Stmts,
                      HasReader(u), stream = u, HasReader(u)', stream' # u, caller = u
               PROVE  FALSE
    OBVIOUS
  <2> USE NoneAssumption DEF HasReader
  <2>1. phase # "idle" /\ phase # "attempt"
    BY DEF IInv, CallCoherent
  <2>2. ASSUME NEW s \in Stmts, Reply(s) \/ RequestLost(s) PROVE FALSE
    BY <2>1, <2>2 DEF Reply, RequestLost
  <2>3. ASSUME NEW s \in Stmts, Attempt(s) PROVE FALSE
    BY <2>2, <2>3 DEF Attempt, AttemptFails, AttemptThrows, Redirected, RedirectsExceeded,
                      RedirectUnreadable, RedirectReply, ReplyRefused, ReplyUnreadable,
                      ReplyRead, ReplyAccepted
  <2>4. CASE FreeVerifier
    BY <2>4 DEF FreeVerifier, Deallocate, Forget, IInv, TypeOK
  <2>5. ASSUME NEW s \in Stmts, NoMoreParamSets(s) \/ BadParameter(s) \/ StartAttempts(s)
        PROVE FALSE
    BY <2>5 DEF NoMoreParamSets, BadParameter, StartAttempts, streamVars
  <2>6. CASE UNCHANGED vars
    BY <2>6 DEF vars, streamVars
  <2> QED
    BY <2>1, <2>3, <2>4, <2>5, <2>6
    DEF Next, CallStep, Connect, Disconnect, AllocStmt, FreeStmt, CloseCursor, SQLExecute,
        SQLNumResultCols, SQLMoreResults, ReadToEnd, SetParamsetSize, ConnectAndVerify,
        SQLPrepare, SQLExecDirect, Idle, streamVars
<1> QED
  BY Invariant, <1>1, PTL DEF Spec, StreamLostToOthers

\* The statements show what StatementCursor promises: the results of their own
\* text, one per parameter set and in order, whatever the session, the retries
\* and the other statements do (statement.cpp:32-66, 171-177, 328-379).
THEOREM Implements == Spec => ShowsResultsInOrder
<1>1. Init => Cursor!Init
  BY DEF Init, Cursor!Init
<1>2. IInv /\ [Next]_vars => [Cursor!Next]_(Cursor!vars)
  <2> SUFFICES ASSUME IInv, [Next]_vars
               PROVE  Cursor!Next \/ UNCHANGED Cursor!vars
    OBVIOUS
  <2> USE DEF Cursor!vars, flagVars, resultVars, streamVars, socketVars, callVars
  <2>1. ASSUME UNCHANGED vars PROVE UNCHANGED Cursor!vars
    BY <2>1 DEF vars
  <2>2. ASSUME NEW s \in Stmts, Deallocate(s) PROVE Cursor!Prepare(s)
    BY <2>2 DEF Deallocate, Forget, Cursor!Prepare
  <2>3. ASSUME NEW s \in Stmts, FreeStmt(s) PROVE Cursor!Prepare(s)
    BY <2>2, <2>3 DEF FreeStmt
  <2>4. ASSUME FreeVerifier PROVE Cursor!Prepare(caller)
    BY <2>2, <2>4 DEF FreeVerifier, IInv, TypeOK, CallCoherent
  <2>5. ASSUME NEW s \in Stmts, NoMoreParamSets(s) PROVE Cursor!Finish(s)
    BY <2>5 DEF NoMoreParamSets, DropReader, MarkExecuted, Cursor!Finish, IInv, TypeOK,
                CallCoherent
  <2>6. ASSUME NEW s \in Stmts, BadParameter(s) \/ StartAttempts(s) PROVE Cursor!Hide(s)
    BY <2>6 DEF BadParameter, StartAttempts, OpenRequest, DropReader, Cursor!Hide, IInv,
                CallCoherent
  <2>7. ASSUME NEW s \in Stmts, AttemptFails(s) \/ AttemptThrows(s) PROVE UNCHANGED Cursor!vars
    BY <2>7 DEF AttemptFails, AttemptThrows
  <2>8. ASSUME NEW s \in Stmts,
               \/ Redirected(s) \/ RedirectsExceeded(s)
               \/ RedirectUnreadable(s) \/ ReplyRefused(s) \/ ReplyUnreadable(s)
        PROVE  UNCHANGED Cursor!vars
    BY <2>8 DEF Redirected, RedirectsExceeded, RedirectUnreadable, ReplyRefused, ReplyUnreadable
  <2>9. ASSUME NEW s \in Stmts, ReplyRead(s) PROVE Cursor!Show(s)
    BY <2>9 DEF ReplyRead, ReplyAccepted, Reply, InstallReader, MarkExecuted, Cursor!Show,
                HasReader, IInv, TypeOK, CallCoherent
  <2>10. ASSUME NEW s \in Stmts, AllocStmt(s) \/ SQLMoreResults(s) \/ ReadToEnd(s)
         PROVE  UNCHANGED Cursor!vars
    BY <2>10 DEF AllocStmt, SQLMoreResults, ReadToEnd
  <2>11. ASSUME NEW s \in Stmts, CloseCursor(s) PROVE Cursor!Close(s)
    BY <2>11 DEF CloseCursor, Close, Cursor!Close
  <2>12. ASSUME NEW s \in Stmts, SQLExecute(s) PROVE Cursor!Claim(s) \/ Cursor!Begin(s)
    BY <2>12 DEF SQLExecute, ClaimForwarded, StartRun, Cursor!Claim, Cursor!Begin
  <2>13. ASSUME NEW s \in Stmts, SQLNumResultCols(s) PROVE Cursor!Begin(s)
    BY <2>13 DEF SQLNumResultCols, StartRun, Cursor!Begin
  <2>14. ASSUME NEW s \in Stmts, NEW n \in 0..MaxParamSets, SetParamsetSize(s, n)
         PROVE  Cursor!Resize(s)
    BY <2>14, MaxParamSetsAssumption DEF SetParamsetSize, Cursor!Resize, IInv, TypeOK
  <2>15. ASSUME NEW s \in Stmts, NEW q \in Queries, ConnectAndVerify(s, q)
         PROVE  Cursor!Prepare(s)
    <3>1. ~is_executed[s] /\ ~is_forward_executed[s] /\ reader_query[s] = None
      BY <2>15 DEF ConnectAndVerify, IInv, FlagsCoherent, HasReader
    <3>2. /\ is_executed = [is_executed EXCEPT ![s] = FALSE]
          /\ is_forward_executed = [is_forward_executed EXCEPT ![s] = FALSE]
          /\ reader_query = [reader_query EXCEPT ![s] = None]
      BY <3>1 DEF IInv, TypeOK
    <3> QED
      BY <2>15, <3>2, NoneAssumption DEF ConnectAndVerify, Cursor!Prepare
  <2>16. ASSUME NEW s \in Stmts, NEW q \in Queries, NEW parsed \in BOOLEAN,
                PrepareQuery(s, q, parsed), UNCHANGED <<next_param_set_idx, array_size>>
         PROVE  Cursor!Prepare(s)
    BY <2>16, NoneAssumption DEF PrepareQuery, Close, Cursor!Prepare
  <2>17. ASSUME NEW s \in Stmts, NEW q \in Queries, SQLPrepare(s, q)
         PROVE  Cursor!Prepare(s)
    BY <2>16, <2>17 DEF SQLPrepare
  <2>18. ASSUME NEW s \in Stmts, NEW q \in Queries, SQLExecDirect(s, q)
         PROVE  Cursor!Prepare(s)
    BY <2>18, NoneAssumption DEF SQLExecDirect, PrepareQuery, StartRun, Close, Cursor!Prepare
  <2>19. ASSUME Connect \/ Disconnect PROVE UNCHANGED Cursor!vars
    BY <2>19 DEF Connect, Disconnect
  <2>20. FreeVerifier => caller \in Stmts
    BY DEF FreeVerifier, IInv, TypeOK, CallCoherent
  <2> QED
    BY ONLY [Next]_vars, <2>1, <2>3, <2>4, <2>5, <2>6, <2>7, <2>8, <2>9, <2>10, <2>11, <2>12,
       <2>13, <2>14, <2>15, <2>17, <2>18, <2>19, <2>20
    DEF Next, CallStep, Attempt, Cursor!Next
<1> QED
  BY Invariant, <1>1, <1>2, PTL DEF Spec, ShowsResultsInOrder, Cursor!Spec

=============================================================================
