# Verification of the Proton ODBC driver

TLA+ modules for the driver in `src/driver`, the TLC runs that check them on small
instances, and theorems that the TLA+ proof system checks for every value of the
constants. `PROJECT.json` lists the components, runs, findings, hazards and theorems, and
names the source lines of every definition that models code.

To check: `tlc -config MCHandles.cfg MCHandles.tla` and the like for each run of the table
below; `tlapm Fetch_proofs.tla` and the like for each proof module.

## The system

The driver turns ODBC calls into HTTP requests. An application (or a driver manager)
allocates an environment, connections below it, statements and descriptors below those.
A statement executes by POSTing its text over the one `HTTPClientSession` of its
connection; the answer is a stream, read through a buffered reader by a format
(ODBCDriver2 or RowBinary) that yields the rows of a result set; `SQLFetch` copies rows
into buffers described by descriptors.

| part | state | operations | talks to |
|---|---|---|---|
| Statement execution (`statement.cpp`, `connection.cpp`, `api/odbc.cpp`) | three flags, the text, `response`, `in`, `result_reader`, index of the parameter set; per connection one session, retry and redirect limits | prepare, execute, describe, more results, close, free, connect, verify, disconnect | shares the session with the other statements; opens result readers |
| Result sets (`result_set.cpp`, `impl.cpp`) | queue of rows read ahead, current row set, positions, count of rows | open, fetch, bind, close | pulls rows from a format, writes to application buffers |
| Buffered reader (`amortized_istream_reader.h`) | buffer, offset, capacity, over a `std::istream` | `eof`, `get`, `read`, destructor | the stream of the session; used by both formats |
| Handles (`object.h`, `driver.h`, `environment.*`, `connection.*`, `statement.*`) | registry of handles; a map of children per parent; four implicit and four explicit descriptors per statement | allocate, free, set descriptors, destructors | every API call dispatches through the registry |
| Descriptors and parameters (`descriptor.cpp`, `impl.cpp`) | header, records, `SQL_DESC_COUNT` | get, set, copy, bind | statements read them on execute and fetch |
| Diagnostics (`diagnostics.cpp`, `driver.h`) | header and status records per object | reset, fill, get | `Driver::call` wraps every call |
| Configuration (`connection.cpp`, `config.cpp`) | fields of a connection | parse, merge, deduce, save | connection string, DSN, URL |
| Query text (`statement.cpp`), escapes (`escaping/`) | none | scan for parameters, rewrite escapes | before a text is sent |
| Formats, type names, values (`format/`, `utils/`) | none or a stream position | decode, convert, fill buffers | under fetching |
| Catalog functions, attributes, logging, Windows set-up | constants, a log file, dialogs | | execution |

What is hard about it:

- One session, many statements. `sendRequest()` destroys the previous response's stream,
  whichever statement is reading it; a statement keeps a raw pointer to that stream, and
  resets the session by what it sees through it.
- The flags of a statement are tested one at a time by entry points that rely on the
  others; every call can fail in the middle and leave them for the next.
- Retries and redirects are two loops that alternate as the network pleases.
- Reading ahead, row sets whose size changes, rows that cannot be read and conversions
  that throw mix in one fetch.
- The buffer is filled, compacted or reallocated depending on sizes that the response and
  the allocator choose, under a stream that may break.
- Objects are destroyed inside one another's destructors, and a handle is an address that
  is soon used again.

What makes each part correct:

- Statement execution: a result shown is that of the current text and parameter set; a
  statement that failed can be used again; every request starts on a clean session; attempts
  are bounded in all; every call ends.
- Result sets: rows are shown once, in order, and all of them before `SQL_NO_DATA`; numbers
  and statuses tell which row is where, also after a failed fetch.
- Buffered reader: bytes are handed out once and in order; the end is reported exactly when
  it is reached; the buffer does not grow with the response.
- Handles: a handle finds its own object or none; children go before parents and descriptors
  with their statement; nothing leaks or dangles.
- Descriptors: a record beyond the count is never read, and no call that binds or prepares
  brings an old binding back; type, concise type and interval code agree; what is sent for a
  parameter is what it was last bound to.
- Diagnostics: the records on a handle are those of its last call; a return code of error or
  information has a record that says why.
- Configuration: a value comes from the first source that has it, in the order of
  `connection.h:90-93` (connection string, DSN, what is deduced), however often the handle was
  connected before; the session follows the fields.
- Query text: a marker is a question mark or a name exactly outside quotes, and becomes a
  parameter with its own name and type. Escapes: an escape that is known means what it stands
  for at any depth, and a text with one that fails is kept as it is. Type names: a name that the
  driver writes, or makes a reader for, it understands.
- Formats and values: what was given is what comes back through text, wire and buffer, or
  the call says otherwise; text that does not fit is cut, terminated and reported with its
  full length.

There is no concurrency inside the driver: it holds no lock and starts no thread, so calls
on one connection are serialised by the application. What interleaves is calls of several
statements, and the network's outcomes within a call.

## The modules

| module | models | promises |
|---|---|---|
| `StatementExec` | execution and the shared session | `StatementCursor` |
| `Fetch` | fetching from a result set | `RowCursor` |
| `AmortizedReader` | the buffered reader | `ByteStream` |
| `Handles` | handles, ownership, registry | `HandleTree` |
| `Descriptors` | descriptors, binding of columns and parameters | `BoundParameters` |
| `Values`, over `Numerals` | a value from the application's buffer to the server and back | |
| `QueryText`, over `TypeNames` | from the text prepared to the text sent; type names | |
| `Escapes` | the rewriting of one escape sequence | |
| `Configuration` | connecting, and the stages of merging | |

`MCHandles` adds symmetry and a view for TLC; `MCValues`, `MCQueryText` and `MCConfiguration` hold the
inputs that TLC enumerates, and `MCQueryText` joins `QueryText` with `Escapes`; `*_proofs` hold
the theorems. An abstract module on the right is
checked as a property of the one on the left (`INSTANCE ... WITH`). Where there is none, the
property is a definition of the same thing by other means: field by field and not stage by
stage, place by place and not by a scanner, by exact numbers and not by digits. Definitions
named `X_Something` next to `X` are changed forms of `X`, each a plausible mistake in that
code: with one in the place of `X`, the property it is listed for in `PROJECT.json` must fail.

The modules meet where the parts of the driver do. `StatementExec` sends the texts that
`QueryText` makes, of parameters that `Descriptors` holds and `Values` writes out, over the
session that `Configuration` makes; the response goes through `AmortizedReader`, is decoded
as in `Values` and `TypeNames`, queued and shown as in `Fetch`, whose buffers are filled as in
`Values`; and all of it lives in the objects of `Handles`. Each module keeps of its
neighbours what its own properties can tell apart: that a row may be torn or a conversion
may throw for `Fetch`, that a parameter may be refused for `StatementExec`. There is no
module that joins two of them whole: the product would be out of TLC's reach, and what
crosses the seams is in the abstract modules.

### StatementExec

Variables carry the names of the members; `stream` says whose response stream the session
holds, `unread` whose bytes are left on the socket, `phase`, `caller`, `kind`, `tries` and
`redirect_count` where the call in progress is. `sent` is a history variable: how many requests
the call has sent before the one at hand, over both loops. Each entry point is an action. Those that
send a request begin it (`OpenRequest`: the reader is dropped, the session perhaps reset)
and each attempt is an action of its own (`AttemptFails`, `AttemptThrows`, `Redirected`,
`RedirectUnreadable`, `ReplyRefused`, `ReplyAccepted`, ...), so an exception can leave the call at each place the
code can. A text is its identity; the number of its parameter sets is the array size;
`SQLExecDirect` of a text that does not parse leaves what `SQLPrepare` leaves.
`BadParameter` stands for everything that throws between the reset and the request. A redirect
whose `Location` is missing or no URI throws past the handler of the retry loop
(`statement.cpp:142-144`), and the body of a refusal may break off (`statement.cpp:165`), so that
bytes are left on the socket or none.

`StatementCursor` knows the size of the parameter array (`sets`, changed by `Resize`): the cursor
shows a result only of a set below it and ends only at or above it, so that a change of
`SQL_ATTR_PARAMSET_SIZE` between two results cannot make the statement run beyond the array or
stop short of it.

### Fetch

A row of the response is its number, so that a row repeated, lost or out of order shows.
`StartFetch` retires the old row set, `ReadRow`, `ReadThrows` and `ReadEnd` are the steps of
`tryPrefetchRows()`, `TakeRows` and `TakeNothing` the rest of `fetchRowSet()`, `BindRow`,
`BindThrows` and `EndBind` the loop of `fetchBindings()`. `Torn` is a row that was not read
whole: the code leaves it in the queue. Values are not modelled; a conversion succeeds or
throws, with information or an error. `BindThrows` leaves the loop at the row it is at. A
mutator that throws after a row was read (`result_set.cpp:252`) is left out: the only one
is that of `SQLColumns`.

### AmortizedReader

A byte is its number in the body. `TryPrepare` has the four ways of making room: the tail is
large enough, compacting is enough, a new buffer with the rest of the old one, a new buffer.
`MaxSlack` bounds what an allocation may add to the capacity. `get()` is `Read(1)`. The
destructor's loop runs one character at a time with an index of limited width.

### Handles

A handle is an address. `FreeHandle` begins a destruction; until it is over (`destroying` is
empty again) only the innermost destructor moves: `DestroyConnections`,
`DestroyStatements`, `DestroyDescriptors` for the maps of a parent in the order its members
are destroyed, `DeallocateImplicit` for the body of `~Statement()`, `Unregister` for
`~Child()` at the end. Dispatch is through the registry. With
`CH_ODBC_ALLOW_UNSAFE_DISPATCH`, which the build turns on by default, a call that names the
type of its handle casts the handle to a pointer and skips the registry. For a live handle of
that type both ways find the same object, so the model stands for both builds; for any other
handle the default build has undefined behaviour, which is listed as a hazard and not
modelled. `SQLFreeHandle` uses the registry in both builds.

### Descriptors

One statement with its ARD, APD and IPD and descriptors of the application. A record has the
fields that are read by what binds, sends or fetches: the three descriptions of its type and
two pointers. `records` only grows, as the vector of the code does, and `count` goes both ways;
`Fetched` is `getRecord()`, which makes the records up to the number asked for. `SetType`,
`SetConcise` and `SetCode` are the cascade of `onAttrChange()`. A call that throws half-way is
an action of its own (`BindColFails`, `BindParameterFails`) with what it leaves behind.
`ColumnCall` and `ParameterCall` are what most applications use; `DescriptorCall` addresses a
descriptor directly and may do anything, so that the promises are about the others.
Record 0 is left out, and so are the fields that only travel with a record, and a negative
`SQL_DESC_COUNT`, which the code stores as it comes (`impl.cpp:1083`).

### Numerals and Values

A value is bound, written into a text (`readReadyDataTo`), echoed by a server, decoded by one
of two formats, and converted into a buffer (`writeDataFrom`), one step each.
`Numerals` has the numbers: digits into an accumulator that must not overflow, narrow and
wide integers modulo a power of two, floating point text with few digits, decimals and the
bytes of a NUMERIC, lengths read some bits at a time. `Values` has moments, texts, buffers
and the conversions between them. A conversion is the set of its results, empty when it
throws, larger than one where the code leaves the outcome open. `cell` is what the application finds:
the value or the part of the text stored, the terminator, the length reported, how far the
buffer was touched. The widths are constants, so that every edge is a few steps away.
So are the parameters, columns and buffers, of which the module assumes what the code promises of
them (`ParamsAssumption`, `ColumnsAssumption`, `TargetsAssumption`): a value is of its C type and
in its range, no scale is above `MaxScale`, and a column has no moment that the
code takes for an unset date. `Power` is a recursive function, since the provers know nothing of
`^`.

What the properties take from the code as it is: `SQL_NULL_DATA` with a value pointer is sent
as an empty text, and only a missing buffer as `\N`; a length or indicator of 0 counts as
null-terminated; floating point text keeps six digits; a TIME parameter is written `hh:mm:ss`, which
cannot be read back as TIME; the precision of a NUMERIC bounds its bytes and not its digits;
RowBinary narrows integers modulo the width of the buffer. Texts that are neither a number
nor a moment are taken to be of another size than a moment. The non-conservative conversion
of `ODBCDriver2` cannot be reached and is left out.

### QueryText, Escapes and TypeNames

`QueryText` runs the two scanners one character a step: braces and their depth
(`OpenBrace`, `CloseBrace`, `UnexpectedBrace`), then quotes and markers (`Backslash`,
`OpenQuote`, `DoubledQuote`, `CloseQuote`, `QuestionMark`, `NamedMarker`, ...), then the
placeholders are replaced, one a step, by what is bound. A text is a sequence of lexemes.
What one escape sequence becomes is a constant of the module (`RewriteEscape`), so that what
is said of markers holds whatever the rewriter does; the runs give it the one of `Escapes`. A
placeholder is an `@` and a UUID, tried until the query does not contain it: a model value,
unlike any text (`Fresh`). `Escapes` is the lexer with its look-ahead and the recursive rewriter, as operators;
`TypeNames` names the type of a parameter, parses the name that the server sends back, and
derives the type of a column in either format. The parser is a function of lexemes (`Read`) over
a tree whose elements are found by their paths; the wrappers of NULL, which the code goes into by
recursion, are the first element of the first element, down to the `Depth` where there is none.

`EscapesInPlace` says of braces what `MarkersAreParameters` says of quotes: where a sequence
begins and ends is defined place by place, by counting the braces before it (`OpenBraces`), and not
by a scanner with a depth. `TextsAssumption` and `RewriterAssumption` say that what is prepared
and what an escape becomes are texts; `TypesAssumption` that parameters are bound with codes
the driver has names for, and says which type each code is to be (`means`); `NumbersAssumption` that
what is written as a number is no name.

What the code does with texts one might expect otherwise is in the model as it is. The
lexer's token of other characters runs to the next space, so `{fn ABS(?)}` is rewritten only
when a space follows the question mark. `LOCATE` of two arguments and a plain
`CURRENT_TIMESTAMP` as an argument are not rewritten. A brace that nothing opens, also inside
a literal, leaves every escape of the text as it is. The scanner for markers has one variable
for quotes and knows no comments: `PlainQuotes` excepts texts with a quote of one kind inside the
other. SQL type 0 is named `nothing`, and 07002 is never raised.

An escape that fails inside one that is known (`Failing`) leaves part of the text twice, and the
known one is rewritten around it; what `EscapesRewritten` says "is sent as it is" is an outermost
one. The parser of types stops at an underscore, so a column of `low_cardinality(...)` or
`fixed_string(...)` is a string in one format and an exception in the other; `TypeNamesUnderstood`
is about all other names. Both are against what the repository says, and come back below.

### Configuration

`Connect` is `SQLDriverConnect` and, with three keys, `SQLConnect`: the fields are reset, the
connection string is read, the DSN is read, keys are set one after another in the order of
the map, then come the URL, the deduced values and the session, which is perhaps tried by a
query. A bad value leaves the fields set half-way, and so does a URL that Poco cannot read
(`Unreadable`). `expected` is what `AsAsked` says of the same sources, field by field, in the order
that `connection.h:90-93` gives: connection string, DSN, and what is deduced, where a key without a
value is none (`Valued`). The code keeps this order but for two things: the query string of the URL
replaces a database that is given, and an empty value of the connection string hides the DSN's.
`contested` are the fields of which that is so for the sources at hand; they are excepted in
`SourcesInOrder` and `SessionFollows`, field by field. The three parts of `AsDocumentedInPart` are
about them and the two flags: `DefaultsApply`, `GivenDatabaseKept` and `BlankLeavesToDSN`. Attributes may be set before and after (`SetConnectionTimeout`,
`SetCurrentCatalog`). The driver manager is external: it refuses to connect a handle that
is connected, so that 08002 is met only after a failed verification that left the session
connected; and it hands over all the keys of a DSN or makes the driver try those it knows.

Noted while reading, and in the model as they are: `SQL_ATTR_CURRENT_CATALOG` cannot override
the `database` of a URL's query string; attributes set before connecting are reset by
it; `SQL_ATTR_CONNECTION_TIMEOUT` ignores its value; the user of a URL counts only with a
password; `HugeIntAsString` is not among the keys that `readDSNInfo()` tries by itself; of two names for one field the later
in the alphabet wins; the SSL context is made once per process, by the first connection that needs it.

## The runs

| run | configuration | shows |
|---|---|---|
| `exec` | `MCStatementExec.cfg` | with two statements on one session: flags agree, a result shown is current, unread bytes have an owner, no request over one's own unread response, the requests of one call bounded in all; an open result loses its stream only to others; each statement is a `StatementCursor` over the array of its parameters; every call returns |
| `fetch` | `Fetch.cfg` | row numbers and statuses are true, the end of data means all was shown, the queue is bounded; windows are a `RowCursor` |
| `reader` | `AmortizedReader.cfg` | bytes once and in order (`ByteStream`), `eof()` and incomplete reads only when true, the buffer bounded |
| `handles` | `MCHandles.cfg` | registry exact, owners outlive, nothing leaks or dangles; frees are those of a `HandleTree` |
| `descriptors` | `Descriptors.cfg` | the three descriptions of a type agree, no forgotten binding returns, parameters are `BoundParameters` |
| `values` | `Values.cfg` | an echo and a typed column are what was given, or the call says otherwise; a text buffer tells when it is cut |
| `query_text` | `QueryText.cfg` | markers become parameters, known escapes are rewritten where they stand and into what they mean, type names without an underscore are understood when they come back |
| `config` | `Configuration.cfg` | every field that is not contested has the value of its first source; session and requests follow the fields |

Runs that TLC refutes, each for something the repository says of itself and does not do:

| run | said | done |
|---|---|---|
| `shared_session` | `SQL_MAX_CONCURRENT_ACTIVITIES` is 0, no limit (`odbc.cpp:364-381`) | a second statement's request destroys the stream of the first one's open result |
| `torn_row` | an incomplete read is reported by an exception (`amortized_istream_reader.h:15`) | the row stays queued, and the next fetch shows it |
| `formats` | in one time zone the formats treat date and time identically (`README.md:128`) | RowBinary shows dates a day early west of UTC, and fractions in the units of the column |
| `as_documented` | fields are reset to their defaults (`connection.h:87`), off for `VerifyConnectionEarly` and `HugeIntAsString` (`README.md:108`, `113`); they are of the connection string, or of the DSN if uninitialized, or deduced if uninitialized (`connection.h:90-93`, `connection.cpp:452`) | a handle connected again keeps both flags; the database in the URL's query string replaces one that was given; a key without a value in the connection string hides the DSN's value |

`as_documented` refutes the three promises in one state, so its property is their disjunction
(`AsDocumentedInPart`): a connect with verification on fails, and the next one, with the DSN's
database and password, an empty `PWD` and a URL that names another database and password, keeps
the flag and uses what the URL says. Each of the three alone is refuted with it.

Some divergences of the same kind are described here and have no run of their own.
"In case of error, input is returned as-is, with no modifications" (`escape_sequences.h:7`): a
sequence that fails inside a known one returns all of the outer one and leaves its own rest
unread (`escape_sequences.cpp:290-293`, `395`), so that `{fn ABS({fn FOO(1)})}` becomes
`abs({fn ABS({fn FOO(1)})}1)`. A column "is 'FixedString(30)'" and is read
(`column_bindings_it.cpp:38`, `222`, `283`, `455`), and both formats have a reader for it
(`result_set.cpp:97`, `RowBinaryWithNamesAndTypes.cpp:225`): the name stops parsing at its underscore
(`type_parser.cpp:107`), `RowBinaryWithNamesAndTypes.cpp:30` throws, and `ODBCDriver2` takes it for a
string without a size. Closing a
statement without a cursor is called a noop (`odbc.cpp:76`) and may reset the session
under another statement: `UnreadHasOwner` and `StreamLostToOthers` hold with it.
A stream that breaks is taken for its end (`amortized_istream_reader.h:42`), so that a short result
comes without an error: `EofMeansEnd` excepts it. The destructor that puts characters back
(`amortized_istream_reader.h:25`) runs below the front of the buffer from offset 0. An
automatically allocated descriptor is freed by hand with success, though `impl.cpp:73` means to
refuse it: only the connection's map forgets it, the statement still holds it, and
`StatementHasDescriptors` holds.

### Bounds, and why they are enough

- `exec`: two statements are the least that share a session, and a third is only another
  "other" one. Two texts tell a current result from a stale one. One retry and two redirects
  let retries and redirects alternate in both orders and both run out. Two parameter sets
  have a first, a next and a last, and the size may change to 0 in between.
- `fetch`: four rows and sizes 0 to 3 give windows that are full, short and empty, and two
  read-aheads of `PrefetchAtLeast = 2` (100 in the code) below and above the size. `MaxTorn =
  2` bounds the attempts after a row could not be read. The proofs hold for every value.
- `reader`: a minimal read of 3 (8192 in the code) with counts up to 4 lies below and above
  it; a body of 9 takes three refills, and slack up to 2 reaches all four ways of making room.
  `MaxIndex = 31` stands for `2^64 - 1`. The proofs hold for every value.
- `handles`: seven addresses hold an environment with two connections that have a statement
  each, or one with two statements and explicit descriptors, and every one can be used again.
  A statement has one descriptor and not four: the roles are treated alike, by one loop body
  each. `View` leaves out the value returned by the last call, which no checked property of
  that run but its type mentions.
- `descriptors`: two numbers tell the record a call is about from another one below or above
  it. Four calls are enough to bind, forget, grow the count by another call and look;
  one of them may address a descriptor. The types are one plain, one that is concise and one
  that is verbose, each on both sides. The proofs hold for every value.
- `values`, `formats`: base 3, integers of 3 and 4 bits and containers of 30 keep every
  overflow, cut and boundary within a few digits, for numbers, bytes, lengths and fractions;
  a day has 4 seconds and the time zone is one second off. Every combination of a parameter
  or a column, a format and a buffer is tried. The proofs hold for every value.
- `query_text`: texts of up to five characters (`MaxLength`) out of both quotes, the backslash,
  both markers, a letter and a digit hold a doubled quote inside a literal, a backslash before
  a quote and a marker behind it, and names that end at a digit or do not begin with it. As many
  parameters (`MaxParameters`) and placeholders are enough for them, so neither bound is met.
  Two escape sequences, one in the other or side by side, reach every rule and its failure, with
  and without spaces; those of which the inner one fails are apart (`Failing`). Texts of as many braces and words have sequences in one another and side by
  side, left open, and closed twice. Types are those of every code, with two scales, of which one
  is 0 as the size of a type without one. The theorems hold for every text, precision and scale.
- `config`: connection strings of up to five keys out of those that depend on one another,
  two DSNs and five URLs, one of which cannot be read, one after another on the same handle
  without end. The proofs hold for every value.

### Fairness

Only `exec` assumes any, for `CallsReturn`: `WF_vars(CallStep)`, that a call in progress goes on. The
session has connect, send and receive timeouts (`connection.cpp:204`), so each network
operation ends, and between them the code runs without waiting. Nothing is assumed about
the application or about what the network answers.

### What is taken from Poco

From how `src/driver` uses it; marked external in the map. `sendRequest()` destroys the
previous response stream first. Errors of sending and receiving derive from
`Poco::IOException` and are retried; `Poco::TimeoutException` does not, closes the socket and is
not retried. `reset()` closes the socket, while the stream object lives on. Bytes left over from
another response make the parsing of the next one throw. A block read that meets the end sets
eofbit and failbit together, so `in->fail() || !in->eof()` is true of every stream still good or
ended: a statement never sends over its own kept-alive connection, and only other statements
reuse it. An exception of the stream buffer inside `istream::read()` sets badbit, leaves
`gcount()` 0 and the bytes of that block lost.

## The proofs

All theorems are about the specification with its constants left open; they use the named
assumptions of the module and nothing else.

- `StatementExec_proofs`: `IInv` is inductive. It joins the properties with `CallCoherent` (who
  is calling, and what a request has already dropped), `HandlesClean` (a freed statement
  leaves nothing for the next one at its handle) and `SocketOpen` (unread bytes need an open
  socket). Without `CallCoherent` a request could end for a statement that still shows an old
  result, and `ResultIsCurrent` would not survive the step. `SendsCounted` says that the requests sent are the
  retries and the redirects so far together, each below its own limit; `SendsBounded` alone is not
  inductive, since the total does not tell how much of it either loop has left. From it: `TypeCorrect`,
  `FlagsStayCoherent`, `ResultsStayCurrent`, `UnreadIsOwned`, `NeverOverOwnResponse`,
  `SendsStayBounded`, the action property `StreamKept`, and `Implements`: every step of the
  detailed module is one of `StatementCursor` or changes nothing there.
- `Fetch_proofs`: `IInv` joins `QueueInPlace`, `WindowInPlace`, `ReaderInPlace` and
  `CallInPlace`: the rows shown, the window, the queue and the reader's position are four
  consecutive stretches of the response. The row number is true because window and queue
  count from the same number, also after a fetch that threw. From it: `TypeCorrect`,
  `RowNumberStaysTrue`, `NoDataIsTheEnd`, `StatusIsWritten` and `Implements`. For
  `ReadAheadIsBounded` it is joined with `TargetBounded`: what a call asks for is the largest
  size or the least read-ahead, and a row is queued only below that number.
- `AmortizedReader_proofs`: `BufferInPlace` says that the buffer from the offset on holds the
  bytes that come next, and that nothing else was taken; `FailedMeansTaken` that a stream that
  failed without breaking gave all it had. From them: `TypeCorrect`, `EofIsTheEnd`,
  `IncompleteIsShort`, `BufferStaysBounded`, `Implements`.

- `Handles_proofs`: `IInv` joins the properties, in the middle of a destruction too, with
  `ImplicitInPlace` and `ExplicitInPlace` (whose descriptor a pointer is to), `StatementWhole`
  (a statement not in its destructor has all its descriptors, and none of them is being
  destroyed) and `UnmappedDestroyed`. `ParentOutlives` alone is not inductive: that nothing is
  left below an object when it is unregistered follows from `HeldByOwner` (what is not being
  destroyed is in a map, and the maps are empty) and, for descriptors, from `ImplicitInPlace`
  (a descriptor that is in no map is held by a statement of that connection, and there is none).
  `LeftInside` is that argument; one lemma per kind of step carries the rest. From it:
  `TypeCorrect`, `RegistryStaysExact`, `ParentsOutliveChildren`,
  `ObjectsStayHeld`, `StatementsKeepDescriptors`.

  `FreesTheSubtree` is the refinement of `HandleTree`. Its mapping names as freed the outermost
  destructor that is running (`Top`), which needs `Chain`: the destructors that run are of
  different classes, each inside that of its owner. Then every destructor is below the handle
  the call frees, an object leaves the registry when nothing is below it (the argument of
  `LeftInside` again), and the last one to leave is the handle itself. `EnvironmentsOnTop` bounds
  the depth of the forest.
- `Descriptors_proofs`: `TypeOK /\ TypesAgree` is inductive; the agreement of types is kept by
  each setter (`ConciseAgrees`, `TypeAgrees`, `CodeAgrees`) in whatever order they come.
  `Shape` is that invariant of counts and records, and `Entry` what a call does to one
  descriptor: no record but the one it is about enters the count bound. Each call is a few
  entries, and `NothingReturns` follows. For `Implements`, `Parameter` (which reads through
  `getRecord()` and so makes records) is shown to be `SentFor`, which looks at what is
  `There`; then each call keeps, binds or unbinds what `BoundParameters` allows.

- `Values_proofs`: digits, their accumulation and powers are recursive functions, so it begins
  with induction over numbers (`Induction`, `RecursiveFunction`) and with division, of which the
  provers know only the inequalities (`Division`, `Quotient`, `Bounds`). On these rest what the
  digits of a number are and that they give it back (`DigitsAre`, `DigitsValue`, `CountIs`), that
  an accumulator takes a number exactly or tells that it does not fit (`AccumulateCarries`,
  `AccumulateIs`), and one lemma for each conversion: what an integer narrowed (`NarrowIs`), a text
  of a number (`Says`), a rescaled Decimal (`RescaledIs`), a NUMERIC (`NumericFromDecimalIs`) and a
  fraction (`FractionFromTextIs`) are. `Typed`, the invariant, says of every stage which values
  may be there. From it `ValuesFitTheirTypes`, that is `TypeOK`; and `TextBuffersStayHonest` from
  `FillStringIsHonest`, the arithmetic of `fillOutputString()` for units of one and of two bytes,
  for buffers and texts of every size. `LengthsReadAsWritten` is about `ReadSize` alone: a length
  that the server wrote in any number of groups is read as it was or refused, since a group shifted
  out of the width is noticed (`NotCut`).

  The rest is about a value after several conversions in a row. `Amount` measures a number in
  whatever type it is, in units of the last place that any type has (`Place`), and `Near` says what
  may be lost; one lemma for each conversion compares the amounts on its two sides (`IntAsText`,
  `DecimalAsText`, `NumericAsText` and `TextAsDecimal` keep them, `FloatAsText`, `TextAsFloat` and
  `NumericNear` lose less than one unit of a place, `TextAsInt` a multiple of the width).
  `TextIsSame` is the way over a text, `NumberConvertedSame` the one without. A moment is compared
  field by field: the quotient and the remainder that the server's text shows are read back as they
  were (`ServerShowsMoment`, `TimestampReadBack`). `History` is the invariant that a column has what
  was sent or what the server had, and that the field was read of it; `Typed` is needed with it for
  the ranges. From both `ColumnsAreShown`, that is `ColumnIsShown`, and `EchoesStayFaithful`, that
  is `EchoIsFaithful`. The second also says that what fits is not refused: an integer of its type
  (`IntComesBack`), and a NUMERIC with no more digits than its precision, because the same number
  has at most as many bytes as digits (`NumericComesBack`, `PowerWider`). What `ColumnIsShown`
  excepts for RowBinary, times before the epoch and fractions of some lengths, is what the run
  `formats` is about.

- `Configuration_proofs`: connecting is a fold of assignments over keys in the order of a map,
  and `AsAsked` says of each field from which source its value is. `SetByLast` says what a fold
  leaves in a field: what the last key for it set. `Merged`, `UrlFields` and `DefaultsFields` are
  the stages, `StagesAsAsked` their composition, which but for a database that the URL replaces
  (`UrlReplaces`) is `AsAsked` of the sources with their empty values; `Agreed` says that the empty
  values make no difference where a field is not contested. The invariant, `ConnectedInv`, says that
  a connected handle has the fields that were asked for, but for the contested ones, and that its
  session is made of its fields, those included; that its two timeouts are equal is part of it:
  `SQL_ATTR_CONNECTION_TIMEOUT` gives the connection the timeout of requests, and the fields would
  no longer be what was asked for. From it:
  `FieldsFollowTheirSources` and `SessionFollowsTheFields`, for any connection strings, DSNs and
  URLs, and however often the handle is connected. The two flags that are not reset are excepted,
  as in the run.
- `QueryText_proofs`: the property compares a scanner, which rewrites the text it runs over, with
  a definition place by place (`Escaped`, `Opener`, `Markers`, `InName`). Induction over texts
  is derived from the well-foundedness of `<` (`Induction`, `RecursiveFunction`), with a set in
  the place of a predicate; so are the equations of `FlattenSeq`, the open quote (`OpenerNext`)
  and the numbers of markers (`CountNext`, `CountReached`). `ScannerInv` is what the scanner
  keeps: the query is the text up to a place, rewritten, and the rest of it as it was; the
  parameters are those of the markers before that place; the quote that the scanner thinks
  open is the one that is, and the place is neither escaped nor inside a name. `PlainQuotes` is
  needed at one place, where a quote of the other kind meets an open one (`QuoteOpened`).
  `FinalInv` is what the substitution keeps: the first markers have their parameters and the
  others still their placeholders, none of which is in the text before it (`TextWithout`), so
  the first one found is the right one (`FirstPlace`). From them `MarkersBecomeParameters`, for
  texts of any length and any rewriter of escapes that returns a text.

  `BracesRead` is what the scanner of braces knows at a place (`BracesInv`): its depth is the number
  of braces open there, none was closed that was not open, the sequence that is open began where
  it thinks, and what it has returned is the text up to there, rewritten (`EscapedUpTo`).
  `RewrittenInv` says that the text it leaves behind is the one of the property. That the sequences
  it finds are those of `EscapesOf`, no more and no less, is the step that closes a brace at depth
  1. From them `EscapesStayInPlace`, for texts of any length and any rewriter.

  `TypesAreUnderstood` follows the parser from the name to the column. The names that the driver
  writes are of two kinds (`NamesFit`): those with a word that the parser stops at, at the
  beginning or in the wrapper of NULL (`Stopped`), of which only that they are not empty is
  needed, since the property excepts them; and words and decimals (`Body`), in the wrapper or not
  (`Sensible`). `BodyRead`
  says what reading one does to any tree at any element that has none below: the element has the
  type and the sizes (`Types`), and the rest of the tree and the elements still open are as
  before. So the same lemma serves for a name and for a name in the wrapper, where the root stays
  `nullable` and the column is `NULL`able (`PlainRead`, `NullableRead`). It holds for every
  code with a name of the second kind and for any precision and scale that are no names.

Only model-checked:

- Liveness (`CallsReturn`), which with `ENABLED` is beyond this prover.
- `EscapesRewritten`: the rewriter is recursive with `RECURSIVE` operators, and its meaning is a
  list of what was meant, entry by entry, so a proof would be the run again. That sequences are
  found, and that nothing else changes, is proved (`EscapesStayInPlace`).

Findings are counterexamples, and need no proof.

## Not modelled

- Diagnostics. Which calls fail, and with which return, is in each module; the texts and
  codes of the records are not. `resetDiag()` leaves most of the header as it is
  (`diagnostics.cpp:84`), and no line says when its other fields are valid, so there is
  nothing to hold it against.
- Catalog functions build a text and execute it; `SQLGetInfo` answers constants. Attributes
  are a map with callbacks and logging is a file; an attribute that matters is in the module of
  the object it belongs to. The Windows dialogs are a user interface.
- The converter between narrow and wide text is taken to be exact; a length in wide
  characters is twice that in narrow ones. Certificates, the user agent and `odbc.ini`
  itself are left out of `Configuration`, as is the splitting of a connection string.
- Allocation failure; the destruction of the driver at process exit, which frees every
  environment at once; two threads calling on one connection, which the driver does not
  support.
- Undefined behaviour with nothing to choose: `SQLFreeStmt(SQL_DROP)` destroys the statement
  whose call it is, and the call then writes its return code there; unsafe dispatch of a
  handle that is not what the call says. Both are listed as hazards.

## The order of the work, and what is left

`StatementExec`, `Fetch`, `AmortizedReader` and `Handles` came first, as what everything else
rests on; then `Descriptors`; then the algorithms over texts and values; then
`Configuration`. All of them are done. Proved are the properties of all of them but those listed
above as only model-checked. Two things more could be added. A composition of `Fetch` over
`AmortizedReader`, with rows as stretches of bytes, would derive where a torn row begins instead
of assuming that it may begin anywhere.
A module of the diagnostics would become worth its while once the driver documents when the
fields of their header are valid.
