---------------------------- MODULE Configuration ----------------------------
(***************************************************************************)
(* How a connection is configured and reconfigured (connection.cpp,        *)
(* config.cpp): the connection string, the section of a DSN, the URL and   *)
(* the defaults are merged in stages, each of which reads what the earlier *)
(* ones wrote; then a session is made, and perhaps tried.                  *)
(*                                                                         *)
(* A connection string is a sequence of <<key, value>>, already split; a   *)
(* pair without a key stands for one that cannot be split.  What only      *)
(* travels with the fields (the file names of certificates, the user       *)
(* agent) and the log are left out.                                        *)
(*                                                                         *)
(* The driver manager, outside of the repository, refuses to connect a     *)
(* connected handle or to disconnect another, and hands over the keys of a *)
(* DSN: some versions hand over the first one only, so that readDSNInfo()  *)
(* tries the keys it knows.                                                *)
(***************************************************************************)
EXTENDS Naturals, Sequences, SequencesExt, TLC

CONSTANTS
  Strings,      \* the connection strings applications use
  Sections,     \* from the name of a DSN to its keys and values
  Uri,          \* from the URLs that can be parsed to their parts
  NumberOf,     \* from the texts that are numbers to these
  Catalogs,     \* what SQL_ATTR_CURRENT_CATALOG is set to
  None          \* no session yet, no policy yet

\* The text without characters.
Empty == ""

ASSUME UrisAssumption == \A u \in DOMAIN Uri :
  Uri[u].scheme \in {Empty, "http", "https"} /\ Uri[u].port \in Nat

VARIABLES
  fields,       \* the configuration fields of the Connection
  session,      \* its HTTP session, or None
  sslPolicy,    \* of the process: what the first https session asked for
  open,         \* the driver manager's view: connected
  expected,     \* while open, what the application has asked for
  contested     \* while open, the fields on which its sources disagree

vars == <<fields, session, sslPolicy, open, expected, contested>>

-----------------------------------------------------------------------------
(* The keys and their values *)

\* The recognised keys, in the order in which a map without case holds them,
\* and the field that each one sets.
KeyOrder == <<"Database", "DSN", "Host", "HugeIntAsString",
  "Password", "Path", "Port", "Proto", "PWD", "Server", "SSLMode",
  "StringMaxLength", "Timeout", "UID", "Url", "Username",
  "VerifyConnectionEarly">>

FieldOf == [Database |-> "database", DSN |-> "dsn",
  Host |-> "server", HugeIntAsString |-> "huge_int_as_string",
  Password |-> "password", Path |-> "path", Port |-> "port",
  Proto |-> "proto", PWD |-> "password", Server |-> "server",
  SSLMode |-> "sslmode", StringMaxLength |-> "stringmaxlength",
  Timeout |-> "timeout", UID |-> "username", Url |-> "url",
  Username |-> "username", VerifyConnectionEarly |-> "verify_connection_early"]

NumberKeys == {"Port", "StringMaxLength", "Timeout"}
FlagKeys == {"HugeIntAsString", "VerifyConnectionEarly"}

\* What an SQLINTEGER holds.
MaxInt32 == 2147483647

\* An empty text is a value of every key; a user's name has no colon.
Valid(k, v) ==
  \/ v = Empty
  \/ k \notin NumberKeys \cup FlagKeys \cup {"UID", "Username", "Proto", "SSLMode"}
  \/ k \in {"UID", "Username"} /\ v # "a:b"
  \/ k = "Proto" /\ v \in {"http", "https"}
  \/ k = "SSLMode" /\ v \in {"allow", "prefer", "require"}
  \/ k \in FlagKeys /\ v \in {"on", "off"}
  \/ k = "Timeout" /\ v \in DOMAIN NumberOf
  \/ k = "Port" /\ v \in DOMAIN NumberOf /\ NumberOf[v] \in 1 .. 65535
  \/ k = "StringMaxLength" /\ v \in DOMAIN NumberOf /\ NumberOf[v] \in 1 .. MaxInt32

Typed(k, v) ==
  CASE k \in NumberKeys -> IF v = Empty THEN 0 ELSE NumberOf[v]
    [] k \in FlagKeys -> v = "on"
    [] OTHER -> v

\* The first value of a key is the one; DSN gives way to FILEDSN and DRIVER,
\* and these to DSN, whichever comes first.
Hidden(k, met) ==
  \/ k \in met
  \/ k = "DSN" /\ met \cap {"FileDSN", "Driver"} # {}
  \/ k \in {"FileDSN", "Driver"} /\ "DSN" \in met

ReadConnectionString(pairs) ==
  FoldLeft(LAMBDA met, p : IF Hidden(p[1], DOMAIN met) THEN met ELSE met @@ (p[1] :> p[2]),
           <<>>, pairs)

\* What may be read of a DSN: the keys readDSNInfo() tries by itself are all
\* but one.
ReadDSNInfo(name) ==
  LET section == IF name \in DOMAIN Sections THEN Sections[name] ELSE <<>>
      keys == DOMAIN section \ {"Driver", "Description", "DSN", "FileDSN", "SaveFile"}
  IN  {[k \in keys \ unlisted |-> section[k]] : unlisted \in {{}, {"HugeIntAsString"}}}

-----------------------------------------------------------------------------
(* The stages *)

Blank == [dsn |-> Empty, url |-> Empty, proto |-> Empty, username |-> Empty,
  password |-> Empty, server |-> Empty, port |-> 0, connection_timeout |-> 0,
  timeout |-> 0, verify_connection_early |-> FALSE, sslmode |-> Empty,
  path |-> Empty, default_format |-> Empty, database |-> Empty,
  huge_int_as_string |-> FALSE, stringmaxlength |-> 0]

\* Mutant: the database stays as well.
Reset_KeepDatabase(f) ==
  [Blank EXCEPT !.database = f.database,
                !.verify_connection_early = f.verify_connection_early,
                !.huge_int_as_string = f.huge_int_as_string]

\* resetConfiguration() leaves the two flags as they are.
Reset(f) ==
  [Blank EXCEPT !.verify_connection_early = f.verify_connection_early,
                !.huge_int_as_string = f.huge_int_as_string]

\* Key by key in the order of the map, so that the last key of a field is the
\* one; a bad value throws and leaves what is set by then.
SetAll(start, given, skip) ==
  LET wanted == {n \in DOMAIN KeyOrder : KeyOrder[n] \in DOMAIN given \ skip}
      bad == {n \in wanted : ~Valid(KeyOrder[n], given[KeyOrder[n]])}
      setting(f) == {n \in wanted : FieldOf[KeyOrder[n]] = f /\ \A m \in bad : n < m}
      value(f) == LET k == KeyOrder[Max(setting(f))] IN Typed(k, given[k])
  IN  IF ~start.ok THEN start ELSE
      [ok |-> bad = {},
       fields |-> [f \in DOMAIN start.fields |->
                     IF setting(f) = {} THEN start.fields[f] ELSE value(f)]]

Given(f, cs, dsn) ==
  SetAll(SetAll([ok |-> TRUE, fields |-> f], dsn, DOMAIN cs), cs, {})

Or(a, b) == IF a = Empty THEN b ELSE a
OrNumber(n, otherwise) == IF n = 0 THEN otherwise ELSE n

WellKnown == [http |-> 80, https |-> 443]

\* Poco's getPort() answers the well-known port when the URL has none, which
\* is left out only when it is the one of the protocol in use.
PortOf(u, proto) ==
  LET p == IF u.port # 0 THEN u.port
           ELSE IF u.scheme = Empty THEN 0 ELSE WellKnown[u.scheme]
  IN  IF proto \in DOMAIN WellKnown /\ p # WellKnown[proto] THEN p ELSE 0

NoUrl == [scheme |-> Empty, colon |-> FALSE, user |-> Empty, password |-> Empty, host |-> Empty,
          port |-> 0, path |-> Empty, query |-> <<>>]
UrlOf(url) == IF url = Empty THEN NoUrl ELSE Uri[url]
InQuery(u, key, otherwise) == IF key \in DOMAIN u.query THEN u.query[key] ELSE otherwise

\* The parts of the URL fill what is empty, but database and default_format
\* of its query string replace what is there.
FromUrl(f) ==
  LET u == Uri[f.url]
      proto == Or(f.proto, u.scheme)
  IN  IF f.url = Empty THEN f ELSE
      [f EXCEPT
        !.proto = proto,
        !.password = IF u.colon THEN Or(@, u.password) ELSE @,
        !.username = IF u.colon THEN Or(@, u.user) ELSE @,
        !.server = Or(@, u.host),
        !.port = OrNumber(@, PortOf(u, proto)),
        !.path = Or(@, u.path),
        !.default_format = InQuery(u, "default_format", @),
        !.database = InQuery(u, "database", @)]

\* Poco's parser throws.
Unreadable(url) == url # Empty /\ url \notin DOMAIN Uri

Rooted(p) == IF p \in {"/", "/p", "/query"} THEN p ELSE "/" \o p

StringMaxSize == 16777215

Defaults(f) ==
  LET proto == Or(f.proto, IF f.sslmode # Empty \/ f.port \in {443, 8443} THEN "https" ELSE "http")
      timeout == OrNumber(f.timeout, 30)
  IN  [f EXCEPT
        !.dsn = Or(@, "ProtonDSN"),
        !.proto = proto,
        !.username = Or(@, "default"),
        !.server = Or(@, "localhost"),
        !.port = OrNumber(@, IF proto = "https" THEN 8443 ELSE 8123),
        !.timeout = timeout,
        !.connection_timeout = OrNumber(@, timeout),
        !.path = Rooted(Or(@, "query")),
        !.default_format = Or(@, "ODBCDriver2"),
        !.database = Or(@, "default"),
        !.stringmaxlength = OrNumber(@, StringMaxSize)]

NewSession(f) ==
  [kind |-> IF f.proto = "https" THEN "https" ELSE "http",
   host |-> f.server, port |-> f.port,
   timeouts |-> <<f.connection_timeout, f.timeout, f.timeout>>,
   connected |-> FALSE]

\* What getUri() puts into the target of a request: the URL with the fields
\* over it, except for what the URL's query string already says.
RequestTarget ==
  LET u == UrlOf(fields.url)
  IN  [path |-> fields.path,
       query |-> [k \in DOMAIN u.query \cup {"default_format", "database"} |->
                    InQuery(u, k, fields[k])]]

-----------------------------------------------------------------------------
(* What is asked for, field by field *)

\* The text of two keys that mean the same, the weightier one first: that of the
\* connection string, or else of the DSN.
Text(key, other, cs, dsn) ==
  CASE key \in DOMAIN cs -> cs[key]
    [] key \notin DOMAIN cs /\ other \in DOMAIN cs -> cs[other]
    [] {key, other} \cap DOMAIN cs = {} /\ key \in DOMAIN dsn -> dsn[key]
    [] {key, other} \cap DOMAIN cs = {} /\ key \notin DOMAIN dsn /\ other \in DOMAIN dsn -> dsn[other]
    [] OTHER -> Empty

Number(text) == IF text = Empty THEN 0 ELSE NumberOf[text]

AskedUrl(cs, dsn) == UrlOf(Text("Url", "Url", cs, dsn))

AskedPort(cs, dsn) ==
  LET u == AskedUrl(cs, dsn)
      number == Number(Text("Port", "Port", cs, dsn))
  IN  IF number # 0 THEN number ELSE PortOf(u, Or(Text("Proto", "Proto", cs, dsn), u.scheme))

AskedProto(cs, dsn) ==
  LET secure == Text("SSLMode", "SSLMode", cs, dsn) # Empty \/ AskedPort(cs, dsn) \in {443, 8443}
  IN  Or(Text("Proto", "Proto", cs, dsn),
         Or(AskedUrl(cs, dsn).scheme, IF secure THEN "https" ELSE "http"))

FlagOf(text) == text = "on"

\* Every field by itself: the connection string, the DSN, the URL, a default.
AsAsked(cs, dsn) ==
  LET text(key) == Text(key, key, cs, dsn)
      u == AskedUrl(cs, dsn)
      timeout == OrNumber(Number(text("Timeout")), 30)
  IN  [dsn |-> Or(text("DSN"), "ProtonDSN"),
       url |-> text("Url"),
       proto |-> AskedProto(cs, dsn),
       username |-> Or(Text("Username", "UID", cs, dsn), Or(IF u.colon THEN u.user ELSE Empty, "default")),
       password |-> Or(Text("PWD", "Password", cs, dsn), IF u.colon THEN u.password ELSE Empty),
       server |-> Or(Text("Server", "Host", cs, dsn), Or(u.host, "localhost")),
       port |-> OrNumber(AskedPort(cs, dsn), IF AskedProto(cs, dsn) = "https" THEN 8443 ELSE 8123),
       connection_timeout |-> timeout,
       timeout |-> timeout,
       verify_connection_early |-> FlagOf(text("VerifyConnectionEarly")),
       sslmode |-> text("SSLMode"),
       path |-> Rooted(Or(text("Path"), Or(u.path, "query"))),
       default_format |-> Or(InQuery(u, "default_format", Empty), "ODBCDriver2"),
       database |-> Or(text("Database"), Or(InQuery(u, "database", Empty), "default")),
       huge_int_as_string |-> FlagOf(text("HugeIntAsString")),
       stringmaxlength |-> OrNumber(Number(text("StringMaxLength")), StringMaxSize)]

\* The keys that have a value: an empty one leaves its field uninitialized.
Valued(given) == [k \in {j \in DOMAIN given : given[j] # Empty} |-> given[k]]

\* The fields on which the sources contradict one another: it matters whether an
\* empty value counts as a value, or the URL names a database besides them.
Contested(cs, dsn) ==
  LET blanks == AsAsked(cs, dsn)
      values == AsAsked(Valued(cs), Valued(dsn))
  IN  {f \in DOMAIN Blank : blanks[f] # values[f]}
        \cup {f \in {"database"} : /\ Text("Database", "Database", cs, dsn) # Empty
                                  /\ "database" \in DOMAIN AskedUrl(cs, dsn).query}

-----------------------------------------------------------------------------
(* The connection *)

Init ==
  /\ fields = Blank
  /\ session = None
  /\ sslPolicy = None
  /\ open = FALSE
  /\ expected = Blank
  /\ contested = {}

\* Nothing is connected, and nothing has changed.
Refused == UNCHANGED vars

\* Mutant: a session that exists is used again.
Start_SameSession(f) ==
  /\ fields' = f
  /\ open' = TRUE
  /\ session' = IF session = None THEN NewSession(f) ELSE session
  /\ UNCHANGED sslPolicy

\* The session is made and, if the fields say so, tried by a query: it may be
\* answered, refused by the server, or lost with the connection.
Start(f) ==
  /\ fields' = f
  /\ sslPolicy' = IF f.proto # "https" \/ sslPolicy # None THEN sslPolicy
                  ELSE IF f.sslmode = "allow" THEN "lax" ELSE "strict"
  /\ IF f.verify_connection_early
     THEN \E answered, connected \in BOOLEAN :
            /\ answered => connected
            /\ open' = answered
            /\ session' = [NewSession(f) EXCEPT !.connected = connected]
     ELSE /\ open' = TRUE
          /\ session' = NewSession(f)

\* SQLDriverConnect(), and SQLConnect() with its three arguments as DSN, UID
\* and PWD.
Connect(pairs) ==
  LET cs == ReadConnectionString(pairs)
      malformed == \E i \in DOMAIN pairs : pairs[i][1] = Empty
      given == [k \in DOMAIN cs \ {"Driver"} |-> cs[k]]
      name == IF "DSN" \in DOMAIN cs THEN cs["DSN"] ELSE Empty
  IN  \E dsn \in IF "Driver" \in DOMAIN cs THEN {<<>>} ELSE ReadDSNInfo(name) :
        LET merged == Given(Reset(fields), given, dsn)
        IN  /\ ~open
            /\ IF \/ session # None /\ session.connected
                  \/ malformed
                  \/ DOMAIN cs \cap {"FileDSN", "SaveFile"} # {}
               THEN Refused
               ELSE IF ~merged.ok \/ Unreadable(merged.fields.url)
               THEN /\ fields' = IF merged.ok THEN [merged.fields EXCEPT !.dsn = Or(@, "ProtonDSN")]
                                 ELSE merged.fields
                    /\ UNCHANGED <<session, sslPolicy, open, expected, contested>>
               ELSE /\ Start(Defaults(FromUrl(merged.fields)))
                    /\ expected' = IF open' THEN AsAsked(Valued(given), Valued(dsn)) ELSE Blank
                    /\ contested' = IF open' THEN Contested(given, dsn) ELSE {}

\* A statement sends a request: the session is connected from then on, or
\* reset again if that fails.
Request ==
  /\ open
  /\ \E connected \in BOOLEAN : session' = [session EXCEPT !.connected = connected]
  /\ UNCHANGED <<fields, sslPolicy, open, expected, contested>>

Disconnect ==
  /\ open
  /\ open' = FALSE
  /\ session' = [session EXCEPT !.connected = FALSE]
  /\ expected' = Blank
  /\ contested' = {}
  /\ UNCHANGED <<fields, sslPolicy>>

\* SQL_ATTR_CONNECTION_TIMEOUT: whatever the value is, the connection's
\* timeout becomes that of requests.
SetConnectionTimeout ==
  /\ fields' = [fields EXCEPT !.connection_timeout = fields.timeout]
  /\ session' = IF session = None THEN None ELSE
       [session EXCEPT !.timeouts = <<fields.timeout, fields.timeout, fields.timeout>>]
  /\ UNCHANGED <<sslPolicy, open, expected, contested>>

\* SQL_ATTR_CURRENT_CATALOG.
SetCurrentCatalog(catalog) ==
  /\ fields' = [fields EXCEPT !.database = catalog]
  /\ expected' = IF open THEN [expected EXCEPT !.database = catalog] ELSE expected
  /\ contested' = contested \ {"database"}
  /\ UNCHANGED <<session, sslPolicy, open>>

Next ==
  \/ \E pairs \in Strings : Connect(pairs)
  \/ Request
  \/ Disconnect
  \/ SetConnectionTimeout
  \/ \E catalog \in Catalogs : SetCurrentCatalog(catalog)

Spec == Init /\ [][Next]_vars

-----------------------------------------------------------------------------
(* Properties *)

\* What SQLGetConnectAttr() answers for either timeout.
ReportedTimeout == IF session = None THEN fields.timeout ELSE session.timeouts[1]

Flags == {"verify_connection_early", "huge_int_as_string"}

\* However often the handle has been connected before, whatever was set on it
\* in between and whatever connecting failed half-way, every field but the two
\* flags has the value its own sources give it, in the order of connection.h:90-93:
\* the connection string, the DSN, the URL, a default (connection.cpp:212-535).
\* Excepted are the fields on which the sources contradict one another, which
\* BlankLeavesToDSN and GivenDatabaseKept are about.
SourcesInOrder ==
  open => \A f \in DOMAIN fields \ (Flags \cup contested) : fields[f] = expected[f]

\* The session of a connected handle goes to the server, the port and with the
\* protocol and timeouts that were asked for, and a request names the path,
\* database and format asked for, or those in the query string of the URL
\* (connection.cpp:75-125, 178-206).
SessionFollows ==
  LET follows(f, value) == f \in contested \/ value = expected[f]
      inUrl(k) == expected.url # Empty /\ k \in DOMAIN Uri[expected.url].query
  IN  open =>
        /\ follows("server", session.host) /\ follows("port", session.port)
        /\ follows("proto", session.kind)
        /\ follows("timeout", session.timeouts[2])
        /\ follows("connection_timeout", ReportedTimeout)
        /\ follows("path", RequestTarget.path)
        /\ "url" \in contested \/ \A k \in {"database", "default_format"} :
             IF inUrl(k) THEN RequestTarget.query[k] = Uri[expected.url].query[k]
             ELSE follows(k, RequestTarget.query[k])

\* "a) values from connection string, or b) values from DSN, if unintialized, or
\* c) values deduced from values of other fields, if unintialized"
\* (connection.h:90-93): a database that the connection string or the DSN gives is
\* not replaced.  The one in the URL's query string replaces it, whatever the
\* field carries (connection.cpp:493-495).
GivenDatabaseKept == open => fields.database = expected.database

\* By the same order, a field that the connection string leaves empty has the
\* value of the DSN.  A key of the connection string hides that of the DSN even
\* when its value is empty (connection.cpp:412-414), or overwrites the value that
\* another key for the field gave (connection.cpp:431-439).
BlankLeavesToDSN ==
  open => \A f \in DOMAIN fields \ (Flags \cup {"database"}) : fields[f] = expected[f]

\* The README gives the two flags the default "off": a connect that names
\* neither leaves them off.  resetConfiguration() does not clear them, and a
\* handle that is connected again keeps them (connection.cpp:212-230).
DefaultsApply == open => \A f \in Flags : fields[f] = expected[f]

\* connection.h:87-93 promises of a connected handle all of the three above.  At
\* least one of them should hold in every state: a state where none does refutes
\* them together, with one handle connected twice.
AsDocumentedInPart == DefaultsApply \/ GivenDatabaseKept \/ BlankLeavesToDSN
=============================================================================
