------------------------- MODULE Configuration_proofs -------------------------
(***************************************************************************)
(* Theorems about Configuration, for connection strings, DSNs and URLs of  *)
(* any number and any content.                                             *)
(***************************************************************************)
EXTENDS Configuration, TLAPS

-----------------------------------------------------------------------------
(* Keys *)

\* The keys, by their places.
LEMMA Places ==
  /\ DOMAIN KeyOrder = 1 .. 17
  /\ KeyOrder[1] = "Database" /\ KeyOrder[2] = "DSN" /\ KeyOrder[3] = "Host"
  /\ KeyOrder[4] = "HugeIntAsString" /\ KeyOrder[5] = "Password" /\ KeyOrder[6] = "Path"
  /\ KeyOrder[7] = "Port" /\ KeyOrder[8] = "Proto" /\ KeyOrder[9] = "PWD"
  /\ KeyOrder[10] = "Server" /\ KeyOrder[11] = "SSLMode" /\ KeyOrder[12] = "StringMaxLength"
  /\ KeyOrder[13] = "Timeout" /\ KeyOrder[14] = "UID" /\ KeyOrder[15] = "Url"
  /\ KeyOrder[16] = "Username" /\ KeyOrder[17] = "VerifyConnectionEarly"
BY DEF KeyOrder

LEMMA OneTo17 ==
  \A n : n \in 1 .. 17 <=>
           n \in {1, 2, 3, 4, 5, 6, 7, 8, 9, 10, 11, 12, 13, 14, 15, 16, 17}
OBVIOUS

\* The places of the keys that set a field.
PlacesOf(f) == {n \in 1 .. 17 : FieldOf[KeyOrder[n]] = f}

LEMMA PlacesOfFields ==
  /\ PlacesOf("database") = {1} /\ PlacesOf("dsn") = {2} /\ PlacesOf("server") = {3, 10}
  /\ PlacesOf("password") = {5, 9} /\ PlacesOf("path") = {6} /\ PlacesOf("port") = {7}
  /\ PlacesOf("proto") = {8} /\ PlacesOf("sslmode") = {11}
  /\ PlacesOf("stringmaxlength") = {12} /\ PlacesOf("timeout") = {13}
  /\ PlacesOf("username") = {14, 16} /\ PlacesOf("url") = {15}
  /\ PlacesOf("connection_timeout") = {} /\ PlacesOf("default_format") = {}
<1> DEFINE F(n) == FieldOf[KeyOrder[n]]
<1>1. /\ F(1) = "database" /\ F(2) = "dsn" /\ F(3) = "server" /\ F(4) = "huge_int_as_string"
      /\ F(5) = "password" /\ F(6) = "path" /\ F(7) = "port" /\ F(8) = "proto"
      /\ F(9) = "password" /\ F(10) = "server" /\ F(11) = "sslmode"
      /\ F(12) = "stringmaxlength" /\ F(13) = "timeout" /\ F(14) = "username"
      /\ F(15) = "url" /\ F(16) = "username" /\ F(17) = "verify_connection_early"
  BY Places DEF FieldOf
<1>2. ASSUME NEW f PROVE PlacesOf(f) = {n \in {1, 2, 3, 4, 5, 6, 7, 8, 9, 10, 11, 12, 13, 14, 15, 16, 17} : F(n) = f}
  BY OneTo17 DEF PlacesOf
<1> HIDE DEF F
<1> QED
  BY <1>1, <1>2

\* One key sets a field, or two do, the weightier one being the later.
Sole(f, k) == \E n \in 1 .. 17 : KeyOrder[n] = k /\ PlacesOf(f) = {n}
Pair(f, j, k) ==
  \E n, m \in 1 .. 17 : n < m /\ KeyOrder[n] = j /\ KeyOrder[m] = k /\ PlacesOf(f) = {n, m}

LEMMA KeysOfFields ==
  /\ Sole("database", "Database") /\ Sole("dsn", "DSN") /\ Sole("path", "Path")
  /\ Sole("port", "Port") /\ Sole("proto", "Proto") /\ Sole("sslmode", "SSLMode")
  /\ Sole("stringmaxlength", "StringMaxLength") /\ Sole("timeout", "Timeout")
  /\ Sole("url", "Url")
  /\ Pair("server", "Host", "Server") /\ Pair("password", "Password", "PWD")
  /\ Pair("username", "UID", "Username")
BY Places, PlacesOfFields DEF Sole, Pair

-----------------------------------------------------------------------------
(* The stages *)

\* No value was bad.
Ok(s) == s.ok

\* Nothing is set once a value was bad.
LEMMA SetAllOk ==
  ASSUME NEW start, NEW given, NEW skip, Ok(SetAll(start, given, skip))
  PROVE  /\ Ok(start)
         /\ \A n \in 1 .. 17 : KeyOrder[n] \in DOMAIN given \ skip =>
              Valid(KeyOrder[n], given[KeyOrder[n]])
BY Places DEF SetAll, Ok

\* Without a bad value, the last of the keys of a field that are given sets it.
LEMMA SetByLast ==
  ASSUME NEW start, NEW given, NEW skip, Ok(SetAll(start, given, skip)),
         NEW f \in DOMAIN start.fields
  PROVE  LET set == {n \in PlacesOf(f) : KeyOrder[n] \in DOMAIN given \ skip}
         IN  SetAll(start, given, skip).fields[f] =
               IF set = {} THEN start.fields[f]
               ELSE Typed(KeyOrder[Max(set)], given[KeyOrder[Max(set)]])
<1> DEFINE set == {n \in PlacesOf(f) : KeyOrder[n] \in DOMAIN given \ skip}
           wanted == {n \in DOMAIN KeyOrder : KeyOrder[n] \in DOMAIN given \ skip}
           bad == {n \in wanted : ~Valid(KeyOrder[n], given[KeyOrder[n]])}
           setting(g) == {n \in wanted : FieldOf[KeyOrder[n]] = g /\ \A m \in bad : n < m}
           value(g) == Typed(KeyOrder[Max(setting(g))], given[KeyOrder[Max(setting(g))]])
<1>1. bad = {}
  BY SetAllOk, Places
<1>2. setting(f) = set
  BY <1>1, Places DEF PlacesOf
<1>3. SetAll(start, given, skip) =
        [ok |-> bad = {},
         fields |-> [g \in DOMAIN start.fields |->
                       IF setting(g) = {} THEN start.fields[g] ELSE value(g)]]
  BY SetAllOk DEF SetAll, Ok
<1> HIDE DEF bad, setting, value
<1>4. SetAll(start, given, skip).fields[f] =
        IF setting(f) = {} THEN start.fields[f] ELSE value(f)
  BY <1>3
<1> QED
  BY <1>2, <1>4 DEF value

LEMMA LargestOfOne ==
  ASSUME NEW n \in Nat
  PROVE  Max({n}) = n
BY DEF Max

LEMMA LargestOfTwo ==
  ASSUME NEW n \in Nat, NEW m \in Nat, n < m
  PROVE  Max({n, m}) = m
<1>1. m \in {n, m} /\ \A x \in {n, m} : m >= x
  OBVIOUS
<1>2. \A y \in {n, m} : (\A x \in {n, m} : y >= x) => y = m
  OBVIOUS
<1> QED
  BY <1>1, <1>2 DEF Max

\* A field that one key sets.
LEMMA SetByOne ==
  ASSUME NEW start, NEW given, NEW skip, Ok(SetAll(start, given, skip)),
         NEW f \in DOMAIN start.fields, NEW k, Sole(f, k)
  PROVE  SetAll(start, given, skip).fields[f] =
           IF k \in DOMAIN given \ skip THEN Typed(k, given[k]) ELSE start.fields[f]
<1> PICK n \in 1 .. 17 : KeyOrder[n] = k /\ PlacesOf(f) = {n}
  BY DEF Sole
<1> DEFINE set == {i \in {n} : KeyOrder[i] \in DOMAIN given \ skip}
<1>1. SetAll(start, given, skip).fields[f] =
        IF set = {} THEN start.fields[f]
        ELSE Typed(KeyOrder[Max(set)], given[KeyOrder[Max(set)]])
  BY SetByLast
<1>2. Max({n}) = n
  BY LargestOfOne
<1>3. CASE KeyOrder[n] \in DOMAIN given \ skip
  <2>1. set = {n}
    BY <1>3
  <2> HIDE DEF set
  <2> QED
    BY <1>1, <1>2, <1>3, <2>1
<1>4. CASE KeyOrder[n] \notin DOMAIN given \ skip
  <2>1. set = {}
    BY <1>4
  <2> QED
    BY <1>1, <1>4, <2>1
<1> QED
  BY <1>3, <1>4

\* A field that two keys set: the later one wins.
Later(j, k, given, skip, otherwise) ==
  IF k \in DOMAIN given \ skip THEN Typed(k, given[k])
  ELSE IF j \in DOMAIN given \ skip THEN Typed(j, given[j])
  ELSE otherwise

LEMMA SetByTwo ==
  ASSUME NEW start, NEW given, NEW skip, Ok(SetAll(start, given, skip)),
         NEW f \in DOMAIN start.fields, NEW j, NEW k, Pair(f, j, k)
  PROVE  SetAll(start, given, skip).fields[f] = Later(j, k, given, skip, start.fields[f])
<1> PICK n \in 1 .. 17, m \in 1 .. 17 :
           n < m /\ KeyOrder[n] = j /\ KeyOrder[m] = k /\ PlacesOf(f) = {n, m}
  BY DEF Pair
<1> DEFINE In(i) == KeyOrder[i] \in DOMAIN given \ skip
           set == {i \in {n, m} : In(i)}
<1>1. SetAll(start, given, skip).fields[f] =
        IF set = {} THEN start.fields[f]
        ELSE Typed(KeyOrder[Max(set)], given[KeyOrder[Max(set)]])
  BY SetByLast
<1>2. Max({n}) = n /\ Max({m}) = m /\ Max({n, m}) = m
  <2>1. n \in Nat /\ m \in Nat
    OBVIOUS
  <2> QED
    BY <2>1, LargestOfOne, LargestOfTwo
<1>3. set = IF In(n) THEN IF In(m) THEN {n, m} ELSE {n} ELSE IF In(m) THEN {m} ELSE {}
  <2> HIDE DEF In
  <2> QED
    OBVIOUS
<1> HIDE DEF set
<1>4. CASE In(m)
  <2>1. set = {n, m} \/ set = {m}
    BY <1>3, <1>4
  <2>2. set # {} /\ Max(set) = m
    BY <1>2, <2>1
  <2> QED
    BY <1>1, <1>4, <2>2 DEF Later
<1>5. CASE ~In(m) /\ In(n)
  <2>1. set = {n}
    BY <1>3, <1>5
  <2> QED
    BY <1>1, <1>2, <1>5, <2>1 DEF Later
<1>6. CASE ~In(m) /\ ~In(n)
  BY <1>1, <1>3, <1>6 DEF Later
<1> QED
  BY <1>4, <1>5, <1>6
-----------------------------------------------------------------------------
(* The connection string over the DSN *)

\* What a field is before anything sets it, and after Reset().
Unset(f) == f \in DOMAIN Blank \ Flags

LEMMA ResetFields ==
  ASSUME NEW old
  PROVE  /\ DOMAIN Reset(old) = DOMAIN Blank
         /\ \A f : Unset(f) => Reset(old)[f] = Blank[f]
BY DEF Reset, Unset, Flags, Blank

LEMMA SetAllDomain ==
  ASSUME NEW start, NEW given, NEW skip
  PROVE  DOMAIN SetAll(start, given, skip).fields = DOMAIN start.fields
BY DEF SetAll

\* A field that no key sets.
LEMMA NoKey ==
  ASSUME NEW old, NEW cs, NEW dsn, Ok(Given(old, cs, dsn)), NEW f \in DOMAIN old, PlacesOf(f) = {}
  PROVE  Given(old, cs, dsn).fields[f] = old[f]
<1> DEFINE start == [ok |-> TRUE, fields |-> old]
           first == SetAll(start, dsn, DOMAIN cs)
<1>1. Given(old, cs, dsn) = SetAll(first, cs, {})
  BY DEF Given
<1>2. start.fields = old
  OBVIOUS
<1> HIDE DEF start
<1>3. Ok(first)
  BY <1>1, SetAllOk
<1>4. f \in DOMAIN start.fields /\ f \in DOMAIN first.fields
  BY <1>2, SetAllDomain
<1>5. first.fields[f] = start.fields[f]
  BY <1>3, <1>4, SetByLast
<1> HIDE DEF first
<1>6. SetAll(first, cs, {}).fields[f] = first.fields[f]
  BY <1>1, <1>4, SetByLast
<1> QED
  BY <1>1, <1>2, <1>5, <1>6

\* A field that one key sets has its text: that of the connection string, or
\* else of the DSN.
LEMMA OneKey ==
  ASSUME NEW old, NEW cs, NEW dsn, Ok(Given(old, cs, dsn)),
         NEW f \in DOMAIN old, NEW k, Sole(f, k), old[f] = Typed(k, Empty)
  PROVE  Given(old, cs, dsn).fields[f] = Typed(k, Text(k, k, cs, dsn))
<1> DEFINE start == [ok |-> TRUE, fields |-> old]
           first == SetAll(start, dsn, DOMAIN cs)
<1>1. Given(old, cs, dsn) = SetAll(first, cs, {})
  BY DEF Given
<1>2. start.fields = old
  OBVIOUS
<1> HIDE DEF start
<1>3. Ok(first)
  BY <1>1, SetAllOk
<1>4. f \in DOMAIN start.fields /\ f \in DOMAIN first.fields
  BY <1>2, SetAllDomain
<1>5. first.fields[f] = IF k \in DOMAIN dsn \ DOMAIN cs THEN Typed(k, dsn[k]) ELSE start.fields[f]
  BY <1>3, <1>4, SetByOne
<1> HIDE DEF first
<1>6. Ok(SetAll(first, cs, {}))
  BY <1>1
<1>7. SetAll(first, cs, {}).fields[f] =
        IF k \in DOMAIN cs \ {} THEN Typed(k, cs[k]) ELSE first.fields[f]
  BY <1>4, <1>6, SetByOne
<1>8. Text(k, k, cs, dsn) = IF k \in DOMAIN cs THEN cs[k] ELSE IF k \in DOMAIN dsn THEN dsn[k] ELSE Empty
  BY DEF Text
<1>9. Given(old, cs, dsn).fields[f] =
        IF k \in DOMAIN cs THEN Typed(k, cs[k])
        ELSE IF k \in DOMAIN dsn THEN Typed(k, dsn[k]) ELSE Typed(k, Empty)
  BY <1>1, <1>2, <1>5, <1>7
<1> QED
  <2>1. CASE k \in DOMAIN cs
    BY <1>8, <1>9, <2>1
  <2>2. CASE k \notin DOMAIN cs /\ k \in DOMAIN dsn
    BY <1>8, <1>9, <2>2
  <2>3. CASE k \notin DOMAIN cs /\ k \notin DOMAIN dsn
    BY <1>8, <1>9, <2>3
  <2> QED
    BY <2>1, <2>2, <2>3

\* A field that two keys set has the text of the weightier of those given, in
\* the connection string or else in the DSN.
LEMMA TwoKeys ==
  ASSUME NEW old, NEW cs, NEW dsn, Ok(Given(old, cs, dsn)),
         NEW f \in DOMAIN old, NEW j, NEW k, Pair(f, j, k), old[f] = Empty,
         \A v : Typed(j, v) = v /\ Typed(k, v) = v
  PROVE  Given(old, cs, dsn).fields[f] = Text(k, j, cs, dsn)
<1> DEFINE start == [ok |-> TRUE, fields |-> old]
           first == SetAll(start, dsn, DOMAIN cs)
<1>1. Given(old, cs, dsn) = SetAll(first, cs, {})
  BY DEF Given
<1>2. start.fields = old
  OBVIOUS
<1> HIDE DEF start
<1>3. Ok(first)
  BY <1>1, SetAllOk
<1>4. f \in DOMAIN start.fields /\ f \in DOMAIN first.fields
  BY <1>2, SetAllDomain
<1>5. first.fields[f] = Later(j, k, dsn, DOMAIN cs, start.fields[f])
  BY <1>3, <1>4, SetByTwo
<1> HIDE DEF first
<1>6. Ok(SetAll(first, cs, {}))
  BY <1>1
<1>7. SetAll(first, cs, {}).fields[f] = Later(j, k, cs, {}, first.fields[f])
  BY <1>4, <1>6, SetByTwo
<1>8. Text(k, j, cs, dsn) = IF k \in DOMAIN cs THEN cs[k] ELSE IF j \in DOMAIN cs THEN cs[j]
                            ELSE IF k \in DOMAIN dsn THEN dsn[k]
                            ELSE IF j \in DOMAIN dsn THEN dsn[j] ELSE Empty
  <2>1. CASE k \in DOMAIN cs
    BY <2>1 DEF Text
  <2>2. CASE k \notin DOMAIN cs /\ j \in DOMAIN cs
    BY <2>2 DEF Text
  <2>3. CASE k \notin DOMAIN cs /\ j \notin DOMAIN cs
    BY <2>3 DEF Text
  <2> QED
    BY <2>1, <2>2, <2>3
<1>9. first.fields[f] = IF k \in DOMAIN dsn \ DOMAIN cs THEN dsn[k]
                         ELSE IF j \in DOMAIN dsn \ DOMAIN cs THEN dsn[j] ELSE Empty
  BY <1>2, <1>5 DEF Later
<1>10. SetAll(first, cs, {}).fields[f] =
         IF k \in DOMAIN cs THEN cs[k] ELSE IF j \in DOMAIN cs THEN cs[j] ELSE first.fields[f]
  BY <1>7 DEF Later
<1> QED
  BY <1>1, <1>8, <1>9, <1>10

\* Every field but the flags as its keys give it.
AsGiven(g, cs, dsn) ==
  LET text(key) == Text(key, key, cs, dsn)
  IN  /\ g.database = text("Database") /\ g.dsn = text("DSN") /\ g.url = text("Url")
      /\ g.path = text("Path") /\ g.proto = text("Proto") /\ g.sslmode = text("SSLMode")
      /\ g.port = Number(text("Port")) /\ g.timeout = Number(text("Timeout"))
      /\ g.stringmaxlength = Number(text("StringMaxLength"))
      /\ g.server = Text("Server", "Host", cs, dsn)
      /\ g.password = Text("PWD", "Password", cs, dsn)
      /\ g.username = Text("Username", "UID", cs, dsn)
      /\ g.connection_timeout = 0 /\ g.default_format = Empty

LEMMA Merged ==
  ASSUME NEW old, NEW cs, NEW dsn, Ok(Given(Reset(old), cs, dsn))
  PROVE  AsGiven(Given(Reset(old), cs, dsn).fields, cs, dsn)
<1> DEFINE blank == Reset(old)
           g == Given(blank, cs, dsn).fields
<1>1. /\ \A k \in {"Database", "DSN", "Url", "Path", "Proto", "SSLMode", "Server", "Host", "PWD",
                   "Password", "UID", "Username"} : \A v : Typed(k, v) = v
      /\ \A k \in {"Port", "Timeout", "StringMaxLength"} : \A v : Typed(k, v) = Number(v)
      /\ Number(Empty) = 0
  BY DEF Typed, NumberKeys, FlagKeys, Number
<1>2. /\ \A x \in {"database", "dsn", "url", "path", "proto", "sslmode", "server", "password",
                   "username", "default_format"} : x \in DOMAIN blank /\ blank[x] = Empty
      /\ \A x \in {"port", "timeout", "stringmaxlength", "connection_timeout"} :
           x \in DOMAIN blank /\ blank[x] = 0
  BY ResetFields DEF Unset, Blank, Flags
<1> HIDE DEF blank
<1>3. Ok(Given(blank, cs, dsn))
  BY DEF blank
<1>4. ASSUME NEW x \in DOMAIN blank, NEW k, Sole(x, k), blank[x] = Typed(k, Empty)
      PROVE  g[x] = Typed(k, Text(k, k, cs, dsn))
  BY <1>3, <1>4, OneKey
<1>5. ASSUME NEW x \in DOMAIN blank, NEW j, NEW k, Pair(x, j, k), blank[x] = Empty,
             \A v : Typed(j, v) = v /\ Typed(k, v) = v
      PROVE  g[x] = Text(k, j, cs, dsn)
  BY <1>3, <1>5, TwoKeys
<1>6. ASSUME NEW x \in DOMAIN blank, PlacesOf(x) = {}
      PROVE  g[x] = blank[x]
  BY <1>3, <1>6, NoKey
<1> HIDE DEF g
<1>7. /\ g.database = Text("Database", "Database", cs, dsn) /\ g.dsn = Text("DSN", "DSN", cs, dsn)
      /\ g.url = Text("Url", "Url", cs, dsn) /\ g.path = Text("Path", "Path", cs, dsn)
      /\ g.proto = Text("Proto", "Proto", cs, dsn) /\ g.sslmode = Text("SSLMode", "SSLMode", cs, dsn)
  BY <1>1, <1>2, <1>4, KeysOfFields
<1>8. /\ g.port = Number(Text("Port", "Port", cs, dsn))
      /\ g.timeout = Number(Text("Timeout", "Timeout", cs, dsn))
      /\ g.stringmaxlength = Number(Text("StringMaxLength", "StringMaxLength", cs, dsn))
  BY <1>1, <1>2, <1>4, KeysOfFields
<1>9. /\ g.server = Text("Server", "Host", cs, dsn) /\ g.password = Text("PWD", "Password", cs, dsn)
      /\ g.username = Text("Username", "UID", cs, dsn)
  BY <1>1, <1>2, <1>5, KeysOfFields
<1>10. g.connection_timeout = 0 /\ g.default_format = Empty
  BY <1>2, <1>6, PlacesOfFields
<1>11. AsGiven(g, cs, dsn)
  BY <1>7, <1>8, <1>9, <1>10 DEF AsGiven
<1> QED
  BY <1>11 DEF g, blank

LEMMA MergedDomain ==
  ASSUME NEW old, NEW cs, NEW dsn
  PROVE  DOMAIN Given(Reset(old), cs, dsn).fields = DOMAIN Blank
<1>1. [ok |-> TRUE, fields |-> Reset(old)].fields = Reset(old)
  OBVIOUS
<1> QED
  BY <1>1, SetAllDomain, ResetFields DEF Given

-----------------------------------------------------------------------------
(* The URL and the defaults *)

LEMMA OrEmpty == \A x : Or(x, Empty) = x /\ OrNumber(x, 0) = x
BY DEF Or, OrNumber

\* Without a URL, an empty one fills nothing.
LEMMA NoUrlFields ==
  /\ NoUrl.scheme = Empty /\ NoUrl.colon = FALSE /\ NoUrl.host = Empty /\ NoUrl.path = Empty
  /\ DOMAIN NoUrl.query = {} /\ \A proto : PortOf(NoUrl, proto) = 0
BY DEF NoUrl, PortOf, WellKnown

LEMMA UrlFields ==
  ASSUME NEW g, DOMAIN g = DOMAIN Blank
  PROVE  LET u == UrlOf(g.url)
             h == FromUrl(g)
         IN  /\ DOMAIN h = DOMAIN Blank
             /\ h.proto = Or(g.proto, u.scheme)
             /\ h.username = Or(g.username, IF u.colon THEN u.user ELSE Empty)
             /\ h.password = Or(g.password, IF u.colon THEN u.password ELSE Empty)
             /\ h.server = Or(g.server, u.host) /\ h.path = Or(g.path, u.path)
             /\ h.port = OrNumber(g.port, PortOf(u, Or(g.proto, u.scheme)))
             /\ h.default_format = InQuery(u, "default_format", g.default_format)
             /\ h.database = InQuery(u, "database", g.database)
             /\ h.dsn = g.dsn /\ h.url = g.url /\ h.sslmode = g.sslmode
             /\ h.timeout = g.timeout /\ h.connection_timeout = g.connection_timeout
             /\ h.stringmaxlength = g.stringmaxlength
<1> DEFINE u == UrlOf(g.url)
           h == FromUrl(g)
<1>1. CASE g.url = Empty
  <2>1. u = NoUrl /\ h = g
    BY <1>1 DEF UrlOf, FromUrl
  <2> HIDE DEF u, h
  <2>2. \A key, otherwise : InQuery(u, key, otherwise) = otherwise
    BY <2>1, NoUrlFields DEF InQuery
  <2> QED
    BY <2>1, <2>2, NoUrlFields, OrEmpty DEF u, h
<1>2. CASE g.url # Empty
  <2>1. u = Uri[g.url]
    BY <1>2 DEF UrlOf
  <2>2. h = [g EXCEPT
        !.proto = Or(g.proto, u.scheme),
        !.password = IF u.colon THEN Or(@, u.password) ELSE @,
        !.username = IF u.colon THEN Or(@, u.user) ELSE @,
        !.server = Or(@, u.host),
        !.port = OrNumber(@, PortOf(u, Or(g.proto, u.scheme))),
        !.path = Or(@, u.path),
        !.default_format = InQuery(u, "default_format", @),
        !.database = InQuery(u, "database", @)]
    BY <1>2, <2>1 DEF FromUrl, InQuery
  <2>3. DOMAIN g = {"dsn", "url", "proto", "username", "password", "server", "port",
          "connection_timeout", "timeout", "verify_connection_early", "sslmode", "path",
          "default_format", "database", "huge_int_as_string", "stringmaxlength"}
    BY DEF Blank
  <2> HIDE DEF u, h
  <2>4. DOMAIN h = DOMAIN Blank
    BY <2>2
  <2>5. /\ h.proto = Or(g.proto, u.scheme)
        /\ h.username = Or(g.username, IF u.colon THEN u.user ELSE Empty)
        /\ h.password = Or(g.password, IF u.colon THEN u.password ELSE Empty)
        /\ h.server = Or(g.server, u.host) /\ h.path = Or(g.path, u.path)
    BY <2>2, <2>3, OrEmpty
  <2>6. /\ h.port = OrNumber(g.port, PortOf(u, Or(g.proto, u.scheme)))
        /\ h.default_format = InQuery(u, "default_format", g.default_format)
        /\ h.database = InQuery(u, "database", g.database)
    BY <2>2, <2>3
  <2>7. /\ h.dsn = g.dsn /\ h.url = g.url /\ h.sslmode = g.sslmode
        /\ h.timeout = g.timeout /\ h.connection_timeout = g.connection_timeout
        /\ h.stringmaxlength = g.stringmaxlength
    BY <2>2, <2>3
  <2> QED
    BY <2>4, <2>5, <2>6, <2>7 DEF u, h
<1> QED
  BY <1>1, <1>2

\* A protocol that is given is one of the two.
LEMMA ProtoGiven ==
  ASSUME NEW old, NEW cs, NEW dsn, Ok(Given(old, cs, dsn))
  PROVE  Text("Proto", "Proto", cs, dsn) \in {Empty, "http", "https"}
<1> DEFINE first == SetAll([ok |-> TRUE, fields |-> old], dsn, DOMAIN cs)
<1>1. Given(old, cs, dsn) = SetAll(first, cs, {})
  BY DEF Given
<1>2. Ok(first)
  BY <1>1, SetAllOk
<1>3. /\ "Proto" \in DOMAIN cs => Valid("Proto", cs["Proto"])
      /\ "Proto" \in DOMAIN dsn \ DOMAIN cs => Valid("Proto", dsn["Proto"])
  <2>1. 8 \in 1 .. 17 /\ KeyOrder[8] = "Proto"
    BY Places
  <2> HIDE DEF first
  <2>2. Ok(SetAll(first, cs, {}))
    BY <1>1
  <2>3. "Proto" \in DOMAIN cs \ {} => Valid("Proto", cs["Proto"])
    BY <2>1, <2>2, SetAllOk
  <2>4. "Proto" \in DOMAIN dsn \ DOMAIN cs => Valid("Proto", dsn["Proto"])
    BY <1>2, <2>1, SetAllOk DEF first
  <2> QED
    BY <2>3, <2>4
<1>4. \A v : Valid("Proto", v) => v \in {Empty, "http", "https"}
  BY DEF Valid, NumberKeys, FlagKeys
<1>5. Text("Proto", "Proto", cs, dsn) =
        IF "Proto" \in DOMAIN cs THEN cs["Proto"]
        ELSE IF "Proto" \in DOMAIN dsn THEN dsn["Proto"] ELSE Empty
  BY DEF Text
<1> QED
  BY <1>3, <1>4, <1>5

LEMMA DefaultsFields ==
  ASSUME NEW h, DOMAIN h = DOMAIN Blank
  PROVE  LET d == Defaults(h)
             timeout == OrNumber(h.timeout, 30)
             secure == h.sslmode # Empty \/ h.port \in {443, 8443}
         IN  /\ DOMAIN d = DOMAIN Blank
             /\ d.dsn = Or(h.dsn, "ProtonDSN")
             /\ d.proto = Or(h.proto, IF secure THEN "https" ELSE "http")
             /\ d.username = Or(h.username, "default")
             /\ d.server = Or(h.server, "localhost")
             /\ d.port = OrNumber(h.port, IF d.proto = "https" THEN 8443 ELSE 8123)
             /\ d.timeout = timeout
             /\ d.connection_timeout = OrNumber(h.connection_timeout, timeout)
             /\ d.path = Rooted(Or(h.path, "query"))
             /\ d.default_format = Or(h.default_format, "ODBCDriver2")
             /\ d.database = Or(h.database, "default")
             /\ d.stringmaxlength = OrNumber(h.stringmaxlength, StringMaxSize)
             /\ d.password = h.password /\ d.url = h.url /\ d.sslmode = h.sslmode
<1> DEFINE proto == Or(h.proto, IF h.sslmode # Empty \/ h.port \in {443, 8443} THEN "https" ELSE "http")
           d == Defaults(h)
<1>1. d = [h EXCEPT
        !.dsn = Or(@, "ProtonDSN"),
        !.proto = proto,
        !.username = Or(@, "default"),
        !.server = Or(@, "localhost"),
        !.port = OrNumber(@, IF proto = "https" THEN 8443 ELSE 8123),
        !.timeout = OrNumber(h.timeout, 30),
        !.connection_timeout = OrNumber(@, OrNumber(h.timeout, 30)),
        !.path = Rooted(Or(@, "query")),
        !.default_format = Or(@, "ODBCDriver2"),
        !.database = Or(@, "default"),
        !.stringmaxlength = OrNumber(@, StringMaxSize)]
  BY DEF Defaults
<1>2. DOMAIN h = {"dsn", "url", "proto", "username", "password", "server", "port",
        "connection_timeout", "timeout", "verify_connection_early", "sslmode", "path",
        "default_format", "database", "huge_int_as_string", "stringmaxlength"}
  BY DEF Blank
<1> HIDE DEF d, proto
<1>3. DOMAIN d = DOMAIN Blank
  BY <1>1
<1>4. /\ d.dsn = Or(h.dsn, "ProtonDSN") /\ d.proto = proto /\ d.username = Or(h.username, "default")
      /\ d.server = Or(h.server, "localhost") /\ d.path = Rooted(Or(h.path, "query"))
      /\ d.default_format = Or(h.default_format, "ODBCDriver2")
      /\ d.database = Or(h.database, "default")
  BY <1>1, <1>2
<1>5. /\ d.port = OrNumber(h.port, IF d.proto = "https" THEN 8443 ELSE 8123)
      /\ d.timeout = OrNumber(h.timeout, 30)
      /\ d.connection_timeout = OrNumber(h.connection_timeout, OrNumber(h.timeout, 30))
      /\ d.stringmaxlength = OrNumber(h.stringmaxlength, StringMaxSize)
      /\ d.password = h.password /\ d.url = h.url /\ d.sslmode = h.sslmode
  BY <1>1, <1>2
<1> QED
  BY <1>3, <1>4, <1>5 DEF d, proto

LEMMA OrOr == \A x, y, z : Or(Or(x, y), z) = Or(x, Or(y, z))
BY DEF Or

\* The database is the one that is given, but for one in the URL.
UrlReplaces(cs, dsn) ==
  /\ Text("Database", "Database", cs, dsn) # Empty
  /\ "database" \in DOMAIN AskedUrl(cs, dsn).query

\* What the stages leave is what is asked for, field by field, except for a
\* database that the URL replaces.
LEMMA StagesAsAsked ==
  ASSUME NEW old, NEW cs, NEW dsn, Ok(Given(Reset(old), cs, dsn))
  PROVE  LET d == Defaults(FromUrl(Given(Reset(old), cs, dsn).fields))
         IN  /\ DOMAIN d = DOMAIN Blank
             /\ \A f \in DOMAIN Blank \ Flags :
                  d[f] = AsAsked(cs, dsn)[f] \/ (f = "database" /\ UrlReplaces(cs, dsn))
             /\ d.proto = AsAsked(cs, dsn).proto /\ d.connection_timeout = d.timeout
<1> DEFINE g == Given(Reset(old), cs, dsn).fields
           h == FromUrl(g)
           d == Defaults(h)
           text(key) == Text(key, key, cs, dsn)
           u == AskedUrl(cs, dsn)
           asked == AsAsked(cs, dsn)
           timeout == OrNumber(Number(text("Timeout")), 30)
<1>1. /\ asked.dsn = Or(text("DSN"), "ProtonDSN") /\ asked.url = text("Url")
      /\ asked.proto = AskedProto(cs, dsn)
      /\ asked.username = Or(Text("Username", "UID", cs, dsn), Or(IF u.colon THEN u.user ELSE Empty, "default"))
      /\ asked.password = Or(Text("PWD", "Password", cs, dsn), IF u.colon THEN u.password ELSE Empty)
      /\ asked.server = Or(Text("Server", "Host", cs, dsn), Or(u.host, "localhost"))
      /\ asked.port = OrNumber(AskedPort(cs, dsn), IF AskedProto(cs, dsn) = "https" THEN 8443 ELSE 8123)
      /\ asked.connection_timeout = timeout /\ asked.timeout = timeout
      /\ asked.sslmode = text("SSLMode")
      /\ asked.path = Rooted(Or(text("Path"), Or(u.path, "query")))
      /\ asked.default_format = Or(InQuery(u, "default_format", Empty), "ODBCDriver2")
      /\ asked.database = Or(text("Database"), Or(InQuery(u, "database", Empty), "default"))
      /\ asked.stringmaxlength = OrNumber(Number(text("StringMaxLength")), StringMaxSize)
  BY DEF AsAsked
<1> HIDE DEF asked
<1>2. AsGiven(g, cs, dsn) /\ DOMAIN g = DOMAIN Blank
  BY Merged, MergedDomain
<1> HIDE DEF g
<1>3. UrlOf(g.url) = u
  BY <1>2 DEF AsGiven, AskedUrl
<1>4. /\ DOMAIN h = DOMAIN Blank
      /\ h.proto = Or(text("Proto"), u.scheme)
      /\ h.username = Or(Text("Username", "UID", cs, dsn), IF u.colon THEN u.user ELSE Empty)
      /\ h.password = Or(Text("PWD", "Password", cs, dsn), IF u.colon THEN u.password ELSE Empty)
      /\ h.server = Or(Text("Server", "Host", cs, dsn), u.host) /\ h.path = Or(text("Path"), u.path)
      /\ h.default_format = InQuery(u, "default_format", Empty)
      /\ h.database = InQuery(u, "database", text("Database"))
      /\ h.dsn = text("DSN") /\ h.url = text("Url") /\ h.sslmode = text("SSLMode")
      /\ h.timeout = Number(text("Timeout")) /\ h.connection_timeout = 0
      /\ h.stringmaxlength = Number(text("StringMaxLength"))
  <2> HIDE DEF u, h
  <2> QED
    BY <1>2, <1>3, UrlFields DEF AsGiven, h
<1>5. h.port = AskedPort(cs, dsn)
  BY <1>2, <1>3, UrlFields DEF AsGiven, AskedPort, OrNumber
<1> HIDE DEF h, u
<1>6. DOMAIN d = DOMAIN Blank
  BY <1>4, DefaultsFields
<1>7. d.proto = asked.proto
  <2> DEFINE last == IF text("SSLMode") # Empty \/ AskedPort(cs, dsn) \in {443, 8443} THEN "https" ELSE "http"
  <2>1. AskedProto(cs, dsn) = Or(text("Proto"), Or(u.scheme, last))
    BY DEF AskedProto, u
  <2>2. d.proto = Or(h.proto, last)
    BY <1>4, <1>5, DefaultsFields
  <2> HIDE DEF last, d
  <2> QED
    BY <1>1, <1>4, <2>1, <2>2, OrOr
<1>8. /\ d.dsn = asked.dsn /\ d.url = asked.url /\ d.username = asked.username
      /\ d.password = asked.password /\ d.server = asked.server /\ d.path = asked.path
      /\ d.sslmode = asked.sslmode /\ d.default_format = asked.default_format
  BY <1>1, <1>4, DefaultsFields, OrOr
<1>9. /\ d.port = asked.port /\ d.timeout = asked.timeout
      /\ d.connection_timeout = asked.connection_timeout
      /\ d.stringmaxlength = asked.stringmaxlength
  <2>1. \A x : OrNumber(0, x) = x
    BY DEF OrNumber
  <2> QED
    BY <1>1, <1>4, <1>5, <1>7, <2>1, DefaultsFields
<1>10. \A f \in DOMAIN Blank \ Flags :
         f \in {"dsn", "url", "proto", "username", "password", "server", "port",
                "connection_timeout", "timeout", "sslmode", "path", "default_format", "database",
                "stringmaxlength"}
  BY DEF Blank, Flags
<1>11. d.database = asked.database \/ UrlReplaces(cs, dsn)
  <2>1. d.database = Or(InQuery(u, "database", text("Database")), "default")
    BY <1>4, DefaultsFields
  <2>2. UrlReplaces(cs, dsn) <=> text("Database") # Empty /\ "database" \in DOMAIN u.query
    BY DEF UrlReplaces, u
  <2> HIDE DEF d
  <2> QED
    BY <1>1, <2>1, <2>2 DEF InQuery, Or
<1>12. \A f \in DOMAIN Blank \ Flags :
         d[f] = asked[f] \/ (f = "database" /\ UrlReplaces(cs, dsn))
  <2> HIDE DEF d
  <2> QED
    BY <1>7, <1>8, <1>9, <1>10, <1>11
<1>13. d.connection_timeout = d.timeout
  <2> HIDE DEF d
  <2> QED
    BY <1>1, <1>9
<1> QED
  BY <1>6, <1>7, <1>12, <1>13 DEF asked, d, h, g

\* The protocol asked for is one of the two.
LEMMA AskedProtocol ==
  ASSUME NEW old, NEW cs, NEW dsn, Ok(Given(Reset(old), cs, dsn)),
         ~Unreadable(Given(Reset(old), cs, dsn).fields.url)
  PROVE  AskedProto(cs, dsn) \in {"http", "https"}
<1>1. Given(Reset(old), cs, dsn).fields.url = Text("Url", "Url", cs, dsn)
  BY Merged DEF AsGiven
<1>2. AskedUrl(cs, dsn).scheme \in {Empty, "http", "https"}
  BY <1>1, UrisAssumption, NoUrlFields DEF Unreadable, UrlOf, AskedUrl
<1>3. Text("Proto", "Proto", cs, dsn) \in {Empty, "http", "https"}
  BY ProtoGiven
<1>4. PICK last \in {"http", "https"} :
        AskedProto(cs, dsn) = Or(Text("Proto", "Proto", cs, dsn), Or(AskedUrl(cs, dsn).scheme, last))
  BY DEF AskedProto
<1> QED
  BY <1>2, <1>3, <1>4 DEF Or

-----------------------------------------------------------------------------
(* The connection *)

\* A connected handle: its fields are those asked for, where the sources agree,
\* its session was made of them, and its two timeouts are the same, so that setting
\* the one to the other changes nothing.
SessionParts == {"kind", "host", "port", "timeouts", "connected"}

AsConnected ==
  /\ DOMAIN fields = DOMAIN Blank /\ DOMAIN expected = DOMAIN Blank
  /\ \A f \in DOMAIN Blank \ (Flags \cup contested) : fields[f] = expected[f]
  /\ DOMAIN session = SessionParts
  /\ session.host = fields.server /\ session.port = fields.port
  /\ session.kind = fields.proto
  /\ session.timeouts = <<fields.timeout, fields.timeout, fields.timeout>>
  /\ fields.connection_timeout = fields.timeout

ConnectedInv == open => AsConnected

LEMMA NotFlags ==
  /\ DOMAIN Blank = {"dsn", "url", "proto", "username", "password", "server", "port",
       "connection_timeout", "timeout", "verify_connection_early", "sslmode", "path",
       "default_format", "database", "huge_int_as_string", "stringmaxlength"}
  /\ DOMAIN Blank \ Flags = {"dsn", "url", "proto", "username", "password", "server", "port",
       "connection_timeout", "timeout", "sslmode", "path", "default_format", "database",
       "stringmaxlength"}
BY DEF Blank, Flags

LEMMA AskedFields ==
  ASSUME NEW cs, NEW dsn
  PROVE  /\ DOMAIN AsAsked(cs, dsn) = DOMAIN Blank
         /\ AsAsked(cs, dsn).proto = AskedProto(cs, dsn)
BY DEF AsAsked, Blank

\* Where the sources agree, the empty values make no difference, and no URL
\* replaces the database.
LEMMA Agreed ==
  ASSUME NEW cs, NEW dsn, NEW f \in DOMAIN Blank, f \notin Contested(cs, dsn)
  PROVE  /\ AsAsked(cs, dsn)[f] = AsAsked(Valued(cs), Valued(dsn))[f]
         /\ ~(f = "database" /\ UrlReplaces(cs, dsn))
<1> DEFINE blanks == AsAsked(cs, dsn)
           values == AsAsked(Valued(cs), Valued(dsn))
           replaced == {g \in {"database"} : UrlReplaces(cs, dsn)}
<1>1. Contested(cs, dsn) = {g \in DOMAIN Blank : blanks[g] # values[g]} \cup replaced
  BY DEF Contested, UrlReplaces
<1> HIDE DEF blanks, values
<1>2. blanks[f] = values[f] /\ f \notin replaced
  BY <1>1
<1> QED
  BY <1>2 DEF blanks, values

\* What Start() leaves of the fields it is given, if it leaves a connection.
LEMMA Started ==
  ASSUME NEW d, Start(d), open',
         DOMAIN d = DOMAIN Blank, DOMAIN expected' = DOMAIN Blank,
         \A f \in DOMAIN Blank \ (Flags \cup contested') : d[f] = expected'[f],
         d.proto \in {"http", "https"}, d.connection_timeout = d.timeout
  PROVE  AsConnected'
<1>1. fields' = d
  BY DEF Start
<1>2. \/ session' = NewSession(d)
      \/ \E connected \in BOOLEAN : session' = [NewSession(d) EXCEPT !.connected = connected]
  BY DEF Start
<1>3. /\ DOMAIN session' = SessionParts
      /\ session'.host = d.server /\ session'.port = d.port
      /\ session'.kind = IF d.proto = "https" THEN "https" ELSE "http"
      /\ session'.timeouts = <<d.connection_timeout, d.timeout, d.timeout>>
  BY <1>2 DEF NewSession, SessionParts
<1> QED
  BY <1>1, <1>3 DEF AsConnected

LEMMA ConnectKeeps ==
  ASSUME ConnectedInv, NEW pairs \in Strings, Connect(pairs)
  PROVE  ConnectedInv'
<1> SUFFICES ASSUME open' PROVE AsConnected'
  BY DEF ConnectedInv
<1>1. PICK given, dsn :
        LET merged == Given(Reset(fields), given, dsn)
        IN  /\ ~open
            /\ \/ Refused
               \/ UNCHANGED open
               \/ /\ Ok(merged) /\ ~Unreadable(merged.fields.url)
                  /\ Start(Defaults(FromUrl(merged.fields)))
                  /\ expected' = AsAsked(Valued(given), Valued(dsn))
                  /\ contested' = Contested(given, dsn)
  BY DEF Connect, Ok
<1>2. ~UNCHANGED open /\ ~Refused
  BY <1>1 DEF Refused, vars
<1> DEFINE merged == Given(Reset(fields), given, dsn)
           d == Defaults(FromUrl(merged.fields))
<1>3. /\ Ok(merged) /\ ~Unreadable(merged.fields.url) /\ Start(d)
      /\ expected' = AsAsked(Valued(given), Valued(dsn)) /\ contested' = Contested(given, dsn)
  BY <1>1, <1>2
<1>4. /\ DOMAIN d = DOMAIN Blank
      /\ \A f \in DOMAIN Blank \ Flags :
           d[f] = AsAsked(given, dsn)[f] \/ (f = "database" /\ UrlReplaces(given, dsn))
      /\ d.proto = AsAsked(given, dsn).proto /\ d.connection_timeout = d.timeout
  BY <1>3, StagesAsAsked
<1>5. AskedProto(given, dsn) \in {"http", "https"}
  BY <1>3, AskedProtocol
<1> HIDE DEF d, merged
<1>6. d.proto \in {"http", "https"}
  BY <1>4, <1>5, AskedFields
<1>7. DOMAIN expected' = DOMAIN Blank
  BY <1>3, AskedFields
<1>8. \A f \in DOMAIN Blank \ (Flags \cup contested') : d[f] = expected'[f]
  BY <1>3, <1>4, Agreed
<1> QED
  BY <1>3, <1>4, <1>6, <1>7, <1>8, Started

\* The handle is connected as it was asked for, where that is one thing: an invariant of the
\* connection, which SourcesInOrder and SessionFollows follow from
\* (connection.cpp:128-206).
THEOREM ConnectedAsAsked == Spec => []ConnectedInv
<1>1. Init => ConnectedInv
  BY DEF Init, ConnectedInv
<1>2. ConnectedInv /\ [Next]_vars => ConnectedInv'
  <2> SUFFICES ASSUME ConnectedInv, [Next]_vars PROVE ConnectedInv'
    OBVIOUS
  <2>1. ASSUME NEW pairs \in Strings, Connect(pairs) PROVE ConnectedInv'
    BY <2>1, ConnectKeeps
  <2>2. CASE Request
    BY <2>2 DEF Request, ConnectedInv, AsConnected, SessionParts
  <2>3. CASE Disconnect
    BY <2>3 DEF Disconnect, ConnectedInv
  <2>4. CASE SetConnectionTimeout
    BY <2>4, NotFlags DEF SetConnectionTimeout, ConnectedInv, AsConnected, SessionParts
  <2>5. ASSUME NEW catalog \in Catalogs, SetCurrentCatalog(catalog) PROVE ConnectedInv'
    BY <2>5, NotFlags DEF SetCurrentCatalog, ConnectedInv, AsConnected
  <2>6. CASE UNCHANGED vars
    BY <2>6 DEF vars, ConnectedInv, AsConnected
  <2> QED
    BY <2>1, <2>2, <2>3, <2>4, <2>5, <2>6 DEF Next
<1> QED
  BY <1>1, <1>2, PTL DEF Spec

\* Whatever the connection strings, the DSNs and the URLs are, and however often
\* a handle is connected again, every field but the two flags has the value that
\* its own sources give it in the order of connection.h:90-93, unless they
\* contradict one another: an empty value hides another one, or both a key and the
\* URL name a database (connection.cpp:212-535).
THEOREM FieldsFollowTheirSources == Spec => []SourcesInOrder
<1>1. ConnectedInv => SourcesInOrder
  BY DEF ConnectedInv, AsConnected, SourcesInOrder
<1> QED
  BY <1>1, ConnectedAsAsked, PTL

\* The session of a connected handle and the target of its requests follow what
\* was asked for (connection.cpp:75-125, 178-206).
THEOREM SessionFollowsTheFields == Spec => []SessionFollows
<1>1. ConnectedInv => SessionFollows
  <2> DEFINE inUrl(k) == expected.url # Empty /\ k \in DOMAIN Uri[expected.url].query
             follows(f, value) == f \in contested \/ value = expected[f]
  <2> SUFFICES ASSUME AsConnected, open PROVE SessionFollows
    BY DEF ConnectedInv, SessionFollows
  <2>1. ASSUME NEW f \in DOMAIN Blank \ Flags PROVE follows(f, fields[f])
    BY <2>1 DEF AsConnected
  <2>2. /\ follows("server", session.host) /\ follows("port", session.port)
        /\ follows("proto", session.kind) /\ follows("timeout", session.timeouts[2])
    BY <2>1, NotFlags DEF AsConnected
  <2>3. follows("connection_timeout", ReportedTimeout)
    BY <2>1, NotFlags DEF AsConnected, ReportedTimeout
  <2>4. follows("path", RequestTarget.path)
    BY <2>1, NotFlags DEF RequestTarget
  <2>5. ASSUME NEW k \in {"database", "default_format"}, "url" \notin contested
        PROVE  IF inUrl(k) THEN RequestTarget.query[k] = Uri[expected.url].query[k]
               ELSE follows(k, RequestTarget.query[k])
    <3>1. fields.url = expected.url
      BY <2>1, <2>5, NotFlags
    <3>2. follows(k, fields[k])
      BY <2>1, NotFlags
    <3>3. RequestTarget.query[k] = InQuery(UrlOf(fields.url), k, fields[k])
      BY DEF RequestTarget
    <3>4. DOMAIN NoUrl.query = {}
      BY NoUrlFields
    <3>5. CASE inUrl(k)
      BY <3>1, <3>3, <3>5 DEF InQuery, UrlOf
    <3>6. CASE ~inUrl(k)
      BY <3>1, <3>2, <3>3, <3>4, <3>6 DEF InQuery, UrlOf
    <3> QED
      BY <3>5, <3>6
  <2> QED
    BY <2>2, <2>3, <2>4, <2>5 DEF SessionFollows
<1> QED
  BY <1>1, ConnectedAsAsked, PTL
=============================================================================
