-------------------------- MODULE MCConfiguration --------------------------
(* Small connection strings that set the fields that depend on one another. *)
EXTENDS Configuration

U(scheme, userinfo, host, port, path, query) ==
  [scheme |-> scheme, colon |-> userinfo # <<>>,
   user |-> IF userinfo = <<>> THEN "" ELSE userinfo[1],
   password |-> IF userinfo = <<>> THEN "" ELSE userinfo[2],
   host |-> host, port |-> port, path |-> path, query |-> query]

SmallUri ==
  ("http://a:9000" :> U("http", <<>>, "a", 9000, "", <<>>)) @@
  ("http://a:443/" :> U("http", <<>>, "a", 443, "/", <<>>)) @@
  ("https://u:w@b/p?database=d" :> U("https", <<"u", "w">>, "b", 0, "/p", [database |-> "d"])) @@
  ("//b?default_format=R&database=" :>
     U("", <<>>, "b", 0, "", [default_format |-> "RowBinary", database |-> ""]))

SmallNumberOf == ("0" :> 0) @@ ("5" :> 5) @@ ("443" :> 443) @@ ("70000" :> 70000)

\* The first section is the one of a connection string without a DSN.
SmallSections ==
  ("" :> [Timeout |-> "5"]) @@
  ("one" :> [Url |-> "http://a:9000", UID |-> "v", Password |-> "q", Host |-> "h",
             Port |-> "", SSLMode |-> "prefer", Database |-> "e", Driver |-> "D"]) @@
  ("two" :> [VerifyConnectionEarly |-> "on", HugeIntAsString |-> "on",
             Proto |-> "https", StringMaxLength |-> "5", DSN |-> "one"])

\* A pair or none.
Perhaps(k, values) == {<<>>} \cup {<<<<k, v>>>> : v \in values}

Where ==
  {a \o b \o c : a \in Perhaps("Url", DOMAIN SmallUri),
                 b \in Perhaps("Proto", {"http", "https"}),
                 c \in Perhaps("Port", {"443"})}
Who ==
  {a \o b \o c \o d : a \in Perhaps("UID", {"x"}), b \in Perhaps("Username", {"y"}),
                      c \in Perhaps("PWD", {""}),
                      d \in Perhaps("Url", {"https://u:w@b/p?database=d"})}
What ==
  {a \o b \o c : a \in Perhaps("Server", {"", "s"}), b \in Perhaps("Path", {"p"}),
                 c \in Perhaps("Database", {"e"})}
How ==
  {a \o b \o c : a \in Perhaps("VerifyConnectionEarly", {"on", "off"}),
                 b \in Perhaps("HugeIntAsString", {"on"}),
                 c \in Perhaps("Timeout", {"5"})}
Odd == {<<<<k, v>>>> : <<k, v>> \in
          {<<"", "">>, <<"FileDSN", "f">>, <<"SaveFile", "f">>, <<"Unknown", "u">>,
           <<"Port", "70000">>, <<"Port", "0">>, <<"SSLMode", "allow">>, <<"SSLMode", "no">>,
           <<"StringMaxLength", "0">>, <<"HugeIntAsString", "x">>,
           <<"Url", "http://[">>}}
       \cup {<<<<"Driver", "D">>, <<"DSN", "one">>>>, <<<<"DSN", "one">>, <<"Driver", "D">>>>,
             <<<<"FileDSN", "f">>, <<"DSN", "one">>>>, <<<<"Server", "s">>, <<"Server", "t">>>>,
             <<<<"Timeout", "0">>, <<"UID", "a:b">>>>, <<<<"Host", "h">>, <<"Server", "s">>>>}

SmallStrings ==
  Where \cup Who \cup What \cup How \cup Odd
    \cup {<<<<"DSN", "one">>>> \o rest : rest \in Who \cup What}
    \cup {<<<<"DSN", "two">>>> \o rest : rest \in How}
=============================================================================
