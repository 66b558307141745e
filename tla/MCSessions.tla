----------------------------- MODULE MCSessions -----------------------------
(* Clients of every protocol, as they encode what they mean.  Limits are    *)
(* scaled down: 5 arguments, bulks of 3 bytes, inline commands of 5, fields  *)
(* and bodies of 4, paths of 4, queries of 3.                                *)
EXTENDS Sessions

CONSTANTS c1, c2
MCConns == {c1, c2}

Client(p, items, cut) == [proto |-> p, items |-> items, cut |-> cut]

Whole(p, items) == Client(p, items, Len(items))

MCPathText == {"/", "_", "_nodes", "_xpack", "_cluster", "health", "_cat", "_search", "_utils",
               "_session", "SESSION", "x", "db", "doc", "GET", "PUT", "POST", "DELETE"}

\* Nobody: an HTTP connection without a request.
Absent == Whole("http", << >>)

-----------------------------------------------------------------------------
(* Redis. *)

Encode(args) ==
  <<"*", Itoa(Len(args))>> \o CRLF \o
  FlattenSeq([i \in DOMAIN args |-> <<"$", Itoa(Len(args[i]))>> \o CRLF \o args[i] \o CRLF])

Cmd(args) == [wire |-> Encode(args), args |-> args, cred |-> << >>]
Words(ws) == Cmd([i \in DOMAIN ws |-> <<ws[i]>>])
Cred(args, user, pass) == [wire |-> Encode(args), args |-> args, cred |-> <<user, pass>>]
Inline(line, args) == [wire |-> line \o CRLF, args |-> args, cred |-> << >>]
Malformed(bytes) == [wire |-> bytes, args |-> << >>, cred |-> << >>]

\* Credentials, arguments that look like protocol, and QUIT.
Core ==
  { Cred(<<<<"auth">>, <<"pw", "CR", "LF">>>>, << >>, <<"pw", "CR", "LF">>),
    Cred(<<<<"AUTH">>, <<"carol">>, <<"pw">>>>, <<"carol">>, <<"pw">>),
    Cred(<<<<"HELLO">>, <<"3">>, <<"AUTH">>, <<"bob">>, <<"xC2", "ESC", "x85">>>>,
         <<"bob">>, <<"xC2", "ESC", "x85">>),
    Cmd(<<<<"PING">>, <<"LF", "+", "CR">>>>),
    Cmd(<<<<"FOO", "LF">>, << >>>>),
    Inline(<<"SET", "SP", "k", "SP", "v">>, <<<<"SET">>, <<"k">>, <<"v">>>>),
    Words(<<"INFO", "stats">>),
    Words(<<"quit">>) }

\* The rest of the command table, and the limits from both sides.
Others ==
  {Words(<<w>>) : w \in {"COMMAND", "ping", "AUTH", "SELECT", "INFO", "CONFIG", "KEYS",
                         "DBSIZE", "SET", "get", "DEL", "TTL", "FLUSHALL", "CLIENT",
                         "CLUSTER", "DEBUG", "HELLO"}}
  \cup {Words(<<"CONFIG", w>>) : w \in {"GET", "SET", "RESETSTAT", "REWRITE", "x"}}
  \cup {Words(ws) : ws \in {<<"CONFIG", "get", "x">>, <<"CONFIG", "SET", "x", "y">>,
                            <<"GET", "k">>, <<"INFO", "cpu">>, <<"INFO", "x">>,
                            <<"CLIENT", "GETNAME">>, <<"HELLO", "AUTH", "u">>,
                            <<"DEL", "1", "2", "3", "4">>}}
  \cup {Cmd(<<<<"PING">>, << >>>>),
        Cred(<<<<"HELLO">>, <<"AUTH">>, <<"bob">>, << >>>>, <<"bob">>, << >>),
        [wire |-> <<"*", "2", "LF", "$", "1", "LF", "PING", "CR", "LF", "$", "-1">> \o CRLF,
         args |-> <<<<"PING">>, << >>>>, cred |-> << >>],
        Inline(<<"SP", "ping", "SP">>, <<<<"ping">>>>),
        Inline(<<"PING", "xC2", "x85", "k", "xC2">>, <<<<"PING">>, <<"k", "xC2">>>>),
        Cmd(<<<<"CONFIG">>, <<"LF", "x">>>>)}
  \cup {Malformed(b \o CRLF) : b \in {<< >>, <<"SP">>, <<"*", "0">>, <<"*", "-1">>, <<"*", "6">>,
                                      <<"*", "x">>, <<"*", "1", "1">>, <<"*">>,
                                      <<"a", "SP", "b", "SP", "c", "SP">>}}
  \cup {Malformed(<<"*", "1">> \o CRLF \o b \o CRLF) :
          b \in {<< >>, <<"$">>, <<"$", "4">> \o CRLF \o <<"a", "b", "c", "d">>, <<"$", "x">>,
                 <<"+", "1">>, <<"$", "1">> \o CRLF \o <<"a", "b">>, <<"$", "-2">>}}

Bytes(items) == Len(FlattenSeq([i \in DOMAIN items |-> items[i].wire]))

Redis(items) == Client("redis", items, Bytes(items))

Pairs2 == {<<x, y>> : x \in Core, y \in Core}

RedisCut == UNION {{Client("redis", s, k) : k \in 0..Bytes(s)} :
                   s \in {<<x, y>> : x \in {Cmd(<<<<"PING">>, <<"LF", "+", "CR">>>>)}, y \in Core}}

RedisClients == {Redis(s) : s \in Pairs2} \cup {Redis(<<x, Words(<<"INFO", "stats">>)>>) : x \in Others}

-----------------------------------------------------------------------------
(* MySQL and PostgreSQL. *)

Means(kind, user, db, hash, text) ==
  [kind |-> kind, user |-> user, db |-> db, hash |-> hash, text |-> text]
Nothing(kind) == Means(kind, << >>, << >>, << >>, << >>)

Packet(seq, body) == [seq |-> seq, fixed |-> TRUE, flags |-> {}, body |-> body]

LoginBody(user, auth, db, flags) ==
  user \o <<"NUL">>
    \o (IF "secure" \in flags
        THEN <<IF auth = << >> THEN "NUL" ELSE Lengths[Len(auth)]>> \o auth
        ELSE auth \o <<"NUL">>)
    \o (IF "db" \in flags THEN db \o <<"NUL">> ELSE << >>)

Login(user, auth, db, flags) ==
  [wire |-> [seq |-> 1, fixed |-> TRUE, flags |-> flags,
             body |-> LoginBody(user, auth, db, flags)],
   means |-> Means("login", user, IF "db" \in flags THEN db ELSE << >>, Hex(auth), << >>)]

Logins ==
  {Login(u, a, d, f) : u \in {<<"alice">>, << >>, <<"al", "LF", "xFF">>},
                       a \in {<< >>, <<"NUL", "a">>, <<"xC3", "NUL", "ESC">>},
                       d \in {<< >>, <<"shop">>}, f \in {{"secure"}, {"secure", "db"}}}
  \cup {Login(<<"alice">>, a, <<"shop">>, f) : a \in {<< >>, <<"a", "ESC">>}, f \in {{}, {"db"}}}

BadLogins ==
  {[wire |-> [seq |-> 1, fixed |-> w[1], flags |-> {"secure"}, body |-> w[2]],
    means |-> Nothing("bad")] :
   w \in {<<FALSE, << >>>>, <<TRUE, << >>>>, <<TRUE, <<"alice">>>>, <<TRUE, <<"alice", "NUL">>>>,
          <<TRUE, <<"alice", "NUL", "2", "a">>>>, <<TRUE, <<"NUL", "1">>>>}}

Query(seq, text) == [wire |-> Packet(seq, <<"x03">> \o text),
                     means |-> Means("query", << >>, << >>, << >>, text)]
Use(seq, db) == [wire |-> Packet(seq, <<"x02">> \o db), means |-> Means("use", << >>, db, << >>, << >>)]

MySQLCommands ==
  {Query(q, <<"drop", "ESC", "xC3", "xA9">>) : q \in {0, 254, 255}}
  \cup {Use(0, <<"pay">>), Use(255, << >>),
        [wire |-> Packet(255, <<"x0e">>), means |-> Nothing("ping")],
        [wire |-> Packet(0, <<"ESC", "a">>), means |-> Nothing("other")],
        [wire |-> Packet(0, << >>), means |-> Nothing("empty")],
        [wire |-> Packet(0, <<"x01">>), means |-> Nothing("quit")]}

Alice == Login(<<"alice">>, <<"NUL", "a">>, <<"shop">>, {"secure", "db"})

MySQLClients ==
  {Whole("mysql", <<l, Query(0, <<"q">>)>>) : l \in Logins \cup BadLogins}
  \cup {Client("mysql", <<Alice, x, y, Query(0, <<"q">>)>>, k) :
          x \in MySQLCommands, y \in MySQLCommands, k \in {0, 3, 4}}

Message2(kind, body, means) == [wire |-> [kind |-> kind, body |-> body], means |-> means]
Plain(kind) == Message2(kind, << >>, Nothing("none"))
PGQuery(text) == Message2("Q", text \o <<"NUL">>, Means("query", << >>, << >>, << >>, text))

\* The parameters in the order given, each string with its zero, then a zero.
Startup(ps) ==
  Message2("v3", FlattenSeq([i \in DOMAIN ps |-> ps[i][1] \o <<"NUL">> \o ps[i][2] \o <<"NUL">>])
                   \o <<"NUL">>, Nothing("none"))
Password(user, db, hash) ==
  Message2("p", hash \o <<"NUL">>, Means("login", user, db, hash, << >>))

User(u) == <<<<"user">>, u>>
Database(d) == <<<<"database">>, d>>
Bob == <<"bob">>

PostgresLogins ==
  { <<Startup(<<User(Bob)>>), Password(Bob, Bob, <<"md5">>)>>,
    <<Startup(<<Database(<<"shop">>), User(Bob)>>), Password(Bob, <<"shop">>, <<"md5">>)>>,
    <<Startup(<<<<<<"app">>, << >>>>, User(Bob), Database(<<"d", "xC2", "x85">>)>>),
      Password(Bob, <<"d", "xC2", "x85">>, << >>)>>,
    <<Startup(<<User(<<"eve">>), Database(<< >>), User(Bob)>>), Password(Bob, Bob, <<"md5">>)>>,
    <<Startup(<< >>), Password(<< >>, << >>, <<"md5">>)>>,
    <<Plain("ssl"), Plain("ssl"), Startup(<<User(Bob)>>), Password(Bob, Bob, <<"md5", "ESC">>)>> }

PostgresCommands == {PGQuery(<<"sel", "x85", "xFF", "ect">>), Plain("P"), Plain("S"), Plain("F"), Plain("X"),
                     Plain("length")}

PostgresClients ==
  {Whole("postgres", l \o <<x, y, PGQuery(<<"q">>)>>) :
     l \in PostgresLogins, x \in PostgresCommands, y \in PostgresCommands}
  \cup {Whole("postgres", <<Plain(k), Startup(<<User(Bob)>>)>>) :
          k \in {"ssl", "cancel", "other", "length"}}
  \cup {Whole("postgres", <<Startup(<<User(Bob)>>), Plain(k), PGQuery(<<"q">>)>>) :
          k \in {"Q", "X", "P", "S", "F", "length"}}

-----------------------------------------------------------------------------
(* HTTP. *)

Request(svc, method, path, body, basic, cred) ==
  [wire |-> [svc |-> svc, method |-> method, path |-> path, body |-> body, basic |-> basic],
   cred |-> cred]

Dan == <<<<"dan">>, <<"pw", "ESC">>>>
Body == <<"{", "eve", "pw2", "}">>
Eve == <<<<"eve">>, <<"pw2">>>>

Requests ==
  {Request("es", "GET", p, <<"q", "LF">>, << >>, << >>) :
     p \in {<<"/">>, <<"/", "_nodes">>, <<"/", "_nodes", "/", "x">>, <<"/", "_xpack">>,
            <<"/", "_cluster", "/", "health">>, <<"/", "_cat">>, <<"/", "_cat", "/", "x">>,
            <<"/", "_search">>, <<"/", "xC3", "xA9">>, <<"/", "LF", "SP", "x">>}}
  \cup {Request("couch", m, p, <<"q", "xC2", "ESC", "x85", "z">>, << >>, << >>) :
          m \in {"GET", "PUT", "DELETE"},
          p \in {<<"/">>, <<"/", "_utils">>, <<"/", "_utils", "/">>, <<"/", "db", "ESC", "/", "doc">>,
                 <<"/", "{", "db">>}}
  \cup {Request("couch", "POST", <<"/", "_session">>, b, << >>, IF b = Body THEN Eve ELSE << >>) :
          b \in {<< >>, Body, <<"{", "}">>, <<"{", "x">>}}
  \cup {Request("couch", "POST", <<"/", "_session">>, b, Dan, Dan) :
          b \in {<< >>, <<"{", "}">>, <<"{", "x">>, <<"SP">> \o Body, <<"{", "a", "b", "c", "}">>}}
  \cup {Request("couch", "GET", <<"/", "_session">>, << >>, Dan, Dan),
        Request("es", "GET", <<"/", "_search">>, << >>, Dan, Dan)}

HttpClients == {Whole("http", <<r>>) : r \in Requests}
  \cup {Whole("http", <<r, Request("couch", "POST", <<"/", "_session">>, Body, << >>, Eve)>>) : r \in Requests}

-----------------------------------------------------------------------------

Clients == RedisClients \cup RedisCut \cup MySQLClients \cup PostgresClients \cup HttpClients

\* A second session that shares the store and, with Redis, the counters.
Companion == Redis(<<Words(<<"INFO", "stats">>), Cred(<<<<"AUTH">>, <<"s">>>>, << >>, <<"s">>)>>)

Accompanied == {Redis(s) : s \in Pairs2}
  \cup {Whole("mysql", <<Alice, Use(0, <<"pay">>), Query(255, <<"q">>)>>),
        Whole("postgres", <<Startup(<<User(Bob)>>), Password(Bob, Bob, <<"md5">>), PGQuery(<<"q">>)>>),
        Whole("http", <<Request("couch", "POST", <<"/", "_session">>, Body, << >>, Eve)>>)}

Pair(x, y) == [c \in MCConns |-> IF c = c1 THEN x ELSE y]

MCCases == {Pair(x, Absent) : x \in Clients} \cup {Pair(x, Companion) : x \in Accompanied}

\* Clients that log in to CouchDB by header alone, with POST and with GET.
HeaderLogins == {r \in Requests : r.wire.path = <<"/", "_session">> /\ r.wire.basic # << >>
                                  /\ r.wire.body = << >>}

HeaderCases == {Pair(Whole("http", <<r, s>>), Companion) : r \in HeaderLogins, s \in HeaderLogins}

\* The clients of MySQL and PostgreSQL encode what they mean as the code reads it; the
\* credentials of the others are where the protocols put them.
ASSUME MeaningAssumption == Understood /\ Declared
=============================================================================
