------------------------------ MODULE Sessions ------------------------------
(***************************************************************************)
(* All session handlers together, writing to one store, and what their     *)
(* clients and the reader of the log may rely on.  Every property compares *)
(* what the handlers did with what the clients meant (the args, means and  *)
(* cred fields of their items), whatever the others do in between.         *)
(***************************************************************************)
EXTENDS Redis, MySQL, Postgres, Http

Ended(c) == pc[c] \in {"closed", "failed"}

Rest == (\A c \in Conns : Ended(c)) /\ UNCHANGED vars

Next == \/ \E c \in Conns : \/ RedisNext(c) \/ MySQLNext(c)
                            \/ PostgresNext(c) \/ HttpNext(c)
        \/ Rest

Spec == Init /\ [][Next]_vars

-----------------------------------------------------------------------------

Of(p) == {c \in Conns : Proto(c) = p}

Items(c) == client[c].items

(* Redis. *)

\* The whole stream arrives.
Uncut(c) == client[c].cut = Len(FlattenSeq([i \in DOMAIN Items(c) |-> Items(c)[i].wire]))

Quit(c) == parsed[c] # << >> /\ Is(Last(parsed[c]), {"QUIT"})

\* ReadCommand recovers what the client encoded: binary arguments, null and
\* empty ones, pipelined and inline commands, limits met exactly; after something
\* malformed (no args) nothing more; all of it if the stream is whole.
CommandsFaithful ==
  \A c \in Of("redis") :
    LET n == Len(parsed[c])
    IN  /\ n <= Len(Items(c))
        /\ \A i \in 1..n : parsed[c][i] = Items(c)[i].args
        /\ pc[c] = "closed" /\ Uncut(c) /\ ~Quit(c) /\ n < Len(Items(c)) =>
             Items(c)[n + 1].args = << >>

\* The commands whose replies have been flushed: QUIT's never is.
Answered(c) ==
  IF pc[c] \in {"handle", "failed"} \/ (pc[c] = "closed" /\ Quit(c))
  THEN Len(parsed[c]) - 1 ELSE Len(parsed[c])

\* A client reads a bulk reply by its length, any other as a line (arrays are
\* all empty).
ClientReads(s) ==
  LET line == ReadLine(s)
      n == Atoi(Tail(line.val))
  IN  IF Head(s) # "$" \/ n = -1 THEN line
      ELSE IF Len(line.rest) < n + 2 \/ SubSeq(line.rest, n + 1, n + 2) # CRLF THEN Error
      ELSE Got(SubSeq(line.rest, 1, n), From(line.rest, n + 3))

\* The first n replies in s, each with what follows it.
Decoded(s, n) ==
  LET reply[k \in 0..n] ==
        IF k = 0 THEN Got(<< >>, s)
        ELSE IF ~reply[k - 1].ok \/ reply[k - 1].rest = << >> THEN Error
        ELSE ClientReads(reply[k - 1].rest)
  IN  reply

\* What an error line may repeat of a command, as it was sent: its name, or the
\* subcommand of CONFIG.
Repeated(args) == IF Is(args, {"CONFIG"}) /\ Len(args) > 1 THEN args[2] ELSE args[1]

\* How many of the commands answered come before the first of which a line break
\* could be repeated: WriteError sends it as it is, and it ends the line.
Framed(c) ==
  Max({n \in 0..Answered(c) : \A k \in 1..n : ~Contains(Repeated(parsed[c][k]), "LF")})

\* A client loses step only by such a command: up to it, what was sent is exactly
\* one reply per command answered, and the reply to PING is its own argument
\* whatever bytes it has.
RepliesFramed ==
  \A c \in Of("redis") :
    LET n == Framed(c)
        reply == Decoded(sent[c], n)
        echoed(args) == Is(args, {"PING"}) /\ Len(args) > 1
    IN  /\ reply[n].ok
        /\ n = Answered(c) => reply[n].rest = << >>
        /\ \A k \in 1..n : echoed(parsed[c][k]) => reply[k].val = parsed[c][k][2]

\* INFO stats tells a client of at least its own commands so far and of at most
\* all commands and connections there have been, on any connection.
InfoCounts ==
  \A c \in Of("redis") :
    LET reply == Decoded(sent[c], Framed(c))
        number(k, i) == Atoi(<<reply[k].val[i]>>)
    IN  \A k \in 1..Framed(c) : parsed[c][k] = <<<<"INFO">>, <<"stats">>>> =>
          number(k, 4) \in k..commands /\ number(k, 3) \in 1..received

\* The handlers that were started, those of them that run, and the commands read.
Started == {c \in Of("redis") : pc[c] # "accepted"}
Running == {c \in Started : ~Ended(c)}
Commands == UNION {{c} \X DOMAIN parsed[c] : c \in Of("redis")}

\* Whatever way a session ends, counters.active counts the handlers that run,
\* received the connections and commands the commands read on all of them.
CountersExact == /\ received = Cardinality(Started)
                 /\ active = Cardinality(Running)
                 /\ commands = Cardinality(Commands)

-----------------------------------------------------------------------------
(* MySQL and PostgreSQL. *)

\* What a client means by a message is what its bytes say to the code's parsers, and
\* nothing else: readHandshakeResponse and the command byte with MySQL.
MySQLMeant(items, i) ==
  LET w == items[i].wire
      m == items[i].means
      login == LoginOf(w)
      com == IF w.body = << >> THEN "none" ELSE Head(w.body)
  IN  IF i = 1
      THEN /\ m.kind # "query"
           /\ m.kind = "login" <=> login.ok
           /\ login.ok => m.user = login.user /\ m.db = login.db /\ m.hash = login.hash
      ELSE /\ m.kind # "login"
           /\ m.kind = "query" <=> com = "x03"
           /\ m.kind = "use" <=> com = "x02"
           /\ com = "x03" => m.text = Tail(w.body) /\ m.hash = << >>
           /\ com = "x02" => m.db = Tail(w.body)

\* With PostgreSQL the password means the startup message it comes behind.
PostgresMeant(items, i) ==
  LET w == items[i].wire
      m == items[i].means
      behind == i > 1 /\ items[i - 1].wire.kind = "v3"
      name == WhoOf(items[i - 1].wire.body)
  IN  /\ m.kind # "use"
      /\ m.kind = "login" <=> behind /\ w.kind = "p"
      /\ m.kind = "query" <=> ~behind /\ w.kind = "Q"
      /\ m.kind = "login" => m.user = name.user /\ m.db = name.db /\ m.hash = NullTerm(w.body)
      /\ m.kind = "query" => m.text = NullTerm(w.body) /\ m.hash = << >>

Understood ==
  \A clients \in Cases : \A c \in Conns : \A i \in DOMAIN clients[c].items :
    /\ clients[c].proto = "mysql" => MySQLMeant(clients[c].items, i)
    /\ clients[c].proto = "postgres" => PostgresMeant(clients[c].items, i)

Kind(c, i) == Read(c)[i].means.kind

\* What the last message up to i of one of the kinds means.
LastMeant(c, i, kinds) == Read(c)[Max({j \in 1..i : Kind(c, j) \in kinds})].means

\* What the log must hold of a login or a query: it is under the name of the login
\* and the database selected at that point.
MeantEvent(c, i) ==
  Sanitize([Blank(c) EXCEPT
    !.user = LastMeant(c, i, {"login"}).user,
    !.db = LastMeant(c, i, {"login", "use"}).db,
    !.hash = Read(c)[i].means.hash,
    !.cmd = IF Kind(c, i) = "login" THEN <<"CONNECT">>
            ELSE Truncate(Read(c)[i].means.text, MaxQuery)])

ToTell(c) == {i \in DOMAIN Read(c) : Kind(c, i) \in {"login", "query"}}

\* Every login and query the handler has read is logged once, in order, with the
\* name, database and response the client meant, under its own connection.
SessionLogged ==
  \A c \in Of("mysql") \cup Of("postgres") :
    LoggedBy(c) = Pick([i \in DOMAIN Read(c) |-> MeantEvent(c, i)], ToTell(c))

Wire(c, i) == Read(c)[i].wire

\* How many packets answer packet i: two a query, none an empty one or COM_QUIT, and
\* one a login and any other command.
AnswersTo(c, i) ==
  LET w == Wire(c, i)
  IN  IF i = 1 THEN (IF LoginOf(w).ok THEN 1 ELSE 0)
      ELSE IF w.body = << >> \/ Head(w.body) = "x01" THEN 0
      ELSE IF Head(w.body) = "x03" THEN 2 ELSE 1

\* The packets due to a MySQL client: <<i, k>> is the k-th that answers its i-th.
Due(c) == {p \in (DOMAIN Read(c)) \X (1..2) : p[2] <= AnswersTo(c, p[1])}

\* Where it must be among the packets sent: the greeting and all answers to
\* earlier packets go before it.
Place(c, p) == 1 + Cardinality({q \in Due(c) : q[1] < p[1]}) + p[2]

\* The k-th number after n on a byte.
Counted(n, k) == IF n + k > 255 THEN n + k - 256 ELSE n + k

\* A client numbers its packets by bytes, and its login, behind the greeting, 1.
Conforming(c) ==
  \A i \in DOMAIN Read(c) : Wire(c, i).seq \in 0..255 /\ (i = 1 => Wire(c, i).seq = 1)

\* A MySQL client is sent the greeting and the answers due, none more and none out
\* of place, and each continues the sequence numbers of the packet it answers, also
\* past 255.
SequenceFollows ==
  \A c \in Of("mysql") : Conforming(c) =>
    /\ sent[c] # << >> => sent[c][1] = 0
    /\ Len(sent[c]) <= 1 + Cardinality(Due(c))
    /\ pc[c] = "loop" => Len(sent[c]) = 1 + Cardinality(Due(c))
    /\ \A p \in Due(c) : Place(c, p) <= Len(sent[c]) =>
         sent[c][Place(c, p)] = Counted(Wire(c, p[1]).seq, p[2])

\* A message in the place of the password, right behind the startup message.
BehindStartup(c, i) == i > 1 /\ Wire(c, i - 1).kind = "v3"

\* The messages after which a PostgreSQL client waits for ReadyForQuery: its
\* password, its simple queries and its Syncs.
Awaited(c) == {i \in DOMAIN Read(c) : Wire(c, i).kind \in {"Q", "S"} \/ BehindStartup(c, i)}

\* The messages it sends before a Sync, without waiting.
Unsynced(c) == {i \in DOMAIN Read(c) : Wire(c, i).kind = "P" /\ ~BehindStartup(c, i)}

Readies(c) == {i \in DOMAIN sent[c] : sent[c][i] = "Z"}

\* A client that waits for ReadyForQuery after each message it waits for always gets
\* it, and it comes last.  One that sends simple queries only stays in step: it gets
\* no other.  One that uses the extended protocol does not: each Parse, Bind,
\* Describe and Execute brings it one too many, and nothing else does.
ReadyFollows ==
  \A c \in Of("postgres") : pc[c] = "loop" =>
    /\ Cardinality(Readies(c)) = Cardinality(Awaited(c)) + Cardinality(Unsynced(c))
    /\ Last(sent[c]) = "Z"

-----------------------------------------------------------------------------
(* Credentials and the log. *)

\* The items a handler is done with.
Handled(c) ==
  IF Proto(c) # "redis" THEN Read(c)
  ELSE SubSeq(Items(c), 1, IF pc[c] = "handle" THEN Len(parsed[c]) - 1 ELSE Len(parsed[c]))

Kept(c, cred) ==
  \E i \in DOMAIN log : /\ log[i].conn = c
                        /\ log[i].user = SanitizeStr(cred[1])
                        /\ log[i].pass = SanitizeStr(cred[2])

\* Forms whose credentials the code does not look for: AUTH with a user name,
\* and a Basic header anywhere but in a login whose body is not JSON.
Overlooked(c, item) ==
  IF Proto(c) = "redis" THEN Is(item.args, {"AUTH"}) /\ Len(item.args) > 2
  ELSE /\ item.wire.basic # << >>
       /\ \/ Route(item.wire.svc, item.wire.path) # "session"
          \/ item.wire.method # "POST"
          \/ IsJSON(LimitedBody(item.wire))

Credentialed == Of("redis") \cup Of("http")

\* What a client's credential is, by the words of the protocol: the argument of AUTH,
\* with a name before it or without, or what follows the first AUTH of a HELLO;
RedisSecret(args, cred) ==
  \/ Is(args, {"AUTH"}) /\ Len(args) = 2 /\ cred = <<<< >>, args[2]>>
  \/ Is(args, {"AUTH"}) /\ Len(args) = 3 /\ cred = <<args[2], args[3]>>
  \/ /\ Is(args, {"HELLO"})
     /\ \E i \in 2..(Len(args) - 2) :
          /\ ToUpper(args[i]) = <<"AUTH">> /\ cred = <<args[i + 1], args[i + 2]>>
          /\ \A j \in 2..(i - 1) : ToUpper(args[j]) # <<"AUTH">>

\* a Basic header on any request, or the JSON of a login that is not cut.
HttpSecret(r, cred) ==
  /\ cred # <<<< >>, << >>>>
  /\ \/ cred = r.basic
     \/ /\ Route(r.svc, r.path) = "session" /\ r.method = "POST"
        /\ IsJSON(LimitedBody(r)) /\ cred = NamePassword(LimitedBody(r))

Declared ==
  \A clients \in Cases : \A c \in Conns : \A i \in DOMAIN clients[c].items :
    LET item == clients[c].items[i]
    IN  /\ clients[c].proto = "redis" /\ item.cred # << >> => RedisSecret(item.args, item.cred)
        /\ clients[c].proto = "http" /\ item.cred # << >> => HttpSecret(item.wire, item.cred)

\* What the README says of the log: every credential a client sends is in it.
EveryCredentialLogged ==
  \A c \in Credentialed : \A i \in DOMAIN Handled(c) :
    Handled(c)[i].cred # << >> => Kept(c, Handled(c)[i].cred)

\* The same for every form but those above: AUTH with a password, HELLO with AUTH
\* in any place, a CouchDB login by JSON or, when the body is absent, cut short by
\* the limit or not JSON, by header.
CredentialsLogged ==
  \A c \in Credentialed : \A i \in DOMAIN Handled(c) :
    LET item == Handled(c)[i]
    IN  item.cred # << >> /\ ~Overlooked(c, item) => Kept(c, item.cred)

Texts(e) == {e.user, e.pass, e.db, e.hash, e.cmd, e.payload}

\* What sanitize is for: no field of any event holds a control character (C1
\* controls, and those a cut or a neighbour makes, included), every field is valid
\* UTF-8, and none has more runes than the bytes kept of it.
LogClean ==
  \A i \in DOMAIN log : \A t \in Texts(log[i]) :
    /\ \A k \in DOMAIN t : t[k] \notin Controls \cup HighBytes
    /\ Len(t) <= MaxField

Safe(t) == \A k \in DOMAIN t : t[k] \in PathText

\* Request lines in the log and what replies reflect of a path, the index names of
\* Elasticsearch's 404s and CouchDB's db_name, hold only characters of
\* [A-Za-z0-9._/-], also where the cut falls inside a rune.
PathsSafe ==
  /\ \A i \in DOMAIN log : Proto(log[i].conn) = "http" => Safe(log[i].cmd)
  /\ \A c \in Of("http") : \A i \in DOMAIN sent[c] : Safe(sent[c][i].path)
=============================================================================
