------------------------------ MODULE Postgres ------------------------------
(***************************************************************************)
(* internal/proto/postgres: SSL negotiation, startup parameters, password  *)
(* and queries.  A message is its kind (the request code of a startup      *)
(* message, the type byte of a later one, or "length" for a length the     *)
(* code refuses) and its body.  Of a reply only the type is kept.          *)
(***************************************************************************)
EXTENDS Session

\* parseStartupParams: the pairs in order of appearance.  A pair with an empty
\* key is skipped; fewer than two bytes, or a string without its zero, end it.
Params(data) ==
  LET nul(i) == SelectInSubSeq(data, i, Len(data), LAMBDA b : b = "NUL")
      from[i \in 1..(Len(data) + 1)] ==
        LET k == nul(i)
            v == nul(k + 1)
            pair == <<SubSeq(data, i, k - 1), SubSeq(data, k + 1, v - 1)>>
        IN  IF i >= Len(data) \/ k = 0 \/ v = 0 THEN << >>
            ELSE (IF k = i THEN << >> ELSE <<pair>>) \o from[v + 1]
  IN  from[1]

\* params[key]: the last pair wins, no pair is the empty string.
Param(data, key) ==
  LET ps == Params(data)
      i == SelectLastInSeq(ps, LAMBDA p : p[1] = <<key>>)
  IN  IF i = 0 THEN << >> ELSE ps[i][2]

\* doStartup: the session's user and database; without a database it is the user's.
WhoOf(data) ==
  LET user == Param(data, "user")
      db == Param(data, "database")
  IN  [user |-> user, db |-> IF db = << >> THEN user ELSE db]

Greeting == <<"R0", "S", "S", "S", "S", "S", "S", "K", "Z">>

PostgresRest(c) == UNCHANGED <<client, parsed, out, counters>>

PostgresEnter(c) ==
  /\ At(c, "postgres", "accepted")
  /\ Goto(c, "startup")
  /\ UNCHANGED <<in, who, sent, log>> /\ PostgresRest(c)

PostgresMessage(c, place, kinds) ==
  /\ At(c, "postgres", place) /\ HasMessage(c)
  /\ Message(c).kind \in kinds
  /\ Consume(c)
  /\ PostgresRest(c)

\* doStartup declines SSL and reads again.
PostgresSSL(c) ==
  /\ PostgresMessage(c, "startup", {"ssl"})
  /\ Answer(c, <<"N">>, "startup")
  /\ UNCHANGED <<who, log>>

\* doStartup has the parameters; sendAuthMD5 asks for the password.
PostgresStartup(c) ==
  /\ PostgresMessage(c, "startup", {"v3"})
  /\ who' = [who EXCEPT ![c] = WhoOf(Message(c).body)]
  /\ Answer(c, <<"R5">>, "password")
  /\ UNCHANGED log

\* A cancel request, another protocol or a bad length: doStartup fails.
PostgresRefuse(c) ==
  /\ PostgresMessage(c, "startup", {"cancel", "other", "length"})
  /\ Goto(c, "closed")
  /\ UNCHANGED <<who, sent, log>>

PostgresPassword(c) ==
  /\ PostgresMessage(c, "password", {"p"})
  /\ Log(<<[Blank(c) EXCEPT !.user = who[c].user, !.db = who[c].db,
                            !.hash = NullTerm(Message(c).body), !.cmd = <<"CONNECT">>]>>)
  /\ Answer(c, Greeting, "loop")
  /\ UNCHANGED who

\* readPasswordMessage insists on 'p'.
PostgresNoPassword(c) ==
  /\ PostgresMessage(c, "password", {"Q", "X", "P", "S", "F", "length"})
  /\ Goto(c, "closed")
  /\ UNCHANGED <<who, sent, log>>

\* Faulty variant: the client is not told that the server is ready again.
QueryReplyUnready == <<"I">>

QueryReply == <<"I", "Z">>

PostgresQuery(c) ==
  /\ PostgresMessage(c, "loop", {"Q"})
  /\ Log(<<[Blank(c) EXCEPT !.user = who[c].user, !.db = who[c].db,
                            !.cmd = Truncate(NullTerm(Message(c).body), MaxQuery)]>>)
  /\ Answer(c, QueryReply, "loop")
  /\ UNCHANGED who

\* Parse, Bind, Describe and Execute, all written "P" here, and Sync.
PostgresExtended(c) ==
  /\ PostgresMessage(c, "loop", {"P", "S"})
  /\ Answer(c, <<"E", "Z">>, "loop")
  /\ UNCHANGED <<who, log>>

\* Any other type.
PostgresIgnore(c) ==
  /\ PostgresMessage(c, "loop", {"F", "p"})
  /\ UNCHANGED <<pc, who, sent, log>>

PostgresEnd(c) ==
  /\ PostgresMessage(c, "loop", {"X", "length"})
  /\ Goto(c, "closed")
  /\ UNCHANGED <<who, sent, log>>

\* readMessage fails.
PostgresReadFails(c) ==
  /\ Proto(c) = "postgres" /\ pc[c] \in {"startup", "password", "loop"}
  /\ ~HasMessage(c)
  /\ Goto(c, "closed")
  /\ UNCHANGED <<in, who, sent, log>> /\ PostgresRest(c)

PostgresNext(c) ==
  \/ PostgresEnter(c) \/ PostgresSSL(c) \/ PostgresStartup(c) \/ PostgresRefuse(c)
  \/ PostgresPassword(c) \/ PostgresNoPassword(c)
  \/ PostgresQuery(c) \/ PostgresExtended(c) \/ PostgresIgnore(c) \/ PostgresEnd(c)
  \/ PostgresReadFails(c)
=============================================================================
