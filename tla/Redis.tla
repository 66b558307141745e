------------------------------- MODULE Redis --------------------------------
(***************************************************************************)
(* internal/proto/redis: the RESP reader (resp.go) over a stream of bytes, *)
(* the command table and the reply buffer (handler.go).                    *)
(***************************************************************************)
EXTENDS Session, FiniteSetsExt

CONSTANTS MaxArgs, MaxBulkLen, MaxInlineLen

\* Decimal text, as far as the model needs it.
Decimals == <<"-1", "0", "1", "2", "3", "4", "5", "6", "7", "8", "9", "10", "11",
              "12", "13", "14", "15", "16">>

Itoa(n) == Decimals[n + 2]

\* strconv.Atoi; what it refuses is -2, which every caller refuses too.
Atoi(s) == IF Len(s) = 1 THEN SelectInSeq(Decimals, LAMBDA d : d = s[1]) - 2 ELSE -2

UpperOf == [auth |-> "AUTH", ping |-> "PING", get |-> "GET", quit |-> "QUIT"]
LowerOf == [FOO |-> "foo", DEBUG |-> "debug", STATS |-> "stats"]

ToUpper(s) == [i \in DOMAIN s |-> IF s[i] \in DOMAIN UpperOf THEN UpperOf[s[i]] ELSE s[i]]
ToLower(s) == [i \in DOMAIN s |-> IF s[i] \in DOMAIN LowerOf THEN LowerOf[s[i]] ELSE s[i]]

-----------------------------------------------------------------------------
(* Reading.  Each operator takes the unread bytes and yields what it read    *)
(* and the rest, or Error: a protocol error and an early end are the same to *)
(* the handler.                                                              *)

Error == [ok |-> FALSE, val |-> << >>, rest |-> << >>]

Got(val, rest) == [ok |-> TRUE, val |-> val, rest |-> rest]

From(s, i) == SubSeq(s, i, Len(s))

ReadLine(s) ==
  LET k == SelectInSeq(s, LAMBDA b : b = "LF")
      end == IF k > 1 /\ s[k - 1] = "CR" THEN k - 2 ELSE k - 1
  IN  IF k = 0 THEN Error ELSE Got(SubSeq(s, 1, end), From(s, k + 1))

\* Faulty variant: the data is read as a line, not by its length.
ReadBulkStringByLine(s) ==
  LET line == ReadLine(s)
      n == Atoi(Tail(line.val))
  IN  IF ~line.ok \/ line.val = << >> \/ Head(line.val) # "$" \/ n < -1 \/ n > MaxBulkLen
      THEN Error
      ELSE IF n = -1 THEN Got(<< >>, line.rest)
      ELSE ReadLine(line.rest)

ReadBulkString(s) ==
  LET line == ReadLine(s)
      n == Atoi(Tail(line.val))
  IN  IF ~line.ok \/ line.val = << >> \/ Head(line.val) # "$" \/ n < -1 \/ n > MaxBulkLen
      THEN Error
      ELSE IF n = -1 THEN Got(<< >>, line.rest)
      ELSE IF Len(line.rest) < n + 2 \/ SubSeq(line.rest, n + 1, n + 2) # CRLF THEN Error
      ELSE Got(SubSeq(line.rest, 1, n), From(line.rest, n + 3))

ReadMultiBulk(header, s) ==
  LET count == Atoi(Tail(header))
      bulks[i \in 0..MaxArgs] ==
        LET bulk == ReadBulkString(bulks[i - 1].rest)
        IN  IF i = 0 THEN Got(<< >>, s)
            ELSE IF ~bulks[i - 1].ok \/ ~bulk.ok THEN Error
            ELSE Got(Append(bulks[i - 1].val, bulk.val), bulk.rest)
  IN  IF count < 1 \/ count > MaxArgs THEN Error ELSE bulks[count]

\* strings.Fields; the rune U85 is white space too.
Fields(s) ==
  LET nel(i) == {i, i + 1} \subseteq DOMAIN s /\ s[i] = "xC2" /\ s[i + 1] = "x85"
      blank(i) == s[i] \in {"SP", "CR"} \/ nel(i) \/ nel(i - 1)
      starts == {i \in DOMAIN s : ~blank(i) /\ (i = 1 \/ blank(i - 1))}
      order == SetToSortSeq(starts, LAMBDA i, j : i < j)
      end(i) == CHOOSE j \in i..Len(s) :
                  /\ \A k \in i..j : ~blank(k)
                  /\ j = Len(s) \/ blank(j + 1)
  IN  [k \in DOMAIN order |-> SubSeq(s, order[k], end(order[k]))]

ReadInline(line, s) ==
  IF Len(line) > MaxInlineLen \/ Fields(line) = << >> THEN Error ELSE Got(Fields(line), s)

ReadCommand(s) ==
  LET line == ReadLine(s)
  IN  IF ~line.ok \/ line.val = << >> THEN Error
      ELSE IF Head(line.val) = "*" THEN ReadMultiBulk(line.val, line.rest)
      ELSE ReadInline(line.val, line.rest)

-----------------------------------------------------------------------------
(* Replies. *)

WriteSimple(s) == <<"+">> \o s \o CRLF
WriteError(s) == <<"-", "ERR">> \o s \o CRLF
WriteInt(n) == <<":", Itoa(n)>> \o CRLF
WriteBulk(s) == <<"$", Itoa(Len(s))>> \o CRLF \o s \o CRLF
WriteNull == <<"$", "-1">> \o CRLF
EmptyArray == <<"*", "0">> \o CRLF

OK == WriteSimple(<<"OK">>)
WrongNumber == WriteError(<<"arguments">>)

Sections == <<"server", "clients", "stats", "replication", "cpu", "keyspace">>

\* Faulty variant: the two counters are passed in the wrong order.
InfoSectionSwapped(k) == IF k = "stats" THEN <<k, "LF", Itoa(commands), Itoa(received), "LF">>
                         ELSE <<k, "LF">>

\* buildInfo: each section is several lines; the counters are lines of "stats".
InfoSection(k) == IF k = "stats" THEN <<k, "LF", Itoa(received), Itoa(commands), "LF">>
                  ELSE <<k, "LF">>

Info(section) ==
  IF section \in {<< >>, <<"all">>, <<"default">>, <<"everything">>}
  THEN FlattenSeq([i \in DOMAIN Sections |-> InfoSection(Sections[i])])
  ELSE IF Len(section) = 1 /\ Contains(Sections, section[1]) THEN InfoSection(section[1])
  ELSE << >>

HandleConfig(args) ==
  LET sub == ToUpper(args[2])
      n == Len(args)
  IN  CASE n < 2 -> WrongNumber
        [] n >= 2 /\ sub = <<"GET">> -> IF n < 3 THEN WrongNumber ELSE EmptyArray
        [] n >= 2 /\ sub = <<"SET">> -> IF n < 4 THEN WrongNumber ELSE OK
        [] n >= 2 /\ sub = <<"RESETSTAT">> -> OK
        [] n >= 2 /\ sub = <<"REWRITE">> -> WriteError(<<"unsupported">>)
        [] OTHER -> WriteError(ToLower(sub))

Name(args) == ToUpper(args[1])

Is(args, names) == \E w \in names : Name(args) = <<w>>

\* Faulty variant: the argument is sent as a status line.
PingReplySimple(args) == WriteSimple(IF Len(args) > 1 THEN args[2] ELSE <<"PONG">>)

PingReply(args) == IF Len(args) > 1 THEN WriteBulk(args[2]) ELSE WriteSimple(<<"PONG">>)

\* What handleCmd writes.
Reply(args) ==
  LET n == Len(args)
  IN  CASE Is(args, {"COMMAND", "SELECT", "FLUSHALL", "FLUSHDB"}) -> OK
        [] Is(args, {"HELLO", "CLUSTER"}) -> WriteError(<<"unsupported">>)
        [] Is(args, {"PING"}) -> PingReply(args)
        [] Is(args, {"AUTH"}) -> IF n < 2 THEN WrongNumber ELSE OK
        [] Is(args, {"INFO"}) -> WriteBulk(Info(IF n > 1 THEN ToLower(args[2]) ELSE << >>))
        [] Is(args, {"CONFIG"}) -> HandleConfig(args)
        [] Is(args, {"KEYS"}) -> EmptyArray
        [] Is(args, {"DBSIZE", "DEL", "EXISTS"}) -> WriteInt(0)
        [] Is(args, {"TTL"}) -> WriteInt(-1)
        [] Is(args, {"SET"}) -> IF n < 3 THEN WrongNumber ELSE OK
        [] Is(args, {"GET"}) -> IF n < 2 THEN WrongNumber ELSE WriteNull
        [] Is(args, {"CLIENT"}) -> IF n > 1 /\ ToUpper(args[2]) = <<"GETNAME">>
                                   THEN WriteNull ELSE OK
        [] OTHER -> WriteError(<<"unknown">> \o ToLower(Name(args)))

\* Commands of which nothing is logged; HELLO, AUTH and SET are below.
Silent == {"HELLO", "COMMAND", "PING", "AUTH", "SELECT", "INFO", "CONFIG", "KEYS", "DBSIZE",
           "SET", "GET", "DEL", "EXISTS", "TTL", "CLIENT", "CLUSTER"}

\* Faulty variant: the loop over HELLO's arguments stops one short.
HelloAuthsShort(args) == {i \in 2..(Len(args) - 3) : ToUpper(args[i]) = <<"AUTH">>}

\* Where a name and a password can follow AUTH in the arguments of HELLO.
HelloAuths(args) == {i \in 2..(Len(args) - 2) : ToUpper(args[i]) = <<"AUTH">>}

\* What handleCmd logs of a command.
Events(c, args) ==
  LET n == Len(args)
      first == Min(HelloAuths(args))
  IN  CASE Is(args, {"HELLO"}) /\ HelloAuths(args) # {} ->
             <<[Blank(c) EXCEPT !.user = args[first + 1], !.pass = args[first + 2],
                                !.cmd = <<"HELLO", "SP", "AUTH">>]>>
        [] Is(args, {"AUTH"}) /\ n >= 2 ->
             <<[Blank(c) EXCEPT !.pass = args[2], !.cmd = <<"AUTH">>]>>
        [] Is(args, {"SET"}) /\ n >= 3 ->
             <<[Blank(c) EXCEPT !.cmd = <<"SET", "SP">> \o args[2]]>>
        [] ~Is(args, Silent) -> <<[Blank(c) EXCEPT !.cmd = Name(args)]>>
        [] OTHER -> << >>

-----------------------------------------------------------------------------
(* The handler. *)

RedisEnter(c) ==
  /\ At(c, "redis", "accepted")
  /\ received' = received + 1
  /\ active' = active + 1
  /\ Goto(c, "loop")
  /\ UNCHANGED <<client, in, who, parsed, out, sent, log, commands>>

\* ReadCommand succeeds and the command is counted.
RedisRead(c) ==
  LET cmd == ReadCommand(in[c])
  IN  /\ At(c, "redis", "loop")
      /\ cmd.ok
      /\ in' = [in EXCEPT ![c] = cmd.rest]
      /\ parsed' = [parsed EXCEPT ![c] = Append(@, cmd.val)]
      /\ commands' = commands + 1
      /\ Goto(c, "handle")
      /\ UNCHANGED <<client, who, out, sent, log, received, active>>

\* It fails, and the handler returns: defer counters.active.Add(-1).
RedisReadFails(c) ==
  /\ At(c, "redis", "loop")
  /\ ~ReadCommand(in[c]).ok
  /\ active' = active - 1
  /\ Goto(c, "closed")
  /\ UNCHANGED <<client, in, who, parsed, out, sent, log, received, commands>>

\* handleCmd fills the buffer and the loop flushes it.
RedisHandle(c) ==
  LET args == Last(parsed[c])
  IN  /\ At(c, "redis", "handle")
      /\ ~Is(args, {"QUIT"})
      /\ Log(Events(c, args))
      /\ \/ /\ sent' = [sent EXCEPT ![c] = @ \o out[c] \o Reply(args)]
            /\ Goto(c, "loop")
            /\ UNCHANGED active
         \/ /\ active' = active - 1
            /\ Goto(c, "failed")
            /\ UNCHANGED sent
      /\ UNCHANGED <<client, in, who, parsed, out, received, commands>>

\* Faulty variant: the handler ends the session without the deferred call.
RedisQuitLeaking(c) ==
  /\ At(c, "redis", "handle")
  /\ Is(Last(parsed[c]), {"QUIT"})
  /\ out' = [out EXCEPT ![c] = @ \o OK]
  /\ Goto(c, "closed")
  /\ UNCHANGED <<client, in, who, parsed, sent, log, counters>>

\* QUIT writes its reply and returns io.EOF before the flush.
RedisQuit(c) ==
  /\ At(c, "redis", "handle")
  /\ Is(Last(parsed[c]), {"QUIT"})
  /\ out' = [out EXCEPT ![c] = @ \o OK]
  /\ active' = active - 1
  /\ Goto(c, "closed")
  /\ UNCHANGED <<client, in, who, parsed, sent, log, received, commands>>

RedisNext(c) == \/ RedisEnter(c) \/ RedisRead(c) \/ RedisReadFails(c)
                \/ RedisHandle(c) \/ RedisQuit(c)
=============================================================================
