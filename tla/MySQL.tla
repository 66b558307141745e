------------------------------- MODULE MySQL --------------------------------
(***************************************************************************)
(* internal/proto/mysql: greeting, login packet and command packets.  A    *)
(* packet is its sequence number and its payload.  The payload of a login  *)
(* is given by what its fixed part says: whether its 32 bytes are there    *)
(* and the two capability flags that matter, and the bytes behind it.  A   *)
(* symbol of Decimals in the place of a length byte is that byte.          *)
(***************************************************************************)
EXTENDS Session

\* Decimal values of length bytes; a zero byte is NUL.
Lengths == <<"1", "2", "3", "4", "5", "6", "7", "8", "9">>

ByteValue(b) == SelectInSeq(Lengths, LAMBDA d : d = b)

\* fmt.Sprintf("%x", authResp), for the bytes the clients use.
HexOf == [NUL |-> "00", ESC |-> "1b", a |-> "61", xC3 |-> "c3"]

Hex(s) == [i \in DOMAIN s |-> HexOf[s[i]]]

\* Position of the last byte of the auth response whose field starts at a: after
\* a length byte with CLIENT_SECURE_CONNECTION, else up to a zero byte or the end.
AuthEnd(secure, body, a) ==
  IF secure THEN a + ByteValue(body[a])
  ELSE LET k == IndexNul(SubSeq(body, a, Len(body)))
       IN  IF k = 0 THEN Len(body) ELSE a + k - 2

\* readHandshakeResponse.
LoginOf(p) ==
  LET body == p.body
      u == IndexNul(body)
      a == u + 1
      secure == "secure" \in p.flags
      end == AuthEnd(secure, body, a)
      next == IF secure THEN end + 1 ELSE end + 2
      tail == SubSeq(body, next, Len(body))
  IN  IF ~p.fixed \/ u = 0 \/ a > Len(body) \/ end > Len(body)
      THEN [ok |-> FALSE, user |-> << >>, hash |-> << >>, db |-> << >>]
      ELSE [ok |-> TRUE,
            user |-> SubSeq(body, 1, u - 1),
            hash |-> Hex(SubSeq(body, IF secure THEN a + 1 ELSE a, end)),
            db |-> IF "db" \in p.flags /\ IndexNul(tail) > 0 THEN NullTerm(tail) ELSE << >>]


\* seq + 1 on a byte.
NextSeq(n) == (n + 1) % 256

MySQLRest(c) == UNCHANGED <<client, parsed, out, counters>>

\* sendHandshake, sequence number 0.
MySQLGreet(c) ==
  /\ At(c, "mysql", "accepted")
  /\ Answer(c, <<0>>, "login")
  /\ UNCHANGED <<in, who, log>> /\ MySQLRest(c)

\* The login is logged, then accepted with sequence number 2 whatever its own.
MySQLLogin(c) ==
  LET login == LoginOf(Message(c))
  IN  /\ At(c, "mysql", "login") /\ HasMessage(c)
      /\ Consume(c)
      /\ IF login.ok
         THEN /\ who' = [who EXCEPT ![c] = [user |-> login.user, db |-> login.db]]
              /\ Log(<<[Blank(c) EXCEPT !.user = login.user, !.db = login.db,
                                        !.hash = login.hash, !.cmd = <<"CONNECT">>]>>)
              /\ Answer(c, <<2>>, "loop")
         ELSE Goto(c, "closed") /\ UNCHANGED <<who, sent, log>>
      /\ MySQLRest(c)

\* A command packet, and its command byte.
MySQLCommand(c) ==
  /\ At(c, "mysql", "loop") /\ HasMessage(c)
  /\ Message(c).body # << >>
  /\ Consume(c)
  /\ MySQLRest(c)

ComType(c) == Head(Message(c).body)

MySQLEmpty(c) ==
  /\ At(c, "mysql", "loop") /\ HasMessage(c)
  /\ Message(c).body = << >>
  /\ Consume(c)
  /\ UNCHANGED <<pc, who, sent, log>> /\ MySQLRest(c)

MySQLQuit(c) ==
  /\ MySQLCommand(c) /\ ComType(c) = "x01"
  /\ Goto(c, "closed")
  /\ UNCHANGED <<who, sent, log>>

\* Faulty variant: sendEmptyResultSet gives both packets the same number.
MySQLQueryRepeating(c) ==
  LET seq == NextSeq(Message(c).seq)
  IN  /\ MySQLCommand(c) /\ ComType(c) = "x03"
      /\ Log(<<[Blank(c) EXCEPT !.user = who[c].user, !.db = who[c].db,
                                !.cmd = Truncate(Tail(Message(c).body), MaxQuery)]>>)
      /\ Answer(c, <<seq, seq>>, "loop")
      /\ UNCHANGED who

\* Logged under the current database and answered by two packets.
MySQLQuery(c) ==
  LET seq == NextSeq(Message(c).seq)
  IN  /\ MySQLCommand(c) /\ ComType(c) = "x03"
      /\ Log(<<[Blank(c) EXCEPT !.user = who[c].user, !.db = who[c].db,
                                !.cmd = Truncate(Tail(Message(c).body), MaxQuery)]>>)
      /\ Answer(c, <<seq, NextSeq(seq)>>, "loop")
      /\ UNCHANGED who

\* Faulty variant: the name goes to a variable of the branch (database := ...).
MySQLInitDBShadowed(c) ==
  /\ MySQLCommand(c) /\ ComType(c) = "x02"
  /\ Answer(c, <<NextSeq(Message(c).seq)>>, "loop")
  /\ UNCHANGED <<who, log>>

MySQLInitDB(c) ==
  /\ MySQLCommand(c) /\ ComType(c) = "x02"
  /\ who' = [who EXCEPT ![c].db = Tail(Message(c).body)]
  /\ Answer(c, <<NextSeq(Message(c).seq)>>, "loop")
  /\ UNCHANGED log

\* Any other command byte.
MySQLOther(c) ==
  /\ MySQLCommand(c) /\ ComType(c) \notin {"x01", "x02", "x03"}
  /\ Answer(c, <<NextSeq(Message(c).seq)>>, "loop")
  /\ UNCHANGED <<who, log>>

\* readPacket fails.
MySQLReadFails(c) ==
  /\ At(c, "mysql", "login") \/ At(c, "mysql", "loop")
  /\ ~HasMessage(c)
  /\ Goto(c, "closed")
  /\ UNCHANGED <<in, who, sent, log>> /\ MySQLRest(c)

MySQLNext(c) == \/ MySQLGreet(c) \/ MySQLLogin(c) \/ MySQLEmpty(c) \/ MySQLQuit(c)
                \/ MySQLQuery(c) \/ MySQLInitDB(c) \/ MySQLOther(c) \/ MySQLReadFails(c)
=============================================================================
