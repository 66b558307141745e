--------------------------- MODULE DialogueProofs ---------------------------
(* Theorems about module Sessions that compare what a MySQL or PostgreSQL    *)
(* client was sent, and what the log holds of it, with the messages that     *)
(* were read from it.                                                        *)
EXTENDS SessionsProofs

-----------------------------------------------------------------------------
(* A handler reads its own input, answers its own client and keeps its own   *)
(* user and database.                                                        *)

Own(c) ==
  /\ client' = client
  /\ in' = in \/ \E v : in' = [in EXCEPT ![c] = v]
  /\ pc' = pc \/ \E v : pc' = [pc EXCEPT ![c] = v]
  /\ sent' = sent \/ \E v : sent' = [sent EXCEPT ![c] = v]
  /\ who' = who \/ \E v : who' = [who EXCEPT ![c] = v]

LEMMA MySQLOwn ==
  ASSUME NEW c, MySQLNext(c)
  PROVE  Own(c)
<1>1. client' = client /\ (pc' = pc \/ \E v : pc' = [pc EXCEPT ![c] = v])
  BY MySQLForeign DEF Foreign, Moves
<1>2. sent' = sent \/ \E v : sent' = [sent EXCEPT ![c] = v]
  BY MySQLWrites DEF Sends
<1>3. in' = in \/ Consume(c)
  BY DEF MySQLNext, MySQLGreet, MySQLLogin, MySQLEmpty, MySQLQuit, MySQLQuery, MySQLInitDB,
         MySQLOther, MySQLReadFails, MySQLCommand
<1>4. in' = in \/ \E v : in' = [in EXCEPT ![c] = v]
  BY <1>3 DEF Consume
<1>5. CASE MySQLLogin(c)
  <2>1. \/ who' = who
        \/ who' = [who EXCEPT ![c] = [user |-> LoginOf(Message(c)).user, db |-> LoginOf(Message(c)).db]]
    BY <1>5 DEF MySQLLogin
  <2> QED  BY <1>1, <1>2, <1>4, <2>1 DEF Own
<1>6. CASE MySQLInitDB(c)
  <2>1. who' = [who EXCEPT ![c] = [who[c] EXCEPT !.db = Tail(Message(c).body)]]
    BY <1>6 DEF MySQLInitDB
  <2> QED  BY <1>1, <1>2, <1>4, <2>1 DEF Own
<1>7. CASE ~MySQLLogin(c) /\ ~MySQLInitDB(c)
  <2>1. who' = who
    BY <1>7 DEF MySQLNext, MySQLGreet, MySQLEmpty, MySQLQuit, MySQLQuery, MySQLOther,
                MySQLReadFails
  <2> QED  BY <1>1, <1>2, <1>4, <2>1 DEF Own
<1> QED  BY <1>5, <1>6, <1>7

LEMMA PostgresOwn ==
  ASSUME NEW c, PostgresNext(c)
  PROVE  Own(c)
<1>1. client' = client /\ (pc' = pc \/ \E v : pc' = [pc EXCEPT ![c] = v])
  BY PostgresForeign DEF Foreign, Moves
<1>2. sent' = sent \/ \E v : sent' = [sent EXCEPT ![c] = v]
  BY PostgresWrites DEF Sends
<1>3. in' = in \/ Consume(c)
  BY DEF PostgresNext, PostgresEnter, PostgresSSL, PostgresStartup, PostgresRefuse,
         PostgresPassword, PostgresNoPassword, PostgresQuery, PostgresExtended,
         PostgresIgnore, PostgresEnd, PostgresReadFails, PostgresMessage
<1>4. in' = in \/ \E v : in' = [in EXCEPT ![c] = v]
  BY <1>3 DEF Consume
<1>5. CASE PostgresStartup(c)
  <2>1. \E v : who' = [who EXCEPT ![c] = v]
    BY <1>5 DEF PostgresStartup
  <2> QED  BY <1>1, <1>2, <1>4, <2>1 DEF Own
<1>6. CASE ~PostgresStartup(c)
  <2>1. who' = who
    BY <1>6 DEF PostgresNext, PostgresEnter, PostgresSSL, PostgresRefuse, PostgresPassword,
                PostgresNoPassword, PostgresQuery, PostgresExtended, PostgresIgnore,
                PostgresEnd, PostgresReadFails
  <2> QED  BY <1>1, <1>2, <1>4, <2>1 DEF Own
<1> QED  BY <1>5, <1>6

LEMMA HttpOwn ==
  ASSUME NEW c, HttpNext(c)
  PROVE  Own(c)
<1>1. client' = client /\ (pc' = pc \/ \E v : pc' = [pc EXCEPT ![c] = v])
  BY HttpForeign DEF Foreign, Moves
<1>2. sent' = sent \/ \E v : sent' = [sent EXCEPT ![c] = v]
  BY HttpWrites DEF Replies
<1>3. who' = who /\ (in' = in \/ Consume(c))
  BY DEF HttpNext, HttpFixed, HttpRoot, ESContent, ESCatchAll, CouchLogin, CouchSession,
         CouchDB, HttpClose, HttpRequest
<1>4. in' = in \/ \E v : in' = [in EXCEPT ![c] = v]
  BY <1>3 DEF Consume
<1> QED  BY <1>1, <1>2, <1>3, <1>4 DEF Own

LEMMA RedisOwn ==
  ASSUME NEW c, RedisNext(c)
  PROVE  Own(c)
<1>1. client' = client /\ \E v : pc' = [pc EXCEPT ![c] = v]
  BY RedisShape DEF RedisStarts, RedisReads, RedisAnswers, RedisEnds
<1>2. sent' = sent \/ \E v : sent' = [sent EXCEPT ![c] = v]
  BY RedisWrites DEF Sends
<1>3. who' = who
  BY DEF RedisNext, RedisEnter, RedisRead, RedisReadFails, RedisHandle, RedisQuit
<1>4. CASE RedisRead(c)
  <2>1. \E v : in' = [in EXCEPT ![c] = v]
    BY <1>4 DEF RedisRead
  <2> QED  BY <1>1, <1>2, <1>3, <2>1 DEF Own
<1>5. CASE ~RedisRead(c)
  <2>1. in' = in
    BY <1>5 DEF RedisNext, RedisEnter, RedisReadFails, RedisHandle, RedisQuit
  <2> QED  BY <1>1, <1>2, <1>3, <2>1 DEF Own
<1> QED  BY <1>4, <1>5

DomainsOK == /\ DOMAIN in = Conns /\ DOMAIN pc = Conns
             /\ DOMAIN sent = Conns /\ DOMAIN who = Conns

Same(d) == in'[d] = in[d] /\ pc'[d] = pc[d] /\ sent'[d] = sent[d] /\ who'[d] = who[d]

LEMMA Elsewhere ==
  ASSUME DomainsOK, NEW c \in Conns, Own(c)
  PROVE  DomainsOK' /\ \A d \in Conns : d # c => Same(d)
<1>1. DOMAIN in' = Conns /\ \A d \in Conns : d # c => in'[d] = in[d]
  BY DEF DomainsOK, Own
<1>2. DOMAIN pc' = Conns /\ \A d \in Conns : d # c => pc'[d] = pc[d]
  BY DEF DomainsOK, Own
<1>3. DOMAIN sent' = Conns /\ \A d \in Conns : d # c => sent'[d] = sent[d]
  BY DEF DomainsOK, Own
<1>4. DOMAIN who' = Conns /\ \A d \in Conns : d # c => who'[d] = who[d]
  BY DEF DomainsOK, Own
<1> QED  BY <1>1, <1>2, <1>3, <1>4 DEF DomainsOK, Same

-----------------------------------------------------------------------------
(* What has been read of a client's messages.                                *)

\* The handler of c has read n messages.
ReadTo(c, n) == /\ n \in 0..client[c].cut
                /\ in[c] = SubSeq(client[c].items, n + 1, client[c].cut)

\* About sequences alone: the rest behind the n-th element, and how one finds from
\* its length what is before it.
Split(items, cut, n) ==
  LET rest == SubSeq(items, n + 1, cut)
      front == SubSeq(items, 1, cut - Len(rest))
  IN  /\ Len(rest) = cut - n
      /\ DOMAIN front = 1..n /\ \A i \in 1..n : i \in DOMAIN items /\ front[i] = items[i]
      /\ rest # << >> => /\ n + 1 \in 0..cut /\ n + 1 \in DOMAIN items
                         /\ Head(rest) = items[n + 1]
                         /\ Tail(rest) = SubSeq(items, n + 2, cut)

LEMMA Splits ==
  ASSUME NEW R, NEW items \in Seq(R), NEW cut \in 0..Len(items), NEW n \in 0..cut
  PROVE  Split(items, cut, n)
<1>1. Len(items) \in Nat /\ cut \in Nat /\ n \in Nat /\ \A i \in 1..Len(items) : items[i] \in R
  BY LenProperties, ElementOfSeq
<1> DEFINE rest == SubSeq(items, n + 1, cut)
           front == SubSeq(items, 1, cut - Len(rest))
<1>2. Len(rest) = cut - n
  <2>1. \A i \in (n + 1)..cut : items[i] \in R
    BY <1>1
  <2>2. Len(rest) = IF n + 1 <= cut THEN cut - (n + 1) + 1 ELSE 0
    BY <1>1, <2>1, SubSeqProperties
  <2> QED  BY <1>1, <2>2
<1>3. front = SubSeq(items, 1, n)
  <2>1. cut - (cut - n) = n
    BY <1>1
  <2> QED  BY <1>2, <2>1
<1>4. DOMAIN front = 1..n /\ \A i \in 1..n : front[i] = items[i]
  <2>1. \A i \in 1..n : items[i] \in R
    BY <1>1
  <2>2. /\ SubSeq(items, 1, n) \in Seq(R)
        /\ Len(SubSeq(items, 1, n)) = IF 1 <= n THEN n - 1 + 1 ELSE 0
        /\ \A i \in 1..(n - 1 + 1) : SubSeq(items, 1, n)[i] = items[1 + i - 1]
    BY <1>1, <2>1, SubSeqProperties
  <2>3. Len(SubSeq(items, 1, n)) = n
    BY <1>1, <2>2
  <2>4. DOMAIN SubSeq(items, 1, n) = 1..n
    BY <2>2, <2>3, LenProperties
  <2>5. \A i \in 1..n : SubSeq(items, 1, n)[i] = items[i]
    BY <1>1, <2>2
  <2> HIDE DEF front, rest
  <2> QED  BY <1>3, <2>4, <2>5
<1>5. ASSUME rest # << >>
      PROVE  /\ n + 1 \in 0..cut /\ n + 1 \in 1..Len(items)
             /\ Head(rest) = items[n + 1] /\ Tail(rest) = SubSeq(items, n + 2, cut)
  <2>1. n < cut
    <3> SUFFICES ASSUME ~(n < cut) PROVE FALSE
      OBVIOUS
    <3>1. cut < n + 1
      BY <1>1
    <3> QED  BY <1>1, <1>5, <3>1, SubSeqEmpty
  <2>2. n + 1 \in 1..Len(items) /\ cut \in (n + 1)..Len(items) /\ n + 1 + 1 = n + 2
    BY <1>1, <2>1
  <2>3. Head(rest) = items[n + 1] /\ Tail(rest) = SubSeq(items, (n + 1) + 1, cut)
    BY <2>2, HeadTailOfSubSeq
  <2> QED  BY <1>1, <2>1, <2>2, <2>3
<1>6. DOMAIN items = 1..Len(items) /\ \A i \in 1..n : i \in 1..Len(items)
  BY <1>1, LenProperties
<1> QED  BY <1>2, <1>4, <1>5, <1>6 DEF Split

LEMMA ClientSplits ==
  ASSUME client \in Cases, NEW c \in Conns, Proto(c) # "redis", NEW n \in 0..client[c].cut
  PROVE  n \in Nat /\ Split(client[c].items, client[c].cut, n)
<1>1. IsClient(client[c])
  BY SessionAssumption
<1> DEFINE R == {client[c].items[i] : i \in DOMAIN client[c].items}
<1>2. client[c].items \in Seq(R) /\ client[c].cut \in 0..Len(client[c].items)
  BY <1>1 DEF IsClient, Proto
<1> HIDE DEF R
<1>3. n \in Nat
  OBVIOUS
<1> QED  BY <1>2, <1>3, Splits

LEMMA ReadIs ==
  ASSUME client \in Cases, NEW c \in Conns, Proto(c) # "redis", NEW n, ReadTo(c, n)
  PROVE  n \in Nat /\ DOMAIN Read(c) = 1..n
<1>1. n \in Nat /\ Split(client[c].items, client[c].cut, n)
  BY ClientSplits DEF ReadTo
<1> QED  BY <1>1 DEF Split, Read, ReadTo

\* The handler reads its next message.
Grows(c, n) == /\ n \in Nat /\ DOMAIN Read(c) = 1..n /\ (DOMAIN Read(c))' = 1..(n + 1)
               /\ \A i \in 1..n : Read(c)'[i] = Read(c)[i]
               /\ Read(c)'[n + 1] = Head(in[c])

LEMMA Reading ==
  ASSUME client \in Cases, client' = client, DOMAIN in = Conns,
         NEW c \in Conns, Proto(c) # "redis", NEW n, ReadTo(c, n), HasMessage(c), Consume(c)
  PROVE  ReadTo(c, n + 1)' /\ Grows(c, n)
<1> DEFINE items == client[c].items
           cut == client[c].cut
<1>1. n \in Nat /\ n \in 0..cut /\ Split(items, cut, n) /\ in[c] = SubSeq(items, n + 1, cut)
  BY ClientSplits DEF ReadTo
<1>2. in'[c] = Tail(in[c])
  BY DEF Consume
<1>3. n + 1 \in 0..cut /\ Head(in[c]) = items[n + 1] /\ in'[c] = SubSeq(items, n + 2, cut)
  BY <1>1, <1>2 DEF Split, HasMessage
<1>4. Split(items, cut, n + 1) /\ (n + 1) + 1 = n + 2
  BY <1>1, <1>3, ClientSplits
<1>5. ReadTo(c, n + 1)'
  BY <1>3, <1>4 DEF ReadTo
<1>6. DOMAIN Read(c) = 1..n /\ \A i \in 1..n : Read(c)[i] = items[i]
  BY <1>1 DEF Split, Read
<1>7. Read(c)' = SubSeq(items, 1, cut - Len(SubSeq(items, (n + 1) + 1, cut)))
  BY <1>3, <1>4 DEF Read
<1>8. DOMAIN (Read(c)') = 1..(n + 1) /\ \A i \in 1..(n + 1) : Read(c)'[i] = items[i]
  BY <1>4, <1>7 DEF Split
<1>9. n + 1 \in 1..(n + 1) /\ \A i \in 1..n : i \in 1..(n + 1)
  BY <1>1
<1>10. \A i \in 1..n : Read(c)'[i] = Read(c)[i]
  BY <1>6, <1>8, <1>9
<1>11. Read(c)'[n + 1] = Head(in[c])
  BY <1>3, <1>8, <1>9
<1> QED  BY <1>1, <1>5, <1>6, <1>8, <1>10, <1>11 DEF Grows

\* What is left tells how much has been read.
LEMMA ReadOnce ==
  ASSUME client \in Cases, client' = client, NEW c \in Conns, Proto(c) # "redis",
         NEW n, ReadTo(c, n)', NEW m, ReadTo(c, m)'
  PROVE  m = n
<1> DEFINE items == client[c].items
           cut == client[c].cut
<1>1. /\ n \in 0..cut /\ in'[c] = SubSeq(items, n + 1, cut)
      /\ m \in 0..cut /\ in'[c] = SubSeq(items, m + 1, cut)
  BY DEF ReadTo
<1>2. n \in Nat /\ m \in Nat /\ Len(in'[c]) = cut - n /\ Len(in'[c]) = cut - m
  BY <1>1, ClientSplits DEF Split
<1>3. cut \in Nat
  <2>1. IsClient(client[c])
    BY SessionAssumption
  <2> QED  BY <2>1 DEF IsClient, Proto
<1> HIDE DEF cut
<1> QED  BY <1>2, <1>3

LEMMA NotReading ==
  ASSUME client' = client, NEW c, in'[c] = in[c], NEW n
  PROVE  ReadTo(c, n)' <=> ReadTo(c, n)
BY DEF ReadTo

\* What is kept of the replies when one of the writes fails.
LEMMA Written ==
  ASSUME NEW S, NEW replies \in Seq(S), NEW k \in 0..Len(replies)
  PROVE  /\ SubSeq(replies, 1, k) \in Seq(S) /\ Len(SubSeq(replies, 1, k)) = k
         /\ \A j \in 1..k : SubSeq(replies, 1, k)[j] = replies[j]
         /\ k = Len(replies) => SubSeq(replies, 1, k) = replies
<1>1. Len(replies) \in Nat /\ k \in Nat /\ \A i \in 1..k : replies[i] \in S
  BY LenProperties, ElementOfSeq
<1>2. /\ SubSeq(replies, 1, k) \in Seq(S)
      /\ Len(SubSeq(replies, 1, k)) = IF 1 <= k THEN k - 1 + 1 ELSE 0
      /\ \A j \in 1..(k - 1 + 1) : SubSeq(replies, 1, k)[j] = replies[1 + j - 1]
  BY <1>1, SubSeqProperties
<1>3. Len(SubSeq(replies, 1, k)) = k
  BY <1>1, <1>2
<1>4. \A j \in 1..k : SubSeq(replies, 1, k)[j] = replies[j]
  BY <1>1, <1>2
<1>5. k = Len(replies) => SubSeq(replies, 1, k) = replies
  BY SubSeqFull
<1> QED  BY <1>2, <1>3, <1>4, <1>5

LEMMA Answering ==
  ASSUME DomainsOK, NEW c \in Conns, NEW S, NEW replies \in Seq(S), NEW place,
         Answer(c, replies, place)
  PROVE  \E k \in 0..Len(replies) :
           /\ sent'[c] = sent[c] \o SubSeq(replies, 1, k)
           /\ pc'[c] = IF k = Len(replies) THEN place ELSE "failed"
<1>1. PICK k \in 0..Len(replies) :
        /\ sent' = [sent EXCEPT ![c] = @ \o SubSeq(replies, 1, k)]
        /\ Goto(c, IF k = Len(replies) THEN place ELSE "failed")
  BY DEF Answer
<1>2. sent'[c] = sent[c] \o SubSeq(replies, 1, k)
  BY <1>1 DEF DomainsOK
<1>3. pc'[c] = IF k = Len(replies) THEN place ELSE "failed"
  BY <1>1 DEF DomainsOK, Goto
<1> QED  BY <1>2, <1>3

\* All replies are written, or the handler has failed.
LEMMA AnsweredOrFailed ==
  ASSUME DomainsOK, NEW c \in Conns, NEW S, NEW replies \in Seq(S), NEW place,
         Answer(c, replies, place), NEW T, sent[c] \in Seq(T)
  PROVE  /\ \E U : sent'[c] \in Seq(U)
         /\ \/ pc'[c] = "failed"
            \/ pc'[c] = place /\ sent'[c] = sent[c] \o replies
<1>1. PICK k \in 0..Len(replies) :
           /\ sent'[c] = sent[c] \o SubSeq(replies, 1, k)
           /\ pc'[c] = IF k = Len(replies) THEN place ELSE "failed"
  BY Answering
<1>2. SubSeq(replies, 1, k) \in Seq(S) /\ (k = Len(replies) => SubSeq(replies, 1, k) = replies)
  BY Written
<1> DEFINE U == S \cup T
<1>3. sent[c] \in Seq(U) /\ SubSeq(replies, 1, k) \in Seq(U)
  <2>1. S \subseteq U /\ T \subseteq U
    OBVIOUS
  <2> HIDE DEF U
  <2> QED  BY <1>2, <2>1
<1>4. sent'[c] \in Seq(U)
  <2> HIDE DEF U
  <2> QED  BY <1>1, <1>3, ConcatProperties
<1> QED  BY <1>1, <1>2, <1>4

-----------------------------------------------------------------------------
(* PostgreSQL.  The handler of a client that waits has answered everything,  *)
(* so that the invariant counts only at "loop"; before it there is nothing   *)
(* to be awaited, and the message behind the startup message is the password.*)

ReadyAt(s) == {i \in DOMAIN s : s[i] = "Z"}

\* Where "Z" is when m replies are appended of which it is the last, if at all.
ReadyIn(s, r, m) ==
  /\ ReadyAt(s) \in SUBSET (1..Len(s))
  /\ ReadyAt(r) = {} => ReadyAt(s \o r) = ReadyAt(s)
  /\ ReadyAt(r) = {m} => /\ ReadyAt(s \o r) = ReadyAt(s) \cup {Len(s) + m}
                         /\ Len(s) + m \notin ReadyAt(s)
                         /\ Last(s \o r) = "Z"

LEMMA ReadyCat ==
  ASSUME NEW S, NEW s \in Seq(S), NEW r \in Seq(S), NEW m \in Nat, Len(r) = m
  PROVE  ReadyIn(s, r, m)
<1> DEFINE n == Len(s)
           t == s \o r
<1>1. /\ n \in Nat /\ DOMAIN s = 1..n /\ DOMAIN r = 1..m
      /\ t \in Seq(S) /\ Len(t) = n + m /\ DOMAIN t = 1..(n + m)
      /\ \A i \in 1..(n + m) : t[i] = IF i <= n THEN s[i] ELSE r[i - n]
  <2>1. /\ t \in Seq(S) /\ Len(t) = Len(s) + Len(r)
        /\ \A i \in 1..(Len(s) + Len(r)) : t[i] = IF i <= Len(s) THEN s[i] ELSE r[i - Len(s)]
    BY ConcatProperties
  <2>2. Len(s) \in Nat /\ DOMAIN s = 1..Len(s) /\ DOMAIN r = 1..Len(r)
    BY LenProperties
  <2>3. DOMAIN t = 1..Len(t)
    BY <2>1, LenProperties
  <2> QED  BY <2>1, <2>2, <2>3
<1>2. Last(t) = t[n + m]
  BY <1>1 DEF Last
<1> HIDE DEF t, n
<1>3. \A i : i \in ReadyAt(t) <=> i \in 1..(n + m) /\ t[i] = "Z"
  BY <1>1 DEF ReadyAt
<1>4. \A i : i \in ReadyAt(s) <=> i \in 1..n /\ s[i] = "Z"
  BY <1>1 DEF ReadyAt
<1>5. \A i : i \in ReadyAt(r) <=> i \in 1..m /\ r[i] = "Z"
  BY <1>1 DEF ReadyAt
<1>6. \A i \in 1..(n + m) : i \in ReadyAt(t) <=> i \in ReadyAt(s) \/ (i > n /\ i - n \in ReadyAt(r))
  <2> TAKE i \in 1..(n + m)
  <2>1. CASE i <= n
    <3>1. t[i] = s[i] /\ i \in 1..n /\ ~(i > n)
      BY <1>1, <2>1
    <3> QED  BY <1>3, <1>4, <3>1
  <2>2. CASE ~(i <= n)
    <3>1. t[i] = r[i - n] /\ i \notin 1..n /\ i > n /\ i - n \in 1..m
      BY <1>1, <2>2
    <3> QED  BY <1>3, <1>4, <1>5, <3>1
  <2> QED  BY <2>1, <2>2
<1>7. ReadyAt(s) \in SUBSET (1..n) /\ ReadyAt(s) \subseteq 1..(n + m) /\ ReadyAt(t) \subseteq 1..(n + m)
  BY <1>1, <1>3, <1>4
<1>8. ASSUME ReadyAt(r) = {} PROVE ReadyAt(t) = ReadyAt(s)
  BY <1>6, <1>7, <1>8
<1>9. ASSUME ReadyAt(r) = {m}
      PROVE  ReadyAt(t) = ReadyAt(s) \cup {n + m} /\ n + m \notin ReadyAt(s) /\ Last(t) = "Z"
  <2>1. m \in 1..m /\ r[m] = "Z"
    BY <1>5, <1>9
  <2>2. n + m \in 1..(n + m) /\ n + m > n /\ (n + m) - n = m
    BY <1>1, <2>1
  <2>3. \A i : i \in ReadyAt(t) <=> i \in ReadyAt(s) \/ i = n + m
    <3>1. \A i \in 1..(n + m) : (i > n /\ i - n \in ReadyAt(r)) <=> i = n + m
      BY <1>1, <1>9, <2>2
    <3> QED  BY <1>6, <1>7, <2>2, <3>1
  <2>4. n + m \notin ReadyAt(s)
    BY <1>1, <1>4, <2>2
  <2>5. t[n + m] = "Z"
    BY <1>3, <2>3
  <2> QED  BY <1>2, <2>3, <2>4, <2>5
<1> QED  BY <1>7, <1>8, <1>9 DEF t, n, ReadyIn

\* The messages that bring a ReadyForQuery: those the client waits for, and those
\* before a Sync.
Prompts(c, i) == Wire(c, i).kind \in {"Q", "S", "P"} \/ BehindStartup(c, i)

Prompted(c) == {i \in DOMAIN Read(c) : Prompts(c, i)}

LEMMA PromptedCount ==
  ASSUME NEW c, IsFiniteSet(Prompted(c))
  PROVE  Cardinality(Prompted(c)) = Cardinality(Awaited(c)) + Cardinality(Unsynced(c))
<1>1. Prompted(c) = Awaited(c) \cup Unsynced(c)
  BY DEF Prompted, Prompts, Awaited, Unsynced
<1>2. Awaited(c) \cap Unsynced(c) = {}
  BY DEF Awaited, Unsynced
<1>3. IsFiniteSet(Awaited(c)) /\ IsFiniteSet(Unsynced(c))
  BY <1>1, FS_Subset
<1>4. Cardinality(Awaited(c)) \in Nat /\ Cardinality(Unsynced(c)) \in Nat
  BY <1>3, FS_CardinalityType
<1>5. Cardinality(Awaited(c) \cap Unsynced(c)) = 0
  BY <1>2, FS_EmptySet
<1>6. Cardinality(Prompted(c)) = Cardinality(Awaited(c)) + Cardinality(Unsynced(c))
                                   - Cardinality(Awaited(c) \cap Unsynced(c))
  BY <1>1, <1>3, FS_Union
<1> QED  BY <1>4, <1>5, <1>6

\* One message more is prompted, or none.
LEMMA PromptedGrows ==
  ASSUME NEW c, NEW n, Grows(c, n)
  PROVE  /\ Prompted(c) \in SUBSET (1..n) /\ IsFiniteSet(Prompted(c))
         /\ Prompted(c)' = Prompted(c) \cup (IF Prompts(c, n + 1)' THEN {n + 1} ELSE {})
         /\ n + 1 \notin Prompted(c)
         /\ Cardinality(Prompted(c)) \in Nat
         /\ IsFiniteSet(Prompted(c)')
         /\ Prompts(c, n + 1)' => Cardinality(Prompted(c)') = Cardinality(Prompted(c)) + 1
<1>1. /\ n \in Nat /\ DOMAIN Read(c) = 1..n /\ DOMAIN (Read(c)') = 1..(n + 1)
      /\ \A i \in 1..n : Read(c)'[i] = Read(c)[i]
  BY DEF Grows
<1>2. \A i \in 1..n : Wire(c, i)' = Wire(c, i)
  BY <1>1 DEF Wire
<1>3. \A i \in 1..n : Prompts(c, i)' <=> Prompts(c, i)
  <2> TAKE i \in 1..n
  <2>1. CASE i > 1
    <3>1. i - 1 \in 1..n
      BY <1>1, <2>1
    <3>2. Wire(c, i)' = Wire(c, i) /\ Wire(c, i - 1)' = Wire(c, i - 1)
      BY <1>2, <3>1
    <3> QED  BY <3>2 DEF Prompts, BehindStartup
  <2>2. CASE ~(i > 1)
    BY <1>2, <2>2 DEF Prompts, BehindStartup
  <2> QED  BY <2>1, <2>2
<1>4. Prompted(c) = {i \in 1..n : Prompts(c, i)}
  BY <1>1 DEF Prompted
<1>5. Prompted(c)' = {i \in 1..(n + 1) : Prompts(c, i)'}
  BY <1>1 DEF Prompted
<1>6. 1..(n + 1) = (1..n) \cup {n + 1} /\ n + 1 \notin 1..n
  BY <1>1
<1>7. Prompted(c)' = Prompted(c) \cup (IF Prompts(c, n + 1)' THEN {n + 1} ELSE {})
  BY <1>3, <1>4, <1>5, <1>6, Zenon
<1>8. Prompted(c) \in SUBSET (1..n) /\ n + 1 \notin Prompted(c)
  BY <1>4, <1>6
<1>9. IsFiniteSet(1..n)
  BY <1>1, FS_Interval
<1>10. IsFiniteSet(Prompted(c)) /\ Cardinality(Prompted(c)) \in Nat
  BY <1>8, <1>9, FS_Subset, FS_CardinalityType
<1>11. ASSUME Prompts(c, n + 1)' PROVE Cardinality(Prompted(c)') = Cardinality(Prompted(c)) + 1
  BY <1>7, <1>8, <1>10, <1>11, FS_AddElement
<1>12. IsFiniteSet(Prompted(c)')
  BY <1>7, <1>10, FS_AddElement
<1> QED  BY <1>7, <1>8, <1>10, <1>11, <1>12

LEMMA Wires ==
  ASSUME NEW c, NEW n, Grows(c, n)
  PROVE  Wire(c, n + 1)' = Message(c) /\ \A i \in 1..n : Wire(c, i)' = Wire(c, i)
BY DEF Grows, Wire, Message

\* Replies without "Z" leave the count, replies that end with it add one.
LEMMA ReadySame ==
  ASSUME NEW c, NEW S, sent[c] \in Seq(S), NEW T, NEW r \in Seq(T), ReadyAt(r) = {},
         sent'[c] = sent[c] \o r
  PROVE  Readies(c)' = Readies(c)
<1> DEFINE U == S \cup T
<1>1. sent[c] \in Seq(U) /\ r \in Seq(U)
  OBVIOUS
<1>2. Len(r) \in Nat
  BY LenProperties
<1> HIDE DEF U
<1>3. ReadyAt(sent[c] \o r) = ReadyAt(sent[c])
  BY <1>1, <1>2, ReadyCat DEF ReadyIn
<1> QED  BY <1>3 DEF Readies, ReadyAt

LEMMA ReadyMore ==
  ASSUME NEW c, NEW S, sent[c] \in Seq(S), NEW T, NEW r \in Seq(T), ReadyAt(r) = {Len(r)},
         sent'[c] = sent[c] \o r
  PROVE  /\ Cardinality(Readies(c)) \in Nat
         /\ Cardinality(Readies(c)') = Cardinality(Readies(c)) + 1
         /\ Last(sent'[c]) = "Z"
<1> DEFINE U == S \cup T
<1>1. sent[c] \in Seq(U) /\ r \in Seq(U)
  OBVIOUS
<1>2. Len(r) \in Nat /\ Len(sent[c]) \in Nat
  BY LenProperties
<1> HIDE DEF U
<1>3. PICK s \in Seq(U) : s = sent[c]
  BY <1>1
<1>4. PICK m \in Nat : m = Len(r)
  BY <1>2
<1>5. PICK n \in Nat : n = Len(s)
  BY <1>2, <1>3
<1>6. PICK A : A = ReadyAt(s)
  OBVIOUS
<1>7. PICK B : B = ReadyAt(s \o r)
  OBVIOUS
<1>8. A \in SUBSET (1..n) /\ B = A \cup {n + m} /\ n + m \notin A /\ Last(s \o r) = "Z"
  <2>1. r \in Seq(U) /\ ReadyAt(r) = {m}
    BY <1>1, <1>4
  <2>2. /\ ReadyAt(s) \in SUBSET (1..Len(s))
        /\ ReadyAt(s \o r) = ReadyAt(s) \cup {Len(s) + m}
        /\ Len(s) + m \notin ReadyAt(s)
        /\ Last(s \o r) = "Z"
    <3>1. ReadyIn(s, r, m)
      BY <1>4, <2>1, ReadyCat
    <3> QED  BY <2>1, <3>1 DEF ReadyIn
  <2> QED  BY <1>5, <1>6, <1>7, <2>2
<1>9. IsFiniteSet(1..n)
  BY FS_Interval
<1>10. IsFiniteSet(A) /\ Cardinality(A) \in Nat
  BY <1>8, <1>9, FS_Subset, FS_CardinalityType
<1>11. Cardinality(B) = Cardinality(A) + 1
  BY <1>8, <1>10, FS_AddElement
<1>12. Readies(c) = A /\ Readies(c)' = B
  BY <1>3, <1>6, <1>7 DEF Readies, ReadyAt
<1> QED  BY <1>3, <1>8, <1>10, <1>11, <1>12

\* Only the last of the replies to a password, a query and an extended message is
\* ReadyForQuery.
LEMMA PostgresReplies ==
  /\ <<"N">> \in Seq({"N"}) /\ ReadyAt(<<"N">>) = {}
  /\ <<"R5">> \in Seq({"R5"}) /\ ReadyAt(<<"R5">>) = {}
  /\ Greeting \in Seq({"R0", "S", "K", "Z"}) /\ ReadyAt(Greeting) = {Len(Greeting)}
  /\ QueryReply \in Seq({"I", "Z"}) /\ ReadyAt(QueryReply) = {Len(QueryReply)}
  /\ <<"E", "Z">> \in Seq({"E", "Z"}) /\ ReadyAt(<<"E", "Z">>) = {Len(<<"E", "Z">>)}
<1>1. <<"N">> \in Seq({"N"}) /\ ReadyAt(<<"N">>) = {}
  BY DEF ReadyAt
<1>2. <<"R5">> \in Seq({"R5"}) /\ ReadyAt(<<"R5">>) = {}
  BY DEF ReadyAt
<1>3. Greeting \in Seq({"R0", "S", "K", "Z"}) /\ ReadyAt(Greeting) = {Len(Greeting)}
  BY DEF Greeting, ReadyAt
<1>4. QueryReply \in Seq({"I", "Z"}) /\ ReadyAt(QueryReply) = {Len(QueryReply)}
  BY DEF QueryReply, ReadyAt
<1>5. <<"E", "Z">> \in Seq({"E", "Z"}) /\ ReadyAt(<<"E", "Z">>) = {Len(<<"E", "Z">>)}
  BY DEF ReadyAt
<1> QED  BY <1>1, <1>2, <1>3, <1>4, <1>5

Balanced(c) == /\ IsFiniteSet(Prompted(c))
               /\ Cardinality(Readies(c)) = Cardinality(Prompted(c))
               /\ Last(sent[c]) = "Z"

\* The handler of c, having read n messages.
PInv(c, n) ==
  /\ \E S : sent[c] \in Seq(S)
  /\ pc[c] \in {"accepted", "startup"} =>
       Readies(c) = {} /\ \A i \in 1..n : Wire(c, i).kind = "ssl"
  /\ pc[c] = "password" => /\ Readies(c) = {} /\ n > 0 /\ Wire(c, n).kind = "v3"
                           /\ \A i \in 1..(n - 1) : Wire(c, i).kind = "ssl"
  /\ pc[c] = "loop" => Balanced(c) /\ n > 0 /\ Wire(c, n).kind # "v3"

\* Where nothing but the sequence is asked.
LEMMA PEnded ==
  ASSUME NEW c, NEW n, pc'[c] \in {"closed", "failed"}, \E S : sent'[c] \in Seq(S)
  PROVE  PInv(c, n)'
BY DEF PInv

\* A message after which the client waits, answered by replies that end with "Z".
LEMMA PAnswered ==
  ASSUME DomainsOK, NEW c \in Conns, NEW n, Grows(c, n), NEW S, sent[c] \in Seq(S),
         NEW T, NEW r \in Seq(T), ReadyAt(r) = {Len(r)}, Answer(c, r, "loop"),
         Prompts(c, n + 1)', Message(c).kind # "v3",
         Cardinality(Readies(c)) = Cardinality(Prompted(c))
  PROVE  PInv(c, n + 1)'
<1>1. /\ \E U : sent'[c] \in Seq(U)
      /\ \/ pc'[c] = "failed"
         \/ pc'[c] = "loop" /\ sent'[c] = sent[c] \o r
  BY AnsweredOrFailed
<1>2. CASE pc'[c] = "failed"
  BY <1>1, <1>2, PEnded
<1>3. CASE pc'[c] = "loop" /\ sent'[c] = sent[c] \o r
  <2>1. /\ Cardinality(Readies(c)) \in Nat
        /\ Cardinality(Readies(c)') = Cardinality(Readies(c)) + 1
        /\ Last(sent'[c]) = "Z"
    BY <1>3, ReadyMore
  <2>2. Cardinality(Prompted(c)') = Cardinality(Prompted(c)) + 1 /\ IsFiniteSet(Prompted(c)')
    BY PromptedGrows
  <2>3. Balanced(c)'
    BY <2>1, <2>2 DEF Balanced
  <2>4. n \in Nat /\ Wire(c, n + 1)' = Message(c)
    BY Wires DEF Grows
  <2>5. n + 1 > 0 /\ Wire(c, n + 1)'.kind # "v3"
    BY <2>4
  <2> QED  BY <1>1, <1>3, <2>3, <2>5 DEF PInv
<1> QED  BY <1>1, <1>2, <1>3

LEMMA PStep ==
  ASSUME client \in Cases, DomainsOK, NEW c \in Conns, NEW n, ReadTo(c, n), PInv(c, n),
         PostgresNext(c)
  PROVE  \E m : ReadTo(c, m)' /\ PInv(c, m)'
<1>1. Proto(c) = "postgres" /\ client' = client
  BY PostgresWrites, PostgresForeign DEF Foreign
<1>2. n \in Nat /\ DOMAIN Read(c) = 1..n
  BY <1>1, ReadIs
<1>3. PICK S : sent[c] \in Seq(S)
  BY DEF PInv
<1>4. ASSUME NEW place, NEW kinds, PostgresMessage(c, place, kinds)
      PROVE  /\ pc[c] = place /\ Message(c).kind \in kinds
             /\ ReadTo(c, n + 1)' /\ Grows(c, n)
             /\ Wire(c, n + 1)' = Message(c) /\ \A i \in 1..n : Wire(c, i)' = Wire(c, i)
  <2>1. pc[c] = place /\ HasMessage(c) /\ Message(c).kind \in kinds /\ Consume(c)
    BY <1>4 DEF PostgresMessage, At
  <2>2. ReadTo(c, n + 1)' /\ Grows(c, n)
    BY <1>1, <2>1, Reading DEF DomainsOK
  <2> QED  BY <2>1, <2>2, Wires
<1>5. \A p : Goto(c, p) => pc'[c] = p
  BY DEF Goto, DomainsOK
<1>6. ASSUME sent' = sent
      PROVE  Readies(c)' = Readies(c) /\ sent'[c] \in Seq(S)
  BY <1>3, <1>6 DEF Readies
<1>7. CASE PostgresEnter(c)
  <2>1. pc[c] = "accepted" /\ pc'[c] = "startup" /\ in' = in /\ sent' = sent
    BY <1>5, <1>7 DEF PostgresEnter, At
  <2>2. ReadTo(c, n)' /\ Read(c)' = Read(c)
    BY <1>1, <2>1, NotReading DEF Read
  <2>3. Readies(c)' = {} /\ \A i \in 1..n : Wire(c, i)'.kind = "ssl"
    BY <1>6, <2>1, <2>2 DEF PInv, Wire
  <2>4. PInv(c, n)'
    BY <1>6, <2>1, <2>3 DEF PInv
  <2> QED  BY <2>2, <2>4
<1>8. CASE PostgresReadFails(c)
  <2>1. pc'[c] = "closed" /\ in' = in /\ sent' = sent
    BY <1>5, <1>8 DEF PostgresReadFails
  <2>2. ReadTo(c, n)'
    BY <1>1, <2>1, NotReading
  <2> QED  BY <1>6, <2>1, <2>2, PEnded
<1>9. CASE PostgresRefuse(c) \/ PostgresNoPassword(c) \/ PostgresEnd(c)
  <2>1. pc'[c] = "closed" /\ sent' = sent
    BY <1>5, <1>9 DEF PostgresRefuse, PostgresNoPassword, PostgresEnd
  <2>2. ReadTo(c, n + 1)'
    BY <1>4, <1>9 DEF PostgresRefuse, PostgresNoPassword, PostgresEnd
  <2> QED  BY <1>6, <2>1, <2>2, PEnded
<1>10. CASE PostgresSSL(c)
  <2>1. /\ pc[c] = "startup" /\ Message(c).kind = "ssl" /\ ReadTo(c, n + 1)'
        /\ Wire(c, n + 1)' = Message(c) /\ \A i \in 1..n : Wire(c, i)' = Wire(c, i)
    BY <1>4, <1>10 DEF PostgresSSL
  <2>2. /\ \E U : sent'[c] \in Seq(U)
        /\ \/ pc'[c] = "failed"
           \/ pc'[c] = "startup" /\ sent'[c] = sent[c] \o <<"N">>
    BY <1>3, <1>10, AnsweredOrFailed, PostgresReplies DEF PostgresSSL
  <2>3. CASE pc'[c] = "failed"
    BY <2>1, <2>2, <2>3, PEnded
  <2>4. CASE pc'[c] = "startup" /\ sent'[c] = sent[c] \o <<"N">>
    <3>1. Readies(c)' = Readies(c)
      BY <1>3, <2>4, ReadySame, PostgresReplies
    <3>2. Readies(c) = {} /\ \A i \in 1..n : Wire(c, i).kind = "ssl"
      BY <2>1 DEF PInv
    <3>3. \A i \in 1..(n + 1) : i \in 1..n \/ i = n + 1
      BY <1>2
    <3>4. \A i \in 1..(n + 1) : Wire(c, i)'.kind = "ssl"
      BY <2>1, <3>2, <3>3
    <3>5. PInv(c, n + 1)'
      BY <2>2, <2>4, <3>1, <3>2, <3>4 DEF PInv
    <3> QED  BY <2>1, <3>5
  <2> QED  BY <2>2, <2>3, <2>4
<1>11. CASE PostgresStartup(c)
  <2>1. /\ pc[c] = "startup" /\ Message(c).kind = "v3" /\ ReadTo(c, n + 1)'
        /\ Wire(c, n + 1)' = Message(c) /\ \A i \in 1..n : Wire(c, i)' = Wire(c, i)
    BY <1>4, <1>11 DEF PostgresStartup
  <2>2. /\ \E U : sent'[c] \in Seq(U)
        /\ \/ pc'[c] = "failed"
           \/ pc'[c] = "password" /\ sent'[c] = sent[c] \o <<"R5">>
    BY <1>3, <1>11, AnsweredOrFailed, PostgresReplies DEF PostgresStartup
  <2>3. CASE pc'[c] = "failed"
    BY <2>1, <2>2, <2>3, PEnded
  <2>4. CASE pc'[c] = "password" /\ sent'[c] = sent[c] \o <<"R5">>
    <3>1. Readies(c)' = Readies(c)
      BY <1>3, <2>4, ReadySame, PostgresReplies
    <3>2. Readies(c) = {} /\ \A i \in 1..n : Wire(c, i).kind = "ssl"
      BY <2>1 DEF PInv
    <3>3. (n + 1) - 1 = n /\ n + 1 > 0
      BY <1>2
    <3>4. \A i \in 1..((n + 1) - 1) : Wire(c, i)'.kind = "ssl"
      BY <2>1, <3>2, <3>3
    <3>5. PInv(c, n + 1)'
      BY <2>1, <2>2, <2>4, <3>1, <3>2, <3>3, <3>4 DEF PInv
    <3> QED  BY <2>1, <3>5
  <2> QED  BY <2>2, <2>3, <2>4
<1>12. CASE PostgresPassword(c)
  <2>1. /\ pc[c] = "password" /\ Message(c).kind = "p" /\ ReadTo(c, n + 1)' /\ Grows(c, n)
        /\ \A i \in 1..n : Wire(c, i)' = Wire(c, i)
    BY <1>4, <1>12 DEF PostgresPassword
  <2>2. /\ Readies(c) = {} /\ n > 0 /\ Wire(c, n).kind = "v3"
        /\ \A i \in 1..(n - 1) : Wire(c, i).kind = "ssl"
    BY <2>1 DEF PInv
  <2>3. Prompts(c, n + 1)'
    <3>1. n \in 1..n /\ n + 1 > 1 /\ (n + 1) - 1 = n
      BY <1>2, <2>2
    <3>2. Wire(c, n)'.kind = "v3"
      BY <2>1, <2>2, <3>1
    <3> QED  BY <3>1, <3>2 DEF Prompts, BehindStartup
  <2>4. Prompted(c) = {}
    <3> SUFFICES ASSUME NEW i \in 1..n, Prompts(c, i) PROVE FALSE
      BY <1>2 DEF Prompted
    <3>1. Wire(c, i).kind \in {"ssl", "v3"}
      <4>1. i \in 1..(n - 1) \/ i = n
        BY <1>2
      <4> QED  BY <2>2, <4>1
    <3>2. i > 1 => i - 1 \in 1..(n - 1)
      BY <1>2
    <3> QED  BY <2>2, <3>1, <3>2 DEF Prompts, BehindStartup
  <2>5. Answer(c, Greeting, "loop")
    BY <1>12 DEF PostgresPassword
  <2>6. Message(c).kind # "v3" /\ Cardinality(Readies(c)) = Cardinality(Prompted(c))
    BY <2>1, <2>2, <2>4
  <2>7. PInv(c, n + 1)'
    BY <1>3, <2>1, <2>3, <2>5, <2>6, PostgresReplies, PAnswered
  <2> QED  BY <2>1, <2>7
<1>13. CASE PostgresQuery(c)
  <2>1. /\ pc[c] = "loop" /\ Message(c).kind = "Q" /\ ReadTo(c, n + 1)' /\ Grows(c, n)
        /\ Wire(c, n + 1)' = Message(c)
    BY <1>4, <1>13 DEF PostgresQuery
  <2>2. Prompts(c, n + 1)'
    BY <2>1 DEF Prompts, BehindStartup
  <2>3. Answer(c, QueryReply, "loop")
    BY <1>13 DEF PostgresQuery
  <2>4. Message(c).kind # "v3" /\ Cardinality(Readies(c)) = Cardinality(Prompted(c))
    BY <2>1 DEF PInv, Balanced
  <2>5. PInv(c, n + 1)'
    BY <1>3, <2>1, <2>2, <2>3, <2>4, PostgresReplies, PAnswered
  <2> QED  BY <2>1, <2>5
<1>14. CASE PostgresExtended(c)
  <2>1. /\ pc[c] = "loop" /\ Message(c).kind \in {"P", "S"} /\ ReadTo(c, n + 1)' /\ Grows(c, n)
        /\ Wire(c, n + 1)' = Message(c)
    BY <1>4, <1>14 DEF PostgresExtended
  <2>2. Prompts(c, n + 1)'
    BY <2>1 DEF Prompts, BehindStartup
  <2>3. Answer(c, <<"E", "Z">>, "loop")
    BY <1>14 DEF PostgresExtended
  <2>4. Message(c).kind # "v3" /\ Cardinality(Readies(c)) = Cardinality(Prompted(c))
    BY <2>1 DEF PInv, Balanced
  <2>5. PInv(c, n + 1)'
    BY <1>3, <2>1, <2>2, <2>3, <2>4, PostgresReplies, PAnswered
  <2> QED  BY <2>1, <2>5
<1>15. CASE PostgresIgnore(c)
  <2>1. /\ pc[c] = "loop" /\ Message(c).kind \in {"F", "p"} /\ ReadTo(c, n + 1)' /\ Grows(c, n)
        /\ Wire(c, n + 1)' = Message(c) /\ \A i \in 1..n : Wire(c, i)' = Wire(c, i)
    BY <1>4, <1>15 DEF PostgresIgnore
  <2>2. pc' = pc /\ sent' = sent
    BY <1>15 DEF PostgresIgnore
  <2>3. Balanced(c) /\ n > 0 /\ Wire(c, n).kind # "v3"
    BY <2>1 DEF PInv
  <2>4. ~(Prompts(c, n + 1)')
    <3>1. n \in 1..n /\ (n + 1) - 1 = n
      BY <1>2, <2>3
    <3>2. Wire(c, n)'.kind # "v3" /\ Wire(c, n + 1)'.kind \notin {"Q", "S", "P"}
      BY <2>1, <2>3, <3>1
    <3> QED  BY <3>1, <3>2 DEF Prompts, BehindStartup
  <2>5. Prompted(c)' = Prompted(c)
    BY <2>1, <2>4, PromptedGrows
  <2>6. Balanced(c)'
    BY <1>6, <2>2, <2>3, <2>5 DEF Balanced
  <2>7. n + 1 > 0 /\ Wire(c, n + 1)'.kind # "v3"
    BY <1>2, <2>1
  <2>8. PInv(c, n + 1)'
    BY <1>6, <2>1, <2>2, <2>6, <2>7 DEF PInv
  <2> QED  BY <2>1, <2>8
<1> QED
  BY <1>7, <1>8, <1>9, <1>10, <1>11, <1>12, <1>13, <1>14, <1>15 DEF PostgresNext

-----------------------------------------------------------------------------
(* MySQL.  The answers due are pairs of a packet and a number; a packet more *)
(* puts its answers behind the others and moves none of them.                *)

\* The answers to a packet that has the number i, by what is on the wire.
AnswersFor(w, i) ==
  IF i = 1 THEN (IF LoginOf(w).ok THEN 1 ELSE 0)
  ELSE IF w.body = << >> \/ Head(w.body) = "x01" THEN 0
  ELSE IF Head(w.body) = "x03" THEN 2 ELSE 1

LEMMA AnswersAre ==
  ASSUME NEW c
  PROVE  \A i : AnswersTo(c, i) = AnswersFor(Wire(c, i), i)
BY Zenon DEF AnswersTo, AnswersFor

LEMMA AnswersNext ==
  ASSUME NEW c
  PROVE  \A i : AnswersTo(c, i)' = AnswersFor(Wire(c, i)', i)
BY Zenon DEF AnswersTo, AnswersFor

LEMMA AnswersBound == \A w, i : AnswersFor(w, i) \in 0..2
BY DEF AnswersFor

\* Pairs of numbers: up to two more at n + 1, behind those up to n.
MorePairs(D, E, n, a) ==
  /\ IsFiniteSet(E) /\ Cardinality(D) \in Nat /\ Cardinality(E) = Cardinality(D) + a
  /\ {q \in E : q[1] < n + 1} = D
  /\ \A p \in D : {q \in E : q[1] < p[1]} = {q \in D : q[1] < p[1]}

LEMMA PairsGrow ==
  ASSUME NEW n \in Nat, NEW D \in SUBSET ((1..n) \X (1..2)), IsFiniteSet(D), NEW a \in 0..2,
         NEW E, \A p : p \in E <=> p \in D \/ \E k \in 1..a : p = <<n + 1, k>>
  PROVE  MorePairs(D, E, n, a)
<1>1. \A p \in D : p[1] \in 1..n
  OBVIOUS
<1>2. \A p \in E : p \in D \/ p[1] = n + 1
  OBVIOUS
<1>3. {q \in E : q[1] < n + 1} = D
  BY <1>1, <1>2
<1>4. \A p \in D : {q \in E : q[1] < p[1]} = {q \in D : q[1] < p[1]}
  BY <1>1, <1>2
<1>5. <<n + 1, 1>> \notin D /\ <<n + 1, 2>> \notin D /\ <<n + 1, 1>> # <<n + 1, 2>>
  BY <1>1
<1>6. Cardinality(D) \in Nat
  BY FS_CardinalityType
<1> DEFINE F == D \cup {<<n + 1, 1>>}
           G == F \cup {<<n + 1, 2>>}
<1>7. IsFiniteSet(F) /\ Cardinality(F) = Cardinality(D) + 1
  BY <1>5, FS_AddElement
<1>8. IsFiniteSet(G) /\ Cardinality(G) = Cardinality(F) + 1
  <2>1. <<n + 1, 2>> \notin F
    BY <1>5
  <2> HIDE DEF F
  <2> QED  BY <1>7, <2>1, FS_AddElement
<1>9. CASE a = 0
  <2>1. E = D
    BY <1>9
  <2> QED  BY <1>3, <1>4, <1>6, <1>9, <2>1 DEF MorePairs
<1>10. CASE a = 1
  <2>1. E = F
    BY <1>10
  <2> HIDE DEF F
  <2> QED  BY <1>3, <1>4, <1>6, <1>7, <1>10, <2>1 DEF MorePairs
<1>11. CASE a = 2
  <2>1. \A k : k \in 1..a <=> k = 1 \/ k = 2
    BY <1>11
  <2>2. E = G
    BY <2>1
  <2> HIDE DEF F, G
  <2>3. Cardinality(G) = Cardinality(D) + 2
    BY <1>6, <1>7, <1>8
  <2> QED  BY <1>3, <1>4, <1>6, <1>8, <1>11, <2>2, <2>3 DEF MorePairs
<1> QED  BY <1>9, <1>10, <1>11

LEMMA DueGrows ==
  ASSUME NEW c, NEW n, Grows(c, n), IsFiniteSet(Due(c)), NEW a, AnswersTo(c, n + 1)' = a
  PROVE  /\ a \in 0..2 /\ MorePairs(Due(c), Due(c)', n, a)
         /\ \A p \in Due(c) : p[1] \in 1..n
         /\ \A p : p \in Due(c)' <=> p \in Due(c) \/ \E k \in 1..a : p = <<n + 1, k>>
<1>1. /\ n \in Nat /\ DOMAIN Read(c) = 1..n /\ DOMAIN (Read(c)') = 1..(n + 1)
  BY DEF Grows
<1>2. \A i \in 1..n : AnswersTo(c, i)' = AnswersTo(c, i)
  <2> TAKE i \in 1..n
  <2>1. Wire(c, i)' = Wire(c, i)
    BY Wires
  <2>2. AnswersTo(c, i)' = AnswersFor(Wire(c, i)', i) /\ AnswersTo(c, i) = AnswersFor(Wire(c, i), i)
    BY AnswersAre, AnswersNext
  <2> QED  BY <2>1, <2>2
<1>3. a \in 0..2
  <2>1. AnswersTo(c, n + 1)' = AnswersFor(Wire(c, n + 1)', n + 1)
    BY AnswersNext
  <2> QED  BY <2>1, AnswersBound
<1>4. Due(c) = {p \in (1..n) \X (1..2) : p[2] <= AnswersTo(c, p[1])}
  BY <1>1 DEF Due
<1>5. Due(c)' = {p \in (1..(n + 1)) \X (1..2) : p[2] <= AnswersTo(c, p[1])'}
  BY <1>1 DEF Due
<1>6. \A i, k : <<i, k>> \in Due(c) <=> i \in 1..n /\ k \in 1..2 /\ k <= AnswersTo(c, i)
  BY <1>4
<1>7. \A i, k : <<i, k>> \in Due(c)' <=> i \in 1..(n + 1) /\ k \in 1..2 /\ k <= AnswersTo(c, i)'
  BY <1>5
<1>8. 1..(n + 1) = (1..n) \cup {n + 1} /\ n + 1 \notin 1..n /\ \A k : k \in 1..a <=> k \in 1..2 /\ k <= a
  BY <1>1, <1>3
<1>9. \A i, k : <<i, k>> \in Due(c)' <=> <<i, k>> \in Due(c) \/ (i = n + 1 /\ k \in 1..a)
  <2> TAKE i, k
  <2>1. CASE i \in 1..n
    BY <1>2, <1>6, <1>7, <1>8, <2>1
  <2>2. CASE i = n + 1
    BY <1>6, <1>7, <1>8, <2>2
  <2>3. CASE i \notin 1..n /\ i # n + 1
    BY <1>6, <1>7, <1>8, <2>3
  <2> QED  BY <2>1, <2>2, <2>3
<1>10. \A p : p \in Due(c) \/ p \in Due(c)' => p = <<p[1], p[2]>>
  BY <1>4, <1>5
<1>11. \A p : p \in Due(c)' <=> p \in Due(c) \/ \E k \in 1..a : p = <<n + 1, k>>
  BY <1>9, <1>10
<1>12. Due(c) \in SUBSET ((1..n) \X (1..2)) /\ \A p \in Due(c) : p[1] \in 1..n
  BY <1>4
<1>13. MorePairs(Due(c), Due(c)', n, a)
  BY <1>1, <1>3, <1>11, <1>12, PairsGrow
<1> QED  BY <1>3, <1>11, <1>12, <1>13

\* What SequenceFollows says of a conforming client.
InStep(c) ==
  /\ sent[c] # << >> => sent[c][1] = 0
  /\ Len(sent[c]) <= 1 + Cardinality(Due(c))
  /\ pc[c] = "loop" => Len(sent[c]) = 1 + Cardinality(Due(c))
  /\ \A p \in Due(c) : Place(c, p) <= Len(sent[c]) =>
       sent[c][Place(c, p)] = Counted(Wire(c, p[1]).seq, p[2])

\* There is a place for every answer due, in front of the next packet's.
Placed(c) == /\ IsFiniteSet(Due(c))
             /\ \A p \in Due(c) : Place(c, p) \in 1..(1 + Cardinality(Due(c)))

\* The handler of c, having read n packets.
MInv(c, n) ==
  /\ \E S : sent[c] \in Seq(S)
  /\ pc[c] = "accepted" => n = 0 /\ sent[c] = << >>
  /\ pc[c] = "login" => n = 0 /\ sent[c] = <<0>>
  /\ pc[c] = "loop" => n > 0
  /\ Placed(c)
  /\ Conforming(c) => InStep(c)

\* Appending behind the sequence.
LEMMA CatIs ==
  ASSUME NEW S, NEW s \in Seq(S), NEW T, NEW w \in Seq(T)
  PROVE  /\ Len(s) \in Nat /\ Len(w) \in Nat
         /\ \E U : s \o w \in Seq(U)
         /\ Len(s \o w) = Len(s) + Len(w)
         /\ \A i \in 1..Len(s) : (s \o w)[i] = s[i]
         /\ \A k \in 1..Len(w) : (s \o w)[Len(s) + k] = w[k]
<1> DEFINE U == S \cup T
<1>1. s \in Seq(U) /\ w \in Seq(U)
  OBVIOUS
<1> HIDE DEF U
<1>2. Len(s) \in Nat /\ Len(w) \in Nat
  BY LenProperties
<1>3. /\ s \o w \in Seq(U) /\ Len(s \o w) = Len(s) + Len(w)
      /\ \A i \in 1..(Len(s) + Len(w)) : (s \o w)[i] = IF i <= Len(s) THEN s[i] ELSE w[i - Len(s)]
  BY <1>1, ConcatProperties
<1>4. \A i \in 1..Len(s) : (s \o w)[i] = s[i]
  BY <1>2, <1>3
<1>5. \A k \in 1..Len(w) : (s \o w)[Len(s) + k] = w[k]
  <2> TAKE k \in 1..Len(w)
  <2>1. Len(s) + k \in 1..(Len(s) + Len(w)) /\ ~(Len(s) + k <= Len(s)) /\ (Len(s) + k) - Len(s) = k
    BY <1>2
  <2> QED  BY <1>3, <2>1
<1> QED  BY <1>2, <1>3, <1>4, <1>5

\* A packet is read and the handler writes w, all of its answers or the first of
\* them.
LEMMA MAnswered ==
  ASSUME NEW c, NEW n, Grows(c, n), NEW S, sent[c] \in Seq(S), Placed(c),
         NEW T, NEW w \in Seq(T), sent'[c] = sent[c] \o w,
         NEW a, AnswersTo(c, n + 1)' = a, Len(w) <= a,
         pc'[c] = "loop" => Len(w) = a,
         Conforming(c)' => /\ InStep(c) /\ Len(sent[c]) = 1 + Cardinality(Due(c))
                           /\ \A k \in 1..Len(w) : w[k] = Counted(Message(c).seq, k)
  PROVE  Placed(c)' /\ (Conforming(c)' => InStep(c)')
<1>1. IsFiniteSet(Due(c))
  BY DEF Placed
<1>2. /\ a \in 0..2 /\ MorePairs(Due(c), Due(c)', n, a)
      /\ \A p \in Due(c) : p[1] \in 1..n
      /\ \A p : p \in Due(c)' <=> p \in Due(c) \/ \E k \in 1..a : p = <<n + 1, k>>
  BY <1>1, DueGrows
<1>3. PICK m \in Nat : m = Cardinality(Due(c))
  BY <1>2 DEF MorePairs
<1>4. Cardinality(Due(c)') = m + a
  BY <1>2, <1>3 DEF MorePairs
<1>5. \A p \in Due(c) : Place(c, p)' = Place(c, p) /\ Place(c, p) \in 1..(1 + m)
  <2> TAKE p \in Due(c)
  <2>1. Place(c, p)' = 1 + Cardinality({q \in Due(c)' : q[1] < p[1]}) + p[2]
    BY DEF Place
  <2>2. {q \in Due(c)' : q[1] < p[1]} = {q \in Due(c) : q[1] < p[1]}
    BY <1>2 DEF MorePairs
  <2>3. Place(c, p)' = Place(c, p)
    BY <2>1, <2>2 DEF Place
  <2> QED  BY <1>3, <2>3 DEF Placed
<1>6. \A k \in 1..a : Place(c, <<n + 1, k>>)' = 1 + m + k
  <2> TAKE k \in 1..a
  <2>1. Place(c, <<n + 1, k>>)' = 1 + Cardinality({q \in Due(c)' : q[1] < n + 1}) + k
    BY DEF Place
  <2>2. {q \in Due(c)' : q[1] < n + 1} = Due(c)
    BY <1>2 DEF MorePairs
  <2> QED  BY <1>3, <2>1, <2>2
<1>7. Placed(c)'
  <2>1. IsFiniteSet(Due(c)')
    BY <1>2 DEF MorePairs
  <2>2. ASSUME NEW p \in Due(c)' PROVE Place(c, p)' \in 1..(1 + (m + a))
    <3>1. CASE p \in Due(c)
      BY <1>2, <1>5, <3>1
    <3>2. CASE \E k \in 1..a : p = <<n + 1, k>>
      <4>1. PICK k \in 1..a : p = <<n + 1, k>>
        BY <3>2
      <4>2. Place(c, p)' = 1 + m + k
        BY <1>6, <4>1
      <4> QED  BY <1>2, <4>2
    <3> QED  BY <1>2, <3>1, <3>2
  <2> QED  BY <1>4, <2>1, <2>2 DEF Placed
<1>8. ASSUME Conforming(c)' PROVE InStep(c)'
  <2>1. /\ InStep(c) /\ Len(sent[c]) = 1 + m
        /\ \A k \in 1..Len(w) : w[k] = Counted(Message(c).seq, k)
    BY <1>3, <1>8
  <2>2. /\ Len(w) \in Nat /\ Len(sent'[c]) = 1 + m + Len(w)
        /\ \A i \in 1..(1 + m) : sent'[c][i] = sent[c][i]
        /\ \A k \in 1..Len(w) : sent'[c][1 + m + k] = w[k]
    <3>1. PICK s \in Seq(S) : s = sent[c]
      OBVIOUS
    <3>2. /\ Len(w) \in Nat /\ Len(s \o w) = Len(s) + Len(w)
          /\ \A i \in 1..Len(s) : (s \o w)[i] = s[i]
          /\ \A k \in 1..Len(w) : (s \o w)[Len(s) + k] = w[k]
      BY CatIs
    <3>3. Len(s) = 1 + m /\ sent'[c] = s \o w
      BY <2>1, <3>1
    <3> QED  BY <3>1, <3>2, <3>3
  <2>3. sent'[c][1] = 0
    <3>1. sent[c] # << >>
      <4>1. Len(sent[c]) # 0
        BY <2>1
      <4> QED  BY <4>1, EmptySeq
    <3>2. sent[c][1] = 0 /\ 1 \in 1..(1 + m)
      BY <2>1, <3>1 DEF InStep
    <3> QED  BY <2>2, <3>2
  <2>4. Len(sent'[c]) <= 1 + Cardinality(Due(c)')
    BY <1>2, <1>4, <2>2
  <2>5. pc'[c] = "loop" => Len(sent'[c]) = 1 + Cardinality(Due(c)')
    BY <1>2, <1>4, <2>2
  <2>6. ASSUME NEW p \in Due(c)', Place(c, p)' <= Len(sent'[c])
        PROVE  sent'[c][Place(c, p)'] = Counted(Wire(c, p[1])'.seq, p[2])
    <3>1. CASE p \in Due(c)
      <4>1. Place(c, p)' = Place(c, p) /\ Place(c, p) \in 1..(1 + m) /\ p[1] \in 1..n
        BY <1>2, <1>5, <3>1
      <4>2. sent[c][Place(c, p)] = Counted(Wire(c, p[1]).seq, p[2])
        BY <2>1, <3>1, <4>1 DEF InStep
      <4>3. Wire(c, p[1])' = Wire(c, p[1])
        BY <4>1, Wires
      <4>4. sent'[c][Place(c, p)'] = sent[c][Place(c, p)]
        BY <2>2, <4>1
      <4> QED  BY <4>2, <4>3, <4>4
    <3>2. CASE \E k \in 1..a : p = <<n + 1, k>>
      <4>1. PICK k \in 1..a : p = <<n + 1, k>>
        BY <3>2
      <4>2. Place(c, p)' = 1 + m + k /\ p[1] = n + 1 /\ p[2] = k
        BY <1>6, <4>1
      <4>3. k \in 1..Len(w)
        BY <1>2, <2>2, <2>6, <4>2
      <4>4. sent'[c][Place(c, p)'] = Counted(Message(c).seq, k)
        BY <2>1, <2>2, <4>2, <4>3
      <4>5. Wire(c, n + 1)' = Message(c)
        BY Wires
      <4> QED  BY <4>2, <4>4, <4>5
    <3> QED  BY <1>2, <3>1, <3>2
  <2> QED  BY <2>3, <2>4, <2>5, <2>6 DEF InStep
<1> QED  BY <1>7, <1>8

LEMMA ConformingBefore ==
  ASSUME NEW c, NEW n, Grows(c, n), Conforming(c)'
  PROVE  /\ Conforming(c) /\ Message(c).seq \in 0..255
         /\ n = 0 => Message(c).seq = 1
<1>1. n \in Nat /\ DOMAIN Read(c) = 1..n /\ DOMAIN (Read(c)') = 1..(n + 1)
  BY DEF Grows
<1>2. Wire(c, n + 1)' = Message(c) /\ \A i \in 1..n : Wire(c, i)' = Wire(c, i)
  BY Wires
<1>3. \A i \in 1..(n + 1) : Wire(c, i)'.seq \in 0..255 /\ (i = 1 => Wire(c, i)'.seq = 1)
  BY <1>1 DEF Conforming
<1>4. n + 1 \in 1..(n + 1) /\ \A i \in 1..n : i \in 1..(n + 1)
  BY <1>1
<1>5. Conforming(c)
  BY <1>1, <1>2, <1>3, <1>4 DEF Conforming
<1>6. Message(c).seq \in 0..255 /\ (n + 1 = 1 => Message(c).seq = 1)
  BY <1>2, <1>3, <1>4
<1> QED  BY <1>1, <1>5, <1>6

\* seq + 1, and once more, on a byte.
LEMMA NextCounted ==
  ASSUME NEW s \in 0..255
  PROVE  NextSeq(s) = Counted(s, 1) /\ NextSeq(NextSeq(s)) = Counted(s, 2)
<1>1. NextSeq(s) = Counted(s, 1) /\ NextSeq(s) \in 0..255
  BY SMT DEF NextSeq, Counted
<1>2. \A t \in 0..255 : NextSeq(t) = IF t = 255 THEN 0 ELSE t + 1
  BY SMT DEF NextSeq
<1>3. NextSeq(NextSeq(s)) = IF NextSeq(s) = 255 THEN 0 ELSE NextSeq(s) + 1
  BY <1>1, <1>2
<1>4. NextSeq(s) = IF s = 255 THEN 0 ELSE s + 1
  BY <1>2
<1> QED  BY <1>1, <1>3, <1>4, SMT DEF Counted

\* Before a packet is answered nothing else is due.
LEMMA MWaiting ==
  ASSUME NEW c, NEW n, Grows(c, n), MInv(c, n), pc[c] \in {"login", "loop"}, Conforming(c)'
  PROVE  InStep(c) /\ Len(sent[c]) = 1 + Cardinality(Due(c))
<1>1. InStep(c)
  BY ConformingBefore DEF MInv
<1>2. CASE pc[c] = "loop"
  BY <1>1, <1>2 DEF InStep
<1>3. CASE pc[c] = "login"
  <2>1. n = 0 /\ sent[c] = <<0>> /\ DOMAIN Read(c) = {}
    BY <1>3 DEF MInv, Grows
  <2>2. Due(c) = {}
    BY <2>1 DEF Due
  <2>3. Cardinality(Due(c)) = 0 /\ Len(sent[c]) = 1
    BY <2>1, <2>2, FS_EmptySet
  <2> QED  BY <1>1, <2>3
<1> QED  BY <1>2, <1>3

\* What MAnswered gives, whatever way the handler goes on.
LEMMA MReads ==
  ASSUME NEW c, NEW n, Grows(c, n), MInv(c, n), pc[c] \in {"login", "loop"},
         pc'[c] \in {"loop", "closed", "failed"},
         NEW T, NEW w \in Seq(T), sent'[c] = sent[c] \o w,
         NEW a, AnswersTo(c, n + 1)' = a, Len(w) <= a,
         pc'[c] = "loop" => Len(w) = a,
         Conforming(c)' => \A k \in 1..Len(w) : w[k] = Counted(Message(c).seq, k)
  PROVE  MInv(c, n + 1)'
<1>1. PICK S : sent[c] \in Seq(S)
  BY DEF MInv
<1>2. Placed(c)
  BY DEF MInv
<1>3. Conforming(c)' => /\ InStep(c) /\ Len(sent[c]) = 1 + Cardinality(Due(c))
                        /\ \A k \in 1..Len(w) : w[k] = Counted(Message(c).seq, k)
  BY MWaiting
<1>4. Placed(c)' /\ (Conforming(c)' => InStep(c)')
  BY <1>1, <1>2, <1>3, MAnswered
<1>5. \E U : sent'[c] \in Seq(U)
  <2>1. PICK s \in Seq(S) : s = sent[c]
    BY <1>1
  <2>2. \E U : s \o w \in Seq(U)
    BY CatIs
  <2> QED  BY <2>1, <2>2
<1>6. n + 1 > 0
  BY DEF Grows
<1> QED  BY <1>4, <1>5, <1>6 DEF MInv

\* The handler reads a packet and writes nothing.
LEMMA MSilent ==
  ASSUME NEW c, NEW n, Grows(c, n), MInv(c, n), pc[c] \in {"login", "loop"},
         pc'[c] \in {"loop", "closed"}, sent'[c] = sent[c], AnswersTo(c, n + 1)' = 0
  PROVE  MInv(c, n + 1)'
<1>1. PICK S : sent[c] \in Seq(S)
  BY DEF MInv
<1>2. << >> \in Seq(S) /\ Len(<< >>) = 0 /\ sent[c] \o << >> = sent[c]
  BY <1>1, EmptySeq, ConcatEmptySeq
<1>3. PICK w \in Seq(S) : w = << >>
  BY <1>2
<1>4. /\ Len(w) = 0 /\ sent'[c] = sent[c] \o w
      /\ \A k \in 1..Len(w) : w[k] = Counted(Message(c).seq, k)
  BY <1>2, <1>3
<1>5. Len(w) <= 0 /\ (pc'[c] = "loop" => Len(w) = 0)
  BY <1>4
<1> QED  BY <1>4, <1>5, MReads

\* It reads a packet and answers with r, all that are due.
LEMMA MReplies ==
  ASSUME DomainsOK, NEW c \in Conns, NEW n, Grows(c, n), MInv(c, n), pc[c] \in {"login", "loop"},
         NEW T, NEW r \in Seq(T), Answer(c, r, "loop"), AnswersTo(c, n + 1)' = Len(r),
         Conforming(c)' => \A k \in 1..Len(r) : r[k] = Counted(Message(c).seq, k)
  PROVE  MInv(c, n + 1)'
<1>1. PICK k \in 0..Len(r) :
           /\ sent'[c] = sent[c] \o SubSeq(r, 1, k)
           /\ pc'[c] = IF k = Len(r) THEN "loop" ELSE "failed"
  BY Answering
<1>2. /\ SubSeq(r, 1, k) \in Seq(T) /\ Len(SubSeq(r, 1, k)) = k
      /\ \A j \in 1..k : SubSeq(r, 1, k)[j] = r[j]
  BY Written
<1>3. PICK w \in Seq(T) : w = SubSeq(r, 1, k)
  BY <1>2
<1>4. PICK a : a = Len(r)
  OBVIOUS
<1>5. a \in Nat /\ k \in 0..a /\ Len(w) = k /\ AnswersTo(c, n + 1)' = a
  BY <1>2, <1>3, <1>4, LenProperties
<1>6. /\ sent'[c] = sent[c] \o w /\ Len(w) <= a /\ (pc'[c] = "loop" => Len(w) = a)
      /\ pc'[c] \in {"loop", "closed", "failed"}
  BY <1>1, <1>3, <1>4, <1>5
<1>7. Conforming(c)' => \A j \in 1..Len(w) : w[j] = Counted(Message(c).seq, j)
  <2> SUFFICES ASSUME Conforming(c)', NEW j \in 1..k PROVE w[j] = Counted(Message(c).seq, j)
    BY <1>5
  <2>1. j \in 1..Len(r)
    BY <1>4, <1>5
  <2> QED  BY <1>2, <1>3, <2>1
<1> QED  BY <1>5, <1>6, <1>7, MReads

\* Nothing is read and the sequence and its place are as before.
LEMMA MStays ==
  ASSUME client' = client, NEW c, NEW n, in'[c] = in[c], MInv(c, n)
  PROVE  /\ Read(c)' = Read(c) /\ Due(c)' = Due(c) /\ Placed(c)' /\ (Conforming(c)' <=> Conforming(c))
         /\ \A p : Place(c, p)' = Place(c, p)
         /\ \A i : Wire(c, i)' = Wire(c, i)
<1>1. Read(c)' = Read(c)
  BY DEF Read
<1>2. \A i : Wire(c, i)' = Wire(c, i)
  BY <1>1 DEF Wire
<1>3. \A i : AnswersTo(c, i)' = AnswersTo(c, i)
  <2> TAKE i
  <2>1. AnswersTo(c, i)' = AnswersFor(Wire(c, i)', i) /\ AnswersTo(c, i) = AnswersFor(Wire(c, i), i)
    BY AnswersAre, AnswersNext
  <2> QED  BY <1>2, <2>1
<1>4. Due(c)' = Due(c)
  BY <1>1, <1>3 DEF Due
<1>5. \A p : Place(c, p)' = Place(c, p)
  BY <1>4 DEF Place
<1>6. Placed(c)'
  BY <1>4, <1>5 DEF Placed, MInv
<1>7. Conforming(c)' <=> Conforming(c)
  BY <1>1, <1>2 DEF Conforming
<1> QED  BY <1>1, <1>2, <1>4, <1>5, <1>6, <1>7

LEMMA MStep ==
  ASSUME client \in Cases, DomainsOK, NEW c \in Conns, NEW n, ReadTo(c, n), MInv(c, n),
         MySQLNext(c)
  PROVE  \E m : ReadTo(c, m)' /\ MInv(c, m)'
<1>1. Proto(c) = "mysql" /\ client' = client
  BY MySQLWrites, MySQLForeign DEF Foreign
<1>2. n \in Nat /\ DOMAIN Read(c) = 1..n
  BY <1>1, ReadIs
<1>3. PICK S : sent[c] \in Seq(S)
  BY DEF MInv
<1>4. ASSUME HasMessage(c), Consume(c)
      PROVE  /\ ReadTo(c, n + 1)' /\ Grows(c, n) /\ Wire(c, n + 1)' = Message(c)
             /\ AnswersTo(c, n + 1)' = AnswersFor(Message(c), n + 1)
             /\ Conforming(c)' => /\ Message(c).seq \in 0..255
                                  /\ n = 0 => Message(c).seq = 1
  <2>1. ReadTo(c, n + 1)' /\ Grows(c, n)
    BY <1>1, <1>4, Reading DEF DomainsOK
  <2>2. Wire(c, n + 1)' = Message(c)
    BY <2>1, Wires
  <2>3. AnswersTo(c, n + 1)' = AnswersFor(Wire(c, n + 1)', n + 1)
    BY AnswersNext
  <2> QED  BY <2>1, <2>2, <2>3, ConformingBefore
<1>5. \A p : Goto(c, p) => pc'[c] = p
  BY DEF Goto, DomainsOK
<1>6. ASSUME MySQLCommand(c)
      PROVE  /\ pc[c] = "loop" /\ HasMessage(c) /\ Consume(c) /\ n + 1 # 1
             /\ Message(c).body # << >>
  <2>1. /\ pc[c] = "loop" /\ HasMessage(c) /\ Consume(c)
        /\ Message(c).body # << >>
    BY <1>6 DEF MySQLCommand, At
  <2> QED  BY <1>2, <2>1 DEF MInv
<1>7. CASE MySQLGreet(c)
  <2>1. pc[c] = "accepted" /\ in' = in /\ Answer(c, <<0>>, "login") /\ n = 0 /\ sent[c] = << >>
    BY <1>7 DEF MySQLGreet, At, MInv
  <2>2. ReadTo(c, n)' /\ DOMAIN Read(c) = {}
    BY <1>1, <1>2, <2>1, NotReading
  <2>3. /\ Placed(c)' /\ Due(c)' = {} /\ Cardinality(Due(c)') = 0
    <3>1. Due(c) = {}
      BY <2>2 DEF Due
    <3> QED  BY <1>1, <2>1, <3>1, MStays, FS_EmptySet
  <2>4. <<0>> \in Seq({0}) /\ Len(<<0>>) = 1 /\ << >> \in Seq({0})
    OBVIOUS
  <2>5. PICK k \in 0..Len(<<0>>) :
           /\ sent'[c] = sent[c] \o SubSeq(<<0>>, 1, k)
           /\ pc'[c] = IF k = Len(<<0>>) THEN "login" ELSE "failed"
    BY <2>1, <2>4, Answering
  <2>6. \/ sent'[c] = << >> /\ pc'[c] = "failed"
        \/ sent'[c] = <<0>> /\ pc'[c] = "login"
    <3>1. CASE k = 0
      <4>1. SubSeq(<<0>>, 1, k) = << >> /\ pc'[c] = "failed"
        BY <2>4, <2>5, <3>1, SubSeqEmpty
      <4>2. sent'[c] = << >> \o << >>
        BY <2>1, <2>5, <4>1
      <4>3. << >> \o << >> = << >>
        BY <2>4, ConcatEmptySeq
      <4> QED  BY <4>1, <4>2, <4>3
    <3>2. CASE k = 1
      <4>1. SubSeq(<<0>>, 1, k) = <<0>> /\ pc'[c] = "login"
        BY <2>4, <2>5, <3>2, Written
      <4>2. sent'[c] = << >> \o <<0>>
        BY <2>1, <2>5, <4>1
      <4>3. << >> \o <<0>> = <<0>>
        BY <2>4, ConcatEmptySeq
      <4> QED  BY <4>1, <4>2, <4>3
    <3> QED  BY <2>4, <3>1, <3>2
  <2>7. InStep(c)'
    <3>1. (sent'[c] # << >> => sent'[c][1] = 0) /\ Len(sent'[c]) <= 1 /\ pc'[c] # "loop"
      <4>1. Len(<< >>) <= 1 /\ Len(<<0>>) <= 1 /\ <<0>>[1] = 0
        OBVIOUS
      <4>2. CASE sent'[c] = << >> /\ pc'[c] = "failed"
        BY <4>1, <4>2, Zenon
      <4>3. CASE sent'[c] = <<0>> /\ pc'[c] = "login"
        BY <4>1, <4>3, Zenon
      <4> QED  BY <2>6, <4>2, <4>3
    <3> QED  BY <2>3, <3>1 DEF InStep
  <2>8. \E U : sent'[c] \in Seq(U)
    BY <2>4, <2>6
  <2>9. MInv(c, n)'
    BY <2>1, <2>3, <2>6, <2>7, <2>8 DEF MInv
  <2> QED  BY <2>2, <2>9
<1>8. CASE MySQLReadFails(c)
  <2>1. in' = in /\ sent' = sent /\ pc'[c] = "closed"
    BY <1>5, <1>8 DEF MySQLReadFails
  <2>2. ReadTo(c, n)'
    BY <1>1, <2>1, NotReading
  <2>3. /\ Due(c)' = Due(c) /\ Placed(c)' /\ (Conforming(c)' <=> Conforming(c))
        /\ \A p : Place(c, p)' = Place(c, p)
        /\ \A i : Wire(c, i)' = Wire(c, i)
    BY <1>1, <2>1, MStays
  <2>4. InStep(c) => InStep(c)'
    BY <2>1, <2>3 DEF InStep
  <2>5. MInv(c, n)'
    BY <1>3, <2>1, <2>3, <2>4 DEF MInv
  <2> QED  BY <2>2, <2>5
<1>9. CASE MySQLLogin(c)
  <2>1. pc[c] = "login" /\ HasMessage(c) /\ Consume(c) /\ n = 0
    BY <1>9 DEF MySQLLogin, At, MInv
  <2>2. CASE LoginOf(Message(c)).ok
    <3>1. Answer(c, <<2>>, "loop")
      BY <1>9, <2>2 DEF MySQLLogin
    <3>2. AnswersTo(c, n + 1)' = 1
      BY <1>4, <2>1, <2>2 DEF AnswersFor
    <3>3. <<2>> \in Seq({2}) /\ Len(<<2>>) = 1 /\ <<2>>[1] = 2
      OBVIOUS
    <3>4. Conforming(c)' => \A k \in 1..Len(<<2>>) : <<2>>[k] = Counted(Message(c).seq, k)
      <4> SUFFICES ASSUME Conforming(c)' PROVE Counted(Message(c).seq, 1) = 2
        BY <3>3
      <4> QED  BY <1>4, <2>1 DEF Counted
    <3>5. MInv(c, n + 1)'
      BY <1>4, <2>1, <3>1, <3>2, <3>3, <3>4, MReplies
    <3> QED  BY <1>4, <2>1, <3>5
  <2>3. CASE ~LoginOf(Message(c)).ok
    <3>1. pc'[c] = "closed" /\ sent' = sent
      BY <1>5, <1>9, <2>3 DEF MySQLLogin
    <3>2. AnswersTo(c, n + 1)' = 0
      BY <1>4, <2>1, <2>3 DEF AnswersFor
    <3>3. MInv(c, n + 1)'
      BY <1>4, <2>1, <3>1, <3>2, MSilent
    <3> QED  BY <1>4, <2>1, <3>3
  <2> QED  BY <2>2, <2>3
<1>10. CASE MySQLEmpty(c)
  <2>1. /\ pc[c] = "loop" /\ HasMessage(c) /\ Consume(c) /\ Message(c).body = << >>
        /\ pc' = pc /\ sent' = sent /\ n + 1 # 1
    BY <1>2, <1>10 DEF MySQLEmpty, At, MInv
  <2>2. AnswersTo(c, n + 1)' = 0
    BY <1>4, <2>1 DEF AnswersFor
  <2>3. MInv(c, n + 1)'
    BY <1>4, <2>1, <2>2, MSilent
  <2> QED  BY <1>4, <2>1, <2>3
<1>11. CASE MySQLQuit(c)
  <2>1. /\ pc[c] = "loop" /\ HasMessage(c) /\ Consume(c) /\ n + 1 # 1
        /\ Message(c).body # << >> /\ Head(Message(c).body) = "x01"
    BY <1>6, <1>11 DEF MySQLQuit, ComType
  <2>2. pc'[c] = "closed" /\ sent' = sent
    BY <1>5, <1>11 DEF MySQLQuit
  <2>3. AnswersTo(c, n + 1)' = 0
    BY <1>4, <2>1 DEF AnswersFor
  <2>4. MInv(c, n + 1)'
    BY <1>4, <2>1, <2>2, <2>3, MSilent
  <2> QED  BY <1>4, <2>1, <2>4
<1>12. CASE MySQLQuery(c)
  <2>1. /\ pc[c] = "loop" /\ HasMessage(c) /\ Consume(c) /\ n + 1 # 1
        /\ Message(c).body # << >> /\ Head(Message(c).body) = "x03"
    BY <1>6, <1>12 DEF MySQLQuery, ComType
  <2>2. PICK x : x = NextSeq(Message(c).seq)
    OBVIOUS
  <2>3. PICK y : y = NextSeq(x)
    OBVIOUS
  <2>4. Answer(c, <<x, y>>, "loop")
    BY <1>12, <2>2, <2>3 DEF MySQLQuery
  <2>5. AnswersTo(c, n + 1)' = 2
    BY <1>4, <2>1 DEF AnswersFor
  <2>6. <<x, y>> \in Seq({x, y}) /\ Len(<<x, y>>) = 2 /\ <<x, y>>[1] = x /\ <<x, y>>[2] = y
    OBVIOUS
  <2>7. Conforming(c)' => x = Counted(Message(c).seq, 1) /\ y = Counted(Message(c).seq, 2)
    BY <1>4, <2>1, <2>2, <2>3, NextCounted
  <2>8. Conforming(c)' => \A k \in 1..Len(<<x, y>>) : <<x, y>>[k] = Counted(Message(c).seq, k)
    <3>1. \A k \in 1..Len(<<x, y>>) : k = 1 \/ k = 2
      BY <2>6
    <3> QED  BY <2>6, <2>7, <3>1
  <2>9. MInv(c, n + 1)'
    BY <1>4, <2>1, <2>4, <2>5, <2>6, <2>8, MReplies
  <2> QED  BY <1>4, <2>1, <2>9
<1>13. CASE MySQLInitDB(c) \/ MySQLOther(c)
  <2>1. /\ pc[c] = "loop" /\ HasMessage(c) /\ Consume(c) /\ n + 1 # 1
        /\ Message(c).body # << >> /\ Head(Message(c).body) \notin {"x01", "x03"}
    BY <1>6, <1>13 DEF MySQLInitDB, MySQLOther, ComType
  <2>2. PICK x : x = NextSeq(Message(c).seq)
    OBVIOUS
  <2>3. Answer(c, <<x>>, "loop")
    BY <1>13, <2>2 DEF MySQLInitDB, MySQLOther
  <2>4. AnswersTo(c, n + 1)' = 1
    BY <1>4, <2>1 DEF AnswersFor
  <2>5. <<x>> \in Seq({x}) /\ Len(<<x>>) = 1 /\ <<x>>[1] = x
    OBVIOUS
  <2>6. Conforming(c)' => x = Counted(Message(c).seq, 1)
    BY <1>4, <2>1, <2>2, NextCounted
  <2>7. Conforming(c)' => \A k \in 1..Len(<<x>>) : <<x>>[k] = Counted(Message(c).seq, k)
    <3>1. \A k \in 1..Len(<<x>>) : k = 1
      BY <2>5
    <3> QED  BY <2>5, <2>6, <3>1
  <2>8. MInv(c, n + 1)'
    BY <1>4, <2>1, <2>3, <2>4, <2>5, <2>7, MReplies
  <2> QED  BY <1>4, <2>1, <2>8
<1> QED  BY <1>7, <1>8, <1>9, <1>10, <1>11, <1>12, <1>13 DEF MySQLNext

-----------------------------------------------------------------------------
(* The inductive invariant: of every handler, how many messages it has read, *)
(* what it owes its client at each place, and that clients stay as they are. *)

Dialogue(c) ==
  /\ c \in Of("mysql") => \E n : ReadTo(c, n) /\ MInv(c, n)
  /\ c \in Of("postgres") => \E n : ReadTo(c, n) /\ PInv(c, n)

DInv == client \in Cases /\ DomainsOK /\ \A c \in Conns : Dialogue(c)

\* A handler whose own state does not change stays where it is in its dialogue.
LEMMA DialogueStays ==
  ASSUME client' = client, NEW c \in Conns, Same(c), Dialogue(c)
  PROVE  Dialogue(c)'
<1>1. Of("mysql")' = Of("mysql") /\ Of("postgres")' = Of("postgres")
  BY DEF Of, Proto
<1>2. in'[c] = in[c] /\ pc'[c] = pc[c] /\ sent'[c] = sent[c]
  BY DEF Same
<1>3. \A n : ReadTo(c, n)' <=> ReadTo(c, n)
  BY <1>2 DEF ReadTo
<1>4. Read(c)' = Read(c)
  BY <1>2 DEF Read
<1>5. \A i : Wire(c, i)' = Wire(c, i)
  BY <1>4 DEF Wire
<1>6. ASSUME NEW n, MInv(c, n)
      PROVE  MInv(c, n)'
  <2>1. /\ Due(c)' = Due(c) /\ Placed(c)' /\ (Conforming(c)' <=> Conforming(c))
        /\ \A p : Place(c, p)' = Place(c, p)
    BY <1>2, <1>6, MStays
  <2>2. InStep(c) => InStep(c)'
    BY <1>2, <1>5, <2>1 DEF InStep
  <2> QED  BY <1>2, <1>6, <2>1, <2>2 DEF MInv
<1>7. ASSUME NEW n, PInv(c, n)
      PROVE  PInv(c, n)'
  <2>1. Readies(c)' = Readies(c) /\ Prompted(c)' = Prompted(c)
    BY <1>2, <1>4, <1>5 DEF Readies, Prompted, Prompts, BehindStartup
  <2>2. Balanced(c) => Balanced(c)'
    BY <1>2, <2>1 DEF Balanced
  <2> QED  BY <1>2, <1>5, <1>7, <2>1, <2>2 DEF PInv
<1> QED  BY <1>1, <1>3, <1>6, <1>7 DEF Dialogue

LEMMA DInvStep == DInv /\ [Next]_vars => DInv'
<1> SUFFICES ASSUME DInv, [Next]_vars PROVE DInv'
  OBVIOUS
<1>1. client \in Cases /\ DomainsOK /\ \A c \in Conns : Dialogue(c)
  BY DEF DInv
<1>2. ASSUME NEW c \in Conns, Own(c), Dialogue(c)'
      PROVE  DInv'
  <2>1. DomainsOK' /\ client' = client /\ \A d \in Conns : d # c => Same(d)
    BY <1>1, <1>2, Elsewhere DEF Own
  <2>2. \A d \in Conns : d # c => Dialogue(d)'
    BY <1>1, <2>1, DialogueStays
  <2> QED  BY <1>1, <1>2, <2>1, <2>2 DEF DInv
<1>3. ASSUME NEW c \in Conns, client' = client
      PROVE  \A p : c \in Of(p)' <=> Proto(c) = p
  BY <1>3 DEF Of, Proto
<1>4. ASSUME NEW c \in Conns, RedisNext(c) PROVE DInv'
  <2>1. Proto(c) = "redis" /\ client' = client
    BY <1>4, RedisShape
  <2>2. Dialogue(c)'
    BY <1>3, <2>1 DEF Dialogue
  <2> QED  BY <1>2, <1>4, <2>2, RedisOwn
<1>5. ASSUME NEW c \in Conns, HttpNext(c) PROVE DInv'
  <2>1. Proto(c) = "http" /\ client' = client
    BY <1>5, HttpWrites, HttpForeign DEF Foreign
  <2>2. Dialogue(c)'
    BY <1>3, <2>1 DEF Dialogue
  <2> QED  BY <1>2, <1>5, <2>2, HttpOwn
<1>6. ASSUME NEW c \in Conns, MySQLNext(c) PROVE DInv'
  <2>1. Proto(c) = "mysql" /\ client' = client
    BY <1>6, MySQLWrites, MySQLForeign DEF Foreign
  <2>2. c \in Of("mysql")
    BY <2>1 DEF Of
  <2>3. PICK n : ReadTo(c, n) /\ MInv(c, n)
    BY <1>1, <2>2 DEF Dialogue
  <2>4. \E m : ReadTo(c, m)' /\ MInv(c, m)'
    BY <1>1, <1>6, <2>3, MStep
  <2>5. Dialogue(c)'
    BY <1>3, <2>1, <2>4 DEF Dialogue
  <2> QED  BY <1>2, <1>6, <2>5, MySQLOwn
<1>7. ASSUME NEW c \in Conns, PostgresNext(c) PROVE DInv'
  <2>1. Proto(c) = "postgres" /\ client' = client
    BY <1>7, PostgresWrites, PostgresForeign DEF Foreign
  <2>2. c \in Of("postgres")
    BY <2>1 DEF Of
  <2>3. PICK n : ReadTo(c, n) /\ PInv(c, n)
    BY <1>1, <2>2 DEF Dialogue
  <2>4. \E m : ReadTo(c, m)' /\ PInv(c, m)'
    BY <1>1, <1>7, <2>3, PStep
  <2>5. Dialogue(c)'
    BY <1>3, <2>1, <2>4 DEF Dialogue
  <2> QED  BY <1>2, <1>7, <2>5, PostgresOwn
<1>8. CASE UNCHANGED vars
  <2>1. client' = client /\ in' = in /\ pc' = pc /\ sent' = sent /\ who' = who
    BY <1>8 DEF vars
  <2>2. \A d \in Conns : Same(d)
    BY <2>1 DEF Same
  <2>3. \A d \in Conns : Dialogue(d)'
    BY <1>1, <2>1, <2>2, DialogueStays
  <2>4. DomainsOK'
    BY <1>1, <2>1 DEF DomainsOK
  <2> QED  BY <1>1, <2>1, <2>3, <2>4 DEF DInv
<1> QED  BY <1>4, <1>5, <1>6, <1>7, <1>8 DEF Next, Rest

\* No handler has read anything at first.
LEMMA InitRead ==
  ASSUME Init, NEW c \in Conns, Proto(c) # "redis"
  PROVE  ReadTo(c, 0) /\ DOMAIN Read(c) = {}
<1>1. client \in Cases /\ in = [d \in Conns |-> Input(client[d])]
  BY DEF Init
<1>2. client[c].cut \in Nat
  <2>1. IsClient(client[c])
    BY <1>1, SessionAssumption
  <2> QED  BY <2>1 DEF IsClient, Proto
<1>3. in[c] = SubSeq(client[c].items, 1, client[c].cut)
  BY <1>1 DEF Input, Proto
<1>4. ReadTo(c, 0)
  BY <1>2, <1>3 DEF ReadTo
<1>5. DOMAIN Read(c) = 1..0
  BY <1>1, <1>4, ReadIs
<1> QED  BY <1>4, <1>5

LEMMA DInvInit == Init => DInv
<1> SUFFICES ASSUME Init PROVE DInv
  OBVIOUS
<1>1. /\ client \in Cases /\ in = [c \in Conns |-> Input(client[c])]
      /\ pc = [c \in Conns |-> "accepted"] /\ sent = [c \in Conns |-> << >>]
      /\ DOMAIN who = Conns
  BY DEF Init
<1>2. DomainsOK
  BY <1>1 DEF DomainsOK
<1>3. ASSUME NEW c \in Conns, Proto(c) # "redis"
      PROVE  ReadTo(c, 0) /\ DOMAIN Read(c) = {}
  BY <1>3, InitRead
<1>4. ASSUME NEW c \in Conns
      PROVE  /\ pc[c] = "accepted" /\ sent[c] = << >> /\ sent[c] \in Seq({}) /\ Len(sent[c]) = 0
             /\ DOMAIN sent[c] = {}
  BY <1>1, EmptySeq
<1>5. ASSUME NEW c \in Conns, DOMAIN Read(c) = {} PROVE MInv(c, 0)
  <2>1. Due(c) = {}
    BY <1>5 DEF Due
  <2>2. Placed(c) /\ Cardinality(Due(c)) = 0
    BY <2>1, FS_EmptySet DEF Placed
  <2>3. InStep(c)
    BY <1>4, <2>1, <2>2 DEF InStep
  <2>4. \E S : sent[c] \in Seq(S)
    BY <1>4
  <2> QED  BY <1>4, <2>2, <2>3, <2>4 DEF MInv
<1>6. ASSUME NEW c \in Conns PROVE PInv(c, 0)
  <2>1. Readies(c) = {}
    BY <1>4 DEF Readies
  <2>2. \E S : sent[c] \in Seq(S)
    BY <1>4
  <2> QED  BY <1>4, <2>1, <2>2 DEF PInv
<1>7. ASSUME NEW c \in Conns PROVE Dialogue(c)
  BY <1>3, <1>5, <1>6 DEF Dialogue, Of
<1> QED  BY <1>1, <1>2, <1>7 DEF DInv

\* In every reachable state each MySQL and PostgreSQL handler has read a part of its
\* client's messages and answered what its place in the protocol says.
THEOREM DialogueInvariance == Spec => []DInv
<1>1. Init => DInv
  BY DInvInit
<1>2. DInv /\ [Next]_vars => DInv'
  BY DInvStep
<1> QED  BY <1>1, <1>2, PTL DEF Spec

\* Whatever packets a client sends, as long as it numbers them by bytes and its login
\* 1: it is sent the greeting and then the answers due, none more and each in its
\* place, also when a write fails between the two packets that answer a query, and
\* each continues the number of the packet it answers on a byte (seq + 1).
THEOREM SequencesAlwaysFollow == Spec => []SequenceFollows
<1>1. DInv => SequenceFollows
  <2> SUFFICES ASSUME DInv, NEW c \in Of("mysql"), Conforming(c) PROVE InStep(c)
    BY DEF SequenceFollows, InStep
  <2>1. c \in Conns
    BY DEF Of
  <2> QED  BY <2>1 DEF DInv, Dialogue, MInv
<1> QED  BY <1>1, DialogueInvariance, PTL

\* Whatever messages a client sends, SSL requests before the startup message and
\* ignored ones in between included: in the query loop it has been sent one
\* ReadyForQuery for its password, each query and each Sync, and one came last, so
\* that nobody waits for the other; the only others it was sent are one for each
\* Parse, Bind, Describe and Execute.
THEOREM ReadyAlwaysFollows == Spec => []ReadyFollows
<1>1. DInv => ReadyFollows
  <2> SUFFICES ASSUME DInv, NEW c \in Of("postgres"), pc[c] = "loop" PROVE Balanced(c)
    BY PromptedCount DEF ReadyFollows, Balanced
  <2>1. c \in Conns
    BY DEF Of
  <2> QED  BY <2>1 DEF DInv, Dialogue, PInv
<1> QED  BY <1>1, DialogueInvariance, PTL

-----------------------------------------------------------------------------
(* What the log holds of a session, for clients that encode what they mean   *)
(* (Understood): an event more of its own is the last of them, an event of   *)
(* another connection none.                                                  *)

LEMMA LogExtends ==
  ASSUME LogOK, NEW e, Log(<<e>>)
  PROVE  \E n \in Nat : /\ DOMAIN log = 1..n /\ DOMAIN log' = 1..(n + 1)
                        /\ \A i \in 1..n : log'[i] = log[i]
                        /\ log'[n + 1] = Sanitize(e)
<1>1. PICK S : log \in Seq(S)
  BY DEF LogOK
<1>2. PICK s \in Seq(S) : s = log
  BY <1>1
<1>3. PICK x : x = Sanitize(e)
  OBVIOUS
<1>4. PICK w \in Seq({x}) : w = <<x>>
  <2>1. <<x>> \in Seq({x})
    OBVIOUS
  <2> QED  BY <2>1
<1>5. /\ \E U : s \o w \in Seq(U)
      /\ Len(s \o w) = Len(s) + Len(w)
      /\ \A i \in 1..Len(s) : (s \o w)[i] = s[i]
      /\ \A k \in 1..Len(w) : (s \o w)[Len(s) + k] = w[k]
  BY CatIs
<1>6. PICK U : s \o w \in Seq(U)
  BY <1>5
<1>7. PICK n \in Nat : n = Len(s)
  BY LenProperties
<1>8. DOMAIN s = 1..n /\ DOMAIN (s \o w) = 1..Len(s \o w)
  BY <1>6, <1>7, LenProperties
<1>9. Len(w) = 1 /\ w[1] = x /\ 1 \in 1..Len(w)
  BY <1>4
<1>10. log' = s \o w
  BY <1>2, <1>3, <1>4, LogOne
<1> QED  BY <1>2, <1>3, <1>5, <1>7, <1>8, <1>9, <1>10

LEMMA LoggedOne ==
  ASSUME LogOK, NEW e, Log(<<e>>), NEW c
  PROVE  /\ e.conn = c => LoggedBy(c)' = Append(LoggedBy(c), Sanitize(e))
         /\ e.conn # c => LoggedBy(c)' = LoggedBy(c)
<1>1. PICK x : x = Sanitize(e)
  OBVIOUS
<1> x.conn = e.conn
  BY <1>1 DEF Sanitize
<1>2. PICK n \in Nat : /\ DOMAIN log = 1..n /\ DOMAIN log' = 1..(n + 1)
                       /\ \A i \in 1..n : log'[i] = log[i]
                       /\ log'[n + 1] = x
  BY <1>1, LogExtends
<1> DEFINE own == {i \in 1..n : log[i].conn = c}
           ownNext == {i \in 1..(n + 1) : log'[i].conn = c}
<1>3. own \in SUBSET (1..n) /\ \A i \in own : log'[i] = log[i]
  BY <1>2
<1>4. 1..(n + 1) = (1..n) \cup {n + 1}
  OBVIOUS
<1>5. ownNext = IF e.conn = c THEN own \cup {n + 1} ELSE own
  BY <1>1, <1>2, <1>4
<1>6. LoggedBy(c) = Pick(log, own) /\ LoggedBy(c)' = Pick(log', ownNext)
  BY <1>2 DEF LoggedBy
<1> HIDE DEF own, ownNext
<1>7. PickExtends(log, log', own, n)
  BY <1>3, PickAppend
<1> QED  BY <1>1, <1>2, <1>5, <1>6, <1>7 DEF PickExtends

LEMMA LoggedNone ==
  ASSUME LogOK, log' = log \/ Log(<< >>), NEW c
  PROVE  LoggedBy(c)' = LoggedBy(c)
<1>1. log' = log
  BY LogNone
<1> QED  BY <1>1 DEF LoggedBy

LEMMA OthersLog ==
  ASSUME LogOK, NEW d, Logs(d), NEW c, c # d
  PROVE  LoggedBy(c)' = LoggedBy(c)
<1>1. CASE log' = log \/ Log(<< >>)
  BY <1>1, LoggedNone
<1>2. CASE \E e : EventOf(d, e) /\ Log(<<e>>)
  BY <1>2, LoggedOne DEF EventOf
<1> QED  BY <1>1, <1>2 DEF Logs

\* The events SessionLogged asks for.
Told(c) == Pick([i \in DOMAIN Read(c) |-> MeantEvent(c, i)], ToTell(c))

\* The messages up to i of one of the kinds.
OfKind(c, i, kinds) == {j \in 1..i : Kind(c, j) \in kinds}

LEMMA KindsKept ==
  ASSUME NEW c, NEW n, Grows(c, n)
  PROVE  /\ n \in Nat /\ \A i \in 1..n : Kind(c, i)' = Kind(c, i)
         /\ Kind(c, n + 1)' = Head(in[c]).means.kind
BY DEF Grows, Kind

\* Reading on changes nothing about what was meant before; a message of one of the
\* kinds is the last of them.
LEMMA LastKept ==
  ASSUME NEW c, NEW n, Grows(c, n), NEW kinds, NEW i \in 1..n, OfKind(c, i, kinds) # {}
  PROVE  /\ LastMeant(c, i, kinds)' = LastMeant(c, i, kinds)
         /\ Kind(c, n + 1)' \notin kinds /\ i = n =>
              LastMeant(c, n + 1, kinds)' = LastMeant(c, n, kinds)
<1>1. n \in Nat /\ \A j \in 1..n : Kind(c, j)' = Kind(c, j)
  BY KindsKept
<1>2. PICK S : S = OfKind(c, i, kinds)
  OBVIOUS
<1>3. S = {j \in 1..i : Kind(c, j) \in kinds} /\ i \in Nat /\ \A j \in 1..i : j \in 1..n
  BY <1>1, <1>2 DEF OfKind
<1>4. S \in SUBSET (1..i) /\ S # {}
  BY <1>2, <1>3
<1>5. Max(S) \in 1..n
  <2>1. Max(S) \in S
    BY <1>3, <1>4, MaxIn
  <2> QED  BY <1>3, <1>4, <2>1
<1>6. Read(c)'[Max(S)] = Read(c)[Max(S)]
  BY <1>5 DEF Grows
<1>7. LastMeant(c, i, kinds) = Read(c)[Max(S)].means
  BY <1>3 DEF LastMeant
<1>8. LastMeant(c, i, kinds)' = Read(c)'[Max(S)].means
  <2>1. {j \in 1..i : Kind(c, j)' \in kinds} = S
    BY <1>1, <1>3
  <2> QED  BY <2>1 DEF LastMeant
<1>9. ASSUME Kind(c, n + 1)' \notin kinds, i = n
      PROVE  LastMeant(c, n + 1, kinds)' = LastMeant(c, n, kinds)
  <2>1. 1..(n + 1) = (1..n) \cup {n + 1}
    BY <1>1
  <2>2. {j \in 1..(n + 1) : Kind(c, j)' \in kinds} = S
    BY <1>1, <1>3, <1>9, <2>1
  <2>3. LastMeant(c, n + 1, kinds)' = Read(c)'[Max(S)].means
    BY <2>2 DEF LastMeant
  <2> QED  BY <1>6, <1>7, <1>9, <2>3
<1> QED  BY <1>6, <1>7, <1>8, <1>9

LEMMA LastNew ==
  ASSUME NEW c, NEW n, Grows(c, n), NEW kinds, Kind(c, n + 1)' \in kinds
  PROVE  LastMeant(c, n + 1, kinds)' = Head(in[c]).means
<1>1. n \in Nat
  BY DEF Grows
<1>2. PICK m \in Nat : m = n + 1 /\ m > 0
  BY <1>1
<1>3. PICK S : S = {j \in 1..m : Kind(c, j)' \in kinds}
  OBVIOUS
<1>4. S \in SUBSET (1..m) /\ m \in S /\ S # {}
  BY <1>2, <1>3
<1>5. LastMeant(c, n + 1, kinds)' = Read(c)'[Max(S)].means
  BY <1>2, <1>3 DEF LastMeant
<1>6. Max(S) \in S /\ \A y \in S : y <= Max(S)
  BY <1>4, MaxIn
<1>7. Max(S) = n + 1
  <2>1. PICK k : k = Max(S)
    OBVIOUS
  <2>2. k \in 1..m /\ m <= k
    BY <1>4, <1>6, <2>1
  <2> QED  BY <1>1, <1>2, <2>1, <2>2
<1> QED  BY <1>5, <1>7 DEF Grows

\* Every message told of is one behind a login, or it.
AfterLogin(c) == \A i \in ToTell(c) : OfKind(c, i, {"login"}) # {}

LEMMA EventKept ==
  ASSUME NEW c, NEW n, Grows(c, n), NEW i \in 1..n, OfKind(c, i, {"login"}) # {}
  PROVE  MeantEvent(c, i)' = MeantEvent(c, i)
<1>1. OfKind(c, i, {"login", "use"}) # {}
  BY DEF OfKind
<1>2. /\ LastMeant(c, i, {"login"})' = LastMeant(c, i, {"login"})
      /\ LastMeant(c, i, {"login", "use"})' = LastMeant(c, i, {"login", "use"})
  BY <1>1, LastKept
<1>3. Read(c)'[i] = Read(c)[i] /\ Kind(c, i)' = Kind(c, i)
  BY DEF Grows, Kind
<1> QED  BY <1>2, <1>3 DEF MeantEvent

LEMMA TellGrows ==
  ASSUME NEW c, NEW n, Grows(c, n), AfterLogin(c)
  PROVE  /\ Kind(c, n + 1)' \notin {"login", "query"} =>
              ToTell(c)' = ToTell(c) /\ Told(c)' = Told(c)
         /\ Kind(c, n + 1)' \in {"login", "query"} =>
              /\ ToTell(c)' = ToTell(c) \cup {n + 1}
              /\ Told(c)' = Append(Told(c), MeantEvent(c, n + 1)')
<1>1. n \in Nat /\ DOMAIN Read(c) = 1..n /\ DOMAIN (Read(c)') = 1..(n + 1)
  BY DEF Grows
<1>2. PICK S : S = ToTell(c)
  OBVIOUS
<1>3. S = {i \in 1..n : Kind(c, i) \in {"login", "query"}}
  BY <1>1, <1>2 DEF ToTell
<1>4. ToTell(c)' = {i \in 1..(n + 1) : Kind(c, i)' \in {"login", "query"}}
  BY <1>1 DEF ToTell
<1>5. 1..(n + 1) = (1..n) \cup {n + 1} /\ \A i \in 1..n : Kind(c, i)' = Kind(c, i)
  BY <1>1, KindsKept
<1>6. /\ Kind(c, n + 1)' \notin {"login", "query"} => ToTell(c)' = S
      /\ Kind(c, n + 1)' \in {"login", "query"} => ToTell(c)' = S \cup {n + 1}
  BY <1>3, <1>4, <1>5
<1>7. PICK f : f = [i \in 1..n |-> MeantEvent(c, i)]
  OBVIOUS
<1>8. PICK g : g = [i \in 1..(n + 1) |-> MeantEvent(c, i)']
  OBVIOUS
<1>9. S \in SUBSET (1..n) /\ \A i \in S : g[i] = f[i]
  <2>1. S \in SUBSET (1..n)
    BY <1>3
  <2>2. ASSUME NEW i \in S PROVE g[i] = f[i]
    <3>1. i \in 1..n /\ i \in 1..(n + 1)
      BY <1>5, <2>1
    <3>2. OfKind(c, i, {"login"}) # {}
      BY <1>2 DEF AfterLogin
    <3>3. MeantEvent(c, i)' = MeantEvent(c, i)
      BY <3>1, <3>2, EventKept
    <3> QED  BY <1>7, <1>8, <3>1, <3>3
  <2> QED  BY <2>1, <2>2
<1>10. PickExtends(f, g, S, n)
  BY <1>1, <1>9, PickAppend
<1>11. Told(c) = Pick(f, S)
  BY <1>1, <1>2, <1>7 DEF Told
<1>12. Told(c)' = Pick(g, ToTell(c)')
  <2>1. Told(c)' = Pick([i \in DOMAIN (Read(c)') |-> MeantEvent(c, i)'], ToTell(c)')
    BY Zenon DEF Told
  <2> QED  BY <1>1, <1>8, <2>1
<1>13. g[n + 1] = MeantEvent(c, n + 1)'
  BY <1>5, <1>8
<1> QED  BY <1>2, <1>6, <1>10, <1>11, <1>12, <1>13 DEF PickExtends

\* The name and the database of the session by what its client meant.
Whose(c, n) == [user |-> LastMeant(c, n, {"login"}).user,
                db |-> LastMeant(c, n, {"login", "use"}).db]

Introduced(c, n) == /\ n > 0 /\ OfKind(c, n, {"login"}) # {} /\ AfterLogin(c)
                    /\ who[c] = Whose(c, n)

LEMMA KindsGrow ==
  ASSUME NEW c, NEW n, Grows(c, n), NEW kinds
  PROVE  /\ \A i \in 1..n : OfKind(c, i, kinds)' = OfKind(c, i, kinds)
         /\ Kind(c, n + 1)' \in kinds \/ (n > 0 /\ OfKind(c, n, kinds) # {}) =>
              (OfKind(c, n + 1, kinds))' # {}
<1>1. n \in Nat /\ \A i \in 1..n : Kind(c, i)' = Kind(c, i)
  BY KindsKept
<1>2. \A i \in 1..n : \A j \in 1..i : j \in 1..n
  BY <1>1
<1>3. \A i \in 1..n : OfKind(c, i, kinds)' = OfKind(c, i, kinds)
  BY <1>1, <1>2 DEF OfKind
<1>4. n + 1 \in 1..(n + 1) /\ \A j \in 1..n : j \in 1..(n + 1)
  BY <1>1
<1>5. Kind(c, n + 1)' \in kinds => (OfKind(c, n + 1, kinds))' # {}
  BY <1>4 DEF OfKind
<1>6. OfKind(c, n, kinds) # {} => (OfKind(c, n + 1, kinds))' # {}
  BY <1>1, <1>4 DEF OfKind
<1> QED  BY <1>3, <1>5, <1>6

LEMMA AfterLoginGrows ==
  ASSUME NEW c, NEW n, Grows(c, n), AfterLogin(c),
         OfKind(c, n + 1, {"login"})' # {}
  PROVE  AfterLogin(c)'
<1>1. \A i \in 1..n : OfKind(c, i, {"login"})' = OfKind(c, i, {"login"})
  BY KindsGrow
<1>2. ToTell(c)' = ToTell(c) \/ ToTell(c)' = ToTell(c) \cup {n + 1}
  BY TellGrows
<1>3. ToTell(c) \subseteq 1..n
  BY DEF ToTell, Grows
<1> QED  BY <1>1, <1>2, <1>3 DEF AfterLogin

\* The first login of a session, which means m.
FirstTold(c, n, m) ==
  /\ Whose(c, n + 1)' = [user |-> m.user, db |-> m.db]
  /\ Told(c)' = Append(Told(c), Sanitize([Blank(c) EXCEPT
       !.user = m.user, !.db = m.db, !.hash = m.hash, !.cmd = <<"CONNECT">>]))
  /\ who'[c] = Whose(c, n + 1)' => Introduced(c, n + 1)'

LEMMA Introduces ==
  ASSUME NEW c, NEW n, Grows(c, n), ToTell(c) = {}, Kind(c, n + 1)' = "login",
         NEW m, m = Head(in[c]).means
  PROVE  FirstTold(c, n, m)
<1>1. AfterLogin(c)
  BY DEF AfterLogin
<1>2. LastMeant(c, n + 1, {"login"})' = m /\ LastMeant(c, n + 1, {"login", "use"})' = m
  BY LastNew
<1>3. Whose(c, n + 1)' = [user |-> m.user, db |-> m.db]
  BY <1>2 DEF Whose
<1>4. MeantEvent(c, n + 1)' = Sanitize([Blank(c) EXCEPT
        !.user = m.user, !.db = m.db, !.hash = m.hash, !.cmd = <<"CONNECT">>])
  BY <1>2 DEF MeantEvent, Grows
<1>5. Told(c)' = Append(Told(c), MeantEvent(c, n + 1)')
  BY <1>1, TellGrows
<1>6. OfKind(c, n + 1, {"login"})' # {}
  BY KindsGrow
<1>7. n + 1 > 0 /\ AfterLogin(c)'
  <2>1. n + 1 > 0
    BY DEF Grows
  <2> QED  BY <1>1, <1>6, <2>1, AfterLoginGrows
<1>8. who'[c] = Whose(c, n + 1)' => Introduced(c, n + 1)'
  BY <1>6, <1>7 DEF Introduced
<1> QED  BY <1>3, <1>4, <1>5, <1>8 DEF FirstTold

\* What follows it: a message that selects a database, a query, or neither.
NextTold(c, n, m) ==
  /\ m.kind = "use" => Whose(c, n + 1)' = [user |-> who[c].user, db |-> m.db]
  /\ m.kind # "use" => Whose(c, n + 1)' = who[c]
  /\ m.kind # "query" => Told(c)' = Told(c)
  /\ m.kind = "query" =>
       Told(c)' = Append(Told(c), Sanitize([Blank(c) EXCEPT
         !.user = who[c].user, !.db = who[c].db, !.hash = m.hash,
         !.cmd = Truncate(m.text, MaxQuery)]))
  /\ who'[c] = Whose(c, n + 1)' => Introduced(c, n + 1)'

LEMMA Continues ==
  ASSUME NEW c, NEW n, Grows(c, n), Introduced(c, n),
         NEW m, m = Head(in[c]).means, m.kind # "login"
  PROVE  NextTold(c, n, m)
<1>1. /\ n \in 1..n /\ OfKind(c, n, {"login"}) # {} /\ AfterLogin(c) /\ who[c] = Whose(c, n)
  BY DEF Introduced, Grows
<1>2. OfKind(c, n, {"login", "use"}) # {}
  BY <1>1 DEF OfKind
<1> Kind(c, n + 1)' = m.kind /\ Kind(c, n + 1)' # "login"
  BY KindsKept
<1>3. LastMeant(c, n + 1, {"login"})' = LastMeant(c, n, {"login"})
  BY <1>1, LastKept
<1>4. ASSUME Kind(c, n + 1)' = "use"
      PROVE  Whose(c, n + 1)' = [user |-> who[c].user, db |-> m.db]
  <2>1. LastMeant(c, n + 1, {"login", "use"})' = m
    BY <1>4, LastNew
  <2> QED  BY <1>1, <1>3, <2>1 DEF Whose
<1>5. ASSUME Kind(c, n + 1)' # "use"
      PROVE  LastMeant(c, n + 1, {"login", "use"})' = LastMeant(c, n, {"login", "use"})
  BY <1>1, <1>2, <1>5, LastKept
<1>6. Kind(c, n + 1)' # "use" => Whose(c, n + 1)' = who[c]
  BY <1>1, <1>3, <1>5 DEF Whose
<1>7. Kind(c, n + 1)' # "query" => Told(c)' = Told(c)
  BY <1>1, TellGrows
<1>8. ASSUME Kind(c, n + 1)' = "query"
      PROVE  Told(c)' = Append(Told(c), Sanitize([Blank(c) EXCEPT
                !.user = who[c].user, !.db = who[c].db, !.hash = m.hash,
                !.cmd = Truncate(m.text, MaxQuery)]))
  <2>1. Told(c)' = Append(Told(c), MeantEvent(c, n + 1)')
    BY <1>1, <1>8, TellGrows
  <2>2. /\ LastMeant(c, n + 1, {"login"})'.user = who[c].user
        /\ LastMeant(c, n + 1, {"login", "use"})'.db = who[c].db
    BY <1>1, <1>3, <1>5, <1>8 DEF Whose
  <2>3. Read(c)'[n + 1].means = m
    BY DEF Grows
  <2>4. MeantEvent(c, n + 1)' = Sanitize([Blank(c) EXCEPT
                !.user = who[c].user, !.db = who[c].db, !.hash = m.hash,
                !.cmd = Truncate(m.text, MaxQuery)])
    BY <1>8, <2>2, <2>3 DEF MeantEvent
  <2> QED  BY <2>1, <2>4
<1>9. OfKind(c, n + 1, {"login"})' # {}
  BY <1>1, KindsGrow DEF Introduced
<1>10. n + 1 > 0 /\ AfterLogin(c)'
  <2>1. n + 1 > 0
    BY DEF Grows
  <2> QED  BY <1>1, <1>9, <2>1, AfterLoginGrows
<1>11. who'[c] = Whose(c, n + 1)' => Introduced(c, n + 1)'
  BY <1>9, <1>10 DEF Introduced
<1> QED  BY <1>4, <1>6, <1>7, <1>8, <1>11 DEF NextTold

\* The handler of c, having read n messages: the log holds what it must; before the
\* login that is nothing, and the user and database are the session's.
WInv(c, n) ==
  /\ LoggedBy(c) = Told(c)
  /\ pc[c] \in {"accepted", "login", "startup", "password"} => ToTell(c) = {}
  /\ pc[c] = "password" => who[c] = WhoOf(Wire(c, n).body)
  /\ pc[c] = "loop" => Introduced(c, n)

LEMMA WEnded ==
  ASSUME NEW c, NEW n, pc'[c] \in {"closed", "failed"}, LoggedBy(c)' = Told(c)'
  PROVE  WInv(c, n)'
BY DEF WInv

LEMMA WLoops ==
  ASSUME NEW c, NEW n, pc'[c] \in {"loop", "failed"}, LoggedBy(c)' = Told(c)', Introduced(c, n)'
  PROVE  WInv(c, n)'
BY DEF WInv

LEMMA AnswersGo ==
  ASSUME DomainsOK, NEW c \in Conns, NEW replies, NEW place, Answer(c, replies, place)
  PROVE  pc'[c] \in {place, "failed"}
BY DEF Answer, Goto, DomainsOK

\* Nothing is read.
LEMMA WSame ==
  ASSUME client' = client, NEW c, in'[c] = in[c]
  PROVE  /\ Told(c)' = Told(c) /\ ToTell(c)' = ToTell(c)
         /\ \A n : Wire(c, n)' = Wire(c, n)
         /\ \A n : who'[c] = who[c] => (Introduced(c, n)' <=> Introduced(c, n))
<1>1. Read(c)' = Read(c)
  BY DEF Read
<1>2. \A i : Kind(c, i)' = Kind(c, i) /\ Wire(c, i)' = Wire(c, i)
  BY <1>1 DEF Kind, Wire
<1>3. \A n, kinds : OfKind(c, n, kinds)' = OfKind(c, n, kinds)
  BY <1>2 DEF OfKind
<1>4. \A n, kinds : LastMeant(c, n, kinds)' = LastMeant(c, n, kinds)
  BY <1>1, <1>2 DEF LastMeant
<1>5. ToTell(c)' = ToTell(c)
  BY <1>1, <1>2 DEF ToTell
<1>6. \A i : MeantEvent(c, i)' = MeantEvent(c, i)
  <2> TAKE i
  <2>1. /\ LastMeant(c, i, {"login"})' = LastMeant(c, i, {"login"})
        /\ LastMeant(c, i, {"login", "use"})' = LastMeant(c, i, {"login", "use"})
    BY <1>1, <1>2 DEF LastMeant
  <2>2. Read(c)'[i] = Read(c)[i] /\ Kind(c, i)' = Kind(c, i)
    BY <1>1, <1>2
  <2> QED  BY <2>1, <2>2 DEF MeantEvent
<1>7. Told(c)' = Told(c)
  <2>1. Told(c)' = Pick([i \in DOMAIN (Read(c)') |-> MeantEvent(c, i)'], ToTell(c)')
    BY Zenon DEF Told
  <2>2. [i \in DOMAIN (Read(c)') |-> MeantEvent(c, i)'] = [i \in DOMAIN Read(c) |-> MeantEvent(c, i)]
    BY <1>1, <1>6
  <2> QED  BY <1>5, <2>1, <2>2 DEF Told
<1>8. AfterLogin(c)' <=> AfterLogin(c)
  BY <1>3, <1>5 DEF AfterLogin
<1>9. \A n : Whose(c, n)' = Whose(c, n)
  BY <1>4 DEF Whose
<1>10. \A n : who'[c] = who[c] => (Introduced(c, n)' <=> Introduced(c, n))
  BY <1>3, <1>8, <1>9 DEF Introduced
<1> QED  BY <1>2, <1>5, <1>7, <1>10

\* The next message is the client's next item, and means what the code makes of it.
LEMMA NextItem ==
  ASSUME client \in Cases, NEW c \in Conns, Proto(c) # "redis", NEW n, ReadTo(c, n), HasMessage(c)
  PROVE  /\ n + 1 \in DOMAIN client[c].items /\ Head(in[c]) = client[c].items[n + 1]
         /\ \A i \in 1..n : Read(c)[i] = client[c].items[i]
<1>1. /\ Split(client[c].items, client[c].cut, n)
      /\ in[c] = SubSeq(client[c].items, n + 1, client[c].cut)
  BY ClientSplits DEF ReadTo
<1>2. n + 1 \in DOMAIN client[c].items /\ Head(in[c]) = client[c].items[n + 1]
  BY <1>1 DEF Split, HasMessage
<1>3. \A i \in 1..n : Read(c)[i] = client[c].items[i]
  BY <1>1 DEF Split, Read
<1> QED  BY <1>2, <1>3

LEMMA NextMeans ==
  ASSUME Understood, client \in Cases, NEW c \in Conns, Proto(c) \in {"mysql", "postgres"},
         NEW n, ReadTo(c, n), HasMessage(c)
  PROVE  /\ Head(in[c]) = client[c].items[n + 1]
         /\ \A i \in 1..n : Read(c)[i] = client[c].items[i]
         /\ Proto(c) = "mysql" => MySQLMeant(client[c].items, n + 1)
         /\ Proto(c) = "postgres" => PostgresMeant(client[c].items, n + 1)
<1>1. /\ n + 1 \in DOMAIN client[c].items /\ Head(in[c]) = client[c].items[n + 1]
      /\ \A i \in 1..n : Read(c)[i] = client[c].items[i]
  BY NextItem
<1>2. /\ Proto(c) = "mysql" => MySQLMeant(client[c].items, n + 1)
      /\ Proto(c) = "postgres" => PostgresMeant(client[c].items, n + 1)
  BY <1>1 DEF Understood, Proto
<1> QED  BY <1>1, <1>2

LEMMA MySQLMeans ==
  ASSUME Understood, client \in Cases, NEW c \in Conns, Proto(c) = "mysql",
         NEW n, ReadTo(c, n), HasMessage(c), NEW m, m = Head(in[c]).means
  PROVE  LET w == Message(c)
             login == LoginOf(w)
         IN  /\ n = 0 => /\ m.kind # "query"
                         /\ m.kind = "login" <=> login.ok
                         /\ login.ok => m.user = login.user /\ m.db = login.db /\ m.hash = login.hash
             /\ n > 0 /\ w.body = << >> => m.kind \notin {"login", "query", "use"}
             /\ n > 0 /\ w.body # << >> =>
                  /\ m.kind # "login"
                  /\ m.kind = "query" <=> Head(w.body) = "x03"
                  /\ m.kind = "use" <=> Head(w.body) = "x02"
                  /\ Head(w.body) = "x03" => m.text = Tail(w.body) /\ m.hash = << >>
                  /\ Head(w.body) = "x02" => m.db = Tail(w.body)
<1>1. Head(in[c]) = client[c].items[n + 1] /\ MySQLMeant(client[c].items, n + 1)
  BY NextMeans
<1>2. client[c].items[n + 1].wire = Message(c) /\ client[c].items[n + 1].means = m
  BY <1>1 DEF Message
<1>3. n \in Nat
  BY ReadIs
<1>4. n > 0 => n + 1 # 1
  BY <1>3
<1> QED  BY <1>1, <1>2, <1>4 DEF MySQLMeant

LEMMA PostgresMeans ==
  ASSUME Understood, client \in Cases, NEW c \in Conns, Proto(c) = "postgres",
         NEW n, ReadTo(c, n), HasMessage(c), NEW m, m = Head(in[c]).means
  PROVE  LET w == Message(c)
             behind == n > 0 /\ Wire(c, n).kind = "v3"
             name == WhoOf(Wire(c, n).body)
         IN  /\ m.kind # "use"
             /\ m.kind = "login" <=> behind /\ w.kind = "p"
             /\ m.kind = "query" <=> ~behind /\ w.kind = "Q"
             /\ m.kind = "login" => m.user = name.user /\ m.db = name.db /\ m.hash = NullTerm(w.body)
             /\ m.kind = "query" => m.text = NullTerm(w.body) /\ m.hash = << >>
<1>1. /\ Head(in[c]) = client[c].items[n + 1] /\ PostgresMeant(client[c].items, n + 1)
      /\ \A i \in 1..n : Read(c)[i] = client[c].items[i]
  BY NextMeans
<1>2. client[c].items[n + 1].wire = Message(c) /\ client[c].items[n + 1].means = m
  BY <1>1 DEF Message
<1>3. n \in Nat
  BY ReadIs
<1>4. (n + 1) - 1 = n /\ (n + 1 > 1 <=> n > 0) /\ (n > 0 => n \in 1..n)
  BY <1>3
<1>5. n > 0 => client[c].items[(n + 1) - 1].wire = Wire(c, n)
  BY <1>1, <1>4 DEF Wire
<1> QED  BY <1>1, <1>2, <1>4, <1>5 DEF PostgresMeant

\* A message that tells nothing, or an event for one that does.
LEMMA TellsNone ==
  ASSUME LogOK, log' = log, NEW c, LoggedBy(c) = Told(c), Told(c)' = Told(c)
  PROVE  LoggedBy(c)' = Told(c)'
BY LoggedNone

LEMMA TellsOne ==
  ASSUME LogOK, NEW e, Log(<<e>>), NEW c, e.conn = c, LoggedBy(c) = Told(c),
         Told(c)' = Append(Told(c), Sanitize(e))
  PROVE  LoggedBy(c)' = Told(c)'
BY LoggedOne

\* What each step of the MySQL handler logs is what its client told with the message.
LEMMA MySQLTells ==
  ASSUME Understood, client \in Cases, DomainsOK, LogOK, NEW c \in Conns,
         NEW n, ReadTo(c, n), MInv(c, n), WInv(c, n), MySQLNext(c)
  PROVE  \E k : ReadTo(c, k)' /\ WInv(c, k)'
<1>1. Proto(c) = "mysql" /\ client' = client
  BY MySQLWrites, MySQLForeign DEF Foreign
<1>2. n \in Nat
  BY <1>1, ReadIs
<1>3. PICK m : m = Head(in[c]).means
  OBVIOUS
<1>4. ASSUME HasMessage(c), Consume(c)
      PROVE  ReadTo(c, n + 1)' /\ Grows(c, n) /\ Kind(c, n + 1)' = m.kind
  <2>1. ReadTo(c, n + 1)' /\ Grows(c, n)
    BY <1>1, <1>4, Reading DEF DomainsOK
  <2> QED  BY <1>3, <2>1, KindsKept
<1>5. \A p : Goto(c, p) => pc'[c] = p
  BY DEF Goto, DomainsOK
<1>6. LoggedBy(c) = Told(c)
  BY DEF WInv
<1>7. CASE MySQLGreet(c) \/ MySQLReadFails(c)
  <2>1. in' = in /\ log' = log /\ who' = who
    BY <1>7 DEF MySQLGreet, MySQLReadFails
  <2>2. ReadTo(c, n)' /\ Told(c)' = Told(c) /\ ToTell(c)' = ToTell(c)
    BY <1>1, <2>1, NotReading, WSame
  <2>3. LoggedBy(c)' = Told(c)'
    BY <1>6, <2>1, <2>2, TellsNone
  <2>4. CASE MySQLReadFails(c)
    <3>1. pc'[c] = "closed"
      BY <1>5, <2>4 DEF MySQLReadFails
    <3> QED  BY <2>2, <2>3, <3>1, WEnded
  <2>5. CASE MySQLGreet(c)
    <3>1. pc[c] = "accepted" /\ pc'[c] \in {"login", "failed"}
      BY <2>5, AnswersGo DEF MySQLGreet, At
    <3>2. ToTell(c)' = {}
      BY <2>2, <3>1 DEF WInv
    <3>3. WInv(c, n)'
      BY <2>3, <3>1, <3>2 DEF WInv
    <3> QED  BY <2>2, <3>3
  <2> QED  BY <1>7, <2>4, <2>5
<1>8. CASE MySQLLogin(c)
  <2>1. PICK login : login = LoginOf(Message(c))
    OBVIOUS
  <2>2. pc[c] = "login" /\ HasMessage(c) /\ Consume(c) /\ n = 0
    BY <1>8 DEF MySQLLogin, At, MInv
  <2>3. ToTell(c) = {} /\ AfterLogin(c)
    BY <2>2 DEF WInv, AfterLogin
  <2>4. /\ m.kind # "query" /\ (m.kind = "login" <=> login.ok)
        /\ login.ok => m.user = login.user /\ m.db = login.db /\ m.hash = login.hash
    BY <1>1, <1>3, <2>1, <2>2, MySQLMeans
  <2>5. CASE login.ok
    <3>1. PICK e : e = [Blank(c) EXCEPT !.user = login.user, !.db = login.db,
                                        !.hash = login.hash, !.cmd = <<"CONNECT">>]
      OBVIOUS
    <3>2. /\ Log(<<e>>) /\ Answer(c, <<2>>, "loop")
          /\ who' = [who EXCEPT ![c] = [user |-> login.user, db |-> login.db]]
      BY <1>8, <2>1, <2>5, <3>1 DEF MySQLLogin
    <3>3. e.conn = c
      BY <3>1 DEF Blank
    <3>4. FirstTold(c, n, m)
      <4>1. Grows(c, n) /\ Kind(c, n + 1)' = "login"
        BY <1>4, <2>2, <2>4, <2>5
      <4> QED  BY <1>3, <2>3, <4>1, Introduces
    <3>5. Told(c)' = Append(Told(c), Sanitize(e))
      BY <2>4, <2>5, <3>1, <3>4 DEF FirstTold
    <3>6. LoggedBy(c)' = Told(c)'
      BY <1>6, <3>2, <3>3, <3>5, TellsOne
    <3>7. who'[c] = [user |-> login.user, db |-> login.db]
      BY <3>2 DEF DomainsOK
    <3>8. Introduced(c, n + 1)'
      BY <2>4, <2>5, <3>4, <3>7 DEF FirstTold
    <3>9. pc'[c] \in {"loop", "failed"}
      BY <3>2, AnswersGo
    <3> QED  BY <1>4, <2>2, <3>6, <3>8, <3>9, WLoops
  <2>6. CASE ~login.ok
    <3>1. pc'[c] = "closed" /\ log' = log
      BY <1>5, <1>8, <2>1, <2>6 DEF MySQLLogin
    <3>2. Told(c)' = Told(c)
      BY <1>4, <2>2, <2>3, <2>4, <2>6, TellGrows
    <3>3. LoggedBy(c)' = Told(c)'
      BY <1>6, <3>1, <3>2, TellsNone
    <3> QED  BY <1>4, <2>2, <3>1, <3>3, WEnded
  <2> QED  BY <2>5, <2>6
<1>9. ASSUME pc[c] = "loop", HasMessage(c), Consume(c)
      PROVE  /\ ReadTo(c, n + 1)' /\ Grows(c, n) /\ Introduced(c, n) /\ n > 0
             /\ Kind(c, n + 1)' = m.kind
  BY <1>4, <1>9 DEF WInv, MInv
<1>10. ASSUME MySQLCommand(c)
       PROVE  /\ pc[c] = "loop" /\ HasMessage(c) /\ Consume(c) /\ n > 0
              /\ Message(c).body # << >>
  BY <1>9, <1>10 DEF MySQLCommand, At
<1>11. ASSUME pc[c] = "loop", HasMessage(c), Consume(c), log' = log, who' = who,
              m.kind \notin {"login", "query", "use"}, pc'[c] \in {"loop", "closed", "failed"}
       PROVE  ReadTo(c, n + 1)' /\ WInv(c, n + 1)'
  <2>1. Grows(c, n) /\ Introduced(c, n) /\ m.kind # "login"
    BY <1>9, <1>11
  <2>2. NextTold(c, n, m)
    BY <1>3, <2>1, Continues
  <2>3. Told(c)' = Told(c) /\ Introduced(c, n + 1)'
    BY <1>11, <2>2 DEF NextTold
  <2>4. LoggedBy(c)' = Told(c)'
    BY <1>6, <1>11, <2>3, TellsNone
  <2> QED  BY <1>9, <1>11, <2>3, <2>4, WEnded, WLoops
<1>12. CASE MySQLEmpty(c)
  <2>1. /\ pc[c] = "loop" /\ HasMessage(c) /\ Consume(c) /\ Message(c).body = << >>
        /\ pc' = pc /\ who' = who /\ log' = log
    BY <1>12 DEF MySQLEmpty, At
  <2>2. m.kind \notin {"login", "query", "use"}
    BY <1>1, <1>3, <1>9, <2>1, MySQLMeans
  <2> QED  BY <1>11, <2>1, <2>2
<1>13. CASE MySQLQuit(c) \/ MySQLOther(c)
  <2>1. /\ pc[c] = "loop" /\ HasMessage(c) /\ Consume(c) /\ n > 0
        /\ Message(c).body # << >> /\ Head(Message(c).body) \notin {"x02", "x03"}
    BY <1>10, <1>13 DEF MySQLQuit, MySQLOther, ComType
  <2>2. who' = who /\ log' = log
    BY <1>13 DEF MySQLQuit, MySQLOther
  <2>3. m.kind \notin {"login", "query", "use"}
    BY <1>1, <1>3, <2>1, MySQLMeans
  <2>4. pc'[c] \in {"loop", "closed", "failed"}
    <3>1. CASE MySQLQuit(c)
      BY <1>5, <3>1 DEF MySQLQuit
    <3>2. CASE MySQLOther(c)
      BY <3>2, AnswersGo DEF MySQLOther
    <3> QED  BY <1>13, <3>1, <3>2
  <2> QED  BY <1>11, <2>1, <2>2, <2>3, <2>4
<1>14. CASE MySQLInitDB(c)
  <2>1. /\ pc[c] = "loop" /\ HasMessage(c) /\ Consume(c) /\ n > 0
        /\ Message(c).body # << >> /\ Head(Message(c).body) = "x02"
    BY <1>10, <1>14 DEF MySQLInitDB, ComType
  <2>2. PICK d : d = Tail(Message(c).body)
    OBVIOUS
  <2>3. m.kind = "use" /\ m.db = d
    BY <1>1, <1>3, <2>1, <2>2, MySQLMeans
  <2>4. who' = [who EXCEPT ![c].db = d] /\ log' = log
    BY <1>14, <2>2 DEF MySQLInitDB
  <2>5. pc'[c] \in {"loop", "failed"}
    BY <1>14, AnswersGo DEF MySQLInitDB
  <2>6. NextTold(c, n, m)
    <3>1. Grows(c, n) /\ Introduced(c, n) /\ m.kind # "login"
      BY <1>9, <2>1, <2>3
    <3> QED  BY <1>3, <3>1, Continues
  <2>7. who'[c] = [user |-> who[c].user, db |-> d]
    <3>1. PICK u, b : who[c] = [user |-> u, db |-> b]
      BY <1>9, <2>1 DEF Introduced, Whose
    <3>2. who'[c] = [who[c] EXCEPT !.db = d]
      BY <2>4 DEF DomainsOK
    <3> QED  BY <3>1, <3>2
  <2>8. Introduced(c, n + 1)' /\ Told(c)' = Told(c)
    BY <2>3, <2>6, <2>7 DEF NextTold
  <2>9. LoggedBy(c)' = Told(c)'
    BY <1>6, <2>4, <2>8, TellsNone
  <2> QED  BY <1>9, <2>1, <2>5, <2>8, <2>9, WLoops
<1>15. CASE MySQLQuery(c)
  <2>1. /\ pc[c] = "loop" /\ HasMessage(c) /\ Consume(c) /\ n > 0
        /\ Message(c).body # << >> /\ Head(Message(c).body) = "x03"
    BY <1>10, <1>15 DEF MySQLQuery, ComType
  <2>2. PICK t : t = Truncate(Tail(Message(c).body), MaxQuery)
    OBVIOUS
  <2>3. m.kind = "query" /\ Truncate(m.text, MaxQuery) = t /\ m.hash = << >>
    BY <1>1, <1>3, <2>1, <2>2, MySQLMeans
  <2>4. PICK e : e = [Blank(c) EXCEPT !.user = who[c].user, !.db = who[c].db, !.cmd = t]
    OBVIOUS
  <2>5. Log(<<e>>) /\ who' = who
    BY <1>15, <2>2, <2>4 DEF MySQLQuery
  <2>6. pc'[c] \in {"loop", "failed"}
    BY <1>15, AnswersGo DEF MySQLQuery
  <2>7. e.conn = c
    BY <2>4 DEF Blank
  <2>8. NextTold(c, n, m)
    <3>1. Grows(c, n) /\ Introduced(c, n) /\ m.kind # "login"
      BY <1>9, <2>1, <2>3
    <3> QED  BY <1>3, <3>1, Continues
  <2>9. Told(c)' = Append(Told(c), Sanitize(e))
    <3>1. Told(c)' = Append(Told(c), Sanitize([Blank(c) EXCEPT
            !.user = who[c].user, !.db = who[c].db, !.hash = << >>, !.cmd = t]))
      BY <2>3, <2>8 DEF NextTold
    <3>2. Sanitize(e) = Sanitize([Blank(c) EXCEPT
            !.user = who[c].user, !.db = who[c].db, !.hash = << >>, !.cmd = t])
      BY <2>4 DEF Blank, Sanitize
    <3> QED  BY <3>1, <3>2
  <2>10. LoggedBy(c)' = Told(c)'
    BY <1>6, <2>5, <2>7, <2>9, TellsOne
  <2>11. Introduced(c, n + 1)'
    BY <2>3, <2>5, <2>8 DEF NextTold
  <2> QED  BY <1>9, <2>1, <2>6, <2>10, <2>11, WLoops
<1> QED  BY <1>7, <1>8, <1>12, <1>13, <1>14, <1>15 DEF MySQLNext

\* The same of the PostgreSQL handler.
LEMMA PostgresTells ==
  ASSUME Understood, client \in Cases, DomainsOK, LogOK, NEW c \in Conns,
         NEW n, ReadTo(c, n), PInv(c, n), WInv(c, n), PostgresNext(c)
  PROVE  \E k : ReadTo(c, k)' /\ WInv(c, k)'
<1>1. Proto(c) = "postgres" /\ client' = client
  BY PostgresWrites, PostgresForeign DEF Foreign
<1>2. n \in Nat
  BY <1>1, ReadIs
<1>3. PICK m : m = Head(in[c]).means
  OBVIOUS
<1>4. PICK behind \in BOOLEAN : behind <=> n > 0 /\ Wire(c, n).kind = "v3"
  OBVIOUS
<1>5. PICK name : name = WhoOf(Wire(c, n).body)
  OBVIOUS
<1>6. ASSUME NEW place, NEW kinds, PostgresMessage(c, place, kinds)
      PROVE  /\ pc[c] = place /\ Message(c).kind \in kinds /\ HasMessage(c)
             /\ ReadTo(c, n + 1)' /\ Grows(c, n)
             /\ Wire(c, n + 1)' = Message(c) /\ Kind(c, n + 1)' = m.kind
  <2>1. pc[c] = place /\ HasMessage(c) /\ Message(c).kind \in kinds /\ Consume(c)
    BY <1>6 DEF PostgresMessage, At
  <2>2. ReadTo(c, n + 1)' /\ Grows(c, n)
    BY <1>1, <2>1, Reading DEF DomainsOK
  <2> QED  BY <1>3, <2>1, <2>2, Wires, KindsKept
<1>7. ASSUME HasMessage(c)
      PROVE  /\ m.kind # "use"
             /\ m.kind = "login" <=> behind /\ Message(c).kind = "p"
             /\ m.kind = "query" <=> ~behind /\ Message(c).kind = "Q"
             /\ m.kind = "login" => /\ m.user = name.user /\ m.db = name.db
                                    /\ m.hash = NullTerm(Message(c).body)
             /\ m.kind = "query" => m.text = NullTerm(Message(c).body) /\ m.hash = << >>
  BY <1>1, <1>3, <1>4, <1>5, <1>7, PostgresMeans
<1>8. \A p : Goto(c, p) => pc'[c] = p
  BY DEF Goto, DomainsOK
<1>9. LoggedBy(c) = Told(c)
  BY DEF WInv
<1>10. CASE PostgresEnter(c) \/ PostgresReadFails(c)
  <2>1. in' = in /\ log' = log /\ who' = who
    BY <1>10 DEF PostgresEnter, PostgresReadFails
  <2>2. ReadTo(c, n)' /\ Told(c)' = Told(c) /\ ToTell(c)' = ToTell(c)
    BY <1>1, <2>1, NotReading, WSame
  <2>3. LoggedBy(c)' = Told(c)'
    BY <1>9, <2>1, <2>2, TellsNone
  <2>4. CASE PostgresReadFails(c)
    <3>1. pc'[c] = "closed"
      BY <1>8, <2>4 DEF PostgresReadFails
    <3> QED  BY <2>2, <2>3, <3>1, WEnded
  <2>5. CASE PostgresEnter(c)
    <3>1. pc[c] = "accepted" /\ pc'[c] = "startup"
      BY <1>8, <2>5 DEF PostgresEnter, At
    <3>2. ToTell(c)' = {}
      BY <2>2, <3>1 DEF WInv
    <3>3. WInv(c, n)'
      BY <2>3, <3>1, <3>2 DEF WInv
    <3> QED  BY <2>2, <3>3
  <2> QED  BY <1>10, <2>4, <2>5
\* Before the login nothing is told; what the place says of the last message read.
<1>11. ASSUME pc[c] \in {"startup", "password"}
       PROVE  ToTell(c) = {} /\ AfterLogin(c) /\ (behind <=> pc[c] = "password")
  <2>1. ToTell(c) = {} /\ AfterLogin(c)
    BY <1>11 DEF WInv, AfterLogin
  <2>2. CASE pc[c] = "startup"
    <3>1. \A i \in 1..n : Wire(c, i).kind = "ssl"
      BY <2>2 DEF PInv
    <3>2. n > 0 => n \in 1..n
      BY <1>2
    <3> QED  BY <1>4, <2>1, <2>2, <3>1, <3>2
  <2>3. CASE pc[c] = "password"
    BY <1>4, <2>1, <2>3 DEF PInv
  <2> QED  BY <1>11, <2>2, <2>3
<1>12. ASSUME pc[c] \in {"startup", "password"}, log' = log, Grows(c, n),
              Kind(c, n + 1)' \notin {"login", "query"}
       PROVE  LoggedBy(c)' = Told(c)' /\ ToTell(c)' = {}
  <2>1. Told(c)' = Told(c) /\ ToTell(c)' = {}
    BY <1>11, <1>12, TellGrows
  <2> QED  BY <1>9, <1>12, <2>1, TellsNone
<1>13. CASE PostgresRefuse(c) \/ PostgresNoPassword(c)
  <2>1. \/ PostgresMessage(c, "startup", {"cancel", "other", "length"})
        \/ PostgresMessage(c, "password", {"Q", "X", "P", "S", "F", "length"})
    BY <1>13 DEF PostgresRefuse, PostgresNoPassword
  <2>2. /\ pc[c] \in {"startup", "password"} /\ Message(c).kind # "p" /\ HasMessage(c)
        /\ pc[c] = "startup" => Message(c).kind # "Q"
        /\ ReadTo(c, n + 1)' /\ Grows(c, n) /\ Kind(c, n + 1)' = m.kind
    <3>1. CASE PostgresMessage(c, "startup", {"cancel", "other", "length"})
      BY <1>6, <3>1
    <3>2. CASE PostgresMessage(c, "password", {"Q", "X", "P", "S", "F", "length"})
      BY <1>6, <3>2
    <3> QED  BY <2>1, <3>1, <3>2
  <2>3. m.kind \notin {"login", "query"}
    BY <1>7, <1>11, <2>2
  <2>4. pc'[c] = "closed" /\ log' = log
    BY <1>8, <1>13 DEF PostgresRefuse, PostgresNoPassword
  <2>5. LoggedBy(c)' = Told(c)'
    BY <1>12, <2>2, <2>3, <2>4
  <2> QED  BY <2>2, <2>4, <2>5, WEnded
<1>14. CASE PostgresSSL(c)
  <2>1. /\ pc[c] = "startup" /\ Message(c).kind = "ssl" /\ HasMessage(c)
        /\ ReadTo(c, n + 1)' /\ Grows(c, n) /\ Kind(c, n + 1)' = m.kind
    BY <1>6, <1>14 DEF PostgresSSL
  <2>2. m.kind \notin {"login", "query"}
    BY <1>7, <2>1
  <2>3. pc'[c] \in {"startup", "failed"} /\ log' = log
    BY <1>14, AnswersGo DEF PostgresSSL
  <2>4. LoggedBy(c)' = Told(c)' /\ ToTell(c)' = {}
    BY <1>12, <2>1, <2>2, <2>3
  <2>5. WInv(c, n + 1)'
    BY <2>3, <2>4 DEF WInv
  <2> QED  BY <2>1, <2>5
<1>15. CASE PostgresStartup(c)
  <2>1. /\ pc[c] = "startup" /\ Message(c).kind = "v3" /\ HasMessage(c)
        /\ ReadTo(c, n + 1)' /\ Grows(c, n) /\ Kind(c, n + 1)' = m.kind
        /\ Wire(c, n + 1)' = Message(c)
    BY <1>6, <1>15 DEF PostgresStartup
  <2>2. m.kind \notin {"login", "query"}
    BY <1>7, <2>1
  <2>3. pc'[c] \in {"password", "failed"} /\ log' = log
    BY <1>15, AnswersGo DEF PostgresStartup
  <2>4. LoggedBy(c)' = Told(c)' /\ ToTell(c)' = {}
    BY <1>12, <2>1, <2>2, <2>3
  <2>5. who'[c] = WhoOf(Wire(c, n + 1)'.body)
    BY <1>15, <2>1 DEF PostgresStartup, DomainsOK
  <2>6. WInv(c, n + 1)'
    BY <2>3, <2>4, <2>5 DEF WInv
  <2> QED  BY <2>1, <2>6
<1>16. CASE PostgresPassword(c)
  <2>1. /\ pc[c] = "password" /\ Message(c).kind = "p" /\ HasMessage(c)
        /\ ReadTo(c, n + 1)' /\ Grows(c, n) /\ Kind(c, n + 1)' = m.kind
    BY <1>6, <1>16 DEF PostgresPassword
  <2>2. who[c] = name
    BY <1>5, <2>1 DEF WInv
  <2>3. PICK h : h = NullTerm(Message(c).body)
    OBVIOUS
  <2>4. /\ Kind(c, n + 1)' = "login"
        /\ m.user = who[c].user /\ m.db = who[c].db /\ m.hash = h
    BY <1>7, <1>11, <2>1, <2>2, <2>3
  <2>5. PICK e : e = [Blank(c) EXCEPT !.user = who[c].user, !.db = who[c].db,
                                      !.hash = h, !.cmd = <<"CONNECT">>]
    OBVIOUS
  <2>6. Log(<<e>>) /\ who' = who
    BY <1>16, <2>3, <2>5 DEF PostgresPassword
  <2>7. e.conn = c
    BY <2>5 DEF Blank
  <2>8. pc'[c] \in {"loop", "failed"}
    BY <1>16, AnswersGo DEF PostgresPassword
  <2>9. FirstTold(c, n, m)
    BY <1>3, <1>11, <2>1, <2>4, Introduces
  <2>10. Told(c)' = Append(Told(c), Sanitize(e))
    BY <2>4, <2>5, <2>9 DEF FirstTold
  <2>11. who[c] = [user |-> who[c].user, db |-> who[c].db]
    BY <1>5, <2>2 DEF WhoOf
  <2>12. Introduced(c, n + 1)'
    BY <2>4, <2>6, <2>9, <2>11 DEF FirstTold
  <2>13. LoggedBy(c)' = Told(c)'
    BY <1>9, <2>6, <2>7, <2>10, TellsOne
  <2> QED  BY <2>1, <2>8, <2>12, <2>13, WLoops
<1>17. ASSUME pc[c] = "loop", Grows(c, n), HasMessage(c)
       PROVE  ~behind /\ m.kind # "login" /\ NextTold(c, n, m)
  <2>1. ~behind /\ Introduced(c, n)
    BY <1>4, <1>17 DEF PInv, WInv
  <2>2. m.kind # "login"
    BY <1>7, <1>17, <2>1
  <2> QED  BY <1>3, <1>17, <2>1, <2>2, Continues
<1>18. CASE PostgresQuery(c)
  <2>1. /\ pc[c] = "loop" /\ Message(c).kind = "Q" /\ HasMessage(c)
        /\ ReadTo(c, n + 1)' /\ Grows(c, n)
    BY <1>6, <1>18 DEF PostgresQuery
  <2>2. ~behind /\ NextTold(c, n, m)
    BY <1>17, <2>1
  <2>3. PICK t : t = Truncate(NullTerm(Message(c).body), MaxQuery)
    OBVIOUS
  <2>4. m.kind = "query" /\ Truncate(m.text, MaxQuery) = t /\ m.hash = << >>
    BY <1>7, <2>1, <2>2, <2>3
  <2>5. PICK e : e = [Blank(c) EXCEPT !.user = who[c].user, !.db = who[c].db, !.cmd = t]
    OBVIOUS
  <2>6. Log(<<e>>) /\ who' = who
    BY <1>18, <2>3, <2>5 DEF PostgresQuery
  <2>7. e.conn = c
    BY <2>5 DEF Blank
  <2>8. pc'[c] \in {"loop", "failed"}
    BY <1>18, AnswersGo DEF PostgresQuery
  <2>9. Told(c)' = Append(Told(c), Sanitize(e))
    <3>1. Told(c)' = Append(Told(c), Sanitize([Blank(c) EXCEPT
            !.user = who[c].user, !.db = who[c].db, !.hash = << >>, !.cmd = t]))
      BY <2>2, <2>4 DEF NextTold
    <3>2. Sanitize(e) = Sanitize([Blank(c) EXCEPT
            !.user = who[c].user, !.db = who[c].db, !.hash = << >>, !.cmd = t])
      BY <2>5 DEF Blank, Sanitize
    <3> QED  BY <3>1, <3>2
  <2>10. Introduced(c, n + 1)'
    BY <2>2, <2>4, <2>6 DEF NextTold
  <2>11. LoggedBy(c)' = Told(c)'
    BY <1>9, <2>6, <2>7, <2>9, TellsOne
  <2> QED  BY <2>1, <2>8, <2>10, <2>11, WLoops
<1>19. CASE PostgresExtended(c) \/ PostgresIgnore(c) \/ PostgresEnd(c)
  <2>1. /\ pc[c] = "loop" /\ Message(c).kind \in {"P", "S", "F", "p", "X", "length"} /\ HasMessage(c)
        /\ ReadTo(c, n + 1)' /\ Grows(c, n)
    <3>1. \E kinds \in {{"P", "S"}, {"F", "p"}, {"X", "length"}} : PostgresMessage(c, "loop", kinds)
      BY <1>19 DEF PostgresExtended, PostgresIgnore, PostgresEnd
    <3>2. PICK kinds \in {{"P", "S"}, {"F", "p"}, {"X", "length"}} : PostgresMessage(c, "loop", kinds)
      BY <3>1
    <3>3. /\ pc[c] = "loop" /\ Message(c).kind \in kinds /\ HasMessage(c)
          /\ ReadTo(c, n + 1)' /\ Grows(c, n)
      BY <1>6, <3>2
    <3> QED  BY <3>3
  <2>2. NextTold(c, n, m) /\ m.kind \notin {"query", "use"}
    BY <1>7, <1>17, <2>1
  <2>3. who' = who /\ log' = log
    BY <1>19 DEF PostgresExtended, PostgresIgnore, PostgresEnd
  <2>4. pc'[c] \in {"loop", "closed", "failed"}
    <3>1. CASE PostgresExtended(c)
      BY <3>1, AnswersGo DEF PostgresExtended
    <3>2. CASE PostgresIgnore(c)
      BY <2>1, <3>2 DEF PostgresIgnore
    <3>3. CASE PostgresEnd(c)
      BY <1>8, <3>3 DEF PostgresEnd
    <3> QED  BY <1>19, <3>1, <3>2, <3>3
  <2>5. Told(c)' = Told(c) /\ Introduced(c, n + 1)'
    BY <2>2, <2>3 DEF NextTold
  <2>6. LoggedBy(c)' = Told(c)'
    BY <1>9, <2>3, <2>5, TellsNone
  <2> QED  BY <2>1, <2>4, <2>5, <2>6, WEnded, WLoops
<1> QED  BY <1>10, <1>13, <1>14, <1>15, <1>16, <1>18, <1>19 DEF PostgresNext

\* The inductive invariant behind SessionLogged.
SInv == \A c \in Of("mysql") \cup Of("postgres") : \A n : ReadTo(c, n) => WInv(c, n)

\* A session whose own state and events do not change.
LEMMA WStays ==
  ASSUME client' = client, NEW c, Same(c), LoggedBy(c)' = LoggedBy(c), NEW n, WInv(c, n)
  PROVE  WInv(c, n)'
<1>1. in'[c] = in[c] /\ pc'[c] = pc[c] /\ who'[c] = who[c]
  BY DEF Same
<1>2. /\ Told(c)' = Told(c) /\ ToTell(c)' = ToTell(c) /\ Wire(c, n)' = Wire(c, n)
      /\ Introduced(c, n)' <=> Introduced(c, n)
  BY <1>1, WSame
<1> QED  BY <1>1, <1>2 DEF WInv

LEMMA SInvStep ==
  ASSUME Understood, DInv, LogOK, SInv, [Next]_vars
  PROVE  SInv'
<1>1. client \in Cases /\ DomainsOK /\ \A c \in Conns : Dialogue(c)
  BY DEF DInv
<1>2. ASSUME client' = client PROVE \A p : Of(p)' = Of(p)
  BY <1>2 DEF Of, Proto
<1>3. ASSUME client' = client, NEW c \in Of("mysql") \cup Of("postgres"),
             Same(c), LoggedBy(c)' = LoggedBy(c), NEW k, ReadTo(c, k)'
      PROVE  WInv(c, k)'
  <2>1. ReadTo(c, k)
    BY <1>3, NotReading DEF Same
  <2>2. WInv(c, k)
    BY <2>1 DEF SInv
  <2> QED  BY <1>3, <2>2, WStays
<1>4. ASSUME NEW d \in Conns, Own(d), Logs(d),
             d \in Of("mysql") \cup Of("postgres") => \E k : ReadTo(d, k)' /\ WInv(d, k)'
      PROVE  SInv'
  <2>1. client' = client /\ \A c \in Conns : c # d => Same(c)
    BY <1>1, <1>4, Elsewhere DEF Own
  <2>2. ASSUME NEW c \in Of("mysql") \cup Of("postgres"), NEW k, ReadTo(c, k)'
        PROVE  WInv(c, k)'
    <3>1. c \in Conns /\ Proto(c) # "redis"
      BY DEF Of
    <3>2. CASE c = d
      <4>1. PICK j : ReadTo(c, j)' /\ WInv(c, j)'
        BY <1>4, <3>2
      <4>2. k = j
        BY <1>1, <2>1, <2>2, <3>1, <4>1, ReadOnce
      <4> QED  BY <4>1, <4>2
    <3>3. CASE c # d
      <4>1. LoggedBy(c)' = LoggedBy(c)
        BY <1>4, <3>3, OthersLog
      <4> QED  BY <1>3, <2>1, <2>2, <3>1, <3>3, <4>1
    <3> QED  BY <3>2, <3>3
  <2> QED  BY <1>2, <2>1, <2>2 DEF SInv
<1>5. ASSUME NEW c \in Conns, RedisNext(c) PROVE SInv'
  <2>1. c \notin Of("mysql") \cup Of("postgres")
    BY <1>5, RedisWrites DEF Of
  <2> QED  BY <1>4, <1>5, <2>1, RedisOwn, RedisWrites
<1>6. ASSUME NEW c \in Conns, HttpNext(c) PROVE SInv'
  <2>1. c \notin Of("mysql") \cup Of("postgres")
    BY <1>6, HttpWrites DEF Of
  <2> QED  BY <1>4, <1>6, <2>1, HttpOwn, HttpWrites
<1>7. ASSUME NEW c \in Conns, MySQLNext(c) PROVE SInv'
  <2>1. c \in Of("mysql")
    BY <1>7, MySQLWrites DEF Of
  <2>2. PICK n : ReadTo(c, n) /\ MInv(c, n)
    BY <1>1, <2>1 DEF Dialogue
  <2>3. WInv(c, n)
    BY <2>1, <2>2 DEF SInv
  <2>4. \E k : ReadTo(c, k)' /\ WInv(c, k)'
    BY <1>1, <1>7, <2>2, <2>3, MySQLTells
  <2> QED  BY <1>4, <1>7, <2>4, MySQLOwn, MySQLWrites
<1>8. ASSUME NEW c \in Conns, PostgresNext(c) PROVE SInv'
  <2>1. c \in Of("postgres")
    BY <1>8, PostgresWrites DEF Of
  <2>2. PICK n : ReadTo(c, n) /\ PInv(c, n)
    BY <1>1, <2>1 DEF Dialogue
  <2>3. WInv(c, n)
    BY <2>1, <2>2 DEF SInv
  <2>4. \E k : ReadTo(c, k)' /\ WInv(c, k)'
    BY <1>1, <1>8, <2>2, <2>3, PostgresTells
  <2> QED  BY <1>4, <1>8, <2>4, PostgresOwn, PostgresWrites
<1>9. CASE UNCHANGED vars
  <2>1. client' = client /\ in' = in /\ pc' = pc /\ sent' = sent /\ who' = who /\ log' = log
    BY <1>9 DEF vars
  <2>2. \A c : Same(c)
    BY <2>1 DEF Same
  <2>3. \A c : LoggedBy(c)' = LoggedBy(c)
    BY <2>1, LoggedNone
  <2> QED  BY <1>2, <1>3, <2>1, <2>2, <2>3 DEF SInv
<1> QED  BY <1>5, <1>6, <1>7, <1>8, <1>9 DEF Next, Rest

LEMMA SInvInit == Init => SInv
<1> SUFFICES ASSUME Init, NEW c \in Of("mysql") \cup Of("postgres"), NEW n, ReadTo(c, n)
             PROVE  WInv(c, n)
  BY DEF SInv
<1>1. /\ client \in Cases /\ in = [d \in Conns |-> Input(client[d])]
      /\ pc = [d \in Conns |-> "accepted"] /\ log = << >>
  BY DEF Init
<1>2. c \in Conns /\ Proto(c) # "redis" /\ pc[c] = "accepted"
  BY <1>1 DEF Of
<1>3. DOMAIN Read(c) = {}
  BY <1>2, InitRead
<1>4. ToTell(c) = {} /\ {i \in DOMAIN log : log[i].conn = c} = {}
  BY <1>1, <1>3 DEF ToTell
<1>5. LoggedBy(c) = Told(c)
  <2>1. PICK f : f = [i \in DOMAIN Read(c) |-> MeantEvent(c, i)]
    OBVIOUS
  <2>2. PICK S : S = {}
    OBVIOUS
  <2>3. PickExtends(f, log, S, 0)
    BY <2>2, PickAppend
  <2>4. Pick(f, {}) = Pick(log, {})
    BY <2>2, <2>3 DEF PickExtends
  <2>5. Told(c) = Pick(f, {})
    BY <1>4, <2>1 DEF Told
  <2>6. LoggedBy(c) = Pick(log, {})
    BY <1>4 DEF LoggedBy
  <2> QED  BY <2>4, <2>5, <2>6
<1> QED  BY <1>2, <1>4, <1>5 DEF WInv

\* Of clients that encode what they mean (Understood), whatever they send, however
\* their steps and those of other connections interleave and wherever a connection
\* breaks: the store holds of every MySQL and PostgreSQL session each login and
\* query once, in order, with the user, the database current at that point and the
\* response the client sent.
THEOREM SessionsAlwaysLogged == Understood => (Spec => []SessionLogged)
<1> SUFFICES ASSUME Understood PROVE Spec => []SessionLogged
  OBVIOUS
<1>1. Init => SInv
  BY SInvInit
<1>2. DInv /\ LInv /\ SInv /\ [Next]_vars => SInv'
  BY SInvStep DEF LInv
<1>3. DInv /\ SInv => SessionLogged
  <2> SUFFICES ASSUME DInv, SInv, NEW c \in Of("mysql") \cup Of("postgres")
               PROVE  LoggedBy(c) = Told(c)
    BY DEF SessionLogged, Told
  <2>1. c \in Conns
    BY DEF Of
  <2>2. PICK n : ReadTo(c, n)
    BY <2>1 DEF DInv, Dialogue
  <2> QED  BY <2>2 DEF SInv, WInv
<1> QED  BY <1>1, <1>2, <1>3, DialogueInvariance, LogInvariance, PTL DEF Spec

-----------------------------------------------------------------------------
(* Credentials, for clients that put them where their protocol says          *)
(* (Declared).                                                               *)

\* What is in the log stays; an event more is there.
LEMMA KeptStays ==
  ASSUME LogOK, NEW d, Logs(d), NEW c, NEW cred, Kept(c, cred)
  PROVE  Kept(c, cred)'
<1>1. CASE log' = log \/ Log(<< >>)
  <2>1. log' = log
    BY <1>1, LogNone
  <2> QED  BY <2>1 DEF Kept
<1>2. CASE \E e : EventOf(d, e) /\ Log(<<e>>)
  <2>1. PICK e : Log(<<e>>)
    BY <1>2
  <2>2. PICK n \in Nat : /\ DOMAIN log = 1..n /\ DOMAIN log' = 1..(n + 1)
                         /\ \A i \in 1..n : log'[i] = log[i]
    BY <2>1, LogExtends
  <2>3. \A i \in DOMAIN log : i \in DOMAIN log' /\ log'[i] = log[i]
    BY <2>2
  <2> QED  BY <2>3 DEF Kept
<1> QED  BY <1>1, <1>2 DEF Logs

LEMMA KeptNow ==
  ASSUME LogOK, NEW e, Log(<<e>>), NEW c, e.conn = c, NEW cred, e.user = cred[1], e.pass = cred[2]
  PROVE  Kept(c, cred)'
<1>1. PICK n \in Nat : DOMAIN log' = 1..(n + 1) /\ log'[n + 1] = Sanitize(e)
  BY LogExtends
<1>2. n + 1 \in DOMAIN log'
  BY <1>1
<1>3. /\ Sanitize(e).conn = c /\ Sanitize(e).user = SanitizeStr(cred[1])
      /\ Sanitize(e).pass = SanitizeStr(cred[2])
  BY DEF Sanitize
<1> QED  BY <1>1, <1>2, <1>3 DEF Kept

\* What an item of a client asks of the log.
Owed(c, item) == item.cred # << >> /\ ~Overlooked(c, item)
Paid(c, item) == Owed(c, item) => Kept(c, item.cred)

LEMMA OwedSame ==
  ASSUME client' = client, NEW c, NEW item
  PROVE  Owed(c, item)' <=> Owed(c, item)
BY DEF Owed, Overlooked, Proto

LEMMA PaidStays ==
  ASSUME client' = client, LogOK, NEW d, Logs(d), NEW c, NEW item, Paid(c, item)
  PROVE  Paid(c, item)'
<1>1. Owed(c, item)' <=> Owed(c, item)
  BY OwedSame
<1> QED  BY <1>1, KeptStays DEF Paid

\* AUTH and the AUTH of a HELLO are logged with the credential.
LEMMA HelloFirst ==
  ASSUME NEW args, NEW i \in 2..(Len(args) - 2), ToUpper(args[i]) = <<"AUTH">>,
         \A j \in 2..(i - 1) : ToUpper(args[j]) # <<"AUTH">>
  PROVE  HelloAuths(args) # {} /\ Min(HelloAuths(args)) = i
<1>1. PICK S : S = HelloAuths(args)
  OBVIOUS
<1>2. S = {j \in 2..(Len(args) - 2) : ToUpper(args[j]) = <<"AUTH">>}
  BY <1>1 DEF HelloAuths
<1>3. i \in S
  BY <1>2
<1>4. S \in SUBSET Nat /\ i \in Nat
  BY <1>2
<1>5. ASSUME NEW y \in S PROVE i <= y
  <2>1. y \in Nat /\ 2 <= y /\ y \notin 2..(i - 1)
    BY <1>2
  <2> QED  BY <1>4, <2>1
<1> QED  BY <1>1, <1>3, <1>4, <1>5, MinIs

LEMMA SecretLogged ==
  ASSUME NEW c, NEW args, NEW cred, RedisSecret(args, cred), ~(Is(args, {"AUTH"}) /\ Len(args) > 2)
  PROVE  \E e : Events(c, args) = <<e>> /\ e.conn = c /\ e.user = cred[1] /\ e.pass = cred[2]
<1> DEFINE first == Min(HelloAuths(args))
           hello == [Blank(c) EXCEPT !.user = args[first + 1], !.pass = args[first + 2],
                                     !.cmd = <<"HELLO", "SP", "AUTH">>]
           auth == [Blank(c) EXCEPT !.pass = args[2], !.cmd = <<"AUTH">>]
           set == [Blank(c) EXCEPT !.cmd = <<"SET", "SP">> \o args[2]]
           other == [Blank(c) EXCEPT !.cmd = Name(args)]
           isHello == Is(args, {"HELLO"}) /\ HelloAuths(args) # {}
           isAuth == Is(args, {"AUTH"}) /\ Len(args) >= 2
           isSet == Is(args, {"SET"}) /\ Len(args) >= 3
           isOther == ~Is(args, Silent)
<1>1. Events(c, args) = CASE isHello -> <<hello>> [] isAuth -> <<auth>> [] isSet -> <<set>>
                          [] isOther -> <<other>> [] OTHER -> << >>
  BY DEF Events
<1>2. /\ Is(args, {"HELLO"}) <=> Name(args) = <<"HELLO">>
      /\ Is(args, {"AUTH"}) <=> Name(args) = <<"AUTH">>
      /\ Is(args, {"SET"}) <=> Name(args) = <<"SET">>
  BY DEF Is
<1>3. Is(args, {"HELLO"}) \/ Is(args, {"AUTH"}) => Is(args, Silent)
  BY <1>2 DEF Is, Silent
<1>4. /\ <<"HELLO">> # <<"AUTH">> /\ <<"HELLO">> # <<"SET">> /\ <<"AUTH">> # <<"SET">>
  OBVIOUS
<1>5. CASE Is(args, {"AUTH"}) /\ Len(args) = 2 /\ cred = <<<< >>, args[2]>>
  <2>1. isAuth /\ ~isHello /\ ~isSet /\ ~isOther
    BY <1>2, <1>3, <1>4, <1>5
  <2>2. auth.conn = c /\ auth.user = << >> /\ auth.pass = args[2]
    BY DEF Blank
  <2>3. auth.user = cred[1] /\ auth.pass = cred[2]
    BY <1>5, <2>2
  <2> HIDE DEF hello, auth, set, other, isHello, isAuth, isSet, isOther
  <2>4. Events(c, args) = <<auth>>
    BY <1>1, <2>1
  <2> QED  BY <2>2, <2>3, <2>4
<1>6. CASE /\ Is(args, {"HELLO"})
           /\ \E i \in 2..(Len(args) - 2) :
                /\ ToUpper(args[i]) = <<"AUTH">> /\ cred = <<args[i + 1], args[i + 2]>>
                /\ \A j \in 2..(i - 1) : ToUpper(args[j]) # <<"AUTH">>
  <2>1. PICK i \in 2..(Len(args) - 2) :
          /\ ToUpper(args[i]) = <<"AUTH">> /\ cred = <<args[i + 1], args[i + 2]>>
          /\ \A j \in 2..(i - 1) : ToUpper(args[j]) # <<"AUTH">>
    BY <1>6
  <2>2. HelloAuths(args) # {} /\ first = i
    BY <2>1, HelloFirst
  <2>3. isHello /\ ~isAuth /\ ~isSet /\ ~isOther
    BY <1>2, <1>3, <1>4, <1>6, <2>2
  <2>4. hello.conn = c /\ hello.user = args[first + 1] /\ hello.pass = args[first + 2]
    BY DEF Blank
  <2>5. hello.user = cred[1] /\ hello.pass = cred[2]
    BY <2>1, <2>2, <2>4
  <2> HIDE DEF hello, auth, set, other, isHello, isAuth, isSet, isOther
  <2>6. Events(c, args) = <<hello>>
    BY <1>1, <2>3
  <2> QED  BY <2>4, <2>5, <2>6
<1> QED  BY <1>5, <1>6 DEF RedisSecret

\* What Redis has done with, and the same of a HTTP client.
Done(c) == IF pc[c] = "handle" THEN Len(parsed[c]) - 1 ELSE Len(parsed[c])

RedisPaid(c) == /\ pc[c] = "handle" => parsed[c] # << >>
                /\ \A i \in 1..Done(c) : Paid(c, Items(c)[i])

HttpPaid(c) == \E n : ReadTo(c, n) /\ \A i \in 1..n : Paid(c, Items(c)[i])

LEMMA ItemsKept == client' = client => \A c : Items(c)' = Items(c)
BY DEF Items

LEMMA RedisPaidStays ==
  ASSUME client' = client, LogOK, NEW d, Logs(d), NEW c, RedisPaid(c),
         parsed'[c] = parsed[c], pc'[c] = pc[c]
  PROVE  RedisPaid(c)'
<1>1. Done(c)' = Done(c) /\ Items(c)' = Items(c)
  BY ItemsKept DEF Done
<1>2. \A i \in 1..Done(c) : Paid(c, Items(c)[i])'
  <2> TAKE i \in 1..Done(c)
  <2>1. PICK item : item = Items(c)[i]
    OBVIOUS
  <2>2. Paid(c, item)
    BY <2>1 DEF RedisPaid
  <2>3. Paid(c, item)'
    BY <2>2, PaidStays
  <2> QED  BY <1>1, <2>1, <2>3 DEF Paid, Owed, Overlooked
<1> QED  BY <1>1, <1>2 DEF RedisPaid

LEMMA RedisPaidBy ==
  ASSUME client' = client, NEW c, pc'[c] = "handle" => parsed'[c] # << >>,
         \A i \in 1..(Done(c)') : Paid(c, Items(c)[i])'
  PROVE  RedisPaid(c)'
BY DEF RedisPaid

\* A command that was handled: what was parsed is what the client sent.
LEMMA CommandPaid ==
  ASSUME Declared, client \in Cases, client' = client, LogOK, CommandsFaithful,
         NEW c \in Conns, Proto(c) = "redis", NEW n \in Nat, n > 0, n = Len(parsed[c]),
         NEW args, args = parsed[c][n], Is(args, {"QUIT"}) \/ Log(Events(c, args))
  PROVE  Paid(c, Items(c)[n])'
<1>1. PICK item : item = Items(c)[n]
  OBVIOUS
<1>2. n <= Len(Items(c)) /\ item.args = args
  <2>1. c \in Of("redis") /\ n \in 1..n
    BY DEF Of
  <2> QED  BY <1>1, <2>1 DEF CommandsFaithful
<1>3. n \in DOMAIN client[c].items /\ item = client[c].items[n]
  <2>1. IsClient(client[c])
    BY SessionAssumption
  <2>2. PICK R : client[c].items \in Seq(R)
    BY <2>1 DEF IsClient
  <2>3. DOMAIN client[c].items = 1..Len(client[c].items) /\ Len(client[c].items) \in Nat
    BY <2>2, LenProperties
  <2> QED  BY <1>1, <1>2, <2>3 DEF Items
<1>4. item.cred # << >> => RedisSecret(args, item.cred)
  BY <1>2, <1>3 DEF Declared, Proto
<1>5. ASSUME Owed(c, item) PROVE Kept(c, item.cred)'
  <2>1. RedisSecret(args, item.cred) /\ ~(Is(args, {"AUTH"}) /\ Len(args) > 2)
    BY <1>2, <1>4, <1>5 DEF Owed, Overlooked
  <2>2. ~Is(args, {"QUIT"})
    <3>1. Name(args) = <<"AUTH">> \/ Name(args) = <<"HELLO">>
      BY <2>1 DEF RedisSecret, Is
    <3>2. <<"AUTH">> # <<"QUIT">> /\ <<"HELLO">> # <<"QUIT">>
      OBVIOUS
    <3> QED  BY <3>1, <3>2 DEF Is
  <2>3. PICK cred : cred = item.cred
    OBVIOUS
  <2>4. PICK e : Events(c, args) = <<e>> /\ e.conn = c /\ e.user = cred[1] /\ e.pass = cred[2]
    BY <2>1, <2>3, SecretLogged
  <2>5. Log(<<e>>)
    BY <2>2, <2>4
  <2>6. Kept(c, cred)'
    BY <2>4, <2>5, KeptNow
  <2> QED  BY <2>3, <2>6 DEF Kept
<1>6. Paid(c, item)'
  <2>1. Owed(c, item)' <=> Owed(c, item)
    BY OwedSame
  <2> QED  BY <1>5, <2>1 DEF Paid
<1>7. Items(c)' = Items(c)
  BY ItemsKept
<1> QED  BY <1>1, <1>6, <1>7 DEF Paid, Owed, Overlooked

LEMMA RedisPays ==
  ASSUME Declared, client \in Cases, DomainsOK, LogOK, ParsedOK, CommandsFaithful,
         NEW c \in Conns, RedisPaid(c), RedisNext(c)
  PROVE  RedisPaid(c)'
<1>1. Proto(c) = "redis" /\ client' = client /\ Logs(c)
  BY RedisShape, RedisWrites
<1>2. PICK S : parsed[c] \in Seq(S)
  BY DEF ParsedOK
<1>3. PICK n \in Nat : n = Len(parsed[c])
  BY <1>2, LenProperties
<1>4. ASSUME NEW i \in 1..Done(c) PROVE Paid(c, Items(c)[i])'
  <2>1. PICK item : item = Items(c)[i] /\ item = Items(c)'[i]
    BY <1>1, ItemsKept
  <2>2. Paid(c, item)
    BY <2>1 DEF RedisPaid
  <2>3. Paid(c, item)'
    BY <1>1, <2>2, PaidStays
  <2> QED  BY <2>1, <2>3 DEF Paid, Owed, Overlooked
<1>5. \A p : Goto(c, p) => pc'[c] = p
  BY DEF Goto, DomainsOK
<1>6. CASE RedisEnter(c) \/ RedisReadFails(c)
  <2>1. pc[c] \in {"accepted", "loop"} /\ pc'[c] \in {"loop", "closed"} /\ parsed' = parsed
    BY <1>5, <1>6 DEF RedisEnter, RedisReadFails, At
  <2>2. Done(c)' = Done(c)
    BY <2>1 DEF Done
  <2> QED  BY <1>1, <1>4, <2>1, <2>2, RedisPaidBy
<1>7. CASE RedisRead(c)
  <2>1. PICK v : parsed' = [parsed EXCEPT ![c] = Append(@, v)]
    BY <1>7 DEF RedisRead
  <2>2. pc[c] = "loop" /\ pc'[c] = "handle"
    BY <1>5, <1>7 DEF RedisRead, At
  <2>3. PICK s \in Seq(S \cup {v}) : s = parsed[c]
    <3>1. Seq(S) \subseteq Seq(S \cup {v})
      OBVIOUS
    <3> QED  BY <1>2, <3>1
  <2>4. Len(Append(s, v)) = Len(s) + 1 /\ Append(s, v) # << >>
    BY <2>3, AppendProperties
  <2>5. parsed'[c] = Append(s, v)
    BY <2>1, <2>3 DEF ParsedOK
  <2>6. Done(c)' = Done(c)
    BY <1>3, <2>2, <2>3, <2>4, <2>5 DEF Done
  <2> QED  BY <1>1, <1>4, <2>4, <2>5, <2>6, RedisPaidBy
<1>8. CASE RedisHandle(c) \/ RedisQuit(c)
  <2>1. pc[c] = "handle" /\ pc'[c] \in {"loop", "failed", "closed"} /\ parsed' = parsed
    BY <1>5, <1>8 DEF RedisHandle, RedisQuit, At
  <2>2. n > 0
    <3>1. parsed[c] # << >>
      BY <2>1 DEF RedisPaid
    <3> QED  BY <1>2, <1>3, <3>1, EmptySeq
  <2>3. PICK args : args = parsed[c][n] /\ args = Last(parsed[c])
    BY <1>3 DEF Last
  <2>4. Is(args, {"QUIT"}) \/ Log(Events(c, args))
    BY <1>8, <2>3 DEF RedisHandle, RedisQuit
  <2>5. Paid(c, Items(c)[n])'
    BY <1>1, <1>3, <2>2, <2>3, <2>4, CommandPaid
  <2>6. Done(c)' = n /\ Done(c) = n - 1
    BY <1>3, <2>1 DEF Done
  <2>7. \A i \in 1..n : i \in 1..(n - 1) \/ i = n
    BY <1>3
  <2>8. \A i \in 1..(Done(c)') : Paid(c, Items(c)[i])'
    BY <1>4, <2>5, <2>6, <2>7
  <2> QED  BY <1>1, <2>1, <2>8, RedisPaidBy
<1> QED  BY <1>6, <1>7, <1>8 DEF RedisNext

\* A request with a credential the code looks for is a login that is logged.
LEMMA RequestPaid ==
  ASSUME Declared, client \in Cases, LogOK, NEW c \in Conns, HttpNext(c), NEW n, ReadTo(c, n),
         HasMessage(c), NEW item, item = Head(in[c]), Owed(c, item)
  PROVE  Kept(c, item.cred)'
<1>1. Proto(c) = "http"
  BY HttpWrites
<1>2. PICK r : r = Message(c)
  OBVIOUS
<1>3. PICK cred : cred = item.cred /\ cred # << >>
  BY DEF Owed
<1>4. HttpSecret(r, cred)
  <2>1. n + 1 \in DOMAIN client[c].items /\ Head(in[c]) = client[c].items[n + 1]
    BY <1>1, NextItem
  <2>2. client[c].items[n + 1].wire = r /\ client[c].items[n + 1].cred = cred
    BY <1>2, <1>3, <2>1 DEF Message
  <2> QED  BY <1>1, <1>3, <2>1, <2>2 DEF Declared, Proto
<1>5. \/ r.basic = << >>
      \/ Route(r.svc, r.path) = "session" /\ r.method = "POST" /\ ~IsJSON(LimitedBody(r))
  BY <1>1, <1>2 DEF Owed, Overlooked, Message
<1>6. Route(r.svc, r.path) = "session" /\ r.method = "POST" /\ Credentials(r) = cred
  <2>1. CASE cred = r.basic
    BY <1>3, <1>5, <2>1 DEF Credentials
  <2>2. CASE /\ Route(r.svc, r.path) = "session" /\ r.method = "POST"
             /\ IsJSON(LimitedBody(r)) /\ cred = NamePassword(LimitedBody(r))
    BY <2>2 DEF Credentials
  <2> QED  BY <1>4, <2>1, <2>2 DEF HttpSecret
<1>7. CouchLogin(c)
  <2>1. ASSUME NEW svc, NEW routes, HttpRequest(c, svc, routes) PROVE "session" \in routes
    BY <1>2, <1>6, <2>1 DEF HttpRequest
  <2>2. ~HttpFixed(c) /\ ~HttpRoot(c)
    BY <2>1 DEF HttpFixed, HttpRoot
  <2>3. ~ESContent(c) /\ ~ESCatchAll(c) /\ ~CouchDB(c)
    BY <2>1 DEF ESContent, ESCatchAll, CouchDB
  <2>4. ~CouchSession(c) /\ ~HttpClose(c)
    BY <1>2, <1>6 DEF CouchSession, HttpClose
  <2> QED  BY <2>2, <2>3, <2>4 DEF HttpNext
<1>8. PICK e : e = [Blank(c) EXCEPT !.user = cred[1], !.pass = cred[2], !.cmd = <<"SESSION">>]
  OBVIOUS
<1>9. e.conn = c /\ e.user = cred[1] /\ e.pass = cred[2]
  BY <1>8 DEF Blank
<1>10. Log(<<e>>)
  <2>1. cred # <<<< >>, << >>>>
    BY <1>4 DEF HttpSecret
  <2> QED  BY <1>2, <1>6, <1>7, <1>8, <2>1 DEF CouchLogin
<1>11. Kept(c, cred)'
  BY <1>9, <1>10, KeptNow
<1> QED  BY <1>3, <1>11 DEF Kept

LEMMA HttpPays ==
  ASSUME Declared, client \in Cases, DomainsOK, LogOK, NEW c \in Conns, HttpPaid(c), HttpNext(c)
  PROVE  HttpPaid(c)'
<1>1. Proto(c) = "http" /\ client' = client /\ Logs(c)
  BY HttpWrites, HttpForeign DEF Foreign
<1>2. PICK n : ReadTo(c, n) /\ \A i \in 1..n : Paid(c, Items(c)[i])
  BY DEF HttpPaid
<1>3. n \in Nat
  BY <1>1, <1>2, ReadIs
<1>4. ASSUME NEW i \in 1..n PROVE Paid(c, Items(c)[i])'
  <2>1. PICK item : item = Items(c)[i] /\ item = Items(c)'[i]
    BY <1>1, ItemsKept
  <2>2. Paid(c, item)'
    BY <1>1, <1>2, <2>1, PaidStays
  <2> QED  BY <2>1, <2>2 DEF Paid, Owed, Overlooked
<1>5. CASE HttpClose(c)
  <2>1. in' = in
    BY <1>5 DEF HttpClose
  <2>2. ReadTo(c, n)'
    BY <1>1, <1>2, <2>1, NotReading
  <2> QED  BY <1>4, <2>2 DEF HttpPaid
<1>6. CASE ~HttpClose(c)
  <2>1. HasMessage(c) /\ Consume(c)
    BY <1>6 DEF HttpNext, HttpFixed, HttpRoot, ESContent, ESCatchAll, CouchLogin, CouchSession,
                CouchDB, HttpRequest
  <2>2. ReadTo(c, n + 1)'
    BY <1>1, <1>2, <2>1, Reading DEF DomainsOK
  <2>3. PICK item : item = Head(in[c])
    OBVIOUS
  <2>4. item = Items(c)'[n + 1]
    BY <1>1, <1>2, <2>1, <2>3, NextItem DEF Items
  <2>5. Paid(c, item)'
    <3>1. Owed(c, item)' <=> Owed(c, item)
      BY <1>1, OwedSame
    <3>2. Owed(c, item) => Kept(c, item.cred)'
      BY <1>2, <2>1, <2>3, RequestPaid
    <3> QED  BY <3>1, <3>2 DEF Paid
  <2>6. Paid(c, Items(c)[n + 1])'
    BY <2>4, <2>5 DEF Paid, Owed, Overlooked
  <2>7. \A i \in 1..(n + 1) : i \in 1..n \/ i = n + 1
    BY <1>3
  <2>8. \A i \in 1..(n + 1) : Paid(c, Items(c)[i])'
    BY <1>4, <2>6, <2>7
  <2> QED  BY <2>2, <2>8 DEF HttpPaid
<1> QED  BY <1>5, <1>6

LEMMA HttpPaidStays ==
  ASSUME client' = client, LogOK, NEW d, Logs(d), NEW c, HttpPaid(c), in'[c] = in[c]
  PROVE  HttpPaid(c)'
<1>1. PICK n : ReadTo(c, n) /\ \A i \in 1..n : Paid(c, Items(c)[i])
  BY DEF HttpPaid
<1>2. ASSUME NEW i \in 1..n PROVE Paid(c, Items(c)[i])'
  <2>1. PICK item : item = Items(c)[i] /\ item = Items(c)'[i]
    BY ItemsKept
  <2>2. Paid(c, item)'
    BY <1>1, <2>1, PaidStays
  <2> QED  BY <2>1, <2>2 DEF Paid, Owed, Overlooked
<1>3. ReadTo(c, n)'
  BY <1>1, NotReading
<1> QED  BY <1>2, <1>3 DEF HttpPaid

\* The inductive invariant behind CredentialsLogged.
KInv == /\ \A c \in Of("redis") : RedisPaid(c)
        /\ \A c \in Of("http") : HttpPaid(c)

LEMMA KInvStep ==
  ASSUME Declared, DInv, LogOK, ParsedOK, CommandsFaithful, KInv, [Next]_vars
  PROVE  KInv'
<1>1. client \in Cases /\ DomainsOK
  BY DEF DInv
<1>2. ASSUME NEW d \in Conns, Own(d), Logs(d), \A c \in Conns : c # d => parsed'[c] = parsed[c],
             Proto(d) = "redis" => RedisPaid(d)', Proto(d) = "http" => HttpPaid(d)'
      PROVE  KInv'
  <2>1. client' = client /\ \A c \in Conns : c # d => Same(c)
    BY <1>1, <1>2, Elsewhere DEF Own
  <2>2. ASSUME NEW c \in Of("redis") PROVE RedisPaid(c)'
    <3>1. c \in Conns /\ Proto(c) = "redis" /\ RedisPaid(c)
      BY DEF Of, KInv
    <3>2. CASE c # d
      <4>1. parsed'[c] = parsed[c] /\ pc'[c] = pc[c]
        BY <1>2, <2>1, <3>1, <3>2 DEF Same
      <4> QED  BY <1>2, <2>1, <3>1, <4>1, RedisPaidStays
    <3> QED  BY <1>2, <3>1, <3>2
  <2>3. ASSUME NEW c \in Of("http") PROVE HttpPaid(c)'
    <3>1. c \in Conns /\ Proto(c) = "http" /\ HttpPaid(c)
      BY DEF Of, KInv
    <3>2. CASE c # d
      <4>1. in'[c] = in[c]
        BY <2>1, <3>1, <3>2 DEF Same
      <4> QED  BY <1>2, <2>1, <3>1, <4>1, HttpPaidStays
    <3> QED  BY <1>2, <3>1, <3>2
  <2>4. \A p : Of(p)' = Of(p)
    BY <2>1 DEF Of, Proto
  <2> QED  BY <2>2, <2>3, <2>4 DEF KInv
<1>3. ASSUME NEW c \in Conns, RedisNext(c) PROVE KInv'
  <2>1. Proto(c) = "redis" /\ Logs(c) /\ Own(c)
    BY <1>3, RedisWrites, RedisOwn
  <2>2. RedisPaid(c)
    BY <2>1 DEF KInv, Of
  <2>3. RedisPaid(c)'
    BY <1>1, <1>3, <2>2, RedisPays
  <2>4. \A d \in Conns : d # c => parsed'[d] = parsed[d]
    <3>1. parsed' = parsed \/ \E v : parsed' = [parsed EXCEPT ![c] = v]
      <4>1. parsed' = parsed \/ \E cmd : parsed' = [parsed EXCEPT ![c] = Append(@, cmd)]
        BY <1>3, RedisShape DEF RedisStarts, RedisReads, RedisAnswers, RedisEnds
      <4> QED  BY <4>1
    <3> QED  BY <3>1 DEF ParsedOK
  <2> QED  BY <1>2, <2>1, <2>3, <2>4
<1>4. ASSUME NEW c \in Conns, HttpNext(c) PROVE KInv'
  <2>1. Proto(c) = "http" /\ Logs(c) /\ Own(c) /\ parsed' = parsed
    BY <1>4, HttpWrites, HttpOwn, HttpForeign DEF Foreign
  <2>2. HttpPaid(c)
    BY <2>1 DEF KInv, Of
  <2>3. HttpPaid(c)'
    BY <1>1, <1>4, <2>2, HttpPays
  <2> QED  BY <1>2, <2>1, <2>3
<1>5. ASSUME NEW c \in Conns, MySQLNext(c) PROVE KInv'
  <2>1. Proto(c) = "mysql" /\ Logs(c) /\ Own(c) /\ parsed' = parsed
    BY <1>5, MySQLWrites, MySQLOwn, MySQLForeign DEF Foreign
  <2> QED  BY <1>2, <2>1
<1>6. ASSUME NEW c \in Conns, PostgresNext(c) PROVE KInv'
  <2>1. Proto(c) = "postgres" /\ Logs(c) /\ Own(c) /\ parsed' = parsed
    BY <1>6, PostgresWrites, PostgresOwn, PostgresForeign DEF Foreign
  <2> QED  BY <1>2, <2>1
<1>7. CASE UNCHANGED vars
  <2>1. /\ client' = client /\ in' = in /\ pc' = pc /\ parsed' = parsed /\ log' = log
        /\ \A c : Logs(c)
    BY <1>7 DEF vars, Logs
  <2>2. \A p : Of(p)' = Of(p)
    BY <2>1 DEF Of, Proto
  <2>3. ASSUME NEW c \in Of("redis") PROVE RedisPaid(c)'
    <3>1. RedisPaid(c)
      BY DEF KInv
    <3> QED  BY <2>1, <3>1, RedisPaidStays
  <2>4. ASSUME NEW c \in Of("http") PROVE HttpPaid(c)'
    <3>1. HttpPaid(c)
      BY DEF KInv
    <3> QED  BY <2>1, <3>1, HttpPaidStays
  <2> QED  BY <2>2, <2>3, <2>4 DEF KInv
<1> QED  BY <1>3, <1>4, <1>5, <1>6, <1>7 DEF Next, Rest

LEMMA KInvInit == Init => KInv
<1> SUFFICES ASSUME Init PROVE KInv
  OBVIOUS
<1>1. ASSUME NEW c \in Of("redis") PROVE RedisPaid(c)
  <2>1. pc[c] = "accepted" /\ parsed[c] = << >>
    BY DEF Init, Of
  <2>2. Done(c) = 0
    BY <2>1 DEF Done
  <2> QED  BY <2>1, <2>2 DEF RedisPaid
<1>2. ASSUME NEW c \in Of("http") PROVE HttpPaid(c)
  <2>1. ReadTo(c, 0)
    BY InitRead DEF Of
  <2> QED  BY <2>1 DEF HttpPaid
<1> QED  BY <1>1, <1>2 DEF KInv

\* What has been handled of a client's items.
LEMMA HandledPaid ==
  ASSUME DInv, ParsedOK, CommandsFaithful, KInv
  PROVE  CredentialsLogged
<1>1. client \in Cases
  BY DEF DInv
<1>2. ASSUME NEW c \in Of("http"), NEW i \in DOMAIN Handled(c) PROVE Paid(c, Handled(c)[i])
  <2>1. c \in Conns /\ Proto(c) = "http" /\ Handled(c) = Read(c)
    BY DEF Of, Handled
  <2>2. PICK n : ReadTo(c, n) /\ \A k \in 1..n : Paid(c, Items(c)[k])
    BY DEF KInv, HttpPaid
  <2>3. Split(client[c].items, client[c].cut, n) /\ in[c] = SubSeq(client[c].items, n + 1, client[c].cut)
    BY <1>1, <2>1, <2>2, ClientSplits DEF ReadTo
  <2>4. DOMAIN Read(c) = 1..n /\ \A k \in 1..n : Read(c)[k] = Items(c)[k]
    BY <2>3 DEF Split, Read, Items
  <2> QED  BY <1>2, <2>1, <2>2, <2>4
<1>3. ASSUME NEW c \in Of("redis"), NEW i \in DOMAIN Handled(c) PROVE Paid(c, Handled(c)[i])
  <2>1. c \in Conns /\ Proto(c) = "redis" /\ RedisPaid(c)
    BY DEF Of, KInv
  <2>2. PICK S : parsed[c] \in Seq(S)
    BY <2>1 DEF ParsedOK
  <2>3. Len(parsed[c]) \in Nat /\ (parsed[c] # << >> => Len(parsed[c]) > 0)
    BY <2>2, LenProperties, EmptySeq
  <2>4. PICK k : k = Done(c)
    OBVIOUS
  <2>5. PICK R : Items(c) \in Seq(R)
    <3>1. IsClient(client[c])
      BY <1>1, <2>1, SessionAssumption
    <3> QED  BY <3>1 DEF IsClient, Items
  <2>6. k \in 0..Len(Items(c))
    <3>1. Len(parsed[c]) <= Len(Items(c))
      BY DEF CommandsFaithful
    <3>2. Len(Items(c)) \in Nat
      BY <2>5, LenProperties
    <3> QED  BY <2>1, <2>3, <2>4, <3>1, <3>2 DEF Done, RedisPaid
  <2>7. Handled(c) = SubSeq(Items(c), 1, k)
    BY <2>1, <2>4 DEF Handled, Done
  <2>8. PICK items \in Seq(R) : items = Items(c)
    BY <2>5
  <2>9. /\ SubSeq(items, 1, k) \in Seq(R) /\ Len(SubSeq(items, 1, k)) = k
        /\ \A j \in 1..k : SubSeq(items, 1, k)[j] = items[j]
    BY <2>6, <2>8, Written
  <2>10. i \in 1..k /\ Handled(c)[i] = items[i]
    <3>1. DOMAIN SubSeq(items, 1, k) = 1..k
      BY <2>9, LenProperties
    <3> QED  BY <1>3, <2>7, <2>8, <2>9, <3>1
  <2> QED  BY <2>1, <2>4, <2>8, <2>10 DEF RedisPaid
<1> QED  BY <1>2, <1>3 DEF CredentialsLogged, Credentialed, Paid, Owed

\* Of clients that put their credentials where the protocol says (Declared), and as far
\* as ReadCommand recovers what Redis clients encode: every password sent with AUTH, with
\* HELLO or to CouchDB's /_session, in a form the code looks for, is in the log as soon
\* as its message is handled, and stays there whatever other sessions do.
THEOREM CredentialsAlwaysLogged ==
  Declared => (Spec => ([]CommandsFaithful => []CredentialsLogged))
<1> SUFFICES ASSUME Declared PROVE Spec => ([]CommandsFaithful => []CredentialsLogged)
  OBVIOUS
<1>1. Init => KInv
  BY KInvInit
<1>2. DInv /\ LInv /\ CInv /\ CommandsFaithful /\ KInv /\ [Next]_vars => KInv'
  BY KInvStep DEF LInv, CInv
<1>3. DInv /\ CInv /\ CommandsFaithful /\ KInv => CredentialsLogged
  BY HandledPaid DEF CInv
<1> QED
  BY <1>1, <1>2, <1>3, DialogueInvariance, LogInvariance, CountersInvariance, PTL DEF Spec
=============================================================================
