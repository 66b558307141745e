--------------------------- MODULE SessionsProofs ---------------------------
(* Theorems about module Sessions, for any finite number of connections and  *)
(* whatever their clients send.                                              *)
EXTENDS Sessions, PositionsProofs

-----------------------------------------------------------------------------
(* What a step of a handler may change. *)

Places == {"accepted", "login", "startup", "password", "loop", "handle", "closed", "failed"}

\* The handler of c goes on to some place, or stays.
Moves(c) == pc' = pc \/ \E p \in Places : pc' = [pc EXCEPT ![c] = p]

LEMMA GotoMoves ==
  ASSUME NEW c, NEW p \in Places, Goto(c, p)
  PROVE  Moves(c)
BY DEF Goto, Moves

LEMMA AnswerMoves ==
  ASSUME NEW c, NEW replies, NEW p \in Places, Answer(c, replies, p)
  PROVE  Moves(c)
<1>1. Goto(c, p) \/ Goto(c, "failed")
  BY DEF Answer
<1>2. "failed" \in Places
  BY DEF Places
<1> QED  BY <1>1, <1>2, GotoMoves

LEMMA PlacesAre ==
  /\ "accepted" \in Places /\ "login" \in Places /\ "startup" \in Places
  /\ "password" \in Places /\ "loop" \in Places /\ "handle" \in Places
  /\ "closed" \in Places /\ "failed" \in Places
BY DEF Places

\* The other handlers leave the counters and the commands of Redis alone.
Foreign(c) == /\ Proto(c) # "redis"
              /\ UNCHANGED <<client, parsed, counters>>
              /\ Moves(c)

LEMMA MySQLForeign ==
  ASSUME NEW c, MySQLNext(c)
  PROVE  Foreign(c)
<1>1. CASE MySQLGreet(c)
  <2>1. Proto(c) = "mysql" /\ UNCHANGED <<client, parsed, counters>> /\ Answer(c, <<0>>, "login")
    BY <1>1 DEF MySQLGreet, At, MySQLRest
  <2> QED  BY <2>1, AnswerMoves, PlacesAre DEF Foreign
<1>2. CASE MySQLLogin(c)
  <2>1. /\ Proto(c) = "mysql" /\ UNCHANGED <<client, parsed, counters>>
        /\ Answer(c, <<2>>, "loop") \/ Goto(c, "closed")
    BY <1>2 DEF MySQLLogin, At, MySQLRest
  <2> QED  BY <2>1, AnswerMoves, GotoMoves, PlacesAre DEF Foreign
<1>3. CASE MySQLEmpty(c)
  BY <1>3 DEF MySQLEmpty, At, MySQLRest, Foreign, Moves
<1>4. CASE MySQLQuit(c)
  <2>1. Proto(c) = "mysql" /\ UNCHANGED <<client, parsed, counters>> /\ Goto(c, "closed")
    BY <1>4 DEF MySQLQuit, MySQLCommand, At, MySQLRest
  <2> QED  BY <2>1, GotoMoves, PlacesAre DEF Foreign
<1>5. CASE MySQLQuery(c)
  <2> DEFINE seq == NextSeq(Message(c).seq)
  <2>1. /\ Proto(c) = "mysql" /\ UNCHANGED <<client, parsed, counters>>
        /\ Answer(c, <<seq, NextSeq(seq)>>, "loop")
    BY <1>5 DEF MySQLQuery, MySQLCommand, At, MySQLRest
  <2> QED  BY <2>1, AnswerMoves, PlacesAre DEF Foreign
<1>6. CASE MySQLInitDB(c) \/ MySQLOther(c)
  <2>1. /\ Proto(c) = "mysql" /\ UNCHANGED <<client, parsed, counters>>
        /\ Answer(c, <<NextSeq(Message(c).seq)>>, "loop")
    BY <1>6 DEF MySQLInitDB, MySQLOther, MySQLCommand, At, MySQLRest
  <2> QED  BY <2>1, AnswerMoves, PlacesAre DEF Foreign
<1>7. CASE MySQLReadFails(c)
  <2>1. Proto(c) = "mysql" /\ UNCHANGED <<client, parsed, counters>> /\ Goto(c, "closed")
    BY <1>7 DEF MySQLReadFails, At, MySQLRest
  <2> QED  BY <2>1, GotoMoves, PlacesAre DEF Foreign
<1> QED  BY <1>1, <1>2, <1>3, <1>4, <1>5, <1>6, <1>7 DEF MySQLNext

LEMMA PostgresForeign ==
  ASSUME NEW c, PostgresNext(c)
  PROVE  Foreign(c)
<1> DEFINE Untouched == Proto(c) = "postgres" /\ UNCHANGED <<client, parsed, counters>>
<1>1. ASSUME NEW place, NEW kinds, PostgresMessage(c, place, kinds)
      PROVE  Untouched
  BY <1>1 DEF PostgresMessage, At, PostgresRest
<1>2. CASE PostgresEnter(c) \/ PostgresReadFails(c)
  <2>1. Untouched /\ (Goto(c, "startup") \/ Goto(c, "closed"))
    BY <1>2 DEF PostgresEnter, PostgresReadFails, At, PostgresRest
  <2> QED  BY <2>1, GotoMoves, PlacesAre DEF Foreign
<1>3. CASE PostgresSSL(c)
  <2>1. Untouched /\ Answer(c, <<"N">>, "startup")
    BY <1>1, <1>3 DEF PostgresSSL
  <2> QED  BY <2>1, AnswerMoves, PlacesAre DEF Foreign
<1>4. CASE PostgresStartup(c)
  <2>1. Untouched /\ Answer(c, <<"R5">>, "password")
    BY <1>1, <1>4 DEF PostgresStartup
  <2> QED  BY <2>1, AnswerMoves, PlacesAre DEF Foreign
<1>5. CASE PostgresRefuse(c) \/ PostgresNoPassword(c) \/ PostgresEnd(c)
  <2>1. Untouched /\ Goto(c, "closed")
    BY <1>1, <1>5 DEF PostgresRefuse, PostgresNoPassword, PostgresEnd
  <2> QED  BY <2>1, GotoMoves, PlacesAre DEF Foreign
<1>6. CASE PostgresPassword(c)
  <2>1. Untouched /\ Answer(c, Greeting, "loop")
    BY <1>1, <1>6 DEF PostgresPassword
  <2> QED  BY <2>1, AnswerMoves, PlacesAre DEF Foreign
<1>7. CASE PostgresQuery(c)
  <2>1. Untouched /\ Answer(c, QueryReply, "loop")
    BY <1>1, <1>7 DEF PostgresQuery
  <2> QED  BY <2>1, AnswerMoves, PlacesAre DEF Foreign
<1>8. CASE PostgresExtended(c)
  <2>1. Untouched /\ Answer(c, <<"E", "Z">>, "loop")
    BY <1>1, <1>8 DEF PostgresExtended
  <2> QED  BY <2>1, AnswerMoves, PlacesAre DEF Foreign
<1>9. CASE PostgresIgnore(c)
  <2>1. Untouched /\ pc' = pc
    BY <1>1, <1>9 DEF PostgresIgnore
  <2> QED  BY <2>1 DEF Foreign, Moves
<1> QED
  BY <1>2, <1>3, <1>4, <1>5, <1>6, <1>7, <1>8, <1>9 DEF PostgresNext

LEMMA HttpForeign ==
  ASSUME NEW c, HttpNext(c)
  PROVE  Foreign(c)
<1> DEFINE Untouched == Proto(c) = "http" /\ UNCHANGED <<client, parsed, counters>>
<1>1. ASSUME NEW svc, NEW routes, HttpRequest(c, svc, routes)
      PROVE  Untouched
  BY <1>1 DEF HttpRequest, At
<1>2. ASSUME NEW code, NEW path, HttpReply(c, code, path)
      PROVE  Moves(c)
  BY <1>2, AnswerMoves, PlacesAre DEF HttpReply
<1>3. CASE HttpFixed(c) \/ HttpRoot(c)
  <2>1. Untouched
    BY <1>1, <1>3 DEF HttpFixed, HttpRoot
  <2>2. Moves(c)
    BY <1>2, <1>3 DEF HttpFixed, HttpRoot
  <2> QED  BY <2>1, <2>2 DEF Foreign
<1>4. CASE ESContent(c)
  BY <1>1, <1>2, <1>4 DEF ESContent, Foreign
<1>5. CASE ESCatchAll(c)
  BY <1>1, <1>2, <1>5 DEF ESCatchAll, Foreign
<1>6. CASE CouchLogin(c)
  BY <1>1, <1>6, AnswerMoves, PlacesAre DEF CouchLogin, Foreign
<1>7. CASE CouchSession(c)
  BY <1>1, <1>2, <1>7 DEF CouchSession, Foreign
<1>8. CASE CouchDB(c)
  <2>1. Untouched
    BY <1>1, <1>8 DEF CouchDB
  <2>2. \/ HttpReply(c, 200, DBName(Message(c).path)) \/ HttpReply(c, 201, << >>)
        \/ HttpReply(c, 405, << >>)
    BY <1>8 DEF CouchDB
  <2>3. Moves(c)
    BY <1>2, <2>2
  <2> QED  BY <2>1, <2>3 DEF Foreign
<1>9. CASE HttpClose(c)
  <2>1. Untouched /\ Goto(c, "closed")
    BY <1>9 DEF HttpClose, At
  <2> QED  BY <2>1, GotoMoves, PlacesAre DEF Foreign
<1> QED
  BY <1>3, <1>4, <1>5, <1>6, <1>7, <1>8, <1>9 DEF HttpNext

-----------------------------------------------------------------------------
(* The inductive invariant of the counters: every handler is at one of the   *)
(* places, what was read of a connection is a sequence, and the commands     *)
(* counted are finitely many.                                                *)

PlacesOK == pc \in [Conns -> Places]

ParsedOK == /\ DOMAIN parsed = Conns
            /\ \A c \in Conns : \E S : parsed[c] \in Seq(S)

CInv == PlacesOK /\ ParsedOK /\ IsFiniteSet(Commands) /\ CountersExact

\* Redis: where each step of a handler goes, and what it counts.
RedisStarts(c) ==
  /\ pc[c] = "accepted" /\ pc' = [pc EXCEPT ![c] = "loop"]
  /\ received' = received + 1 /\ active' = active + 1
  /\ UNCHANGED <<parsed, commands>>

RedisReads(c) ==
  /\ pc[c] = "loop" /\ pc' = [pc EXCEPT ![c] = "handle"]
  /\ \E cmd : parsed' = [parsed EXCEPT ![c] = Append(@, cmd)]
  /\ commands' = commands + 1
  /\ UNCHANGED <<received, active>>

RedisAnswers(c) ==
  /\ pc[c] = "handle" /\ pc' = [pc EXCEPT ![c] = "loop"]
  /\ UNCHANGED <<parsed, counters>>

RedisEnds(c) ==
  /\ pc[c] \in {"loop", "handle"}
  /\ \E p \in {"closed", "failed"} : pc' = [pc EXCEPT ![c] = p]
  /\ active' = active - 1
  /\ UNCHANGED <<parsed, received, commands>>

LEMMA RedisShape ==
  ASSUME NEW c, RedisNext(c)
  PROVE  /\ Proto(c) = "redis" /\ client' = client
         /\ RedisStarts(c) \/ RedisReads(c) \/ RedisAnswers(c) \/ RedisEnds(c)
<1>1. CASE RedisEnter(c)
  BY <1>1 DEF RedisEnter, At, Goto, RedisStarts
<1>2. CASE RedisRead(c)
  <2>1. /\ parsed' = [parsed EXCEPT ![c] = Append(@, ReadCommand(in[c]).val)]
        /\ Proto(c) = "redis" /\ pc[c] = "loop" /\ Goto(c, "handle")
        /\ commands' = commands + 1 /\ UNCHANGED <<client, received, active>>
    BY <1>2 DEF RedisRead, At
  <2> QED  BY <2>1 DEF Goto, RedisReads
<1>3. CASE RedisReadFails(c)
  BY <1>3 DEF RedisReadFails, At, Goto, RedisEnds
<1>4. CASE RedisHandle(c)
  <2>1. /\ Proto(c) = "redis" /\ pc[c] = "handle"
        /\ \/ Goto(c, "loop") /\ UNCHANGED active
           \/ Goto(c, "failed") /\ active' = active - 1
        /\ UNCHANGED <<client, parsed, received, commands>>
    BY <1>4 DEF RedisHandle, At
  <2> QED  BY <2>1 DEF Goto, RedisAnswers, RedisEnds, counters
<1>5. CASE RedisQuit(c)
  BY <1>5 DEF RedisQuit, At, Goto, RedisEnds
<1> QED  BY <1>1, <1>2, <1>3, <1>4, <1>5 DEF RedisNext

\* What the counted sets become when the handler of c goes to p.
LEMMA MoveSets ==
  ASSUME PlacesOK, NEW c \in Conns, NEW p \in Places,
         client' = client, pc' = [pc EXCEPT ![c] = p]
  PROVE  /\ PlacesOK'
         /\ Of("redis")' = Of("redis")
         /\ Started' = IF Proto(c) # "redis" THEN Started
                       ELSE IF p = "accepted" THEN Started \ {c} ELSE Started \cup {c}
         /\ Running' = IF Proto(c) # "redis" THEN Running
                       ELSE IF p \in {"accepted", "closed", "failed"}
                            THEN Running \ {c} ELSE Running \cup {c}
<1> DEFINE redis == Of("redis")
<1>1. Of("redis")' = redis
  BY DEF Of, Proto
<1>2. redis \subseteq Conns /\ (c \in redis <=> Proto(c) = "redis")
  BY DEF Of
<1>3. /\ pc \in [Conns -> Places] /\ pc'[c] = p
      /\ \A d \in Conns : d # c => pc'[d] = pc[d]
  BY DEF PlacesOK
<1>4. PlacesOK'
  BY DEF PlacesOK
<1>5. /\ Started = {d \in redis : pc[d] # "accepted"}
      /\ Started' = {d \in redis : pc'[d] # "accepted"}
  BY <1>1 DEF Started
<1>6. /\ Running = {d \in redis : pc[d] \notin {"accepted", "closed", "failed"}}
      /\ Running' = {d \in redis : pc'[d] \notin {"accepted", "closed", "failed"}}
  BY <1>5 DEF Running, Ended
<1> HIDE DEF redis
<1>7. Started' = IF Proto(c) # "redis" THEN Started
                 ELSE IF p = "accepted" THEN Started \ {c} ELSE Started \cup {c}
  BY <1>2, <1>3, <1>5
<1>8. Running' = IF Proto(c) # "redis" THEN Running
                 ELSE IF p \in {"accepted", "closed", "failed"}
                      THEN Running \ {c} ELSE Running \cup {c}
  BY <1>2, <1>3, <1>6
<1> QED  BY <1>1, <1>4, <1>7, <1>8 DEF redis

LEMMA CountedFinite ==
  /\ IsFiniteSet(Started) /\ IsFiniteSet(Running)
  /\ Cardinality(Started) \in Nat /\ Cardinality(Running) \in Nat
<1>1. Started \in SUBSET Conns /\ Running \in SUBSET Conns
  BY DEF Started, Running, Of
<1> HIDE DEF Started, Running
<1>2. IsFiniteSet(Started) /\ IsFiniteSet(Running)
  BY <1>1, SessionAssumption, FS_Subset
<1> QED  BY <1>2, FS_CardinalityType

\* ReadCommand's result on c is one command more, and on no other connection.
LEMMA CommandsGrow ==
  ASSUME ParsedOK, NEW c \in Conns, Proto(c) = "redis", client' = client,
         NEW cmd, parsed' = [parsed EXCEPT ![c] = Append(@, cmd)]
  PROVE  ParsedOK' /\ \E n : Commands' = Commands \cup {<<c, n>>} /\ <<c, n>> \notin Commands
<1> DEFINE redis == Of("redis")
<1>1. Of("redis")' = redis /\ c \in redis /\ redis \subseteq Conns
  BY DEF Of, Proto
<1>2. PICK S : parsed[c] \in Seq(S)
  BY DEF ParsedOK
<1>3. PICK n \in Nat : n = Len(parsed[c])
  BY <1>2
<1> DEFINE T == S \cup {cmd}
<1>4. Append(parsed[c], cmd) \in Seq(T) /\ DOMAIN Append(parsed[c], cmd) = 1..(n + 1)
      /\ DOMAIN parsed[c] = 1..n
  <2>1. parsed[c] \in Seq(T) /\ cmd \in T
    BY <1>2
  <2> HIDE DEF T
  <2> QED  BY <1>3, <2>1
<1>5. /\ DOMAIN parsed' = Conns /\ parsed'[c] = Append(parsed[c], cmd)
      /\ \A d \in Conns : d # c => parsed'[d] = parsed[d]
  BY DEF ParsedOK
<1>6. ParsedOK'
  <2>1. ASSUME NEW d \in Conns PROVE \E U : parsed'[d] \in Seq(U)
    <3>1. CASE d = c
      BY <1>4, <1>5, <3>1, Zenon
    <3>2. CASE d # c
      BY <1>5, <3>2, Zenon DEF ParsedOK
    <3> QED  BY <3>1, <3>2
  <2> QED  BY <1>5, <2>1 DEF ParsedOK
<1> DEFINE dom(d) == DOMAIN parsed[d]
           domNext(d) == DOMAIN parsed'[d]
<1>7. Commands = UNION {{d} \X dom(d) : d \in redis} /\ Commands' = UNION {{d} \X domNext(d) : d \in redis}
  BY <1>1 DEF Commands
<1>8. domNext(c) = dom(c) \cup {n + 1} /\ n + 1 \notin dom(c) /\ \A d \in redis : d # c => domNext(d) = dom(d)
  BY <1>1, <1>4, <1>5
<1> HIDE DEF dom, domNext, redis
<1>9. Commands' = Commands \cup {<<c, n + 1>>}
  BY <1>1, <1>7, <1>8
<1>10. <<c, n + 1>> \notin Commands
  BY <1>1, <1>7, <1>8
<1> QED  BY <1>6, <1>9, <1>10

\* Each step changes the counters by what it does to the sets they count.
LEMMA CountersStep ==
  ASSUME CInv, [Next]_vars
  PROVE  CInv'
<1>1. /\ PlacesOK /\ ParsedOK /\ IsFiniteSet(Commands)
      /\ received = Cardinality(Started) /\ active = Cardinality(Running)
      /\ commands = Cardinality(Commands)
  BY DEF CInv, CountersExact
<1>2. client' = client /\ parsed' = parsed => ParsedOK' /\ Commands' = Commands
  BY <1>1 DEF ParsedOK, Commands, Of, Proto
<1>3. ASSUME NEW c \in Conns, RedisNext(c)
      PROVE  CInv'
  <2>1. Proto(c) = "redis" /\ client' = client
    BY <1>3, RedisShape
  <2>2. CASE RedisStarts(c)
    <3>1. /\ PlacesOK' /\ Started' = Started \cup {c} /\ Running' = Running \cup {c}
          /\ ParsedOK' /\ Commands' = Commands
      BY <1>1, <1>2, <2>1, <2>2, MoveSets, PlacesAre DEF RedisStarts
    <3>2. c \notin Started /\ c \notin Running
      BY <2>2 DEF RedisStarts, Started, Running
    <3>3. Cardinality(Started') = Cardinality(Started) + 1 /\ Cardinality(Running') = Cardinality(Running) + 1
      BY <3>1, <3>2, CountedFinite, FS_AddElement
    <3> QED  BY <1>1, <2>2, <3>1, <3>3 DEF CInv, CountersExact, RedisStarts
  <2>3. CASE RedisReads(c)
    <3>1. PlacesOK' /\ Started' = Started \cup {c} /\ Running' = Running \cup {c}
      BY <1>1, <2>1, <2>3, MoveSets, PlacesAre DEF RedisReads
    <3>2. c \in Started /\ c \in Running
      BY <2>1, <2>3 DEF RedisReads, Started, Running, Ended, Of
    <3>3. Started' = Started /\ Running' = Running
      BY <3>1, <3>2
    <3>4. PICK cmd : parsed' = [parsed EXCEPT ![c] = Append(@, cmd)]
      BY <2>3 DEF RedisReads
    <3>5. PICK n : ParsedOK' /\ Commands' = Commands \cup {<<c, n>>} /\ <<c, n>> \notin Commands
      BY <1>1, <2>1, <3>4, CommandsGrow
    <3>6. IsFiniteSet(Commands') /\ Cardinality(Commands') = Cardinality(Commands) + 1
      BY <1>1, <3>5, FS_AddElement
    <3> QED  BY <1>1, <2>3, <3>1, <3>3, <3>5, <3>6 DEF CInv, CountersExact, RedisReads
  <2>4. CASE RedisAnswers(c)
    <3>1. /\ PlacesOK' /\ Started' = Started \cup {c} /\ Running' = Running \cup {c}
          /\ ParsedOK' /\ Commands' = Commands
      BY <1>1, <1>2, <2>1, <2>4, MoveSets, PlacesAre DEF RedisAnswers
    <3>2. c \in Started /\ c \in Running
      BY <2>1, <2>4 DEF RedisAnswers, Started, Running, Ended, Of
    <3>3. Started' = Started /\ Running' = Running
      BY <3>1, <3>2
    <3> QED  BY <1>1, <2>4, <3>1, <3>3 DEF CInv, CountersExact, RedisAnswers, counters
  <2>5. CASE RedisEnds(c)
    <3>1. PICK p \in {"closed", "failed"} : pc' = [pc EXCEPT ![c] = p]
      BY <2>5 DEF RedisEnds
    <3>2. /\ PlacesOK' /\ Started' = Started \cup {c} /\ Running' = Running \ {c}
          /\ ParsedOK' /\ Commands' = Commands
      BY <1>1, <1>2, <2>1, <2>5, <3>1, MoveSets, PlacesAre DEF RedisEnds
    <3>3. c \in Started /\ c \in Running
      BY <2>1, <2>5 DEF RedisEnds, Started, Running, Ended, Of
    <3>4. Started' = Started
      BY <3>2, <3>3
    <3>5. Cardinality(Running') = Cardinality(Running) - 1
      BY <3>2, <3>3, CountedFinite, FS_RemoveElement
    <3> QED  BY <1>1, <2>5, <3>2, <3>4, <3>5 DEF CInv, CountersExact, RedisEnds
  <2> QED  BY <1>3, <2>2, <2>3, <2>4, <2>5, RedisShape
<1>4. ASSUME NEW c \in Conns, Foreign(c)
      PROVE  CInv'
  <2>1. Proto(c) # "redis" /\ UNCHANGED <<client, parsed, counters>>
    BY <1>4 DEF Foreign
  <2>2. PlacesOK' /\ Started' = Started /\ Running' = Running
    <3>1. CASE pc' = pc
      BY <1>1, <2>1, <3>1 DEF PlacesOK, Started, Running, Ended, Of, Proto
    <3>2. ASSUME NEW p \in Places, pc' = [pc EXCEPT ![c] = p]
          PROVE  PlacesOK' /\ Started' = Started /\ Running' = Running
      BY <1>1, <2>1, <3>2, MoveSets
    <3> QED  BY <1>4, <3>1, <3>2 DEF Foreign, Moves
  <2> QED  BY <1>1, <1>2, <2>1, <2>2 DEF CInv, CountersExact, counters
<1>5. CASE UNCHANGED vars
  <2>1. UNCHANGED <<client, parsed, pc, received, active, commands>>
    BY <1>5 DEF vars
  <2>2. PlacesOK' /\ Started' = Started /\ Running' = Running
    BY <1>1, <2>1 DEF PlacesOK, Started, Running, Ended, Of, Proto
  <2> QED  BY <1>1, <1>2, <2>1, <2>2 DEF CInv, CountersExact
<1> QED
  BY <1>3, <1>4, <1>5, MySQLForeign, PostgresForeign, HttpForeign DEF Next, Rest

\* The inductive invariant of the counters holds in every reachable state.
THEOREM CountersInvariance == Spec => []CInv
<1>1. Init => CInv
  <2> SUFFICES ASSUME Init PROVE CInv
    OBVIOUS
  <2>1. /\ pc = [c \in Conns |-> "accepted"] /\ parsed = [c \in Conns |-> << >>]
        /\ received = 0 /\ active = 0 /\ commands = 0
    BY DEF Init
  <2>2. PlacesOK
    BY <2>1, PlacesAre DEF PlacesOK
  <2>3. ParsedOK
    BY <2>1 DEF ParsedOK
  <2>4. Started = {} /\ Running = {}
    BY <2>1 DEF Started, Running, Of
  <2>5. Commands = {}
    BY <2>1 DEF Commands, Of
  <2> QED  BY <2>1, <2>2, <2>3, <2>4, <2>5, FS_EmptySet DEF CInv, CountersExact
<1>2. CInv /\ [Next]_vars => CInv'
  BY CountersStep
<1> QED  BY <1>1, <1>2, PTL DEF Spec

\* However the sessions interleave and end (an error of the client, QUIT, a flush
\* that fails), the three counters of the Redis handlers are exact.
THEOREM CountersAlwaysExact == Spec => []CountersExact
<1>1. CInv => CountersExact
  BY DEF CInv
<1> QED  BY <1>1, CountersInvariance, PTL

-----------------------------------------------------------------------------
(* What the operators on strings return. *)

\* Ranging over a string yields no byte that is not a rune, at most one rune per
\* byte, and the string itself where every byte is one.
LEMMA RunesAre ==
  ASSUME NEW s, NEW n \in Nat
  PROVE  /\ \E m \in Nat : m <= n /\ DOMAIN Runes(s, n) = 1..m
         /\ \A k \in DOMAIN Runes(s, n) :
              /\ Runes(s, n)[k] \notin HighBytes
              /\ (\A i \in DOMAIN s : s[i] \notin HighBytes) =>
                   \E i \in DOMAIN s : Runes(s, n)[k] = s[i]
<1> DEFINE cut == {i \in 1..n : i \in DOMAIN s}
           pair(i) == {i, i + 1} \subseteq cut /\ s[i] \in Lead /\ s[i + 1] \in Continuation
           rune == [i \in cut |-> IF pair(i) THEN TwoByte(s[i], s[i + 1])
                                  ELSE IF s[i] \in HighBytes THEN "UFFFD" ELSE s[i]]
           starts == {i \in cut : ~pair(i - 1)}
<1>1. Runes(s, n) = Pick(rune, starts)
  BY DEF Runes
<1>2. starts \in SUBSET (1..n)
  OBVIOUS
<1>3. ASSUME NEW i \in cut
      PROVE  /\ rune[i] \notin HighBytes
             /\ (\A j \in DOMAIN s : s[j] \notin HighBytes) => rune[i] = s[i]
  <2>1. TwoByte(s[i], s[i + 1]) \in {"U85", "UA9", "UC5", "UE9"}
    BY DEF TwoByte
  <2>2. Lead \subseteq HighBytes
    BY DEF Lead, HighBytes
  <2>3. rune[i] = IF pair(i) THEN TwoByte(s[i], s[i + 1])
                  ELSE IF s[i] \in HighBytes THEN "UFFFD" ELSE s[i]
    OBVIOUS
  <2>4. pair(i) => s[i] \in HighBytes
    BY <2>2
  <2>5. i \in DOMAIN s
    OBVIOUS
  <2>6. "UFFFD" \notin HighBytes /\ {"U85", "UA9", "UC5", "UE9"} \cap HighBytes = {}
    BY DEF HighBytes
  <2> HIDE DEF rune, pair
  <2> QED  BY <2>1, <2>3, <2>4, <2>5, <2>6
<1>4. starts \subseteq cut /\ cut \subseteq DOMAIN s
  OBVIOUS
<1> HIDE DEF rune, starts, cut
<1>5. /\ Cardinality(starts) \in Nat /\ Cardinality(starts) <= n
      /\ DOMAIN Pick(rune, starts) = 1..Cardinality(starts)
      /\ \A k \in DOMAIN Pick(rune, starts) : \E i \in starts : Pick(rune, starts)[k] = rune[i]
  <2>1. Picked(rune, starts, n)
    BY <1>2, PickIn
  <2> QED  BY <2>1 DEF Picked
<1>6. \E m \in Nat : m <= n /\ DOMAIN Runes(s, n) = 1..m
  BY <1>1, <1>5
<1>7. ASSUME NEW k \in DOMAIN Runes(s, n)
      PROVE  /\ Runes(s, n)[k] \notin HighBytes
             /\ (\A i \in DOMAIN s : s[i] \notin HighBytes) =>
                  \E i \in DOMAIN s : Runes(s, n)[k] = s[i]
  <2>1. PICK i \in starts : Runes(s, n)[k] = rune[i]
    BY <1>1, <1>5, <1>7
  <2> QED  BY <1>3, <1>4, <2>1
<1> QED  BY <1>6, <1>7

\* A string none of whose symbols is in S.
Without(t, S) == \A k \in DOMAIN t : t[k] \notin S

\* A field of an event as sanitizeStr leaves it.
CleanText(t) == Without(t, Controls \cup HighBytes) /\ Len(t) <= MaxField

\* sanitizeStr leaves no control character and only valid UTF-8, no more runes
\* than the bytes it kept, and what was safe in a path stays so.
LEMMA SanitizeStrClean ==
  ASSUME NEW s
  PROVE  /\ CleanText(SanitizeStr(s))
         /\ Safe(s) => Safe(SanitizeStr(s))
<1> DEFINE runes == Runes(s, MaxField)
           kept == {i \in DOMAIN runes : runes[i] \notin Controls}
           t == Pick(runes, kept)
<1>1. SanitizeStr(s) = t
  BY DEF SanitizeStr
<1>2. MaxField \in Nat
  BY TextAssumption
<1>3. /\ \E m \in Nat : m <= MaxField /\ DOMAIN runes = 1..m
      /\ \A k \in DOMAIN runes :
           /\ runes[k] \notin HighBytes
           /\ (\A i \in DOMAIN s : s[i] \notin HighBytes) =>
                \E i \in DOMAIN s : runes[k] = s[i]
  BY <1>2, RunesAre
<1>4. PICK m \in Nat : m <= MaxField /\ DOMAIN runes = 1..m
  BY <1>3
<1>5. /\ kept \in SUBSET (1..m)
      /\ \A i \in kept : i \in DOMAIN runes /\ runes[i] \notin Controls
  BY <1>4
<1> HIDE DEF kept, runes
<1>6. /\ Cardinality(kept) \in Nat /\ Cardinality(kept) <= m
      /\ DOMAIN t = 1..Cardinality(kept)
      /\ \A k \in DOMAIN t : \E i \in kept : t[k] = runes[i]
  <2>1. kept \in SUBSET (1..m)
    BY <1>5
  <2>2. Picked(runes, kept, m)
    BY <2>1, PickIn
  <2> QED  BY <2>2 DEF Picked
<1>7. Len(t) = Cardinality(kept)
  <2>1. t = [k \in 1..Cardinality(kept) |-> t[k]]
    BY DEF Pick
  <2> HIDE DEF t
  <2> QED  BY <1>6, <2>1, LenIs
<1> HIDE DEF t
<1>8. Len(t) <= MaxField
  BY <1>2, <1>4, <1>6, <1>7
<1>9. Without(t, Controls \cup HighBytes)
  BY <1>3, <1>5, <1>6 DEF Without
<1>10. ASSUME Safe(s)
       PROVE  Safe(t)
  <2>1. \A i \in DOMAIN s : s[i] \in PathText /\ s[i] \notin HighBytes
    BY <1>10, TextAssumption DEF Safe
  <2> QED  BY <1>3, <1>5, <1>6, <2>1 DEF Safe
<1> QED  BY <1>1, <1>8, <1>9, <1>10 DEF CleanText

\* sanitizePath leaves only characters of its set.
LEMMA SanitizePathSafe ==
  ASSUME NEW s
  PROVE  Safe(SanitizePath(s))
<1> DEFINE runes == Runes(s, MaxPath)
<1>1. SanitizePath(s) = [i \in DOMAIN runes |-> IF runes[i] \in PathText THEN runes[i] ELSE "_"]
  BY DEF SanitizePath
<1> HIDE DEF runes
<1> QED  BY <1>1, TextAssumption DEF Safe

\* What the store keeps of an event.
LEMMA SanitizeClean ==
  ASSUME NEW e
  PROVE  /\ \A t \in Texts(Sanitize(e)) : CleanText(t)
         /\ Sanitize(e).conn = e.conn
         /\ Safe(e.cmd) => Safe(Sanitize(e).cmd)
<1>1. /\ Sanitize(e).conn = e.conn
      /\ Sanitize(e).user = SanitizeStr(e.user) /\ Sanitize(e).pass = SanitizeStr(e.pass)
      /\ Sanitize(e).db = SanitizeStr(e.db) /\ Sanitize(e).hash = SanitizeStr(e.hash)
      /\ Sanitize(e).cmd = SanitizeStr(e.cmd)
      /\ Sanitize(e).payload = SanitizeStr(e.payload)
  BY DEF Sanitize
<1>2. \A t \in Texts(Sanitize(e)) : CleanText(t)
  BY <1>1, SanitizeStrClean DEF Texts
<1>3. Safe(e.cmd) => Safe(Sanitize(e).cmd)
  BY <1>1, SanitizeStrClean
<1> QED  BY <1>1, <1>2, <1>3

-----------------------------------------------------------------------------
(* What a step of a handler may log and send. *)

\* A request line, or the fixed word of a login, is safe.
EventOf(c, e) == /\ e.conn = c
                 /\ Proto(c) = "http" => Safe(e.cmd)

\* The handler of c logs nothing or one event of its own.
Logs(c) == log' = log \/ Log(<< >>) \/ \E e : EventOf(c, e) /\ Log(<<e>>)

\* It sends nothing to the clients of other connections.
Sends(c) == sent' = sent \/ \E x : sent' = [sent EXCEPT ![c] = x]

LEMMA AnswerSends ==
  ASSUME NEW c, NEW replies, NEW place, Answer(c, replies, place)
  PROVE  Sends(c)
BY DEF Answer, Sends

LEMMA BlankOf ==
  ASSUME NEW c
  PROVE  /\ \A u, d, h, m : [Blank(c) EXCEPT !.user = u, !.db = d, !.hash = h, !.cmd = m].conn = c
         /\ \A u, d, m : [Blank(c) EXCEPT !.user = u, !.db = d, !.cmd = m].conn = c
         /\ \A u, p, m : /\ [Blank(c) EXCEPT !.user = u, !.pass = p, !.cmd = m].conn = c
                         /\ [Blank(c) EXCEPT !.user = u, !.pass = p, !.cmd = m].cmd = m
         /\ \A p, m : [Blank(c) EXCEPT !.pass = p, !.cmd = m].conn = c
         /\ \A m : [Blank(c) EXCEPT !.cmd = m].conn = c
         /\ \A m, b : /\ [Blank(c) EXCEPT !.cmd = m, !.payload = b].conn = c
                      /\ [Blank(c) EXCEPT !.cmd = m, !.payload = b].cmd = m
BY DEF Blank

LEMMA MySQLWrites ==
  ASSUME NEW c, MySQLNext(c)
  PROVE  Proto(c) = "mysql" /\ Logs(c) /\ Sends(c)
<1>1. Proto(c) = "mysql"
  BY DEF MySQLNext, MySQLGreet, MySQLLogin, MySQLEmpty, MySQLQuit, MySQLQuery, MySQLInitDB,
         MySQLOther, MySQLReadFails, MySQLCommand, At
<1>2. Sends(c)
  <2>1. ASSUME NEW replies, NEW place, Answer(c, replies, place) PROVE Sends(c)
    BY <2>1, AnswerSends
  <2>2. sent' = sent => Sends(c)
    BY DEF Sends
  <2> QED
    BY <2>1, <2>2 DEF MySQLNext, MySQLGreet, MySQLLogin, MySQLEmpty, MySQLQuit, MySQLQuery,
         MySQLInitDB, MySQLOther, MySQLReadFails
<1>3. Logs(c)
  <2>1. CASE MySQLLogin(c)
    <3> DEFINE login == LoginOf(Message(c))
               e == [Blank(c) EXCEPT !.user = login.user, !.db = login.db,
                                     !.hash = login.hash, !.cmd = <<"CONNECT">>]
    <3>1. Log(<<e>>) \/ log' = log
      BY <2>1 DEF MySQLLogin
    <3>2. EventOf(c, e)
      BY <1>1, BlankOf DEF EventOf
    <3> QED  BY <3>1, <3>2 DEF Logs
  <2>2. CASE MySQLQuery(c)
    <3> DEFINE e == [Blank(c) EXCEPT !.user = who[c].user, !.db = who[c].db,
                                     !.cmd = Truncate(Tail(Message(c).body), MaxQuery)]
    <3>1. Log(<<e>>)
      BY <2>2 DEF MySQLQuery
    <3>2. EventOf(c, e)
      BY <1>1, BlankOf DEF EventOf
    <3> QED  BY <3>1, <3>2 DEF Logs
  <2>3. CASE ~MySQLLogin(c) /\ ~MySQLQuery(c)
    <3>1. log' = log
      BY <2>3 DEF MySQLNext, MySQLGreet, MySQLEmpty, MySQLQuit, MySQLInitDB, MySQLOther,
                  MySQLReadFails
    <3> QED  BY <3>1 DEF Logs
  <2> QED  BY <2>1, <2>2, <2>3
<1> QED  BY <1>1, <1>2, <1>3

LEMMA PostgresWrites ==
  ASSUME NEW c, PostgresNext(c)
  PROVE  Proto(c) = "postgres" /\ Logs(c) /\ Sends(c)
<1>1. Proto(c) = "postgres"
  BY DEF PostgresNext, PostgresEnter, PostgresSSL, PostgresStartup, PostgresRefuse,
         PostgresPassword, PostgresNoPassword, PostgresQuery, PostgresExtended,
         PostgresIgnore, PostgresEnd, PostgresReadFails, PostgresMessage, At
<1>2. Sends(c)
  <2>1. ASSUME NEW replies, NEW place, Answer(c, replies, place) PROVE Sends(c)
    BY <2>1, AnswerSends
  <2>2. sent' = sent => Sends(c)
    BY DEF Sends
  <2> QED
    BY <2>1, <2>2 DEF PostgresNext, PostgresEnter, PostgresSSL, PostgresStartup,
         PostgresRefuse, PostgresPassword, PostgresNoPassword, PostgresQuery,
         PostgresExtended, PostgresIgnore, PostgresEnd, PostgresReadFails
<1>3. Logs(c)
  <2>1. CASE PostgresPassword(c)
    <3> DEFINE e == [Blank(c) EXCEPT !.user = who[c].user, !.db = who[c].db,
                       !.hash = NullTerm(Message(c).body), !.cmd = <<"CONNECT">>]
    <3>1. Log(<<e>>)
      BY <2>1 DEF PostgresPassword
    <3>2. EventOf(c, e)
      BY <1>1, BlankOf DEF EventOf
    <3> QED  BY <3>1, <3>2 DEF Logs
  <2>2. CASE PostgresQuery(c)
    <3> DEFINE e == [Blank(c) EXCEPT !.user = who[c].user, !.db = who[c].db,
                       !.cmd = Truncate(NullTerm(Message(c).body), MaxQuery)]
    <3>1. Log(<<e>>)
      BY <2>2 DEF PostgresQuery
    <3>2. EventOf(c, e)
      BY <1>1, BlankOf DEF EventOf
    <3> QED  BY <3>1, <3>2 DEF Logs
  <2>3. CASE ~PostgresPassword(c) /\ ~PostgresQuery(c)
    <3>1. log' = log
      BY <2>3 DEF PostgresNext, PostgresEnter, PostgresSSL, PostgresStartup, PostgresRefuse,
                  PostgresNoPassword, PostgresExtended, PostgresIgnore, PostgresEnd,
                  PostgresReadFails
    <3> QED  BY <3>1 DEF Logs
  <2> QED  BY <2>1, <2>2, <2>3
<1> QED  BY <1>1, <1>2, <1>3

LEMMA RedisWrites ==
  ASSUME NEW c, RedisNext(c)
  PROVE  Proto(c) = "redis" /\ Logs(c) /\ Sends(c)
<1>1. Proto(c) = "redis"
  BY DEF RedisNext, RedisEnter, RedisRead, RedisReadFails, RedisHandle, RedisQuit, At
<1>2. CASE RedisHandle(c)
  <2> DEFINE args == Last(parsed[c])
             first == Min(HelloAuths(args))
             hello == [Blank(c) EXCEPT !.user = args[first + 1], !.pass = args[first + 2],
                                       !.cmd = <<"HELLO", "SP", "AUTH">>]
             auth == [Blank(c) EXCEPT !.pass = args[2], !.cmd = <<"AUTH">>]
             set == [Blank(c) EXCEPT !.cmd = <<"SET", "SP">> \o args[2]]
             other == [Blank(c) EXCEPT !.cmd = Name(args)]
             isHello == Is(args, {"HELLO"}) /\ HelloAuths(args) # {}
             isAuth == Is(args, {"AUTH"}) /\ Len(args) >= 2
             isSet == Is(args, {"SET"}) /\ Len(args) >= 3
             isOther == ~Is(args, Silent)
  <2>1. Log(Events(c, args))
    BY <1>2 DEF RedisHandle
  <2>2. \/ Events(c, args) = <<hello>> \/ Events(c, args) = <<auth>>
        \/ Events(c, args) = <<set>> \/ Events(c, args) = <<other>>
        \/ Events(c, args) = << >>
    <3>1. Events(c, args) = CASE isHello -> <<hello>> [] isAuth -> <<auth>> [] isSet -> <<set>>
                              [] isOther -> <<other>> [] OTHER -> << >>
      BY DEF Events
    <3> HIDE DEF hello, auth, set, other, isHello, isAuth, isSet, isOther
    <3> QED  BY <3>1
  <2>3. EventOf(c, hello) /\ EventOf(c, auth) /\ EventOf(c, set) /\ EventOf(c, other)
    BY <1>1, BlankOf DEF EventOf
  <2> HIDE DEF hello, auth, set, other, args
  <2>4. Logs(c)
    BY <2>1, <2>2, <2>3 DEF Logs
  <2>5. Sends(c)
    BY <1>2 DEF RedisHandle, Sends
  <2> QED  BY <1>1, <2>4, <2>5
<1>3. CASE ~RedisHandle(c)
  <2>1. log' = log /\ sent' = sent
    BY <1>3 DEF RedisNext, RedisEnter, RedisRead, RedisReadFails, RedisQuit
  <2> QED  BY <1>1, <2>1 DEF Logs, Sends
<1> QED  BY <1>2, <1>3

\* A client of a HTTP honeypot is sent at most one reply, and what it reflects of a
\* path went through sanitizePath.
Replies(c) ==
  \/ sent' = sent
  \/ \E r : /\ Safe(r.path)
            /\ \/ sent' = [sent EXCEPT ![c] = @ \o << >>]
               \/ sent' = [sent EXCEPT ![c] = @ \o <<r>>]

LEMMA StatusReplies ==
  ASSUME NEW c, NEW code, NEW path, NEW name, Safe(path),
         Answer(c, <<Status(code, path, name)>>, "accepted")
  PROVE  Replies(c)
<1> DEFINE r == Status(code, path, name)
<1>1. Safe(r.path)
  BY DEF Status
<1> HIDE DEF r
<1>2. PICK k \in 0..Len(<<r>>) : sent' = [sent EXCEPT ![c] = @ \o SubSeq(<<r>>, 1, k)]
  BY DEF Answer, r
<1>3. Len(<<r>>) = 1 /\ SubSeq(<<r>>, 1, 0) = << >> /\ SubSeq(<<r>>, 1, 1) = <<r>>
  <2>1. <<r>> \in Seq({r}) /\ Len(<<r>>) = 1
    OBVIOUS
  <2>2. SubSeq(<<r>>, 1, Len(<<r>>)) = <<r>>
    BY <2>1, SubSeqFull, Zenon
  <2>3. SubSeq(<<r>>, 1, 0) = << >>
    BY SubSeqEmpty
  <2> QED  BY <2>1, <2>2, <2>3, Zenon
<1>4. k = 0 \/ k = 1
  BY <1>3
<1> QED  BY <1>1, <1>2, <1>3, <1>4 DEF Replies

LEMMA HttpWrites ==
  ASSUME NEW c, HttpNext(c)
  PROVE  Proto(c) = "http" /\ Logs(c) /\ Replies(c)
<1>1. Proto(c) = "http"
  BY DEF HttpNext, HttpFixed, HttpRoot, ESContent, ESCatchAll, CouchLogin, CouchSession,
         CouchDB, HttpClose, HttpRequest, At
<1>2. EventOf(c, RequestEvent(c, Message(c)))
  <2> DEFINE path == SanitizePath(<<Message(c).method, "SP">> \o Message(c).path)
             e == [Blank(c) EXCEPT !.cmd = path, !.payload = LimitedBody(Message(c))]
  <2>1. RequestEvent(c, Message(c)) = e
    BY DEF RequestEvent
  <2>2. Safe(path)
    BY SanitizePathSafe
  <2> HIDE DEF path
  <2>3. e.conn = c /\ e.cmd = path
    BY BlankOf
  <2> HIDE DEF e
  <2> QED  BY <2>1, <2>2, <2>3 DEF EventOf
<1>3. log' = log => Logs(c)
  BY DEF Logs
<1>4. Log(<<RequestEvent(c, Message(c))>>) => Logs(c)
  BY <1>2 DEF Logs
<1>5. ASSUME NEW code, NEW path, HttpReply(c, code, path), Safe(path)
      PROVE  Replies(c)
  BY <1>5, StatusReplies DEF HttpReply
<1>e. Safe(<< >>)
  BY DEF Safe
<1>6. CASE HttpFixed(c) \/ HttpRoot(c)
  <2>1. \E code \in {200, 301} : HttpReply(c, code, << >>)
    BY <1>6 DEF HttpFixed, HttpRoot
  <2> QED  BY <1>1, <1>3, <1>5, <1>e, <1>6, <2>1 DEF HttpFixed, HttpRoot
<1>7. CASE ESContent(c)
  BY <1>1, <1>4, <1>5, <1>e, <1>7 DEF ESContent
<1>8. CASE ESCatchAll(c)
  <2>1. Safe(SanitizePath(Message(c).path))
    BY SanitizePathSafe
  <2>2. HttpReply(c, 404, SanitizePath(Message(c).path))
    BY <1>8 DEF ESCatchAll
  <2>3. Replies(c)
    BY <1>5, <2>1, <2>2
  <2> QED  BY <1>1, <1>4, <1>8, <2>3 DEF ESCatchAll
<1>9. CASE CouchLogin(c)
  <2> DEFINE creds == Credentials(Message(c))
             e == [Blank(c) EXCEPT !.user = creds[1], !.pass = creds[2], !.cmd = <<"SESSION">>]
  <2>1. (Log(<< >>) \/ Log(<<e>>)) /\ Answer(c, <<Status(200, << >>, creds[1])>>, "accepted")
    BY <1>9 DEF CouchLogin
  <2>2. Replies(c)
    BY <1>e, <2>1, StatusReplies
  <2>3. Safe(<<"SESSION">>)
    <3>1. "SESSION" \in PathText
      BY TextAssumption
    <3>2. \A k \in DOMAIN <<"SESSION">> : <<"SESSION">>[k] = "SESSION"
      OBVIOUS
    <3> QED  BY <3>1, <3>2 DEF Safe
  <2>4. EventOf(c, e)
    BY <2>3, BlankOf DEF EventOf
  <2> HIDE DEF e
  <2>5. Logs(c)
    BY <2>1, <2>4 DEF Logs
  <2> QED  BY <1>1, <2>2, <2>5
<1>10. CASE CouchSession(c)
  BY <1>1, <1>3, <1>5, <1>e, <1>10 DEF CouchSession
<1>11. CASE CouchDB(c)
  <2>1. \/ HttpReply(c, 200, DBName(Message(c).path)) \/ HttpReply(c, 201, << >>)
        \/ HttpReply(c, 405, << >>)
    BY <1>11 DEF CouchDB
  <2>2. Safe(DBName(Message(c).path))
    BY SanitizePathSafe DEF DBName
  <2>3. Replies(c)
    BY <1>5, <1>e, <2>1, <2>2
  <2> QED  BY <1>1, <1>4, <1>11, <2>3 DEF CouchDB
<1>12. CASE HttpClose(c)
  BY <1>1, <1>3, <1>12 DEF HttpClose, Replies
<1> QED
  BY <1>6, <1>7, <1>8, <1>9, <1>10, <1>11, <1>12 DEF HttpNext

-----------------------------------------------------------------------------
(* The log and the replies of the HTTP honeypots.  The invariant says that   *)
(* they are sequences: the handlers append to what is there.                 *)

LogOK == \E S : log \in Seq(S)

SentOK == /\ DOMAIN sent = Conns
          /\ \A c \in Of("http") : \E S : sent[c] \in Seq(S)

LInv == LogOK /\ SentOK /\ LogClean /\ PathsSafe

LogSafe == \A i \in DOMAIN log : Proto(log[i].conn) = "http" => Safe(log[i].cmd)

SentSafe == \A c \in Of("http") : \A i \in DOMAIN sent[c] :
              Safe(sent[c][i].path)

LEMMA PathsParts == PathsSafe <=> LogSafe /\ SentSafe
BY DEF PathsSafe, LogSafe, SentSafe

\* Appending one element keeps the others where they are.
LEMMA AppendOne ==
  ASSUME NEW S, NEW s \in Seq(S), NEW x
  PROVE  /\ \E T : s \o <<x>> \in Seq(T)
         /\ \A i \in DOMAIN (s \o <<x>>) :
              \/ i \in DOMAIN s /\ (s \o <<x>>)[i] = s[i]
              \/ (s \o <<x>>)[i] = x
<1> DEFINE T == S \cup {x}
<1>1. s \in Seq(T) /\ <<x>> \in Seq(T) /\ Len(<<x>>) = 1 /\ <<x>>[1] = x
  OBVIOUS
<1> HIDE DEF T
<1> QED  BY <1>1, ConcatProperties, LenProperties

LEMMA LogOne ==
  ASSUME NEW e, Log(<<e>>)
  PROVE  log' = log \o <<Sanitize(e)>>
BY DEF Log

LEMMA LogNone ==
  ASSUME LogOK, Log(<< >>)
  PROVE  log' = log
<1>1. PICK S : log \in Seq(S)
  BY DEF LogOK
<1>2. log' = log \o << >>
  BY DEF Log
<1> QED  BY <1>1, <1>2, ConcatEmptySeq

\* What every handler does to the log keeps it clean, and the HTTP honeypots'
\* request lines safe.
LEMMA LogStep ==
  ASSUME LInv, NEW c, client' = client, Logs(c)
  PROVE  LogOK' /\ LogClean' /\ LogSafe'
<1>1. LogOK /\ LogClean /\ LogSafe
  BY PathsParts DEF LInv
<1>3. CASE log' = log
  BY <1>1, <1>3 DEF LogOK, LogClean, LogSafe, Proto
<1>4. CASE Log(<< >>)
  BY <1>1, <1>3, <1>4, LogNone
<1>5. CASE \E e : EventOf(c, e) /\ Log(<<e>>)
  <2>1. PICK e : EventOf(c, e) /\ Log(<<e>>)
    BY <1>5
  <2> DEFINE x == Sanitize(e)
  <2>2. log' = log \o <<x>>
    BY <2>1, LogOne
  <2>3. /\ \A t \in Texts(x) : CleanText(t)
        /\ Proto(x.conn) = "http" => Safe(x.cmd)
    BY <2>1, SanitizeClean DEF EventOf
  <2> HIDE DEF x
  <2>4. PICK S : log \in Seq(S)
    BY <1>1 DEF LogOK
  <2>5. /\ LogOK'
        /\ \A i \in DOMAIN log' : (i \in DOMAIN log /\ log'[i] = log[i]) \/ log'[i] = x
    BY <2>2, <2>4, AppendOne DEF LogOK
  <2>6. LogClean'
    <3> SUFFICES ASSUME NEW i \in DOMAIN log', NEW t \in Texts(log'[i])
                 PROVE  CleanText(t)
      BY DEF LogClean, CleanText, Without
    <3> QED  BY <1>1, <2>3, <2>5 DEF LogClean, CleanText, Without
  <2>7. LogSafe'
    <3> SUFFICES ASSUME NEW i \in DOMAIN log', Proto(log'[i].conn) = "http"
                 PROVE  Safe(log'[i].cmd)
      BY DEF LogSafe, Safe, Proto
    <3> QED  BY <1>1, <2>3, <2>5 DEF LogSafe
  <2> QED  BY <2>5, <2>6, <2>7
<1> QED  BY <1>3, <1>4, <1>5 DEF Logs

LEMMA OthersSend ==
  ASSUME SentOK, SentSafe, NEW c, Proto(c) # "http", client' = client, Sends(c)
  PROVE  SentOK' /\ SentSafe'
<1>1. Of("http")' = Of("http") /\ c \notin Of("http") /\ Of("http") \subseteq Conns
  BY DEF Of, Proto
<1>2. DOMAIN sent' = Conns /\ \A d \in Of("http") : sent'[d] = sent[d]
  BY <1>1 DEF Sends, SentOK
<1> QED  BY <1>1, <1>2 DEF SentOK, SentSafe

LEMMA HttpSends ==
  ASSUME SentOK, SentSafe, NEW c \in Conns, Proto(c) = "http", client' = client, Replies(c)
  PROVE  SentOK' /\ SentSafe'
<1>1. Of("http")' = Of("http") /\ c \in Of("http") /\ Of("http") \subseteq Conns
  BY DEF Of, Proto
<1>2. CASE sent' = sent
  BY <1>1, <1>2 DEF SentOK, SentSafe
<1>3. PICK S : sent[c] \in Seq(S)
  BY <1>1 DEF SentOK
<1>4. ASSUME NEW v, sent' = [sent EXCEPT ![c] = v], \E T : v \in Seq(T),
             \A i \in DOMAIN v : Safe(v[i].path)
      PROVE  SentOK' /\ SentSafe'
  <2>1. /\ DOMAIN sent' = Conns /\ sent'[c] = v
        /\ \A d \in Of("http") : d # c => sent'[d] = sent[d]
    BY <1>1, <1>4 DEF SentOK
  <2>2. ASSUME NEW d \in Of("http")
        PROVE  /\ \E T : sent'[d] \in Seq(T)
               /\ \A i \in DOMAIN sent'[d] : Safe(sent'[d][i].path)
    <3>1. CASE d = c
      BY <1>4, <2>1, <3>1
    <3>2. CASE d # c
      BY <2>1, <3>2 DEF SentOK, SentSafe
    <3> QED  BY <3>1, <3>2
  <2> QED  BY <1>1, <2>1, <2>2 DEF SentOK, SentSafe
<1>5. CASE sent' = [sent EXCEPT ![c] = @ \o << >>]
  <2>1. sent[c] \o << >> = sent[c]
    BY <1>3, ConcatEmptySeq
  <2> QED  BY <1>1, <1>3, <1>4, <1>5, <2>1 DEF SentSafe
<1>6. ASSUME NEW r, Safe(r.path), sent' = [sent EXCEPT ![c] = @ \o <<r>>]
      PROVE  SentOK' /\ SentSafe'
  <2> DEFINE v == sent[c] \o <<r>>
  <2>1. /\ \E T : v \in Seq(T)
        /\ \A i \in DOMAIN v : (i \in DOMAIN sent[c] /\ v[i] = sent[c][i]) \/ v[i] = r
    BY <1>3, AppendOne
  <2>2. sent' = [sent EXCEPT ![c] = v]
    BY <1>6
  <2> HIDE DEF v
  <2>3. \A i \in DOMAIN v : Safe(v[i].path)
    BY <1>1, <1>6, <2>1 DEF SentSafe
  <2> QED  BY <1>4, <2>1, <2>2, <2>3
<1> QED  BY <1>2, <1>5, <1>6 DEF Replies

LEMMA LInvStep == LInv /\ [Next]_vars => LInv'
<1> SUFFICES ASSUME LInv, [Next]_vars PROVE LInv'
  OBVIOUS
<1>1. SentOK /\ SentSafe
  BY PathsParts DEF LInv
<1>2. ASSUME NEW c, client' = client, Logs(c), SentOK' /\ SentSafe'
      PROVE  LInv'
  <2>1. LogOK' /\ LogClean' /\ LogSafe'
    BY <1>2, LogStep
  <2>2. PathsSafe'
    BY <1>2, <2>1 DEF PathsSafe, LogSafe, SentSafe
  <2> QED  BY <1>2, <2>1, <2>2 DEF LInv
<1>3. ASSUME NEW c \in Conns, RedisNext(c) PROVE LInv'
  BY <1>1, <1>2, <1>3, RedisShape, RedisWrites, OthersSend
<1>4. ASSUME NEW c \in Conns, MySQLNext(c) PROVE LInv'
  <2>1. client' = client
    BY <1>4, MySQLForeign DEF Foreign
  <2> QED  BY <1>1, <1>2, <1>4, <2>1, MySQLWrites, OthersSend
<1>5. ASSUME NEW c \in Conns, PostgresNext(c) PROVE LInv'
  <2>1. client' = client
    BY <1>5, PostgresForeign DEF Foreign
  <2> QED  BY <1>1, <1>2, <1>5, <2>1, PostgresWrites, OthersSend
<1>6. ASSUME NEW c \in Conns, HttpNext(c) PROVE LInv'
  <2>1. client' = client
    BY <1>6, HttpForeign DEF Foreign
  <2> QED  BY <1>1, <1>2, <1>6, <2>1, HttpWrites, HttpSends
<1>7. CASE UNCHANGED vars
  BY <1>7 DEF vars, LInv, LogOK, SentOK, LogClean, PathsSafe, Of, Proto
<1> QED  BY <1>3, <1>4, <1>5, <1>6, <1>7 DEF Next, Rest

\* The inductive invariant of the log and of the HTTP replies holds in every
\* reachable state.
THEOREM LogInvariance == Spec => []LInv
<1>1. Init => LInv
  <2> SUFFICES ASSUME Init PROVE LInv
    OBVIOUS
  <2>1. log = << >> /\ sent = [c \in Conns |-> << >>]
    BY DEF Init
  <2>2. LogOK /\ DOMAIN log = {}
    BY <2>1 DEF LogOK
  <2>3. Of("http") \subseteq Conns
    BY DEF Of
  <2>4. SentOK /\ SentSafe
    BY <2>1, <2>3 DEF SentOK, SentSafe
  <2> QED  BY <2>2, <2>4 DEF LInv, LogClean, PathsSafe, SentSafe
<1>2. LInv /\ [Next]_vars => LInv'
  BY LInvStep
<1> QED  BY <1>1, <1>2, PTL DEF Spec

\* Whatever the clients of any protocol send and wherever a cut falls, no field of
\* any event in the log holds a control character or bytes that are not UTF-8, and
\* none has more runes than the limit of sanitizeStr.
THEOREM LogAlwaysClean == Spec => []LogClean
<1>1. LInv => LogClean
  BY DEF LInv
<1> QED  BY <1>1, LogInvariance, PTL

\* Whatever path a request has, its line in the log and what the reply reflects of
\* it hold only the characters sanitizePath lets through.
THEOREM PathsAlwaysSafe == Spec => []PathsSafe
<1>1. LInv => PathsSafe
  BY DEF LInv
<1> QED  BY <1>1, LogInvariance, PTL
=============================================================================
