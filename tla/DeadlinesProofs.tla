-------------------------- MODULE DeadlinesProofs --------------------------
(***************************************************************************)
(* Proofs that the deadlines bound the life of a connection, for every     *)
(* value of the timeouts.  The clock only moves inside a blocking read or  *)
(* write, so the argument is about what the read deadline can be at each   *)
(* step of the handlers.  The tables of the handlers are read once, in     *)
(* lemmas TableFacts, AnsweringFacts and RestartFacts; the rest is         *)
(* arithmetic.                                                             *)
(***************************************************************************)
EXTENDS Deadlines, TLAPS

\* The steps that read a message, and those among them that log a client in.
Logins == {"response", "startup", "password"}
Reads == Logins \cup {"message"}

-----------------------------------------------------------------------------
(* What the handlers' tables say. *)

\* The facts about one table t that the invariant needs: where it reads, where
\* it sets the login timeout, and which steps can follow which.
Table(p, t) ==
  /\ {"closed", "message"} \subseteq DOMAIN t
  /\ \A l \in DOMAIN t :
       /\ t[l].op = "read" => l \in Reads
       /\ t[l].op = "auth" => l = "await" \/ (l = "start" /\ p = "postgres")
       /\ l = "await" => t[l].op = "auth"
       /\ l = "closed" => t[l].op = "none"
       /\ l = "ssl" => t[l].op = "write"
       /\ l = "startup" => t[l].op = "read" /\ p = "postgres"
       /\ l = "start" /\ t[l].op \in {"read", "write"} => p = "mysql"
       /\ \A q \in t[l].next :
            /\ q \in DOMAIN t
            /\ q # "start"
            /\ q = "message" => t[l].op = "ctx"
            /\ q = "await" => t[l].op = "write"
            /\ q = "ssl" => l = "startup"
            /\ q = "startup" => l = "ssl" \/ (l = "start" /\ p = "postgres" /\ t[l].op = "auth")
            /\ q \in {"response", "password"} => t[l].op = "auth"

\* Each handler's table satisfies them.
LEMMA TableFacts ==
  ASSUME NEW p \in {"redis", "mysql", "postgres", "mongodb"}
  PROVE  Table(p, Code[p])
<1>1. Table("redis", RedisCode)
  BY DEF Table, RedisCode, Step, Reads, Logins
<1>2. Table("mysql", MySQLCode)
  BY DEF Table, MySQLCode, Step, Reads, Logins
<1>3. Table("postgres", PostgresCode)
  BY DEF Table, PostgresCode, Step, Reads, Logins
<1>4. Table("mongodb", MongoDBCode)
  BY DEF Table, MongoDBCode, Step, Reads, Logins
<1>5. /\ Code["redis"] = RedisCode
      /\ Code["mysql"] = MySQLCode
      /\ Code["postgres"] = PostgresCode
      /\ Code["mongodb"] = MongoDBCode
  BY DEF Code
<1> QED  BY <1>1, <1>2, <1>3, <1>4, <1>5

-----------------------------------------------------------------------------
(* The inductive invariant. *)

DrainLimit == Later(cancelAt + IdleTimeout, ConnTimeout + AuthTimeout)

\* No handler touches the write deadline, and the read deadline is the one Serve
\* set or lies at most an idle timeout ahead.
Armed == /\ writeDL = ConnTimeout
         /\ readDL <= now + IdleTimeout \/ readDL <= ConnTimeout
         /\ cancelAt <= now

\* A login starts before s.connTimeout, because a successful write or the entry
\* of the handler precedes it, so its read ends at most a login timeout later.
LoginBound == /\ pc \in {"start", "await"} => now <= ConnTimeout
              /\ pc \in Logins => readDL <= ConnTimeout + AuthTimeout

\* PostgreSQL's startup deadline is set once, at time 0.
StartupBound == /\ pc = "start" /\ proto = "postgres" => now = 0
                /\ pc \in {"startup", "ssl"} => readDL = AuthTimeout

\* The read in progress when ctx is cancelled ends in time.
DrainRead == ctxDone /\ pc = "message" => readDL <= DrainLimit

\* Only redis reads through a buffer.
Unbuffered == buffered => proto = "redis"

DInv == TypeOK /\ Unbuffered /\ Armed /\ LoginBound /\ StartupBound /\ DrainRead /\ DrainBound

\* The tables' facts, for the step the handler is at.
LEMMA Here ==
  ASSUME TypeOK
  PROVE  /\ proto \in {"redis", "mysql", "postgres", "mongodb"}
         /\ Table(proto, Code[proto])
         /\ pc \in DOMAIN Code[proto]
         /\ Op = Code[proto][pc].op
  BY DeadlinesAssumption, TableFacts DEF TypeOK, Op

\* What a step that follows the table may lead to.
LEMMA Follows ==
  ASSUME TypeOK, Goto
  PROVE  /\ pc' \in DOMAIN Code[proto]
         /\ pc' # "start"
         /\ pc' = "message" => Op = "ctx"
         /\ pc' = "await" => Op = "write"
         /\ pc' = "ssl" => pc = "startup"
         /\ pc' = "startup" => pc = "ssl" \/ (pc = "start" /\ proto = "postgres" /\ Op = "auth")
         /\ pc' \in {"response", "password"} => Op = "auth"
  BY Here DEF Goto, Table

\* Where the operations are.
LEMMA Operations ==
  ASSUME TypeOK
  PROVE  /\ Op = "read" => pc \in Reads
         /\ Op = "auth" => pc = "await" \/ (pc = "start" /\ proto = "postgres")
         /\ pc = "await" => Op = "auth"
         /\ pc = "closed" => Op = "none"
         /\ pc = "ssl" => Op = "write"
         /\ pc = "startup" => Op = "read" /\ proto = "postgres"
         /\ pc = "start" /\ Op \in {"read", "write"} => proto = "mysql"
         /\ {"closed", "message"} \subseteq DOMAIN Code[proto]
  BY Here DEF Table

\* Every step of the handler, the client, the clock and main preserves it.
LEMMA Preserved ==
  ASSUME DInv, [Next]_vars
  PROVE  DInv'
<1> USE DeadlinesAssumption
<1>o. TypeOK
  BY DEF DInv
<1>b. Unbuffered'
  <2>1. CASE UNCHANGED <<proto, buffered>>
    BY <2>1 DEF DInv, Unbuffered
  <2>2. CASE ReadBuffered
    BY <2>2 DEF ReadBuffered, DInv, Unbuffered
  <2>3. CASE Receive
    BY <2>3 DEF Receive, Unbuffered
  <2> QED
    BY <2>1, <2>2, <2>3
    DEF Next, Handler, Arm, CheckCtx, Write, TimeOut, Fail, Tick, Cancel, Closed, vars
<1>1. CASE Arm
  <2>g. Goto
    BY <1>1 DEF Arm
  <2>1. TypeOK'
    BY <1>1, <1>o, <2>g, Follows DEF Arm, TypeOK
  <2>2. Armed'
    BY <1>1, <1>o DEF Arm, DInv, Armed, TypeOK
  <2>u. UNCHANGED <<proto, now, ctxDone, cancelAt>>
    BY <1>1 DEF Arm
  <2>o. \/ Op = "idle" /\ readDL' = now + IdleTimeout
        \/ Op = "auth" /\ readDL' = now + AuthTimeout
    BY <1>1 DEF Arm
  <2>n. /\ pc' \notin {"start", "await", "message", "ssl"}
        /\ pc # "closed"
        /\ pc' \in Logins => readDL' = now + AuthTimeout /\ pc \in {"start", "await"}
        /\ pc' = "startup" => pc = "start" /\ proto = "postgres"
    <3>1. Op # "ctx" /\ Op # "write" /\ Op # "read" /\ Op # "none"
      BY <2>o
    <3>2. pc' \in Logins => Op = "auth"
      BY <1>o, <2>g, <3>1, Follows, Operations DEF Logins
    <3>3. Op = "auth" => readDL' = now + AuthTimeout
      BY <2>o
    <3> QED  BY <1>o, <2>g, <3>1, <3>2, <3>3, Follows, Operations
  <2>3. LoginBound' /\ StartupBound'
    <3>1. now \in Nat
      BY <1>o DEF TypeOK
    <3>2. now' = now /\ proto' = proto
      BY <2>u
    <3> QED  BY <3>1, <3>2, <2>n DEF DInv, LoginBound, StartupBound, Logins
  <2>4. DrainRead' /\ DrainBound'
    BY <2>n, <2>u DEF DInv, DrainRead, DrainBound, Open
  <2> QED  BY <1>b, <2>1, <2>2, <2>3, <2>4 DEF DInv
<1>2. CASE CheckCtx
  <2>1. TypeOK'
    BY <1>2, <1>o, Operations DEF CheckCtx, TypeOK
  <2>u. UNCHANGED <<proto, now, readDL, writeDL, cancelAt>>
    BY <1>2 DEF CheckCtx
  <2>n. pc' \in {"closed", "message"}
    BY <1>2 DEF CheckCtx
  <2>c. pc' = "message" => ~ctxDone'
    BY <1>2 DEF CheckCtx
  <2>2. Armed' /\ LoginBound' /\ StartupBound'
    BY <2>u, <2>n DEF DInv, Armed, LoginBound, StartupBound, Logins
  <2>3. DrainRead' /\ DrainBound'
    BY <2>n, <2>c DEF DrainRead, DrainBound, Open
  <2> QED  BY <1>b, <2>1, <2>2, <2>3 DEF DInv
<1>3. CASE Write
  <2>g. Goto
    BY <1>3 DEF Write
  <2>1. TypeOK'
    BY <1>3, <1>o, <2>g, Follows DEF Write, TypeOK
  <2>2. Armed'
    BY <1>3, <1>o DEF Write, DInv, Armed
  <2>3. LoginBound' /\ StartupBound'
    BY <1>3, <1>o, <2>g, Follows
    DEF Write, DInv, Armed, LoginBound, StartupBound, TypeOK, Logins
  <2>n. Op = "write" /\ pc' # "message" /\ pc # "closed"
    BY <1>3, <1>o, <2>g, Follows, Operations DEF Write
  <2>u. UNCHANGED <<now, ctxDone, cancelAt>>
    BY <1>3 DEF Write
  <2>4. DrainRead' /\ DrainBound'
    BY <2>n, <2>u DEF DInv, DrainRead, DrainBound, Open
  <2> QED  BY <1>b, <2>1, <2>2, <2>3, <2>4 DEF DInv
<1>4. CASE ReadBuffered \/ Receive
  <2>g. Goto /\ Op = "read"
    BY <1>4 DEF ReadBuffered, Receive
  <2>u. UNCHANGED <<proto, now, readDL, writeDL, ctxDone, cancelAt>>
    BY <1>4 DEF ReadBuffered, Receive
  <2>v. lastRead' = now /\ lastWrite' = lastWrite /\ buffered' \in BOOLEAN
    BY <1>4 DEF ReadBuffered, Receive
  <2>1. TypeOK'
    BY <1>o, <2>u, <2>v, <2>g, Follows DEF TypeOK
  <2>2. Armed'
    BY <1>o, <2>u DEF DInv, Armed
  <2>3. LoginBound' /\ StartupBound'
    BY <1>o, <2>u, <2>g, Follows, Operations
    DEF DInv, LoginBound, StartupBound, TypeOK, Logins, Reads
  <2>4. DrainRead' /\ DrainBound'
    BY <1>o, <2>u, <2>g, Follows, Operations
    DEF DInv, DrainRead, DrainBound, DrainLimit, Open, Later, TypeOK, Reads, Logins
  <2> QED  BY <1>b, <2>1, <2>2, <2>3, <2>4 DEF DInv
<1>5. CASE TimeOut \/ Fail
  <2>u. pc' = "closed" /\ UNCHANGED <<proto, now, readDL, writeDL, buffered, ctxDone, cancelAt, lastRead, lastWrite>>
    BY <1>5 DEF TimeOut, Fail
  <2>1. TypeOK'
    BY <1>o, <2>u, Operations DEF TypeOK
  <2>2. Armed' /\ LoginBound' /\ StartupBound'
    BY <2>u DEF DInv, Armed, LoginBound, StartupBound, Logins
  <2>3. DrainRead' /\ DrainBound'
    BY <2>u DEF DrainRead, DrainBound, Open
  <2> QED  BY <1>b, <2>1, <2>2, <2>3 DEF DInv
<1>6. CASE Tick
  <2>b. \/ Op = "read" /\ now < readDL
        \/ Op = "write" /\ now < ConnTimeout
    BY <1>6 DEF Tick, Blocked, DInv, Armed
  <2>1. TypeOK'
    BY <1>6, <1>o DEF Tick, TypeOK
  <2>2. Armed'
    BY <1>6, <1>o DEF Tick, DInv, Armed, TypeOK
  <2>3. LoginBound' /\ StartupBound'
    BY <1>6, <1>o, <2>b, Operations
    DEF Tick, DInv, LoginBound, StartupBound, TypeOK, Reads, Logins
  <2>4. DrainRead'
    BY <1>6, <1>o DEF Tick, DInv, DrainRead, DrainLimit, Later
  <2>5. DrainBound'
    BY <1>6, <1>o, <2>b, Operations
    DEF Tick, DInv, LoginBound, DrainRead, DrainLimit, DrainBound, Open, Later, TypeOK, Reads
  <2> QED  BY <1>b, <2>1, <2>2, <2>3, <2>4, <2>5 DEF DInv
<1>7. CASE Cancel
  <2>1. TypeOK' /\ Armed' /\ LoginBound' /\ StartupBound'
    BY <1>7, <1>o DEF Cancel, DInv, Armed, LoginBound, StartupBound, TypeOK
  <2>2. DrainRead' /\ DrainBound'
    BY <1>7, <1>o DEF Cancel, DInv, Armed, DrainRead, DrainLimit, DrainBound, Open, Later, TypeOK
  <2> QED  BY <1>b, <2>1, <2>2 DEF DInv
<1>8. CASE UNCHANGED vars
  BY <1>8, <1>o
  DEF vars, DInv, Unbuffered, TypeOK, Armed, LoginBound, StartupBound, DrainRead, DrainLimit, DrainBound, Open, Later
<1> QED
  BY <1>1, <1>2, <1>3, <1>4, <1>5, <1>6, <1>7, <1>8 DEF Next, Handler, Closed

\* The invariant of the deadlines, for all four protocols.
THEOREM DeadlinesInvariance == Spec => []DInv
<1>1. Init => DInv
  <2> SUFFICES ASSUME Init PROVE DInv
    OBVIOUS
  <2>1. "start" \in DOMAIN Code[proto]
    <3>1. proto \in {"redis", "mysql", "postgres", "mongodb"}
      BY DeadlinesAssumption DEF Init
    <3>2. /\ "start" \in DOMAIN RedisCode
          /\ "start" \in DOMAIN MySQLCode
          /\ "start" \in DOMAIN PostgresCode
          /\ "start" \in DOMAIN MongoDBCode
      BY DEF RedisCode, MySQLCode, PostgresCode, MongoDBCode
    <3> QED  BY <3>1, <3>2 DEF Code
  <2>2. TypeOK
    BY <2>1, DeadlinesAssumption DEF Init, TypeOK
  <2> QED
    BY <2>2, DeadlinesAssumption
    DEF Init, DInv, Unbuffered, Armed, LoginBound, StartupBound, DrainRead, DrainBound, Logins
<1>2. DInv /\ [Next]_vars => DInv'
  BY Preserved
<1> QED  BY <1>1, <1>2, PTL DEF Spec

\* Type correctness; the handler is always at a step of its own table.
THEOREM DeadlinesTypeCorrect == Spec => []TypeOK
<1>1. DInv => TypeOK
  BY DEF DInv
<1> QED  BY <1>1, DeadlinesInvariance, PTL

\* A handler is gone an idle timeout after the cancellation of ctx, or a login
\* timeout after s.connTimeout, whichever is later.
THEOREM Drains == Spec => []DrainBound
<1>1. DInv => DrainBound
  BY DEF DInv
<1> QED  BY <1>1, DeadlinesInvariance, PTL

\* SSLRequests do not extend PostgreSQL's startup phase.
THEOREM Negotiates == Spec => NegotiationWindow
<1>1. DInv /\ [Next]_vars => [pc = "startup" /\ pc' = "challenge" => now < AuthTimeout]_vars
  <2> SUFFICES ASSUME DInv, Next, pc = "startup", pc' = "challenge"
               PROVE  now < AuthTimeout
    OBVIOUS
  <2>1. TypeOK /\ readDL = AuthTimeout /\ Unbuffered
    BY DEF DInv, StartupBound
  <2>2. Op = "read" /\ proto = "postgres"
    BY <2>1, Operations
  <2>3. ~buffered
    BY <2>1, <2>2 DEF Unbuffered
  <2>4. ~Arm /\ ~CheckCtx /\ ~Write
    BY <2>2 DEF Arm, CheckCtx, Write
  <2>5. ~ReadBuffered
    BY <2>3 DEF ReadBuffered
  <2>6. ~TimeOut /\ ~Fail /\ ~Tick /\ ~Cancel /\ ~Closed
    BY DEF TimeOut, Fail, Tick, Cancel, Closed
  <2>7. Receive
    BY <2>4, <2>5, <2>6 DEF Next, Handler
  <2> QED  BY <2>1, <2>7 DEF Receive
<1> QED  BY <1>1, DeadlinesInvariance, PTL DEF Spec, NegotiationWindow

-----------------------------------------------------------------------------
(* The handlers that answer every message. *)

\* The steps a handler reaches only by entering or right after a write.
Early(p) == {"start", "await", "arm"} \cup {l \in {"rearm"} : p = "mysql"}

\* Where the read deadline set last is the one that will apply.
Waiting == Reads \cup {"loop"}

\* Between two reads, Redis and MySQL write: a deadline is set right after a
\* write, or a write follows it.
Answers(p, t) ==
  \A l \in DOMAIN t :
    /\ t[l].op \in {"read", "ctx"} => l \in Waiting
    /\ t[l].op = "auth" => l \in Early(p)
    /\ \A q \in t[l].next :
         /\ q \in Early(p) => t[l].op = "write"
         /\ q \in Waiting /\ t[l].op = "idle" => l \in Early(p)

LEMMA AnsweringFacts ==
  ASSUME NEW p \in {"redis", "mysql"}
  PROVE  Answers(p, Code[p])
<1>1. Answers("redis", RedisCode)
  BY DEF Answers, RedisCode, Step, Early, Waiting, Reads, Logins
<1>2. Answers("mysql", MySQLCode)
  BY DEF Answers, MySQLCode, Step, Early, Waiting, Reads, Logins
<1>3. Code["redis"] = RedisCode /\ Code["mysql"] = MySQLCode
  BY DEF Code
<1> QED  BY <1>1, <1>2, <1>3

\* The backstop, what the pending read deadline can be, and when it is set.
LInv == /\ LifetimeBound
        /\ pc \in Waiting => readDL <= ConnTimeout + IdleTimeout
        /\ pc \in Early(proto) => now <= ConnTimeout

\* Only a blocked read or a blocked write lets time pass, and the write deadline
\* is s.connTimeout.
LEMMA Answered ==
  ASSUME DInv, LInv, [Next]_vars, proto \in {"redis", "mysql"}
  PROVE  LInv'
<1> USE DeadlinesAssumption
<1>o. TypeOK /\ Armed
  BY DEF DInv
<1>n. /\ now \in Nat /\ readDL \in Nat /\ writeDL = ConnTimeout
      /\ pc \in DOMAIN Code[proto] /\ Op = Code[proto][pc].op
  BY <1>o, Here DEF TypeOK, Armed
<1>t. Answers(proto, Code[proto])
  BY AnsweringFacts
<1>p. /\ Op \in {"read", "ctx"} => pc \in Waiting
      /\ Op = "auth" => pc \in Early(proto)
      /\ Goto => /\ pc' \in Early(proto) => Op = "write"
                 /\ pc' \in Waiting /\ Op = "idle" => pc \in Early(proto)
  BY <1>n, <1>t DEF Answers, Goto
<1>c. pc = "closed" => Op = "none"
  BY <1>o, Operations
<1>e. "closed" \notin Waiting /\ \A p : "closed" \notin Early(p) /\ "message" \notin Early(p)
  BY DEF Waiting, Reads, Logins, Early
<1>1. CASE Arm
  <2>1. Goto /\ proto' = proto /\ now' = now
    BY <1>1 DEF Arm
  <2>2. \/ Op = "idle" /\ readDL' = now + IdleTimeout
        \/ Op = "auth" /\ readDL' = now + AuthTimeout
    BY <1>1 DEF Arm
  <2>3. pc # "closed" /\ pc' \notin Early(proto)
    BY <1>p, <1>c, <2>1, <2>2
  <2>4. pc' \in Waiting => now <= ConnTimeout
    BY <1>p, <2>1, <2>2 DEF LInv
  <2> QED  BY <1>n, <2>1, <2>2, <2>3, <2>4 DEF LInv, LifetimeBound, Open
<1>2. CASE CheckCtx
  <2>1. Op = "ctx" /\ pc' \in {"closed", "message"}
    BY <1>2 DEF CheckCtx
  <2>2. UNCHANGED <<proto, now, readDL>>
    BY <1>2 DEF CheckCtx
  <2> QED  BY <1>p, <1>c, <1>e, <2>1, <2>2 DEF LInv, LifetimeBound, Open
<1>3. CASE Write
  <2>1. Goto /\ Op = "write" /\ now < ConnTimeout
    BY <1>3, <1>n DEF Write
  <2>2. UNCHANGED <<proto, now, readDL>>
    BY <1>3 DEF Write
  <2>3. readDL <= ConnTimeout + IdleTimeout
    BY <1>o, <1>n, <2>1 DEF Armed
  <2> QED  BY <1>n, <1>c, <2>1, <2>2, <2>3 DEF LInv, LifetimeBound, Open
<1>4. CASE ReadBuffered \/ Receive
  <2>1. Goto /\ Op = "read"
    BY <1>4 DEF ReadBuffered, Receive
  <2>2. UNCHANGED <<proto, now, readDL>>
    BY <1>4 DEF ReadBuffered, Receive
  <2>3. pc' \notin Early(proto) /\ pc \in Waiting /\ pc # "closed"
    BY <1>p, <1>c, <2>1
  <2> QED  BY <2>2, <2>3 DEF LInv, LifetimeBound, Open
<1>5. CASE TimeOut \/ Fail
  <2>1. pc' = "closed" /\ UNCHANGED <<proto, now, readDL>>
    BY <1>5 DEF TimeOut, Fail
  <2> QED  BY <1>e, <2>1 DEF LInv, LifetimeBound, Open
<1>6. CASE Tick
  <2>1. UNCHANGED <<proto, pc, readDL>> /\ now' = now + 1
    BY <1>6 DEF Tick
  <2>2. \/ Op = "read" /\ now < readDL
        \/ Op = "write" /\ now < ConnTimeout
    BY <1>6, <1>n DEF Tick, Blocked
  <2>3. pc \in Early(proto) => now < ConnTimeout
    <3>1. Op = "read" => pc \notin Early(proto)
      BY <1>o, Operations DEF Early, Reads, Logins
    <3> QED  BY <2>2, <3>1
  <2>4. now < ConnTimeout + IdleTimeout
    BY <1>n, <1>p, <2>2 DEF LInv
  <2> QED  BY <1>n, <2>1, <2>3, <2>4 DEF LInv, LifetimeBound, Open
<1>7. CASE Cancel \/ UNCHANGED vars
  <2>1. UNCHANGED <<proto, pc, now, readDL>>
    BY <1>7 DEF Cancel, vars
  <2> QED  BY <2>1 DEF LInv, LifetimeBound, Open
<1> QED
  BY <1>1, <1>2, <1>3, <1>4, <1>5, <1>6, <1>7 DEF Next, Handler, Closed

\* The wall-clock backstop of the protocols that answer every message: such a
\* connection is gone one idle timeout after s.connTimeout.
THEOREM Lifetime == Spec => []AnsweredLifetime
<1> DEFINE Inv == proto \in {"redis", "mysql"} => LInv
<1>1. Init => Inv
  BY DeadlinesAssumption DEF Init, LInv, LifetimeBound, Waiting, Reads, Logins
<1>2. DInv /\ Inv /\ [Next]_vars => Inv'
  <2> SUFFICES ASSUME DInv, Inv, [Next]_vars, proto' \in {"redis", "mysql"}
               PROVE  LInv'
    OBVIOUS
  <2>1. proto' = proto
    BY DEF Next, Handler, Arm, CheckCtx, Write, ReadBuffered, TimeOut, Receive,
           Fail, Tick, Cancel, Closed, vars
  <2>2. proto \in {"redis", "mysql"} /\ LInv
    BY <2>1
  <2> QED  BY <2>2, Answered
<1>3. Inv => AnsweredLifetime
  BY DEF LInv, AnsweredLifetime
<1> QED  BY <1>1, <1>2, <1>3, DeadlinesInvariance, PTL DEF Spec

-----------------------------------------------------------------------------
(* The idle timeout. *)

\* The steps at which the read deadline is the one set for the last message, or,
\* with MySQL, the last answer.  Redis and MongoDB set it before they reply, the
\* others after.
Fresh(p) == {"loop", "message"} \cup {l \in {"reply"} : p \in {"redis", "mongodb"}}

\* Such a step is reached by setting the idle timeout, from another such step
\* without a message, or by MySQL's empty packet; MySQL sets the idle timeout right
\* after a write, and writes only where it is about to be set.
Restarts(p, t) ==
  /\ \A l \in DOMAIN t :
       /\ t[l].op = "ctx" => l \in Fresh(p)
       /\ \A q \in t[l].next :
            /\ q \in Fresh(p) =>
                 \/ t[l].op = "idle"
                 \/ t[l].op = "ctx" /\ l \in Fresh(p)
                 \/ t[l].op = "write" /\ l \in Fresh(p) /\ p # "mysql"
                 \/ t[l].op = "read" /\ l \in Fresh(p) /\ p = "mysql"
            /\ t[q].op = "idle" /\ p = "mysql" => t[l].op = "write"
  /\ t["closed"].op = "none" /\ t["message"].op = "read"

LEMMA RestartFacts ==
  ASSUME NEW p \in {"redis", "mysql", "postgres", "mongodb"}
  PROVE  Restarts(p, Code[p])
<1>1. Restarts("redis", RedisCode)
  BY DEF Restarts, RedisCode, Step, Fresh
<1>2. Restarts("mysql", MySQLCode)
  BY DEF Restarts, MySQLCode, Step, Fresh
<1>3. Restarts("postgres", PostgresCode)
  BY DEF Restarts, PostgresCode, Step, Fresh
<1>4. Restarts("mongodb", MongoDBCode)
  BY DEF Restarts, MongoDBCode, Step, Fresh
<1>5. /\ Code["redis"] = RedisCode
      /\ Code["mysql"] = MySQLCode
      /\ Code["postgres"] = PostgresCode
      /\ Code["mongodb"] = MongoDBCode
  BY DEF Code
<1> QED  BY <1>1, <1>2, <1>3, <1>4, <1>5

FInv == /\ lastRead <= now
        /\ Op = "idle" /\ proto = "mysql" => lastWrite = now
        /\ pc \in Fresh(proto) =>
             IF proto = "mysql" THEN readDL = lastWrite + IdleTimeout
                                ELSE readDL >= lastRead + IdleTimeout

\* A step that sets no deadline reaches such a step only from another one.
LEMMA Restarted ==
  ASSUME DInv, FInv, [Next]_vars
  PROVE  FInv'
<1> USE DeadlinesAssumption
<1>o. TypeOK /\ Unbuffered
  BY DEF DInv
<1>n. now \in Nat /\ readDL \in Nat /\ lastRead \in Nat /\ lastWrite \in Nat
  BY <1>o DEF TypeOK
<1>t. Restarts(proto, Code[proto]) /\ pc \in DOMAIN Code[proto] /\ Op = Code[proto][pc].op
  BY <1>o, Here, RestartFacts
<1>p. /\ Op = "ctx" => pc \in Fresh(proto)
      /\ Goto /\ pc' \in Fresh(proto) =>
           \/ Op = "idle"
           \/ Op = "ctx" /\ pc \in Fresh(proto)
           \/ Op = "write" /\ pc \in Fresh(proto) /\ proto # "mysql"
           \/ Op = "read" /\ pc \in Fresh(proto) /\ proto = "mysql"
  BY <1>t DEF Restarts, Goto
<1>q. Goto /\ proto' = proto /\ Op' = "idle" /\ proto = "mysql" => Op = "write"
  BY <1>t DEF Restarts, Goto, Op
<1>r. proto' = proto /\ pc' \in {"closed", "message"} => Op' # "idle"
  BY <1>t DEF Restarts, Op
<1>c. "closed" \notin Fresh(proto)
  BY DEF Fresh
<1>1. CASE Arm
  <2>1. Goto /\ UNCHANGED <<proto, now, lastRead, lastWrite>>
    BY <1>1 DEF Arm
  <2>2. \/ Op = "idle" /\ readDL' = now + IdleTimeout
        \/ Op = "auth"
    BY <1>1 DEF Arm
  <2>3. pc' \in Fresh(proto) => Op = "idle" /\ readDL' = now + IdleTimeout
    BY <1>p, <2>1, <2>2
  <2>4. Op' = "idle" => proto # "mysql"
    BY <1>q, <2>1, <2>2
  <2> QED  BY <1>n, <2>1, <2>3, <2>4 DEF FInv
<1>2. CASE CheckCtx
  <2>1. Op = "ctx" /\ UNCHANGED <<proto, now, readDL, lastRead, lastWrite>>
    BY <1>2 DEF CheckCtx
  <2>2. Op' # "idle"
    BY <1>2, <1>r, <2>1 DEF CheckCtx
  <2> QED  BY <1>p, <2>1, <2>2 DEF FInv
<1>3. CASE Write
  <2>1. /\ Op = "write" /\ Goto /\ lastWrite' = now
        /\ UNCHANGED <<proto, now, readDL, lastRead>>
    BY <1>3 DEF Write
  <2>2. pc' \in Fresh(proto) => pc \in Fresh(proto) /\ proto # "mysql"
    BY <1>p, <2>1
  <2> QED  BY <2>1, <2>2 DEF FInv
<1>4. CASE ReadBuffered \/ Receive
  <2>1. /\ Op = "read" /\ Goto
        /\ lastRead' = now /\ UNCHANGED <<proto, now, readDL, lastWrite>>
    BY <1>4 DEF ReadBuffered, Receive
  <2>2. pc' \in Fresh(proto) => pc \in Fresh(proto) /\ proto = "mysql"
    BY <1>p, <2>1
  <2>3. Op' = "idle" => proto # "mysql"
    BY <1>q, <2>1
  <2> QED  BY <1>n, <2>1, <2>2, <2>3 DEF FInv
<1>5. CASE TimeOut \/ Fail
  <2>1. pc' = "closed" /\ UNCHANGED <<proto, now, lastRead>>
    BY <1>5 DEF TimeOut, Fail
  <2>2. Op' # "idle"
    BY <1>r, <2>1
  <2> QED  BY <1>c, <2>1, <2>2 DEF FInv
<1>6. CASE Tick
  <2>1. now' = now + 1 /\ UNCHANGED <<proto, pc, readDL, lastRead, lastWrite>>
    BY <1>6 DEF Tick
  <2>2. Op' # "idle"
    BY <1>6, <2>1 DEF Tick, Blocked, Op
  <2> QED  BY <1>n, <2>1, <2>2 DEF FInv
<1>7. CASE Cancel \/ UNCHANGED vars
  <2>1. UNCHANGED <<proto, pc, now, readDL, lastRead, lastWrite>>
    BY <1>7 DEF Cancel, vars
  <2> QED  BY <2>1 DEF FInv, Op
<1> QED
  BY <1>1, <1>2, <1>3, <1>4, <1>5, <1>6, <1>7 DEF Next, Handler, Closed

\* A client that keeps sending messages is never cut off for being idle: each one
\* restarts the idle timeout, answered or not.  The one exception is MySQL's empty
\* packet, which leaves the timeout counting from the last answer.
THEOREM Idles == Spec => []IdleOnEveryPath
<1>1. Init => FInv
  <2> SUFFICES ASSUME Init PROVE FInv
    OBVIOUS
  <2>1. MySQLCode["start"].op # "idle" /\ Code["mysql"] = MySQLCode
    BY DEF MySQLCode, Code, Step
  <2> QED  BY <2>1, DeadlinesAssumption DEF Init, FInv, Fresh, Op
<1>2. DInv /\ FInv /\ [Next]_vars => FInv'
  BY Restarted
<1>3. FInv => IdleOnEveryPath
  BY DEF FInv, Fresh, IdleOnEveryPath
<1> QED  BY <1>1, <1>2, <1>3, DeadlinesInvariance, PTL DEF Spec
=============================================================================
