----------------------------- MODULE Deadlines -----------------------------
(***************************************************************************)
(* How long a TCP connection lives: the deadlines that server.go and the   *)
(* Redis, MySQL, PostgreSQL and MongoDB handlers set, read and forget.     *)
(*                                                                         *)
(* A handler is a table of steps, each naming one operation on the         *)
(* connection and the steps that may follow:                               *)
(*   idle, auth   SetReadDeadline(now + 60 s), (now + 30 s)                *)
(*   read         wait for one message (conn read, or redis's bufio)       *)
(*   write        send a reply; consecutive sends are one step             *)
(*   ctx          the select on ctx.Done() at the head of the message loop *)
(* What a message says and what is logged about it is left out: a read is  *)
(* followed by any step some message leads to.  Time passes only while the *)
(* goroutine is blocked on the connection.                                 *)
(***************************************************************************)
EXTENDS Integers

CONSTANTS Protos,      \* the protocols considered
          ConnTimeout, \* s.connTimeout
          IdleTimeout, \* the 60 s of the message loops
          AuthTimeout, \* the 30 s of the logins
          MaxTime,     \* bound: the clock stops here
          LastCancel   \* bound: ctx is cancelled by then or never

ASSUME DeadlinesAssumption ==
  /\ Protos \subseteq {"redis", "mysql", "postgres", "mongodb"}
  /\ ConnTimeout \in Nat \ {0}
  /\ IdleTimeout \in Nat \ {0}
  /\ AuthTimeout \in Nat \ {0}
  /\ AuthTimeout <= IdleTimeout
  /\ MaxTime \in Nat
  /\ LastCancel \in Nat

VARIABLES proto,    \* the protocol of this connection
          pc,       \* the handler's next step
          now,      \* the clock
          readDL,   \* read deadline of the net.Conn
          writeDL,  \* write deadline of the net.Conn
          buffered, \* redis: a whole command is waiting in the bufio.Reader
          ctxDone,  \* ctx has been cancelled
          cancelAt, \* when it was
          lastRead, \* when the last message was read
          lastWrite \* when the last reply was sent

vars == <<proto, pc, now, readDL, writeDL, buffered, ctxDone, cancelAt, lastRead, lastWrite>>

-----------------------------------------------------------------------------
(* The handlers. *)

Step(op, next) == [op |-> op, next |-> next]

\* Faulty variant: resetDeadline is not called after a read.
RedisCodeNeverRearming ==
  [start   |-> Step("idle", {"loop"}),
   loop    |-> Step("ctx", {"message"}),
   message |-> Step("read", {"reply", "quit"}),
   rearm   |-> Step("idle", {"reply"}),
   reply   |-> Step("write", {"loop"}),
   quit    |-> Step("idle", {"closed"}),
   closed  |-> Step("none", {})]

\* QUIT returns io.EOF: its reply stays in the bufio.Writer, nothing is sent.
RedisCode ==
  [start   |-> Step("idle", {"loop"}),
   loop    |-> Step("ctx", {"message"}),
   message |-> Step("read", {"rearm", "quit"}),
   rearm   |-> Step("idle", {"reply"}),
   reply   |-> Step("write", {"loop"}),
   quit    |-> Step("idle", {"closed"}),
   closed  |-> Step("none", {})]

\* An empty packet continues the loop before the deadline is set again.
MySQLCode ==
  [start    |-> Step("write", {"await"}),
   await    |-> Step("auth", {"response"}),
   response |-> Step("read", {"ok"}),
   ok       |-> Step("write", {"arm"}),
   arm      |-> Step("idle", {"loop"}),
   loop     |-> Step("ctx", {"message"}),
   message  |-> Step("read", {"loop", "reply", "closed"}),
   reply    |-> Step("write", {"rearm"}),
   rearm    |-> Step("idle", {"loop"}),
   closed   |-> Step("none", {})]

\* Faulty variant: the deadline is set inside doStartup's loop.
PostgresCodeRearmingSSL ==
  [start     |-> Step("auth", {"startup"}),
   startup   |-> Step("read", {"ssl", "challenge", "closed"}),
   ssl       |-> Step("write", {"start"}),
   challenge |-> Step("write", {"await"}),
   await     |-> Step("auth", {"password"}),
   password  |-> Step("read", {"greet"}),
   greet     |-> Step("write", {"arm"}),
   arm       |-> Step("idle", {"loop"}),
   loop      |-> Step("ctx", {"message"}),
   message   |-> Step("read", {"reply", "rearm", "closed"}),
   reply     |-> Step("write", {"rearm"}),
   rearm     |-> Step("idle", {"loop"}),
   closed    |-> Step("none", {})]

\* doStartup loops on SSLRequest; an unknown message type is not answered.
PostgresCode ==
  [start     |-> Step("auth", {"startup"}),
   startup   |-> Step("read", {"ssl", "challenge", "closed"}),
   ssl       |-> Step("write", {"startup"}),
   challenge |-> Step("write", {"await"}),
   await     |-> Step("auth", {"password"}),
   password  |-> Step("read", {"greet"}),
   greet     |-> Step("write", {"arm"}),
   arm       |-> Step("idle", {"loop"}),
   loop      |-> Step("ctx", {"message"}),
   message   |-> Step("read", {"reply", "rearm", "closed"}),
   reply     |-> Step("write", {"rearm"}),
   rearm     |-> Step("idle", {"loop"}),
   closed    |-> Step("none", {})]

\* Faulty variant: the loop has no select on ctx.
MongoDBCodeIgnoringCtx ==
  [start   |-> Step("idle", {"message"}),
   loop    |-> Step("ctx", {"message"}),
   message |-> Step("read", {"rearm", "silent", "unknown"}),
   rearm   |-> Step("idle", {"reply"}),
   reply   |-> Step("write", {"message"}),
   silent  |-> Step("idle", {"message"}),
   unknown |-> Step("idle", {"closed"}),
   closed  |-> Step("none", {})]

\* Legacy operations and payloads too short to parse are not answered; an
\* unknown opcode closes the connection.
MongoDBCode ==
  [start   |-> Step("idle", {"loop"}),
   loop    |-> Step("ctx", {"message"}),
   message |-> Step("read", {"rearm", "silent", "unknown"}),
   rearm   |-> Step("idle", {"reply"}),
   reply   |-> Step("write", {"loop"}),
   silent  |-> Step("idle", {"loop"}),
   unknown |-> Step("idle", {"closed"}),
   closed  |-> Step("none", {})]

Code == [redis |-> RedisCode, mysql |-> MySQLCode,
         postgres |-> PostgresCode, mongodb |-> MongoDBCode]

Op == Code[proto][pc].op

Goto == pc' \in Code[proto][pc].next

-----------------------------------------------------------------------------

TypeOK ==
  /\ proto \in Protos
  /\ pc \in DOMAIN Code[proto]
  /\ now \in Nat
  /\ readDL \in Nat
  /\ writeDL \in Nat
  /\ buffered \in BOOLEAN
  /\ ctxDone \in BOOLEAN
  /\ cancelAt \in Nat
  /\ lastRead \in Nat
  /\ lastWrite \in Nat

\* SetDeadline in the connection's goroutine, then the handler is entered.
Init ==
  /\ proto \in Protos
  /\ pc = "start"
  /\ now = 0
  /\ readDL = ConnTimeout
  /\ writeDL = ConnTimeout
  /\ buffered = FALSE
  /\ ctxDone = FALSE
  /\ cancelAt = 0
  /\ lastRead = 0
  /\ lastWrite = 0

-----------------------------------------------------------------------------
(* What the handler's goroutine does. *)

\* Faulty variant: the timeout is subtracted.
ArmInThePast ==
  /\ \/ Op = "idle" /\ readDL' = now - IdleTimeout
     \/ Op = "auth" /\ readDL' = now - AuthTimeout
  /\ Goto
  /\ UNCHANGED <<proto, now, writeDL, buffered, ctxDone, cancelAt, lastRead, lastWrite>>

\* Faulty variant: SetDeadline instead of SetReadDeadline.
ArmBothWays ==
  /\ \/ Op = "idle" /\ readDL' = now + IdleTimeout
     \/ Op = "auth" /\ readDL' = now + AuthTimeout
  /\ writeDL' = readDL'
  /\ Goto
  /\ UNCHANGED <<proto, now, buffered, ctxDone, cancelAt, lastRead, lastWrite>>

\* SetReadDeadline; the write deadline keeps the value Serve gave it.
Arm ==
  /\ \/ Op = "idle" /\ readDL' = now + IdleTimeout
     \/ Op = "auth" /\ readDL' = now + AuthTimeout
  /\ Goto
  /\ UNCHANGED <<proto, now, writeDL, buffered, ctxDone, cancelAt, lastRead, lastWrite>>

CheckCtx ==
  /\ Op = "ctx"
  /\ pc' = IF ctxDone THEN "closed" ELSE "message"
  /\ UNCHANGED <<proto, now, readDL, writeDL, buffered, ctxDone, cancelAt, lastRead, lastWrite>>

\* A write succeeds only before the write deadline.
Write ==
  /\ Op = "write"
  /\ now < writeDL
  /\ Goto
  /\ lastWrite' = now
  /\ UNCHANGED <<proto, now, readDL, writeDL, buffered, ctxDone, cancelAt, lastRead>>

\* Redis parses a command that an earlier read has buffered: no deadline applies.
ReadBuffered ==
  /\ Op = "read"
  /\ buffered
  /\ Goto
  /\ lastRead' = now
  /\ buffered' \in BOOLEAN
  /\ UNCHANGED <<proto, now, readDL, writeDL, ctxDone, cancelAt, lastWrite>>

\* The deadline of the operation the goroutine is blocked in has passed.
Expired == \/ Op = "read" /\ ~buffered /\ now >= readDL
           \/ Op = "write" /\ now >= writeDL

Blocked == \/ Op = "read" /\ ~buffered /\ now < readDL
           \/ Op = "write" /\ now < writeDL

\* Every handler returns on the first read or write error.
TimeOut ==
  /\ Expired
  /\ pc' = "closed"
  /\ UNCHANGED <<proto, now, readDL, writeDL, buffered, ctxDone, cancelAt, lastRead, lastWrite>>

-----------------------------------------------------------------------------
(* What the client, the clock and main do. *)

\* A message arrives in time; with redis more commands may arrive with it.
Receive ==
  /\ Op = "read"
  /\ ~buffered
  /\ now < readDL
  /\ Goto
  /\ lastRead' = now
  /\ buffered' \in {b \in BOOLEAN : b => proto = "redis"}
  /\ UNCHANGED <<proto, now, readDL, writeDL, ctxDone, cancelAt, lastWrite>>

\* The client resets the connection or sends something malformed.
Fail ==
  /\ Op \in {"read", "write"}
  /\ pc' = "closed"
  /\ UNCHANGED <<proto, now, readDL, writeDL, buffered, ctxDone, cancelAt, lastRead, lastWrite>>

Tick ==
  /\ Blocked
  /\ now < MaxTime
  /\ now' = now + 1
  /\ UNCHANGED <<proto, pc, readDL, writeDL, buffered, ctxDone, cancelAt, lastRead, lastWrite>>

Cancel ==
  /\ ~ctxDone
  /\ now <= LastCancel
  /\ ctxDone' = TRUE
  /\ cancelAt' = now
  /\ UNCHANGED <<proto, pc, now, readDL, writeDL, buffered, lastRead, lastWrite>>

Closed == pc = "closed" /\ UNCHANGED vars

Handler == Arm \/ CheckCtx \/ Write \/ ReadBuffered \/ TimeOut

Next == Handler \/ Receive \/ Fail \/ Tick \/ Cancel \/ Closed

Spec == Init /\ [][Next]_vars

\* The goroutine runs unless it is blocked, and time passes.  A blocked write
\* need not succeed and the client need not send anything.
FairSpec == /\ Spec
            /\ WF_vars(Arm \/ CheckCtx \/ ReadBuffered \/ TimeOut)
            /\ WF_vars(Tick)

-----------------------------------------------------------------------------
(* Properties. *)

Open == pc # "closed"

Later(a, b) == IF a >= b THEN a ELSE b

\* What the comment in Serve says of the deadline, allowing for the read already
\* in progress: a connection is gone one idle timeout after s.connTimeout.
LifetimeBound == Open => now <= ConnTimeout + IdleTimeout

\* The handlers overwrite the read deadline, so only the write deadline enforces
\* that.  It does for the protocols that answer every message with effect.
AnsweredLifetime == proto \in {"redis", "mysql"} => LifetimeBound

\* Shutdown: a handler serves at most one more message once ctx is cancelled,
\* so it is gone an idle timeout later, or, if it was still logging the client
\* in, a login timeout after s.connTimeout.
DrainBound ==
  ctxDone /\ Open => now <= Later(cancelAt + IdleTimeout, ConnTimeout + AuthTimeout)

\* Repeated SSLRequests do not extend PostgreSQL's startup phase: doStartup sets
\* the deadline once, outside its loop.
NegotiationWindow ==
  [][pc = "startup" /\ pc' = "challenge" => now < AuthTimeout]_vars

\* What the README says of the idle timeout, "Read deadline resets on each
\* successful read": back at the head of the loop, the read deadline lies a full
\* idle timeout after the last message, whichever path of the loop it took and
\* whether or not it was answered.  MySQL's handler does not keep to that: an empty
\* packet continues its loop before the deadline is set, so its timeout counts from
\* the last answer, which such packets neither renew nor cut short.
IdleOnEveryPath ==
  pc = "loop" => IF proto = "mysql" THEN readDL = lastWrite + IdleTimeout
                                    ELSE readDL >= lastRead + IdleTimeout

\* Once ctx is cancelled the handler returns, whatever the client does: what
\* the fairness of module Server assumes.
HandlerReturns == ctxDone ~> ~Open
=============================================================================
