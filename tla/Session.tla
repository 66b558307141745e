------------------------------ MODULE Session -------------------------------
(***************************************************************************)
(* What the protocol modules share: connections that read what a client    *)
(* sent, write replies and append events to the one capture.Store.         *)
(*                                                                         *)
(* A client is a sequence of items, each what it puts on the wire and what *)
(* it means by it, and the number of items (bytes, with Redis) that arrive *)
(* before the connection breaks.  Reads block until a message is whole and *)
(* do not depend on how TCP cuts the stream (bufio, io.ReadFull), so the   *)
(* input is there from the start; when it ends the read fails.             *)
(***************************************************************************)
EXTENDS Text

CONSTANTS Conns, \* the connections
          Cases, \* assignments of clients to them: [Conns -> [proto, items, cut]]
          MaxQuery \* the 2048 bytes a query is truncated to

\* A client has a sequence of items; of those that are messages, whole ones arrive.
IsClient(cl) ==
  /\ cl.items \in Seq({cl.items[i] : i \in DOMAIN cl.items})
  /\ cl.proto # "redis" => cl.cut \in 0..Len(cl.items)

ASSUME SessionAssumption == /\ IsFiniteSet(Conns) /\ MaxQuery \in Nat \ {0}
                            /\ \A clients \in Cases : \A c \in Conns : IsClient(clients[c])

VARIABLES client, \* what the client of each connection does; never changes
          in,     \* what is left to be read
          pc,     \* where the handler is
          who,    \* its local username and database
          parsed, \* redis: the arguments of the commands ReadCommand returned
          out,    \* redis: what the bufio.Writer holds
          sent,   \* what the client has been sent
          log,    \* the events in the store, all connections together
          received, active, commands \* redis.Counters, shared by its connections

vars == <<client, in, pc, who, parsed, out, sent, log, received, active, commands>>
counters == <<received, active, commands>>

Proto(c) == client[c].proto

Input(cl) == IF cl.proto = "redis"
             THEN SubSeq(FlattenSeq([i \in DOMAIN cl.items |-> cl.items[i].wire]), 1, cl.cut)
             ELSE SubSeq(cl.items, 1, cl.cut)

Init ==
  /\ client \in Cases
  /\ in = [c \in Conns |-> Input(client[c])]
  /\ pc = [c \in Conns |-> "accepted"]
  /\ who = [c \in Conns |-> [user |-> << >>, db |-> << >>]]
  /\ parsed = [c \in Conns |-> << >>]
  /\ out = [c \in Conns |-> << >>]
  /\ sent = [c \in Conns |-> << >>]
  /\ log = << >>
  /\ received = 0 /\ active = 0 /\ commands = 0

At(c, p, place) == Proto(c) = p /\ pc[c] = place

Goto(c, place) == pc' = [pc EXCEPT ![c] = place]

\* An event before its fields are filled in.
Blank(c) == [conn |-> c, user |-> << >>, pass |-> << >>, db |-> << >>,
             hash |-> << >>, cmd |-> << >>, payload |-> << >>]

\* sanitize: every string field.
Sanitize(e) ==
  [conn |-> e.conn, user |-> SanitizeStr(e.user), pass |-> SanitizeStr(e.pass),
   db |-> SanitizeStr(e.db), hash |-> SanitizeStr(e.hash), cmd |-> SanitizeStr(e.cmd),
   payload |-> SanitizeStr(e.payload)]

\* store.Log for each event, in order.
Log(events) == log' = log \o [i \in DOMAIN events |-> Sanitize(events[i])]

\* Replies are written one by one; the handler returns on the first error.
Answer(c, replies, place) ==
  \E k \in 0..Len(replies) :
    /\ sent' = [sent EXCEPT ![c] = @ \o SubSeq(replies, 1, k)]
    /\ Goto(c, IF k = Len(replies) THEN place ELSE "failed")

\* The next whole message, for the protocols that read messages.
HasMessage(c) == in[c] # << >>

Message(c) == Head(in[c]).wire

Consume(c) == in' = [in EXCEPT ![c] = Tail(@)]

\* The messages the handler has read.
Read(c) == SubSeq(client[c].items, 1, client[c].cut - Len(in[c]))

LoggedBy(c) == Pick(log, {i \in DOMAIN log : log[i].conn = c})
=============================================================================
