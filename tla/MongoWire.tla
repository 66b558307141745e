----------------------------- MODULE MongoWire -----------------------------
(***************************************************************************)
(* A MongoDB connection of internal/proto/mongodb/handler.go, byte by      *)
(* byte: Handler's loop, readMessage, handleOpQuery, handleOpMsg,          *)
(* bsonFirstKey and parseBSONDoc, from the client's bytes to the events    *)
(* logged and the replies sent.  The check of ctx and the deadlines are    *)
(* those of module Deadlines.                                              *)
(*                                                                         *)
(* Offsets count from 0 as in the code.  Of a parsed document only the     *)
(* keys with a string value are kept (extractString reads nothing else),   *)
(* and of an event only its command.  int is 64 bits wide, so no offset    *)
(* overflows.  starts is a history variable: nothing but the properties    *)
(* reads it.                                                               *)
(***************************************************************************)
EXTENDS MongoReply, Positions

CONSTANTS Inputs,      \* what a client may send until it stops or leaves
          MaxMsgSize,  \* maxMsgSize
          MaxBSONDoc,  \* maxBSONDoc
          HelloNames,  \* ismaster, hello, isMaster
          PingNames,   \* ping
          BuildNames,  \* buildinfo, buildInfo
          ListNames,   \* listdatabases, listDatabases
          AuthCommands,\* saslstart, saslcontinue, authenticate
          CmdSuffixes, \* .$cmd, .system.namespaces
          UserKey      \* "user"

ASSUME MongoWireAssumption ==
  /\ Inputs \subseteq Seq(Byte)
  /\ MaxMsgSize \in Nat
  /\ MaxBSONDoc \in Nat

VARIABLES input,   \* the client's bytes
          rd,      \* how many of them have been read
          starts,  \* history: the offsets at which the messages read start
          id,      \* hdr.RequestID
          op,      \* hdr.OpCode
          payload, \* the bytes after the message header
          pc,      \* read, enter, section, element, log, send or closed
          pos,     \* cursor in the payload
          base,    \* where the document being parsed starts
          dpos,    \* cursor in that document
          command, \* the command name
          strs,    \* keys of the document being parsed that hold strings
          doc,     \* the same of the last document parsed
          events,  \* commands of the events logged
          reply,   \* the reply to be sent
          sent     \* the replies sent

stream == <<input, rd, starts, id, op, payload>>

vars == <<stream, pc, pos, base, dpos, command, strs, doc, events, reply, sent>>

N == Len(payload)

At(i) == payload[i + 1]

\* binary.LittleEndian.Uint32(payload[i:])
Word(i) == At(i) + 256 * At(i + 1) + 65536 * At(i + 2) + 16777216 * At(i + 3)

\* Offset of the first zero byte at or after i, or -1: indexByte.
ZeroFrom(i) ==
  LET zeros == {j \in i..(N - 1) : At(j) = 0}
  IN  IF zeros = {} THEN -1 ELSE Min(zeros)

\* The bytes from offset i up to offset j, exclusive.
Slice(i, j) == SubSeq(payload, i + 1, j)

Lower(s) == [i \in DOMAIN s |-> IF s[i] \in 65..90 THEN s[i] + 32 ELSE s[i]]

\* bsonFirstKey(payload[b:]); the empty name where it fails.
FirstKey(b) ==
  LET z == ZeroFrom(b + 5)
  IN  IF /\ N - b >= 5
         /\ Word(b) >= 5
         /\ Word(b) <= N - b
         /\ z >= 0
         /\ z - b < Word(b)
      THEN Lower(Slice(b + 5, z))
      ELSE << >>

\* The length checks of parseBSONDoc on payload[b:].
IsDoc(b) ==
  /\ N - b >= 5
  /\ Word(b) >= 5
  /\ Word(b) <= MaxBSONDoc
  /\ Word(b) <= N - b

\* Where the value of type t at offset v of the document ends, or -1 where the
\* code leaves parseLoop.  Some types are checked against the document, the
\* others only against the payload.
ValueEnd(t, v) ==
  LET docLen == Word(base)
      left == N - base
      fits(n) == v + n <= docLen /\ v + n <= left
      word == Word(base + v)
      str == fits(4) /\ word >= 1 /\ fits(4 + word)
      sub == v + 4 <= left /\ word >= 5 /\ v + word <= left
      bin == v + 4 <= left /\ v + 5 + word <= left
  IN  CASE t = 2 -> IF str THEN v + 4 + word ELSE -1
        [] t = 16 -> IF fits(4) THEN v + 4 ELSE -1
        [] t = 18 -> IF fits(8) THEN v + 8 ELSE -1
        [] t = 8 -> IF fits(1) THEN v + 1 ELSE -1
        [] t \in {1, 9} -> IF v + 8 <= left THEN v + 8 ELSE -1
        [] t \in {3, 4} -> IF sub THEN v + word ELSE -1
        [] t = 5 -> IF bin THEN v + 5 + word ELSE -1
        [] t = 7 -> IF v + 12 <= left THEN v + 12 ELSE -1
        [] t = 10 -> v
        [] OTHER -> -1

-----------------------------------------------------------------------------

TypeOK ==
  /\ input \in Seq(Byte)
  /\ rd \in 0..Len(input)
  /\ starts \in Seq(Nat)
  /\ id \in Int32s
  /\ op \in Int32s
  /\ payload \in Seq(Byte)
  /\ pc \in {"read", "enter", "section", "element", "log", "send", "closed"}
  /\ pos \in Nat
  /\ base \in Nat
  /\ dpos \in Nat
  /\ command \in Seq(Byte)
  /\ strs \subseteq Seq(Byte)
  /\ doc \subseteq Seq(Byte)
  /\ \A i \in 1..Len(events) : events[i].kind \in {"QUERY", "MSG", "AUTH", "opcode"}
  /\ reply \in Seq(Byte)
  /\ sent \in Seq(Seq(Byte))

Init ==
  /\ input \in Inputs
  /\ rd = 0
  /\ starts = << >>
  /\ id = 0
  /\ op = 0
  /\ payload = << >>
  /\ pc = "read"
  /\ pos = 0
  /\ base = 0
  /\ dpos = 0
  /\ command = << >>
  /\ strs = {}
  /\ doc = {}
  /\ events = << >>
  /\ reply = << >>
  /\ sent = << >>

-----------------------------------------------------------------------------
(* Handler's loop and readMessage. *)

\* Insert, delete, update and getMore, which are logged and not answered.
Legacy == {2001, 2002, 2005, 2006}

\* A whole message lies at offset i of the input.
HasMessage(i) ==
  /\ i + 16 <= Len(input)
  /\ Int32(input, i) \in 16..MaxMsgSize
  /\ i + Int32(input, i) <= Len(input)

\* Faulty variant: the field behind it, responseTo, is read.
RequestIDMisplaced == Int32(input, rd + 8)

RequestID == Int32(input, rd + 4)

\* The locals of handleOpQuery and handleOpMsg are new for every message.
ReadMessage ==
  /\ pc = "read" /\ HasMessage(rd)
  /\ rd' = rd + Int32(input, rd)
  /\ starts' = Append(starts, rd)
  /\ id' = RequestID
  /\ op' = Int32(input, rd + 12)
  /\ payload' = SubSeq(input, rd + 17, rd + Int32(input, rd))
  /\ pos' = 0 /\ base' = 0 /\ dpos' = 0
  /\ command' = << >> /\ strs' = {} /\ doc' = {}
  /\ pc' = CASE op' \in {OpQuery, OpMsg} -> "enter"
             [] op' \in Legacy -> "log"
             [] OTHER -> "closed"
  /\ UNCHANGED <<input, events, reply, sent>>

\* The header or the payload does not arrive, or the length is out of range.
ReadFails ==
  /\ pc = "read" /\ ~HasMessage(rd)
  /\ pc' = "closed"
  /\ UNCHANGED <<stream, pos, base, dpos, command, strs, doc, events, reply, sent>>

Event(kind, name) == [kind |-> kind, name |-> name]

LogLegacy ==
  /\ pc = "log" /\ op \in Legacy
  /\ events' = Append(events, Event("opcode", <<op>>))
  /\ pc' = "read"
  /\ UNCHANGED <<stream, pos, base, dpos, command, strs, doc, reply, sent>>

\* conn.Write; the handler returns if it fails.
Send ==
  /\ pc = "send"
  /\ pc' = "read"
  /\ sent' = Append(sent, reply)
  /\ UNCHANGED <<stream, pos, base, dpos, command, strs, doc, events, reply>>

SendFails ==
  /\ pc = "send"
  /\ pc' = "closed"
  /\ UNCHANGED <<stream, pos, base, dpos, command, strs, doc, events, reply, sent>>

-----------------------------------------------------------------------------

\* handleOpMsg: flagBits are skipped; a shorter payload is dropped.
EnterMsg ==
  /\ pc = "enter" /\ op = OpMsg
  /\ pc' = IF N < 4 THEN "read" ELSE "section"
  /\ pos' = 4
  /\ UNCHANGED <<stream, base, dpos, command, strs, doc, events, reply, sent>>

\* handleOpQuery up to the document: flags, collection name, two numbers.
EnterQuery ==
  /\ pc = "enter" /\ op = OpQuery
  /\ LET z == ZeroFrom(4)
     IN  IF N >= 4 /\ z >= 0 /\ z + 9 <= N
         THEN /\ command' = Slice(4, z)
              /\ pos' = z + 9
              /\ base' = z + 9
              /\ dpos' = 4
              /\ strs' = {}
              /\ pc' = IF IsDoc(z + 9) THEN "element" ELSE "log"
         ELSE pc' = "read" /\ UNCHANGED <<command, pos, base, dpos, strs>>
  /\ UNCHANGED <<stream, doc, events, reply, sent>>

-----------------------------------------------------------------------------
(* The section loop of handleOpMsg.  The kind byte is consumed first; a     *)
(* "break" in the switch only leaves the switch, so after a section that    *)
(* does not parse the loop goes on at the byte behind its kind.             *)

\* Faulty variant: the kind byte is not consumed when the section does not parse.
BodyNotAdvancing ==
  /\ pc = "section" /\ pos < N /\ At(pos) = 0
  /\ command' = FirstKey(pos + 1)
  /\ IF IsDoc(pos + 1)
     THEN pc' = "element" /\ base' = pos + 1 /\ dpos' = 4 /\ strs' = {} /\ pos' = pos + 1
     ELSE UNCHANGED <<pc, base, dpos, strs, pos>>
  /\ UNCHANGED <<stream, doc, events, reply, sent>>

Body ==
  /\ pc = "section" /\ pos < N /\ At(pos) = 0
  /\ command' = FirstKey(pos + 1)
  /\ pos' = pos + 1
  /\ IF IsDoc(pos + 1)
     THEN pc' = "element" /\ base' = pos + 1 /\ dpos' = 4 /\ strs' = {}
     ELSE UNCHANGED <<pc, base, dpos, strs>>
  /\ UNCHANGED <<stream, doc, events, reply, sent>>

\* Faulty variant: the section's length is not checked.
SequenceUnchecked ==
  /\ pc = "section" /\ pos < N /\ At(pos) = 1
  /\ LET p == pos + 1
     IN  pos' = IF p + 4 <= N THEN p + Word(p) ELSE p
  /\ UNCHANGED <<stream, pc, base, dpos, command, strs, doc, events, reply, sent>>

Sequence ==
  /\ pc = "section" /\ pos < N /\ At(pos) = 1
  /\ LET p == pos + 1
     IN  pos' = IF p + 4 <= N /\ Word(p) >= 4 /\ p + Word(p) <= N
                THEN p + Word(p) ELSE p
  /\ UNCHANGED <<stream, pc, base, dpos, command, strs, doc, events, reply, sent>>

UnknownKind ==
  /\ pc = "section" /\ pos < N /\ At(pos) \notin {0, 1}
  /\ pos' = N
  /\ UNCHANGED <<stream, pc, base, dpos, command, strs, doc, events, reply, sent>>

SectionsEnd ==
  /\ pc = "section" /\ pos >= N
  /\ pc' = "log"
  /\ UNCHANGED <<stream, pos, base, dpos, command, strs, doc, events, reply, sent>>

-----------------------------------------------------------------------------
(* parseLoop. *)

\* The element at dpos: its key, and where its value ends.
KeyEnd == ZeroFrom(base + dpos + 1) - base

HasElement == /\ dpos < Word(base) - 1
              /\ dpos < N - base
              /\ ZeroFrom(base + dpos + 1) >= 0
              /\ KeyEnd < Word(base)

ElementType == At(base + dpos)

Key == Slice(base + dpos + 1, base + KeyEnd)

\* Faulty variant: a value's bounds are not checked.
ParsesUnchecked == HasElement

Parses == HasElement /\ ValueEnd(ElementType, KeyEnd + 1) >= 0

Element ==
  /\ pc = "element" /\ Parses
  /\ dpos' = ValueEnd(ElementType, KeyEnd + 1)
  /\ strs' = CASE ElementType = 2 -> strs \cup {Key}
               [] ElementType \in {8, 16, 18} -> strs \ {Key}
               [] OTHER -> strs
  /\ UNCHANGED <<stream, pc, pos, base, command, doc, events, reply, sent>>

\* Faulty variant: the document's terminator is not consumed.
DocumentEndOffByOne ==
  /\ pc = "element" /\ ~Parses
  /\ doc' = strs
  /\ pos' = base + Word(base) - 1
  /\ pc' = IF op = OpMsg THEN "section" ELSE "log"
  /\ UNCHANGED <<stream, base, dpos, command, strs, events, reply, sent>>

\* parseBSONDoc returns what it has parsed, and the length the document claims.
DocumentEnd ==
  /\ pc = "element" /\ ~Parses
  /\ doc' = strs
  /\ pos' = base + Word(base)
  /\ pc' = IF op = OpMsg THEN "section" ELSE "log"
  /\ UNCHANGED <<stream, base, dpos, command, strs, events, reply, sent>>

-----------------------------------------------------------------------------

\* sanitize of this file: control characters are dropped.
Sanitize(s) == SelectSeq(s, LAMBDA c : c >= 32 /\ c # 127)

HasSuffix(s, t) == Len(t) <= Len(s) /\ SubSeq(s, Len(s) - Len(t) + 1, Len(s)) = t

\* handleOpQuery logs and always answers, a command collection with a document.
FinishQuery ==
  /\ pc = "log" /\ op = OpQuery
  /\ events' = Append(events, Event("QUERY", Sanitize(command)))
  /\ reply' = SendOpReply(id, IF \E t \in CmdSuffixes : HasSuffix(Lower(command), t)
                              THEN <<IsMasterDoc>> ELSE << >>)
  /\ pc' = "send"
  /\ UNCHANGED <<stream, pos, base, dpos, command, strs, doc, sent>>

\* The switch on the command at the end of handleOpMsg.
Answer == CASE command \in HelloNames -> IsMasterDoc
            [] command \in PingNames \cup AuthCommands -> OkDoc
            [] command \in BuildNames -> BuildInfoDoc
            [] command \in ListNames -> DatabasesDoc
            [] OTHER -> DeniedDoc

\* handleOpMsg logs the command, then the user of an authentication, and answers
\* everything outside its short list of commands with "not authorized".
FinishMsg ==
  /\ pc = "log" /\ op = OpMsg
  /\ events' = Append(events, Event("MSG", Sanitize(command))) \o
                 (IF command \in AuthCommands /\ UserKey \in doc
                  THEN <<Event("AUTH", command)>> ELSE << >>)
  /\ reply' = SendOpMsgReply(id, Answer)
  /\ pc' = "send"
  /\ UNCHANGED <<stream, pos, base, dpos, command, strs, doc, sent>>

Closed == pc = "closed" /\ UNCHANGED vars

Next == \/ ReadMessage \/ ReadFails \/ LogLegacy \/ Send \/ SendFails
        \/ EnterMsg \/ EnterQuery
        \/ Body \/ Sequence \/ UnknownKind \/ SectionsEnd
        \/ Element \/ DocumentEnd
        \/ FinishQuery \/ FinishMsg \/ Closed

Spec == Init /\ [][Next]_vars

\* One goroutine, whose reads and writes end by their deadlines.
FairSpec == Spec /\ WF_vars(Next)

-----------------------------------------------------------------------------
(* Properties. *)

\* No length field moves a cursor past the payload: the section cursor never
\* leaves it, the document being parsed lies inside it, and its cursor stays in.
CursorsInBounds ==
  /\ pc \in {"section", "log"} => pos <= N
  /\ pc = "element" => /\ base + 5 <= N
                       /\ base + Word(base) <= N
                       /\ dpos >= 4
                       /\ base + dpos <= N

\* Every step of the parser consumes input: neither cursor ever moves back or
\* stands still inside its loop.
CursorsAdvance ==
  [][/\ pc = "section" /\ pc' # "log" => pos' > pos
     /\ pc = "element" /\ pc' = "element" => dpos' > dpos]_vars

\* Whatever the client sends, the connection ends: no payload keeps the parser
\* in its loops, no reply brings the handler back to the same message.
SessionEnds == <>(pc = "closed")

\* A payload that is one body section, the form every driver sends.
OneBody == N >= 10 /\ At(4) = 0 /\ IsDoc(5) /\ Word(5) = N - 5

\* The same with the CRC-32 that flag bit 0 announces behind it.
OneBodyWithChecksum ==
  N >= 14 /\ At(0) % 2 = 1 /\ At(4) = 0 /\ IsDoc(5) /\ Word(5) = N - 9

\* The event of the message just handled; an authentication logs a second one.
Logged == LET last == Len(events)
          IN  IF events[last].kind = "AUTH" THEN events[last - 1] ELSE events[last]

BodyNamed == Logged = Event("MSG", Sanitize(FirstKey(5)))

\* A message with one body is logged under the first key of that body.
BodyLogged == (pc = "send" /\ op = OpMsg /\ OneBody) => BodyNamed

\* How the parser gets there: the section behind the flags, its document, the end.
BodyTracked ==
  (op = OpMsg /\ OneBody) =>
    /\ pc = "section" => pos = 4 \/ (pos = N /\ command = FirstKey(5))
    /\ pc = "element" => base = 5 /\ command = FirstKey(5)
    /\ pc = "log" => command = FirstKey(5)

\* What the comment on the body section says of the command name, for messages
\* that carry a checksum.
ChecksummedBodyLogged ==
  (pc = "send" /\ op = OpMsg /\ OneBodyWithChecksum) => BodyNamed

\* The client's view of its own bytes: where its k-th message ends, and what it is.
EndOf(k) == starts[k] + Int32(input, starts[k])

Request(k) ==
  LET i == starts[k]
  IN  [id |-> Int32(input, i + 4), op |-> Int32(input, i + 12),
       body |-> SubSeq(input, i + 17, EndOf(k))]

\* The messages read follow each other from the first byte on, none skipped, none
\* read twice.
Consecutive ==
  /\ \A k \in DOMAIN starts : starts[k] = IF k = 1 THEN 0 ELSE EndOf(k - 1)
  /\ rd = IF starts = << >> THEN 0 ELSE EndOf(Len(starts))

\* A request the handler gets as far as logging: flags, and in a query a name,
\* two numbers and whatever follows them.
Complete(r) ==
  \/ r.op = OpMsg /\ Len(r.body) >= 4
  \/ r.op = OpQuery /\ \E z \in 5..(Len(r.body) - 8) : r.body[z] = 0

\* Of the first n requests, those to be answered and those to be logged.
ToAnswer(n) == {k \in 1..n : Complete(Request(k))}

ToLog(n) == {k \in 1..n : Complete(Request(k)) \/ Request(k).op \in Legacy}

KindOf(o) == CASE o = OpMsg -> "MSG" [] o = OpQuery -> "QUERY" [] OTHER -> "opcode"

\* The replies sent name the first n requests to be answered, in their order.
AnsweredUpTo(n) ==
  [i \in DOMAIN sent |-> Int32(sent[i], 8)]
    = Pick([k \in DOMAIN starts |-> Request(k).id], ToAnswer(n))

\* The events, leaving out the second one of an authentication.
MainEvents == {i \in DOMAIN events : events[i].kind # "AUTH"}

\* They are of the first n requests to be logged, in their order.
LoggedUpTo(n) ==
  Pick([i \in DOMAIN events |-> events[i].kind], MainEvents)
    = Pick([k \in DOMAIN starts |-> KindOf(Request(k).op)], ToLog(n))

\* Whenever the handler waits for the next message, every complete query and
\* message so far has been logged once and answered once, in order, each reply
\* naming its request; legacy operations are logged and never answered.
RequestsAnswered ==
  pc = "read" =>
    /\ Consecutive
    /\ AnsweredUpTo(Len(starts))
    /\ LoggedUpTo(Len(starts))

\* A BSON document at offset b of s that ends at offset e, read as a driver does:
\* every length, also of strings and embedded documents, is exact.
IsBSON(s, b, e) ==
  LET zero(i) == CHOOSE z \in i..(e - 1) : s[z + 1] = 0 /\ \A y \in i..(z - 1) : s[y + 1] # 0
      whole[p \in (0..e) \X (0..e)] ==
        /\ p[1] + 5 <= p[2]
        /\ p[1] + Int32(s, p[1]) = p[2]
        /\ s[p[2]] = 0
        /\ LET elements[i \in 0..e] ==
                 \/ i = p[2] - 1
                 \/ /\ i < p[2] - 1
                    /\ LET t == s[i + 1]
                           v == zero(i + 1) + 1
                       IN  \/ t = 8 /\ elements[v + 1]
                           \/ t = 16 /\ elements[v + 4]
                           \/ t = 18 /\ elements[v + 8]
                           \/ /\ t = 2 /\ s[v + 4 + Int32(s, v)] = 0
                              /\ elements[v + 4 + Int32(s, v)]
                           \/ /\ t \in {3, 4} /\ whole[<<v, v + Int32(s, v)>>]
                              /\ elements[v + Int32(s, v)]
           IN  elements[p[1] + 4]
  IN  whole[<<b, e>>]

\* The header of a reply tells a driver its length, which request it answers and
\* how: the length is its own, and the request the one just read.
ReplyFramed ==
  /\ Int32(reply, 0) = Len(reply)
  /\ Int32(reply, 8) = id
  /\ Int32(reply, 12) = IF op = OpMsg THEN OpMsg ELSE OpReply

\* A driver can decode every reply: behind the header, the number of documents
\* announced is what follows, and what encodeBSON wrote is BSON.
RepliesDecode ==
  pc = "send" =>
    /\ ReplyFramed
    /\ \/ /\ Int32(reply, 12) = OpMsg /\ reply[21] = 0
          /\ IsBSON(reply, 21, Len(reply))
       \/ /\ Int32(reply, 12) = OpReply /\ Int32(reply, 32) = 0
          /\ Len(reply) = 36
       \/ /\ Int32(reply, 12) = OpReply /\ Int32(reply, 32) = 1
          /\ IsBSON(reply, 36, Len(reply))
=============================================================================
