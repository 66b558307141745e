---------------------------- MODULE MCMongoWire ----------------------------
(* One-message connections whose payloads are put together from whole, cut   *)
(* and misaligned sections, and two-message connections with every kind of   *)
(* message.  The bytes of payloads are below 127, so that no word of one     *)
(* leaves TLC's integers.  The keys "a", "h", "p", "i" and "l" stand for an  *)
(* authentication, hello, ping, buildinfo and listdatabases, "u" for "user". *)
EXTENDS MongoWire

Doc(elements) == EncodeBSON(elements)

Auth == <<16, 65, 0>> \o LE(1)
User == <<2, 117, 0>> \o LE(2) \o <<114, 0>>

\* One element of every type parseBSONDoc knows, and one it does not.
Values ==
  { <<16, 98, 0>> \o LE(1),
    <<18, 98, 0>> \o LE(1) \o LE(0),
    <<8, 98, 0, 1>>,
    <<1, 98, 0>> \o LE(1) \o LE(0),
    <<9, 98, 0>> \o LE(1) \o LE(0),
    <<3, 98, 0>> \o LE(5) \o <<0>>,
    <<4, 98, 0>> \o LE(9) \o <<0>>,
    <<5, 98, 0>> \o LE(1) \o <<0, 7>>,
    <<7, 98, 0>> \o LE(1) \o LE(2) \o LE(3),
    <<10, 98, 0>>,
    <<16, 117, 0>> \o LE(1),
    <<2, 98, 0>> \o LE(0),
    <<2, 98, 0>> \o LE(9) \o <<0>>,
    <<99, 98, 0>>,
    <<16, 98>> }

Bodies == {<<0>> \o Doc(Auth \o v \o User) : v \in Values} \cup {<<0>> \o Doc(<< >>)}

Pieces ==
  { <<0>> \o Doc(Auth \o User),
    <<0>> \o LE(4), <<0>> \o LE(100), <<0>> \o LE(12), <<0, 9, 9, 9>>,
    <<1>> \o LE(4), <<1>> \o LE(5) \o <<0>>, <<1>> \o LE(0),
    <<1>> \o LE(60), <<1, 4>>, <<7>>, << >> }

Flags == {<<0, 0, 0, 0>>, <<1, 0, 0, 0>>}

MsgPayloads ==
  {<<0, 0>>} \cup {f \o b \o p : f \in Flags, b \in Bodies, p \in Pieces}
             \cup {<<0, 0, 0, 0>> \o p \o q : p \in Pieces, q \in Pieces}

QueryPayloads ==
  {<<0, 0>>, LE(0) \o <<98>>, LE(0) \o <<98, 0>> \o LE(0)} \cup
  {LE(0) \o <<98, 0>> \o LE(0) \o LE(1) \o SubSeq(b, 2, Len(b)) : b \in Bodies \cup Pieces}

Message(n, opcode, body) == LE(16 + Len(body)) \o LE(n) \o LE(9) \o LE(opcode) \o body

Query(name, rest) == LE(0) \o name \o <<0>> \o LE(0) \o LE(1) \o rest

Named(c) == LE(0) \o <<0>> \o Doc(<<16, c, 0>> \o LE(1))

Bodied == { <<OpMsg, Named(c)>> : c \in {97, 104, 112, 105, 73, 108, 7, 120} }
            \cup {<<OpMsg, <<0, 0>> >>, <<OpQuery, <<0>> >>, <<OpQuery, << >> >>}
            \cup {<<OpQuery, Query(n, Doc(User))>> : n \in {<<98>>, <<98, 36>>, <<36>>, << >>}}
            \cup {<<o, <<1>> >> : o \in Legacy \cup {2010, -1}}

\* A first message of every kind, then one whose header or payload is cut, whose
\* length is too small, negative or too large, or that is whole.
Second ==
  {Message(6, b[1], b[2]) : b \in Bodied} \cup
  { << >>, LE(16), LE(15) \o LE(6) \o LE(9) \o LE(OpMsg), LE(-1) \o LE(6) \o LE(9) \o LE(OpMsg),
    LE(MaxMsgSize + 1) \o LE(6) \o LE(9) \o LE(OpMsg) \o [i \in 1..MaxMsgSize |-> 0],
    LE(21) \o LE(6) \o LE(9) \o LE(OpMsg) \o LE(0) }

MCInputs ==
  {Message(5, OpMsg, p) : p \in MsgPayloads} \cup {Message(5, OpQuery, p) : p \in QueryPayloads} \cup
  {Message(-5, b[1], b[2]) \o m : b \in Bodied, m \in Second}

MCAuthCommands == {<<97>>}
MCHelloNames == {<<104>>}
MCPingNames == {<<112>>}
MCBuildNames == {<<105>>}
MCListNames == {<<108>>}
MCCmdSuffixes == {<<36>>}
MCUserKey == <<117>>
MCVersion == <<55, 46, 48>>
MCBuildHash == <<49>>
=============================================================================
