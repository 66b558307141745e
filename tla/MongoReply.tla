---------------------------- MODULE MongoReply ----------------------------
(***************************************************************************)
(* The replies of internal/proto/mongodb/handler.go as bytes: encodeBSON,  *)
(* the documents it is given, and the two message formats around them.     *)
(*                                                                         *)
(* A key is one byte: the keys of a document are numbered in the order the *)
(* source lists them.  Go ranges over a map in any order; nothing here     *)
(* depends on it, and the elements are kept in the source's order.         *)
(***************************************************************************)
EXTENDS Integers, Sequences

CONSTANTS Version,  \* the configured version
          BuildHash,\* fp.ESBuildHash
          Now       \* time.Now().UnixMilli(), below 2^31

Byte == 0..255

\* config.go reads at most 1 MiB, and decoding makes at most three bytes of one;
\* the hash has 40 bytes.
ASSUME MongoReplyAssumption ==
  /\ Version \in Seq(Byte) /\ Len(Version) < 16777216
  /\ BuildHash \in Seq(Byte) /\ Len(BuildHash) < 16777216
  /\ Now \in Nat

\* binary.LittleEndian.PutUint32 of an int32.
LE(n) == <<n % 256, (n \div 256) % 256, (n \div 65536) % 256, (n \div 16777216) % 256>>

\* int32(binary.LittleEndian.Uint32(s[i:])), offsets from 0.
Int32(s, i) ==
  s[i + 1] + 256 * s[i + 2] + 65536 * s[i + 3]
    + 16777216 * (IF s[i + 4] < 128 THEN s[i + 4] ELSE s[i + 4] - 256)

\* What an int32 holds.
Int32s == {n \in Int : -2147483647 - 1 <= n /\ n <= 2147483647}

-----------------------------------------------------------------------------
(* encodeBSON: one operator per type of value, then the document. *)

\* Faulty variant: the terminator of a string is not counted.
StrUncounted(k, s) == <<2, k, 0>> \o LE(Len(s)) \o s \o <<0>>

Str(k, s) == <<2, k, 0>> \o LE(Len(s) + 1) \o s \o <<0>>

Num(k, n) == <<16, k, 0>> \o LE(n)

Num64(k, n) == <<18, k, 0>> \o LE(n) \o LE(0)

Bool(k, b) == <<8, k, 0, IF b THEN 1 ELSE 0>>

EncodeBSON(elements) == LE(5 + Len(elements)) \o elements \o <<0>>

Embedded(k, elements) == <<3, k, 0>> \o EncodeBSON(elements)

Array(k, elements) == <<4, k, 0>> \o EncodeBSON(elements)

-----------------------------------------------------------------------------
(* The documents. *)

IsMasterDoc ==
  Bool(1, TRUE) \o Num(2, 16777216) \o Num(3, 48000000) \o Num(4, 100000)
    \o Embedded(5, Num64(1, Now)) \o Num(6, 30) \o Num(7, 0) \o Num(8, 17)
    \o Bool(9, FALSE) \o Num(10, 1) \o Array(11, << >>)

\* The keys of an array are "0", "1", ...
BuildInfoDoc ==
  Str(1, Version) \o Str(2, BuildHash) \o Str(3, <<76>>)
    \o Array(4, Num(48, 7) \o Num(49, 0) \o Num(50, 8) \o Num(51, 0))
    \o Num(5, 64) \o Bool(6, FALSE) \o Num(7, 16777216) \o Num(8, 1)

OkDoc == Num(1, 1)

DatabasesDoc == Array(1, << >>) \o Num(2, 0) \o Num(3, 1)

DeniedDoc == Num(1, 0) \o Str(2, <<110>>) \o Num(3, 13)

-----------------------------------------------------------------------------
(* The messages. *)

OpReply == 1
OpQuery == 2004
OpMsg == 2013

\* Length, requestID 0, responseTo, opCode.
Header(to, opcode, body) == LE(16 + Len(body)) \o LE(0) \o LE(to) \o LE(opcode) \o body

\* sendOpReply: flags, cursor, start, the number of documents, and at most one.
SendOpReply(to, docs) ==
  Header(to, OpReply, LE(8) \o LE(0) \o LE(0) \o LE(0) \o LE(Len(docs))
                        \o (IF docs = << >> THEN << >> ELSE EncodeBSON(docs[1])))

\* sendOpMsgReply: flags, kind 0, the body.
SendOpMsgReply(to, doc) == Header(to, OpMsg, LE(0) \o <<0>> \o EncodeBSON(doc))
=============================================================================
