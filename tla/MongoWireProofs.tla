-------------------------- MODULE MongoWireProofs --------------------------
(* Theorems about module MongoWire, for every input a client can send and  *)
(* every pair of size limits.                                              *)
EXTENDS MongoWire, PositionsProofs

-----------------------------------------------------------------------------
(* What the operators on replies return. *)

\* The strings of n bytes.
Bytes(n) == {s \in Seq(Byte) : Len(s) = n}

LEMMA Cat == \A a, b \in Nat : \A s \in Bytes(a), t \in Bytes(b) : s \o t \in Bytes(a + b)
BY SMT DEF Bytes

LEMMA Cat4 ==
  ASSUME NEW a \in Nat, NEW b \in Nat, NEW c \in Nat, NEW d \in Nat,
         NEW s \in Bytes(a), NEW t \in Bytes(b), NEW u \in Bytes(c), NEW v \in Bytes(d)
  PROVE  ((s \o t) \o u) \o v \in Bytes(a + b + c + d)
<1> DEFINE st == s \o t
           n == a + b
<1>1. n \in Nat /\ st \in Bytes(n)
  BY Cat
<1> HIDE DEF st, n
<1> DEFINE stu == st \o u
           m == n + c
<1>2. m \in Nat /\ stu \in Bytes(m)
  BY <1>1, Cat
<1> HIDE DEF stu, m
<1>3. stu \o v \in Bytes(m + d)
  BY <1>2, Cat
<1> QED  BY <1>3 DEF st, stu, m, n

\* A number is read alike in a string and in a longer one.
LEMMA ReadFront ==
  ASSUME NEW a \in Nat, NEW b \in Nat, NEW s \in Bytes(a), NEW t \in Bytes(b),
         NEW i \in Nat, i + 4 <= a
  PROVE  Int32(s \o t, i) = Int32(s, i)
<1> DEFINE w == s \o t
<1>1. \A k \in 1..4 : w[i + k] = s[i + k]
  BY SMT DEF Bytes
<1> HIDE DEF w
<1>2. Int32(w, i) = Int32(s, i)
  BY <1>1, SMT DEF Int32
<1> QED  BY <1>2 DEF w

LEMMA ReadBack ==
  ASSUME NEW a \in Nat, NEW b \in Nat, NEW s \in Bytes(a), NEW t \in Bytes(b), 4 <= b
  PROVE  Int32(s \o t, a) = Int32(t, 0)
<1> DEFINE w == s \o t
<1>1. \A k \in 1..4 : w[a + k] = t[k]
  BY SMT DEF Bytes
<1> HIDE DEF w
<1>2. Int32(w, a) = Int32(t, 0)
  BY <1>1, SMT DEF Int32
<1> QED  BY <1>2 DEF w

\* PutUint32 writes four bytes, and reading them gives the number back.
LEMMA LEBytes == \A n \in Int : LE(n) \in Bytes(4)
BY SMT DEF LE, Byte, Bytes

LEMMA LERoundTrip ==
  ASSUME NEW n \in Int32s
  PROVE  Int32(LE(n), 0) = n
<1>1. n \in Int /\ -2147483648 <= n /\ n < 2147483648
  BY SMT DEF Int32s
<1> QED  BY <1>1, SMT DEF LE, Int32

\* Four bytes make a number of 32 bits.
LEMMA Int32Range ==
  ASSUME NEW s \in Seq(Byte), NEW i \in Nat, i + 4 <= Len(s)
  PROVE  Int32(s, i) \in Int32s
<1> DEFINE a == s[i + 1]  b == s[i + 2]  c == s[i + 3]  d == s[i + 4]
<1>1. a \in Byte /\ b \in Byte /\ c \in Byte /\ d \in Byte
  OBVIOUS
<1>2. Int32(s, i) = a + 256 * b + 65536 * c + 16777216 * (IF d < 128 THEN d ELSE d - 256)
  BY SMT DEF Int32
<1> HIDE DEF a, b, c, d
<1> QED  BY <1>1, <1>2, SMT DEF Byte, Int32s

LEMMA HeadBytes == \A t, k \in Byte : <<t, k, 0>> \in Bytes(3)
BY SMT DEF Byte, Bytes

LEMMA EndBytes == <<0>> \in Bytes(1) /\ << >> \in Bytes(0)
BY SMT DEF Byte, Bytes

LEMMA Small ==
  /\ 1 \in Byte /\ 2 \in Byte /\ 3 \in Byte /\ 4 \in Byte /\ 5 \in Byte /\ 6 \in Byte
  /\ 7 \in Byte /\ 8 \in Byte /\ 9 \in Byte /\ 10 \in Byte /\ 11 \in Byte /\ 16 \in Byte
  /\ 18 \in Byte /\ 48 \in Byte /\ 49 \in Byte /\ 50 \in Byte /\ 51 \in Byte
BY SMT DEF Byte

\* What encodeBSON makes of each type of value: bytes, and how many.
LEMMA BoolBytes == Bool(1, TRUE) \in Bytes(4) /\ Bool(6, FALSE) \in Bytes(4) /\ Bool(9, FALSE) \in Bytes(4)
BY SMT DEF Bool, Byte, Bytes

LEMMA NumBytes == \A k \in Byte, n \in Int : Num(k, n) \in Bytes(7)
<1> SUFFICES ASSUME NEW k \in Byte, NEW n \in Int PROVE Num(k, n) \in Bytes(7)
  OBVIOUS
<1>1. <<16, k, 0>> \in Bytes(3) /\ LE(n) \in Bytes(4)
  BY HeadBytes, LEBytes, Small
<1>2. <<16, k, 0>> \o LE(n) \in Bytes(7)
  BY <1>1, Cat
<1> QED  BY <1>2 DEF Num

LEMMA Num64Bytes == \A k \in Byte, n \in Int : Num64(k, n) \in Bytes(11)
<1> SUFFICES ASSUME NEW k \in Byte, NEW n \in Int PROVE Num64(k, n) \in Bytes(11)
  OBVIOUS
<1> DEFINE h == <<18, k, 0>>
<1>1. h \in Bytes(3) /\ LE(n) \in Bytes(4) /\ LE(0) \in Bytes(4)
  BY HeadBytes, LEBytes, Small
<1> HIDE DEF h
<1>2. (h \o LE(n)) \o LE(0) \in Bytes(11)
  BY <1>1, Cat
<1> QED  BY <1>2 DEF Num64, h

LEMMA StrBytes == \A k \in Byte, n \in Nat : \A s \in Bytes(n) : Str(k, s) \in Bytes(n + 8)
<1> SUFFICES ASSUME NEW k \in Byte, NEW n \in Nat, NEW s \in Bytes(n)
             PROVE  Str(k, s) \in Bytes(n + 8)
  OBVIOUS
<1> DEFINE h == <<2, k, 0>>
           end == <<0>>
           len == LE(Len(s) + 1)
<1>1. Len(s) + 1 \in Int
  BY DEF Bytes
<1>2. h \in Bytes(3) /\ end \in Bytes(1)
  BY Small, HeadBytes, EndBytes
<1>3. len \in Bytes(4)
  BY <1>1, LEBytes
<1>4. Str(k, s) = ((h \o len) \o s) \o end
  BY DEF Str
<1> HIDE DEF h, end, len
<1>5. ((h \o len) \o s) \o end \in Bytes(3 + 4 + n + 1)
  BY <1>2, <1>3, Cat4
<1> QED  BY <1>4, <1>5

LEMMA EncodeBytes == \A n \in Nat : \A s \in Bytes(n) : EncodeBSON(s) \in Bytes(n + 5)
<1> SUFFICES ASSUME NEW n \in Nat, NEW s \in Bytes(n)
             PROVE  EncodeBSON(s) \in Bytes(n + 5)
  OBVIOUS
<1> DEFINE len == LE(5 + Len(s))
           end == <<0>>
<1>1. 5 + Len(s) \in Int
  BY DEF Bytes
<1>2. len \in Bytes(4) /\ end \in Bytes(1)
  BY <1>1, LEBytes, EndBytes
<1>3. EncodeBSON(s) = (len \o s) \o end
  BY DEF EncodeBSON
<1> HIDE DEF end, len
<1> DEFINE front == len \o s
<1>4. front \in Bytes(4 + n)
  BY <1>2, Cat
<1> HIDE DEF front
<1>5. front \o end \in Bytes((4 + n) + 1)
  BY <1>2, <1>4, Cat
<1> QED  BY <1>3, <1>5 DEF front

LEMMA NestedBytes ==
  \A k \in Byte, n \in Nat : \A s \in Bytes(n) :
    Embedded(k, s) \in Bytes(n + 8) /\ Array(k, s) \in Bytes(n + 8)
<1> SUFFICES ASSUME NEW k \in Byte, NEW n \in Nat, NEW s \in Bytes(n)
             PROVE  Embedded(k, s) \in Bytes(n + 8) /\ Array(k, s) \in Bytes(n + 8)
  OBVIOUS
<1> DEFINE h == <<3, k, 0>>
           a == <<4, k, 0>>
<1>1. h \in Bytes(3) /\ a \in Bytes(3) /\ EncodeBSON(s) \in Bytes(n + 5)
  BY HeadBytes, Small, EncodeBytes
<1>2. Embedded(k, s) = h \o EncodeBSON(s) /\ Array(k, s) = a \o EncodeBSON(s)
  BY DEF Embedded, Array
<1> HIDE DEF h, a
<1>3. h \o EncodeBSON(s) \in Bytes(3 + (n + 5)) /\ a \o EncodeBSON(s) \in Bytes(3 + (n + 5))
  BY <1>1, Cat
<1> QED  BY <1>2, <1>3

\* The documents of the replies: bytes, and far fewer than an int32 counts.
LEMMA IsMasterBytes == IsMasterDoc \in Bytes(84)
<1> DEFINE a == Bool(1, TRUE)
           b == Num(2, 16777216)
           c == Num(3, 48000000)
           d == Num(4, 100000)
           e == Embedded(5, Num64(1, Now))
           f == Num(6, 30)
           g == Num(7, 0)
           h == Num(8, 17)
           i == Bool(9, FALSE)
           j == Num(10, 1)
           l == Array(11, << >>)
<1>1. a \in Bytes(4) /\ i \in Bytes(4)
  BY BoolBytes, Zenon
<1>2. /\ b \in Bytes(7) /\ c \in Bytes(7) /\ d \in Bytes(7) /\ f \in Bytes(7)
      /\ g \in Bytes(7) /\ h \in Bytes(7) /\ j \in Bytes(7)
  BY Small, NumBytes, SMT
<1>3. e \in Bytes(19)
  <2>1. Num64(1, Now) \in Bytes(11)
    <3>1. Now \in Int
      BY MongoReplyAssumption, SMT
    <3> QED  BY <3>1, Small, Num64Bytes, SMT
  <2> QED  BY <2>1, Small, NestedBytes, SMT
<1>4. l \in Bytes(8)
  BY Small, NestedBytes, EndBytes, SMT
<1>5. IsMasterDoc = ((((((((((a \o b) \o c) \o d) \o e) \o f) \o g) \o h) \o i) \o j) \o l)
  BY SMT DEF IsMasterDoc
<1> HIDE DEF a, b, c, d, e, f, g, h, i, j, l
<1> DEFINE x == ((a \o b) \o c) \o d
<1>6. x \in Bytes(25)
  BY <1>1, <1>2, Cat4
<1> HIDE DEF x
<1> DEFINE y == ((x \o e) \o f) \o g
<1>7. y \in Bytes(58)
  BY <1>2, <1>3, <1>6, Cat4
<1> HIDE DEF y
<1> DEFINE z == ((y \o h) \o i) \o j
<1>8. z \in Bytes(76)
  BY <1>1, <1>2, <1>7, Cat4
<1> HIDE DEF z
<1>9. z \o l \in Bytes(84)
  BY <1>4, <1>8, Cat
<1> QED  BY <1>5, <1>9, SMT DEF x, y, z

LEMMA BuildInfoBytes ==
  \E n \in Nat : n < 40000000 /\ BuildInfoDoc \in Bytes(n)
<1> DEFINE lv == Len(Version)
           lb == Len(BuildHash)
<1>1. /\ lv \in Nat /\ lv < 16777216 /\ Version \in Bytes(lv)
      /\ lb \in Nat /\ lb < 16777216 /\ BuildHash \in Bytes(lb)
  BY MongoReplyAssumption, SMT DEF Bytes
<1> DEFINE a == Str(1, Version)
           b == Str(2, BuildHash)
           c == Str(3, <<76>>)
           n7 == Num(48, 7)
           n0 == Num(49, 0)
           n8 == Num(50, 8)
           m0 == Num(51, 0)
           inner == ((n7 \o n0) \o n8) \o m0
           d == Array(4, inner)
           e == Num(5, 64)
           f == Bool(6, FALSE)
           g == Num(7, 16777216)
           h == Num(8, 1)
<1> HIDE DEF lv, lb
<1>2. a \in Bytes(lv + 8) /\ b \in Bytes(lb + 8)
  BY <1>1, Small, StrBytes, SMT
<1>3. c \in Bytes(9)
  <2>1. <<76>> \in Bytes(1)
    BY SMT DEF Bytes, Byte
  <2> QED  BY <2>1, Small, StrBytes, SMT
<1>4. /\ n7 \in Bytes(7) /\ n0 \in Bytes(7) /\ n8 \in Bytes(7) /\ m0 \in Bytes(7)
      /\ e \in Bytes(7) /\ g \in Bytes(7) /\ h \in Bytes(7)
  BY Small, NumBytes, SMT
<1>5. f \in Bytes(4)
  BY BoolBytes, Zenon
<1>6. BuildInfoDoc = ((((((a \o b) \o c) \o d) \o e) \o f) \o g) \o h
  BY SMT DEF BuildInfoDoc
<1> HIDE DEF a, b, c, n7, n0, n8, m0, e, f, g, h
<1>7. inner \in Bytes(28)
  BY <1>4, Cat4
<1> HIDE DEF inner
<1>8. d \in Bytes(36)
  BY <1>7, Small, NestedBytes
<1> HIDE DEF d
<1> DEFINE x == ((a \o b) \o c) \o d
           n == (lv + 8) + (lb + 8) + 9 + 36
<1>9. x \in Bytes(n) /\ n \in Nat
  BY <1>1, <1>2, <1>3, <1>8, Cat4
<1>10. n < 40000000 - 25
  BY <1>1, SMT
<1> HIDE DEF x, n
<1> DEFINE y == ((x \o e) \o f) \o g
<1>11. y \in Bytes(n + 7 + 4 + 7)
  BY <1>4, <1>5, <1>9, Cat4
<1> HIDE DEF y
<1> DEFINE m == n + 7 + 4 + 7
<1>12. m \in Nat /\ y \in Bytes(m)
  BY <1>9, <1>11
<1>13. m + 7 < 40000000
  BY <1>9, <1>10, SMT
<1> HIDE DEF m
<1>14. y \o h \in Bytes(m + 7)
  BY <1>4, <1>12, Cat
<1>15. BuildInfoDoc \in Bytes(m + 7)
  BY <1>6, <1>14, SMT DEF x, y
<1> QED  BY <1>12, <1>13, <1>15, SMT

LEMMA SmallDocs ==
  OkDoc \in Bytes(7) /\ DatabasesDoc \in Bytes(22) /\ DeniedDoc \in Bytes(23)
<1> DEFINE a == Num(1, 1)
           b == Array(1, << >>)
           c == Num(2, 0)
           d == Num(3, 1)
           e == Num(1, 0)
           f == Str(2, <<110>>)
           g == Num(3, 13)
<1>1. /\ a \in Bytes(7) /\ c \in Bytes(7) /\ d \in Bytes(7) /\ e \in Bytes(7)
      /\ g \in Bytes(7)
  BY Small, NumBytes
<1>2. b \in Bytes(8)
  BY Small, NestedBytes, EndBytes
<1>3. f \in Bytes(9)
  <2>1. <<110>> \in Bytes(1)
    BY SMT DEF Bytes, Byte
  <2> QED  BY <2>1, Small, StrBytes
<1>4. OkDoc = a /\ DatabasesDoc = (b \o c) \o d /\ DeniedDoc = (e \o f) \o g
  BY DEF OkDoc, DatabasesDoc, DeniedDoc
<1> HIDE DEF a, b, c, d, e, f, g
<1> DEFINE bc == b \o c
           ef == e \o f
<1>5. bc \in Bytes(15) /\ ef \in Bytes(16)
  BY <1>1, <1>2, <1>3, Cat
<1> HIDE DEF bc, ef
<1>6. bc \o d \in Bytes(22) /\ ef \o g \in Bytes(23)
  BY <1>1, <1>5, Cat
<1> QED  BY <1>1, <1>4, <1>6 DEF bc, ef

\* A message's header gives its length, the request it answers and its kind.
Framed(r, to, opcode) ==
  /\ r \in Seq(Byte)
  /\ Int32(r, 0) = Len(r)
  /\ Int32(r, 8) = to
  /\ Int32(r, 12) = opcode

LEMMA HeaderFramed ==
  ASSUME NEW to \in Int32s, NEW opcode \in Int32s,
         NEW n \in Nat, n < 2147483632, NEW body \in Bytes(n)
  PROVE  Framed(Header(to, opcode, body), to, opcode)
<1> DEFINE a == LE(16 + Len(body))
           b == LE(0)
           c == LE(to)
           d == LE(opcode)
<1>1. Len(body) = n /\ 16 + Len(body) = 16 + n
  BY SMT DEF Bytes
<1>2. 16 + Len(body) \in Int32s /\ 0 \in Int32s
  BY <1>1, SMT DEF Int32s
<1>3. \A x \in Int32s : LE(x) \in Bytes(4)
  BY LEBytes, SMT DEF Int32s
<1>4. a \in Bytes(4) /\ b \in Bytes(4) /\ c \in Bytes(4) /\ d \in Bytes(4)
  BY <1>2, <1>3, SMT
<1>5. Int32(a, 0) = 16 + n /\ Int32(c, 0) = to /\ Int32(d, 0) = opcode
  BY <1>1, <1>2, LERoundTrip, SMT
<1>6. Header(to, opcode, body) = (((a \o b) \o c) \o d) \o body
  BY SMT DEF Header
<1> HIDE DEF a, b, c, d
<1> DEFINE ab == a \o b
<1>7. ab \in Bytes(8) /\ Int32(ab, 0) = 16 + n
  BY <1>4, <1>5, Cat, ReadFront, SMT
<1> HIDE DEF ab
<1> DEFINE abc == ab \o c
<1>8. abc \in Bytes(12) /\ Int32(abc, 0) = 16 + n /\ Int32(abc, 8) = to
  BY <1>4, <1>5, <1>7, Cat, ReadFront, ReadBack, SMT
<1> HIDE DEF abc
<1> DEFINE abcd == abc \o d
<1>9. /\ abcd \in Bytes(16) /\ Int32(abcd, 0) = 16 + n /\ Int32(abcd, 8) = to
      /\ Int32(abcd, 12) = opcode
  BY <1>4, <1>5, <1>8, Cat, ReadFront, ReadBack, SMT
<1> HIDE DEF abcd
<1> DEFINE m == abcd \o body
<1>10. /\ m \in Bytes(16 + n) /\ Int32(m, 0) = 16 + n /\ Int32(m, 8) = to
       /\ Int32(m, 12) = opcode
  BY <1>9, Cat, ReadFront, SMT
<1> HIDE DEF m
<1>11. m \in Seq(Byte) /\ Len(m) = 16 + n
  BY <1>10 DEF Bytes
<1>12. Framed(m, to, opcode)
  BY <1>10, <1>11, SMT DEF Framed
<1> QED  BY <1>6, <1>12, SMT DEF m, abcd, abc, ab

\* sendOpReply and sendOpMsgReply frame what they send.
LEMMA MsgReplyFramed ==
  ASSUME NEW to \in Int32s, NEW n \in Nat, n < 40000000, NEW d \in Bytes(n)
  PROVE  Framed(SendOpMsgReply(to, d), to, OpMsg)
<1> DEFINE flags == LE(0)
           kind == <<0>>
           fk == flags \o kind
           e == EncodeBSON(d)
<1>1. flags \in Bytes(4) /\ kind \in Bytes(1) /\ e \in Bytes(n + 5)
  BY LEBytes, EndBytes, EncodeBytes, SMT
<1> HIDE DEF flags, kind, e
<1>2. fk \in Bytes(5)
  BY <1>1, Cat, SMT
<1> HIDE DEF fk
<1> DEFINE body == fk \o e
<1>3. body \in Bytes(n + 10)
  <2>1. body \in Bytes(5 + (n + 5))
    BY <1>1, <1>2, Cat, SMT
  <2> QED  BY <2>1, SMT
<1>4. SendOpMsgReply(to, d) = Header(to, OpMsg, body)
  BY SMT DEF SendOpMsgReply, fk, flags, kind, e
<1> HIDE DEF body
<1>5. OpMsg \in Int32s /\ n + 10 \in Nat /\ n + 10 < 2147483632
  BY SMT DEF OpMsg, Int32s
<1>6. Framed(Header(to, OpMsg, body), to, OpMsg)
  BY <1>3, <1>5, HeaderFramed, SMT
<1> QED  BY <1>4, <1>6, SMT

LEMMA ReplyFramedTo ==
  ASSUME NEW to \in Int32s
  PROVE  /\ Framed(SendOpReply(to, << >>), to, OpReply)
         /\ Framed(SendOpReply(to, <<IsMasterDoc>>), to, OpReply)
<1> DEFINE a == LE(8)
           b == LE(0)
           zero == LE(0)
           one == LE(1)
           none == << >>
           h == ((a \o b) \o b) \o b
           e == EncodeBSON(IsMasterDoc)
<1>1. a \in Bytes(4) /\ b \in Bytes(4) /\ zero \in Bytes(4) /\ one \in Bytes(4)
  BY LEBytes, SMT
<1>2. none \in Bytes(0)
  BY EndBytes, SMT
<1>3. e \in Bytes(89)
  BY IsMasterBytes, EncodeBytes, SMT
<1>4. /\ SendOpReply(to, << >>) = Header(to, OpReply, (h \o zero) \o none)
      /\ SendOpReply(to, <<IsMasterDoc>>) = Header(to, OpReply, (h \o one) \o e)
  <2>1. /\ Len(<< >>) = 0 /\ Len(<<IsMasterDoc>>) = 1
        /\ <<IsMasterDoc>> # << >> /\ <<IsMasterDoc>>[1] = IsMasterDoc
    BY SMT
  <2> QED  BY <2>1, SMT DEF SendOpReply
<1> HIDE DEF a, b, zero, one, none, e
<1>5. h \in Bytes(16)
  BY <1>1, Cat4, SMT
<1> HIDE DEF h
<1> DEFINE hz == h \o zero
           ho == h \o one
<1>6. hz \in Bytes(20) /\ ho \in Bytes(20)
  BY <1>1, <1>5, Cat, SMT
<1> HIDE DEF hz, ho
<1> DEFINE x == hz \o none
           y == ho \o e
<1>7. x \in Bytes(20) /\ y \in Bytes(109)
  BY <1>2, <1>3, <1>6, Cat, SMT
<1> HIDE DEF x, y
<1>8. OpReply \in Int32s
  BY SMT DEF OpReply, Int32s
<1>9. Framed(Header(to, OpReply, x), to, OpReply) /\ Framed(Header(to, OpReply, y), to, OpReply)
  BY <1>7, <1>8, HeaderFramed, SMT
<1> QED  BY <1>4, <1>9, SMT DEF x, y, hz, ho

-----------------------------------------------------------------------------
(* What the operators on the payload return. *)

LEMMA PayloadBytes ==
  ASSUME TypeOK
  PROVE  N \in Nat /\ \A i \in 0..N - 1 : At(i) \in Byte
BY DEF TypeOK, N, At

\* Four bytes inside the payload make a number that is not negative.
LEMMA WordType ==
  ASSUME TypeOK, NEW i \in Nat, i + 4 <= N
  PROVE  Word(i) \in Nat
<1>1. At(i) \in Byte /\ At(i + 1) \in Byte /\ At(i + 2) \in Byte /\ At(i + 3) \in Byte
  BY PayloadBytes
<1>2. \A a, b, c, d \in Byte : a + 256 * b + 65536 * c + 16777216 * d \in Nat
  BY SMT DEF Byte
<1> HIDE DEF At
<1> QED  BY <1>1, <1>2, SMT DEF Word

\* indexByte finds nothing, or a zero byte at or behind i and inside the payload.
LEMMA ZeroFromRange ==
  ASSUME TypeOK, NEW i \in Nat
  PROVE  \/ ZeroFrom(i) = -1
         \/ ZeroFrom(i) \in Nat /\ i <= ZeroFrom(i) /\ ZeroFrom(i) < N
<1> DEFINE zeros == {j \in i..(N - 1) : At(j) = 0}
<1>1. CASE zeros = {}
  BY <1>1 DEF ZeroFrom
<1>2. CASE zeros # {}
  <2>1. zeros \in SUBSET Nat /\ zeros # {}
    BY <1>2, PayloadBytes
  <2>2. ZeroFrom(i) = Min(zeros)
    BY <1>2 DEF ZeroFrom
  <2>3. Min(zeros) \in zeros
    <3> HIDE DEF zeros
    <3> QED  BY <2>1, MinIn, Zenon
  <2>4. ZeroFrom(i) \in zeros
    BY <2>2, <2>3, Zenon
  <2> QED  BY <2>4, PayloadBytes
<1> QED  BY <1>1, <1>2

LEMMA SliceType ==
  ASSUME TypeOK, NEW i \in Nat, NEW j \in Nat, j <= N
  PROVE  Slice(i, j) \in Seq(Byte)
<1>1. \A k \in i + 1..j : payload[k] \in Byte
  BY DEF TypeOK, N
<1> QED  BY <1>1, SubSeqProperties DEF Slice

LEMMA LowerType ==
  ASSUME NEW s \in Seq(Byte)
  PROVE  Lower(s) \in Seq(Byte)
<1> DEFINE low(c) == IF c \in 65..90 THEN c + 32 ELSE c
<1>1. \A c \in Byte : low(c) \in Byte
  BY SMT DEF Byte
<1>2. Lower(s) = [i \in DOMAIN s |-> low(s[i])]
  BY DEF Lower
<1> HIDE DEF low
<1> QED  BY <1>1, <1>2

\* bsonFirstKey yields a name of bytes of the payload, or the empty one.
LEMMA FirstKeyType ==
  ASSUME TypeOK, NEW b \in Nat
  PROVE  FirstKey(b) \in Seq(Byte)
<1> DEFINE z == ZeroFrom(b + 5)
<1>1. CASE z \in Nat /\ z < N
  <2>1. Lower(Slice(b + 5, z)) \in Seq(Byte)
    BY <1>1, SliceType, LowerType, PayloadBytes
  <2>2. FirstKey(b) = Lower(Slice(b + 5, z)) \/ FirstKey(b) = << >>
    BY DEF FirstKey
  <2> QED  BY <2>1, <2>2, EmptySeq, Zenon
<1>2. CASE z = -1
  BY <1>2 DEF FirstKey
<1> QED  BY <1>1, <1>2, ZeroFromRange

\* However a value's length field lies, the cursor behind the value is not before
\* it and not behind the payload.
LEMMA ValueEndRange ==
  ASSUME TypeOK, base + 4 <= N, NEW t \in Byte, NEW v \in Nat, base + v <= N
  PROVE  \/ ValueEnd(t, v) = -1
         \/ ValueEnd(t, v) \in Nat /\ v <= ValueEnd(t, v) /\ base + ValueEnd(t, v) <= N
<1> DEFINE docLen == Word(base)
           left == N - base
           fits(n) == v + n <= docLen /\ v + n <= left
           word == Word(base + v)
           str == fits(4) /\ word >= 1 /\ fits(4 + word)
           sub == v + 4 <= left /\ word >= 5 /\ v + word <= left
           bin == v + 4 <= left /\ v + 5 + word <= left
           good(n) == n = -1 \/ (n \in Nat /\ v <= n /\ base + n <= N)
<1>1. N \in Nat /\ base \in Nat
  BY PayloadBytes DEF TypeOK
<1>2. v + 4 <= left => word \in Nat
  BY <1>1, WordType
<1>3. docLen \in Nat
  BY <1>1, WordType
<1> HIDE DEF docLen, word
<1>4. good(IF str THEN v + 4 + word ELSE -1)
  BY <1>1, <1>2, <1>3
<1>5. /\ good(IF fits(4) THEN v + 4 ELSE -1)
      /\ good(IF fits(8) THEN v + 8 ELSE -1)
      /\ good(IF fits(1) THEN v + 1 ELSE -1)
  BY <1>1, <1>3
<1>6. /\ good(IF v + 8 <= left THEN v + 8 ELSE -1)
      /\ good(IF v + 12 <= left THEN v + 12 ELSE -1)
  BY <1>1
<1>7. good(IF sub THEN v + word ELSE -1)
  BY <1>1, <1>2
<1>8. good(IF bin THEN v + 5 + word ELSE -1)
  BY <1>1, <1>2
<1>9. good(v) /\ good(-1)
  BY <1>1
<1> DEFINE value ==
      CASE t = 2 -> IF str THEN v + 4 + word ELSE -1
        [] t = 16 -> IF fits(4) THEN v + 4 ELSE -1
        [] t = 18 -> IF fits(8) THEN v + 8 ELSE -1
        [] t = 8 -> IF fits(1) THEN v + 1 ELSE -1
        [] t \in {1, 9} -> IF v + 8 <= left THEN v + 8 ELSE -1
        [] t \in {3, 4} -> IF sub THEN v + word ELSE -1
        [] t = 5 -> IF bin THEN v + 5 + word ELSE -1
        [] t = 7 -> IF v + 12 <= left THEN v + 12 ELSE -1
        [] t = 10 -> v
        [] OTHER -> -1
<1>10. ValueEnd(t, v) = value
  BY Zenon DEF ValueEnd, docLen, word
<1>11. good(value)
  <2> HIDE DEF good, left, fits, str, sub, bin
  <2> QED  BY <1>4, <1>5, <1>6, <1>7, <1>8, <1>9
<1> HIDE DEF value
<1> QED  BY <1>10, <1>11

\* The element at the cursor lies inside the payload and ends behind the cursor.
LEMMA ElementRange ==
  ASSUME TypeOK, CursorsInBounds, pc = "element", Parses
  PROVE  /\ ValueEnd(ElementType, KeyEnd + 1) \in Nat
         /\ dpos < ValueEnd(ElementType, KeyEnd + 1)
         /\ base + ValueEnd(ElementType, KeyEnd + 1) <= N
         /\ Key \in Seq(Byte)
<1>1. N \in Nat /\ base \in Nat /\ dpos \in Nat /\ base + 4 <= N
  BY PayloadBytes DEF TypeOK, CursorsInBounds
<1>2. dpos < N - base /\ ZeroFrom(base + dpos + 1) >= 0 /\ ValueEnd(ElementType, KeyEnd + 1) >= 0
  BY DEF Parses, HasElement
<1>3. ElementType \in Byte
  BY <1>1, <1>2, PayloadBytes DEF ElementType
<1> DEFINE z == ZeroFrom(base + dpos + 1)
<1>4. z \in Nat /\ base + dpos + 1 <= z /\ z < N
  BY <1>1, <1>2, ZeroFromRange
<1>5. KeyEnd = z - base
  BY DEF KeyEnd
<1> HIDE DEF z
<1>6. KeyEnd + 1 \in Nat /\ dpos < KeyEnd + 1 /\ base + (KeyEnd + 1) <= N /\ base + KeyEnd \in Nat
      /\ base + KeyEnd <= N
  BY <1>1, <1>4, <1>5
<1>7. \/ ValueEnd(ElementType, KeyEnd + 1) = -1
      \/ /\ ValueEnd(ElementType, KeyEnd + 1) \in Nat
         /\ KeyEnd + 1 <= ValueEnd(ElementType, KeyEnd + 1)
         /\ base + ValueEnd(ElementType, KeyEnd + 1) <= N
  BY <1>1, <1>3, <1>6, ValueEndRange
<1>8. Key \in Seq(Byte)
  BY <1>1, <1>6, SliceType DEF Key
<1> QED  BY <1>1, <1>2, <1>6, <1>7, <1>8

\* A step that leaves the payload alone leaves what is read from it alone.
LEMMA PayloadKept ==
  ASSUME payload' = payload
  PROVE  N' = N /\ \A i : At(i)' = At(i) /\ Word(i)' = Word(i)
BY DEF N, At, Word

-----------------------------------------------------------------------------
(* Types. *)

\* What a message's names may be; Sanitize is SelectSeq, of which the provers
\* know nothing.
Names == Seq(Byte) \cup {Sanitize(c) : c \in Seq(Byte)} \cup {<<o>> : o \in Legacy}

Records == [kind : {"QUERY", "MSG", "AUTH", "opcode"}, name : Names]

EventsOK == events \in Seq(Records)

LEMMA EventType ==
  ASSUME NEW k \in {"QUERY", "MSG", "AUTH", "opcode"}, NEW n \in Names
  PROVE  Event(k, n) \in Records
BY DEF Event, Records

LEMMA EventsStep ==
  ASSUME TypeOK, EventsOK, [Next]_vars
  PROVE  EventsOK'
<1>1. CASE LogLegacy
  <2>1. <<op>> \in Names
    BY <1>1 DEF LogLegacy, Names
  <2>2. Event("opcode", <<op>>) \in Records
    BY <2>1, EventType
  <2> HIDE DEF Records
  <2> QED  BY <1>1, <2>2 DEF LogLegacy, EventsOK
<1>2. CASE FinishQuery
  <2>1. Sanitize(command) \in Names
    BY DEF TypeOK, Names
  <2>2. Event("QUERY", Sanitize(command)) \in Records
    BY <2>1, EventType
  <2> QED  BY <1>2, <2>2 DEF FinishQuery, EventsOK
<1>3. CASE FinishMsg
  <2>1. Sanitize(command) \in Names /\ command \in Names
    BY DEF TypeOK, Names
  <2>2. Event("MSG", Sanitize(command)) \in Records /\ Event("AUTH", command) \in Records
    BY <2>1, EventType
  <2> DEFINE first == Append(events, Event("MSG", Sanitize(command)))
             auth == <<Event("AUTH", command)>>
  <2>3. first \in Seq(Records) /\ auth \in Seq(Records) /\ << >> \in Seq(Records)
    BY <2>2 DEF EventsOK
  <2>4. events' = first \o auth \/ events' = first \o << >>
    BY <1>3 DEF FinishMsg
  <2> HIDE DEF first, auth
  <2>5. first \o auth \in Seq(Records) /\ first \o << >> \in Seq(Records)
    BY <2>3, ConcatProperties
  <2> QED  BY <2>4, <2>5, Zenon DEF EventsOK
<1>4. CASE UNCHANGED events
  BY <1>4 DEF EventsOK
<1>5. Next \/ UNCHANGED vars => LogLegacy \/ FinishQuery \/ FinishMsg \/ UNCHANGED events
  BY DEF Next, vars, ReadMessage, ReadFails, Send, SendFails, EnterMsg, EnterQuery, Body,
         Sequence, UnknownKind, SectionsEnd, Element, DocumentEnd, Closed
<1> QED  BY <1>1, <1>2, <1>3, <1>4, <1>5

\* The replies of handleOpQuery and handleOpMsg.
LEMMA AnswerBytes == \E n \in Nat : n < 40000000 /\ Answer \in Bytes(n)
<1> DEFINE good(d) == \E n \in Nat : n < 40000000 /\ d \in Bytes(n)
<1>1. good(IsMasterDoc)
  BY IsMasterBytes, SMT
<1>2. good(OkDoc) /\ good(DatabasesDoc) /\ good(DeniedDoc)
  BY SmallDocs, SMT
<1>3. good(BuildInfoDoc)
  BY BuildInfoBytes, SMT
<1>4. Answer \in {IsMasterDoc, OkDoc, BuildInfoDoc, DatabasesDoc, DeniedDoc}
  BY SMT DEF Answer
<1> QED  BY <1>1, <1>2, <1>3, <1>4, SMT

LEMMA QueryReply ==
  ASSUME TypeOK, FinishQuery
  PROVE  Framed(reply', id, OpReply)
<1>1. reply' = SendOpReply(id, << >>) \/ reply' = SendOpReply(id, <<IsMasterDoc>>)
  BY SMT DEF FinishQuery
<1>2. id \in Int32s
  BY SMT DEF TypeOK
<1> QED  BY <1>1, <1>2, ReplyFramedTo, SMT

LEMMA MsgReply ==
  ASSUME TypeOK, FinishMsg
  PROVE  Framed(reply', id, OpMsg)
<1>1. reply' = SendOpMsgReply(id, Answer)
  BY SMT DEF FinishMsg
<1>2. id \in Int32s
  BY SMT DEF TypeOK
<1>3. PICK n \in Nat : n < 40000000 /\ Answer \in Bytes(n)
  BY AnswerBytes, SMT
<1> QED  BY <1>1, <1>2, <1>3, MsgReplyFramed, SMT

LEMMA ReadTypes ==
  ASSUME TypeOK, ReadMessage
  PROVE  /\ rd' \in 0..Len(input) /\ id' \in Int32s /\ op' \in Int32s
         /\ payload' \in Seq(Byte) /\ pc' \in {"enter", "log", "closed"}
         /\ pc' = "log" => op' \in Legacy
         /\ starts' \in Seq(Nat)
<1> DEFINE n == Int32(input, rd)
<1>1. input \in Seq(Byte) /\ rd \in Nat /\ Len(input) \in Nat
  BY SMT DEF TypeOK
<1>2. rd + 16 <= Len(input) /\ n \in 16..MaxMsgSize /\ rd + n <= Len(input)
  BY SMT DEF ReadMessage, HasMessage
<1>3. n \in Nat /\ n >= 16
  BY <1>2, MongoWireAssumption, SMT
<1>4. Int32(input, rd + 4) \in Int32s /\ Int32(input, rd + 12) \in Int32s
  BY <1>1, <1>2, Int32Range, SMT
<1>5. /\ rd' = rd + n /\ id' = Int32(input, rd + 4) /\ op' = Int32(input, rd + 12)
      /\ payload' = SubSeq(input, rd + 17, rd + n)
  BY SMT DEF ReadMessage, RequestID
<1> HIDE DEF n
<1>6. SubSeq(input, rd + 17, rd + n) \in Seq(Byte)
  <2>1. \A k \in rd + 17 .. rd + n : input[k] \in Byte
    BY <1>1, <1>2, <1>3
  <2> QED  BY <1>1, <1>3, <2>1, SubSeqProperties
<1>7. pc' \in {"enter", "log", "closed"} /\ (pc' = "log" => op' \in Legacy)
  <2>1. pc' = CASE op' \in {OpQuery, OpMsg} -> "enter"
                [] op' \in Legacy -> "log"
                [] OTHER -> "closed"
    BY SMT DEF ReadMessage
  <2> QED  BY <2>1, SMT
<1>8. rd' \in 0..Len(input)
  BY <1>1, <1>2, <1>3, <1>5, SMT
<1>9. starts' \in Seq(Nat)
  BY <1>1, SMT DEF TypeOK, ReadMessage
<1> QED  BY <1>4, <1>5, <1>6, <1>7, <1>8, <1>9, SMT

LEMMA TypeStep ==
  ASSUME TypeOK, CursorsInBounds, EventsOK, [Next]_vars
  PROVE  TypeOK'
<1>1. \A i \in 1..Len(events') : events'[i].kind \in {"QUERY", "MSG", "AUTH", "opcode"}
  <2>1. events' \in Seq(Records)
    BY EventsStep DEF EventsOK
  <2>2. \A i \in 1..Len(events') : events'[i] \in Records
    BY <2>1
  <2> QED  BY <2>2 DEF Records
<1> DEFINE StreamOK == /\ input \in Seq(Byte) /\ rd \in 0..Len(input) /\ starts \in Seq(Nat)
                       /\ id \in Int32s /\ op \in Int32s /\ payload \in Seq(Byte)
           ParserOK == /\ pos \in Nat /\ base \in Nat /\ dpos \in Nat
                       /\ command \in Seq(Byte) /\ strs \subseteq Seq(Byte)
                       /\ doc \subseteq Seq(Byte)
           OutOK == reply \in Seq(Byte) /\ sent \in Seq(Seq(Byte))
           PcOK == pc \in {"read", "enter", "section", "element", "log", "send", "closed"}
<1>2. StreamOK /\ ParserOK /\ OutOK /\ PcOK
  BY DEF TypeOK
<1> SUFFICES StreamOK' /\ ParserOK' /\ OutOK' /\ PcOK'
  BY <1>1 DEF TypeOK
<1>3. UNCHANGED stream => StreamOK'
  BY <1>2 DEF stream
<1>4. UNCHANGED <<pos, base, dpos, command, strs, doc>> => ParserOK'
  BY <1>2
<1>5. UNCHANGED <<reply, sent>> => OutOK'
  BY <1>2
<1>6. N \in Nat /\ \A i \in 0..N - 1 : At(i) \in Byte
  BY PayloadBytes
<1>7. CASE ReadMessage
  <2>1. StreamOK' /\ PcOK'
    BY <1>2, <1>7, ReadTypes DEF ReadMessage
  <2>2. ParserOK'
    BY <1>7 DEF ReadMessage
  <2> QED  BY <1>5, <1>7, <2>1, <2>2 DEF ReadMessage
<1>8. CASE ReadFails
  <2> HIDE DEF StreamOK, ParserOK, OutOK
  <2> QED  BY <1>3, <1>4, <1>5, <1>8 DEF ReadFails
<1>9. CASE LogLegacy
  <2> HIDE DEF StreamOK, ParserOK, OutOK
  <2> QED  BY <1>3, <1>4, <1>5, <1>9 DEF LogLegacy
<1>10. CASE Send
  <2>1. OutOK'
    BY <1>2, <1>10 DEF Send
  <2> HIDE DEF StreamOK, ParserOK, OutOK
  <2> QED  BY <1>3, <1>4, <1>10, <2>1 DEF Send
<1>11. CASE SendFails
  <2> HIDE DEF StreamOK, ParserOK, OutOK
  <2> QED  BY <1>3, <1>4, <1>5, <1>11 DEF SendFails
<1>12. CASE EnterMsg
  <2>1. ParserOK'
    BY <1>2, <1>12 DEF EnterMsg
  <2> HIDE DEF StreamOK, ParserOK, OutOK
  <2> QED  BY <1>3, <1>5, <1>12, <2>1 DEF EnterMsg
<1>13. CASE EnterQuery
  <2> DEFINE z == ZeroFrom(4)
             found == N >= 4 /\ z >= 0 /\ z + 9 <= N
  <2>1. ParserOK' /\ PcOK'
    <3>1. CASE found
      <4>1. z \in Nat
        BY <3>1, ZeroFromRange
      <4>2. Slice(4, z) \in Seq(Byte)
        BY <1>6, <3>1, <4>1, SliceType
      <4>3. /\ command' = Slice(4, z) /\ pos' = z + 9 /\ base' = z + 9 /\ dpos' = 4
            /\ strs' = {} /\ doc' = doc /\ pc' \in {"element", "log"}
        BY <1>13, <3>1 DEF EnterQuery
      <4> HIDE DEF z
      <4> QED  BY <1>2, <4>1, <4>2, <4>3
    <3>2. CASE ~found
      <4>1. pc' = "read" /\ UNCHANGED <<pos, base, dpos, command, strs, doc>>
        BY <1>13, <3>2 DEF EnterQuery
      <4> QED  BY <1>4, <4>1
    <3> QED  BY <3>1, <3>2
  <2> HIDE DEF StreamOK, ParserOK, OutOK, PcOK
  <2> QED  BY <1>3, <1>5, <1>13, <2>1 DEF EnterQuery
<1>14. CASE Body
  <2>1. pos + 1 \in Nat /\ FirstKey(pos + 1) \in Seq(Byte)
    BY <1>2, FirstKeyType
  <2>2. ParserOK' /\ PcOK'
    BY <1>2, <1>14, <2>1 DEF Body
  <2> HIDE DEF StreamOK, ParserOK, OutOK, PcOK
  <2> QED  BY <1>3, <1>5, <1>14, <2>2 DEF Body
<1>15. CASE Sequence
  <2>1. pos' \in Nat
    <3>1. pos + 1 \in Nat
      BY <1>2
    <3>2. pos + 1 + 4 <= N => Word(pos + 1) \in Nat
      BY <3>1, WordType
    <3>3. pos' = pos + 1 \/ (pos + 1 + 4 <= N /\ pos' = pos + 1 + Word(pos + 1))
      BY <1>15 DEF Sequence
    <3> QED  BY <3>1, <3>2, <3>3
  <2>2. ParserOK' /\ PcOK'
    BY <1>2, <1>15, <2>1 DEF Sequence
  <2> HIDE DEF StreamOK, ParserOK, OutOK, PcOK
  <2> QED  BY <1>3, <1>5, <1>15, <2>2 DEF Sequence
<1>16. CASE UnknownKind
  <2>1. ParserOK' /\ PcOK'
    BY <1>2, <1>6, <1>16 DEF UnknownKind
  <2> HIDE DEF StreamOK, ParserOK, OutOK, PcOK
  <2> QED  BY <1>3, <1>5, <1>16, <2>1 DEF UnknownKind
<1>17. CASE SectionsEnd
  <2> HIDE DEF StreamOK, ParserOK, OutOK
  <2> QED  BY <1>3, <1>4, <1>5, <1>17 DEF SectionsEnd
<1>18. CASE Element
  <2>1. dpos' \in Nat /\ Key \in Seq(Byte)
    BY <1>18, ElementRange DEF Element
  <2>2. strs' \subseteq Seq(Byte)
    <3>1. strs' \in {strs \cup {Key}, strs \ {Key}, strs}
      BY <1>18, SMT DEF Element
    <3> QED  BY <1>2, <2>1, <3>1
  <2>3. ParserOK' /\ PcOK'
    BY <1>2, <1>18, <2>1, <2>2 DEF Element
  <2> HIDE DEF StreamOK, ParserOK, OutOK, PcOK
  <2> QED  BY <1>3, <1>5, <1>18, <2>3 DEF Element
<1>19. CASE DocumentEnd
  <2>1. base + 4 <= N
    BY <1>2, <1>6, <1>19 DEF DocumentEnd, CursorsInBounds
  <2>2. Word(base) \in Nat
    BY <1>2, <2>1, WordType
  <2>3. /\ pos' = base + Word(base) /\ doc' = strs /\ pc' \in {"section", "log"}
        /\ UNCHANGED <<base, dpos, command, strs>>
    BY <1>19 DEF DocumentEnd
  <2>4. ParserOK' /\ PcOK'
    BY <1>2, <2>2, <2>3
  <2> HIDE DEF StreamOK, ParserOK, OutOK, PcOK
  <2> QED  BY <1>3, <1>5, <1>19, <2>4 DEF DocumentEnd
<1>20. CASE FinishQuery
  <2>1. reply' \in Seq(Byte)
    BY <1>20, QueryReply DEF Framed
  <2>2. OutOK'
    BY <1>2, <1>20, <2>1 DEF FinishQuery
  <2> HIDE DEF StreamOK, ParserOK, OutOK
  <2> QED  BY <1>3, <1>4, <1>20, <2>2 DEF FinishQuery
<1>21. CASE FinishMsg
  <2>1. reply' \in Seq(Byte)
    BY <1>21, MsgReply DEF Framed
  <2>2. OutOK'
    BY <1>2, <1>21, <2>1 DEF FinishMsg
  <2> HIDE DEF StreamOK, ParserOK, OutOK
  <2> QED  BY <1>3, <1>4, <1>21, <2>2 DEF FinishMsg
<1>22. CASE UNCHANGED vars
  <2> HIDE DEF StreamOK, ParserOK, OutOK
  <2> QED  BY <1>2, <1>3, <1>4, <1>5, <1>22 DEF vars
<1> QED
  BY <1>7, <1>8, <1>9, <1>10, <1>11, <1>12, <1>13, <1>14, <1>15, <1>16, <1>17, <1>18,
     <1>19, <1>20, <1>21, <1>22 DEF Next, Closed

-----------------------------------------------------------------------------
(* Cursors. *)

\* Entering a document whose lengths IsDoc has checked.
LEMMA EnterDocument ==
  ASSUME TypeOK, NEW b \in Nat, IsDoc(b),
         payload' = payload, pc' = "element", base' = b, dpos' = 4
  PROVE  CursorsInBounds'
<1>1. N \in Nat /\ N - b >= 5 /\ Word(b) <= N - b
  BY PayloadBytes DEF IsDoc
<1>2. Word(b) \in Nat
  BY <1>1, WordType
<1>3. N' = N /\ Word(base)' = Word(b)
  BY DEF N, Word, At
<1> HIDE DEF N, Word
<1> QED  BY <1>1, <1>2, <1>3 DEF CursorsInBounds

LEMMA CursorsStep ==
  ASSUME TypeOK, CursorsInBounds, [Next]_vars
  PROVE  CursorsInBounds'
<1>1. N \in Nat /\ pos \in Nat /\ base \in Nat /\ dpos \in Nat
  BY PayloadBytes DEF TypeOK
<1>2. UNCHANGED stream => N' = N
  BY PayloadKept DEF stream
<1>3. pc' \notin {"section", "log", "element"} => CursorsInBounds'
  BY DEF CursorsInBounds
<1>4. pc' # "element" /\ pos' <= N' => CursorsInBounds'
  BY DEF CursorsInBounds
<1>5. CASE ReadMessage
  <2>1. payload' \in Seq(Byte) /\ pc' # "element" /\ pos' = 0
    BY <1>5, ReadTypes DEF ReadMessage
  <2>2. N' \in Nat
    BY <2>1 DEF N
  <2> QED  BY <1>4, <2>1, <2>2
<1>6. CASE EnterMsg
  <2>1. pc' = "read" \/ (pc' = "section" /\ N >= 4 /\ pos' = 4)
    BY <1>1, <1>6 DEF EnterMsg
  <2>2. N' = N
    BY <1>2, <1>6 DEF EnterMsg
  <2> QED  BY <1>1, <1>3, <1>4, <2>1, <2>2
<1>7. CASE EnterQuery
  <2> DEFINE z == ZeroFrom(4)
  <2>1. CASE N >= 4 /\ z >= 0 /\ z + 9 <= N
    <3>1. z \in Nat
      BY <2>1, ZeroFromRange
    <3>2. /\ pos' = z + 9 /\ base' = z + 9 /\ dpos' = 4 /\ payload' = payload
          /\ pc' = IF IsDoc(z + 9) THEN "element" ELSE "log"
      BY <1>7, <2>1 DEF EnterQuery, stream
    <3>3. N' = N
      BY <3>2, PayloadKept
    <3> HIDE DEF z
    <3>4. CASE IsDoc(z + 9)
      BY <3>1, <3>2, <3>4, EnterDocument
    <3>5. CASE ~IsDoc(z + 9)
      BY <1>4, <2>1, <3>2, <3>3, <3>5
    <3> QED  BY <3>4, <3>5
  <2>2. CASE ~(N >= 4 /\ z >= 0 /\ z + 9 <= N)
    BY <1>3, <1>7, <2>2 DEF EnterQuery
  <2> QED  BY <2>1, <2>2
<1>8. CASE Body
  <2>1. /\ payload' = payload /\ pos' = pos + 1 /\ pos < N
        /\ pc = "section"
    BY <1>8 DEF Body, stream
  <2>2. CASE IsDoc(pos + 1)
    <3>1. pc' = "element" /\ base' = pos + 1 /\ dpos' = 4 /\ pos + 1 \in Nat
      BY <1>1, <1>8, <2>2 DEF Body
    <3> QED  BY <2>1, <2>2, <3>1, EnterDocument
  <2>3. CASE ~IsDoc(pos + 1)
    <3>1. pc' = pc
      BY <1>8, <2>3 DEF Body
    <3>2. N' = N
      BY <2>1, PayloadKept
    <3> QED  BY <1>1, <1>4, <2>1, <3>1, <3>2
  <2> QED  BY <2>2, <2>3
<1>9. CASE Sequence
  <2>1. N' = N /\ pc' = "section" /\ pos < N
    BY <1>2, <1>9 DEF Sequence
  <2>2. pos' = pos + 1 \/ (pos' = pos + 1 + Word(pos + 1) /\ pos + 1 + Word(pos + 1) <= N)
    BY <1>9 DEF Sequence
  <2> QED  BY <1>1, <1>4, <2>1, <2>2
<1>10. CASE UnknownKind
  <2>1. N' = N /\ pc' = "section" /\ pos' = N
    BY <1>2, <1>10 DEF UnknownKind
  <2> QED  BY <1>1, <1>4, <2>1
<1>11. CASE SectionsEnd
  <2>1. N' = N /\ pc' = "log" /\ pos' = pos /\ pos <= N
    BY <1>2, <1>11 DEF SectionsEnd, CursorsInBounds
  <2> QED  BY <1>4, <2>1
<1>12. CASE Element
  <2>1. dpos' \in Nat /\ dpos < dpos' /\ base + dpos' <= N
    BY <1>12, ElementRange DEF Element
  <2>2. base + 5 <= N /\ base + Word(base) <= N /\ dpos >= 4
    BY <1>12 DEF Element, CursorsInBounds
  <2>3. pc' = "element" /\ base' = base /\ payload' = payload
    BY <1>12 DEF Element, stream
  <2>4. N' = N /\ Word(base)' = Word(base)
    BY <2>3 DEF N, Word, At
  <2>5. base' + 5 <= N' /\ base' + dpos' <= N'
    BY <2>1, <2>2, <2>3, <2>4
  <2>6. dpos' >= 4
    BY <1>1, <2>1, <2>2
  <2>7. base' + Word(base)' <= N'
    BY <2>2, <2>3, <2>4, Zenon
  <2> QED  BY <2>3, <2>5, <2>6, <2>7 DEF CursorsInBounds
<1>13. CASE DocumentEnd
  <2>1. N' = N /\ pc' # "element" /\ pos' = base + Word(base) /\ base + Word(base) <= N
    BY <1>2, <1>13 DEF DocumentEnd, CursorsInBounds
  <2> QED  BY <1>4, <2>1
<1>14. CASE ReadFails \/ LogLegacy \/ Send \/ SendFails \/ FinishQuery \/ FinishMsg
  BY <1>3, <1>14 DEF ReadFails, LogLegacy, Send, SendFails, FinishQuery, FinishMsg
<1>15. CASE UNCHANGED vars
  BY <1>15 DEF vars, stream, CursorsInBounds, N, Word, At
<1> QED
  BY <1>5, <1>6, <1>7, <1>8, <1>9, <1>10, <1>11, <1>12, <1>13, <1>14, <1>15
  DEF Next, Closed

\* A step of the parser moves its cursor forward.
LEMMA AdvanceStep ==
  ASSUME TypeOK, CursorsInBounds, [Next]_vars
  PROVE  [/\ pc = "section" /\ pc' # "log" => pos' > pos
          /\ pc = "element" /\ pc' = "element" => dpos' > dpos]_vars
<1>1. N \in Nat /\ pos \in Nat /\ base \in Nat /\ dpos \in Nat
  BY PayloadBytes DEF TypeOK
<1>2. CASE Body
  <2>1. pc = "section" /\ pos' = pos + 1
    BY <1>2 DEF Body
  <2> QED  BY <1>1, <2>1
<1>3. CASE Sequence
  <2>1. pos + 1 + 4 <= N => Word(pos + 1) \in Nat
    BY <1>1, WordType
  <2>2. /\ pc = "section"
        /\ pos' = pos + 1 \/ (pos + 1 + 4 <= N /\ pos' = pos + 1 + Word(pos + 1))
    BY <1>3 DEF Sequence
  <2> QED  BY <1>1, <2>1, <2>2
<1>4. CASE UnknownKind
  BY <1>1, <1>4 DEF UnknownKind
<1>5. CASE Element
  <2>1. pc = "element" /\ dpos < dpos' /\ dpos' \in Nat
    BY <1>5, ElementRange DEF Element
  <2> QED  BY <1>1, <2>1
<1>6. CASE DocumentEnd
  <2>1. pc = "element" /\ pc' # "element"
    BY <1>6 DEF DocumentEnd
  <2> QED  BY <2>1
<1>7. CASE SectionsEnd
  BY <1>7 DEF SectionsEnd
<1>8. CASE \/ ReadMessage \/ ReadFails \/ LogLegacy \/ Send \/ SendFails \/ EnterMsg
           \/ EnterQuery \/ FinishQuery \/ FinishMsg
  BY <1>8 DEF ReadMessage, ReadFails, LogLegacy, Send, SendFails, EnterMsg, EnterQuery,
              FinishQuery, FinishMsg
<1>9. CASE UNCHANGED vars
  BY <1>9
<1> QED
  BY <1>2, <1>3, <1>4, <1>5, <1>6, <1>7, <1>8, <1>9 DEF Next, Closed

-----------------------------------------------------------------------------
(* A message with one body. *)

LEMMA BodyKept ==
  ASSUME payload' = payload
  PROVE  (OneBody' <=> OneBody) /\ FirstKey(5)' = FirstKey(5)
<1>1. OneBody' <=> OneBody
  BY DEF OneBody, IsDoc, N, At, Word
<1> DEFINE zeros == {j \in (5 + 5)..(N - 1) : At(j) = 0}
<1>2. ZeroFrom(5 + 5)' = ZeroFrom(5 + 5)
  <2>1. zeros' = zeros
    BY PayloadKept
  <2>2. ZeroFrom(5 + 5) = IF zeros = {} THEN -1 ELSE Min(zeros)
    BY Zenon DEF ZeroFrom
  <2>3. ZeroFrom(5 + 5)' = IF zeros' = {} THEN -1 ELSE Min(zeros')
    BY Zenon DEF ZeroFrom
  <2> HIDE DEF zeros
  <2> QED  BY <2>1, <2>2, <2>3, Zenon
<1>3. N' = N /\ Word(5)' = Word(5)
  BY PayloadKept
<1> DEFINE z == ZeroFrom(5 + 5)
<1>4. Lower(Slice(5 + 5, z))' = Lower(Slice(5 + 5, z))
  BY <1>2, Zenon DEF Slice
<1> DEFINE c == N - 5 >= 5 /\ Word(5) >= 5 /\ Word(5) <= N - 5 /\ z >= 0 /\ z - 5 < Word(5)
<1>5. c' <=> c
  BY <1>2, <1>3, Zenon
<1>6. /\ FirstKey(5) = IF c THEN Lower(Slice(5 + 5, z)) ELSE << >>
      /\ FirstKey(5)' = IF c' THEN Lower(Slice(5 + 5, z))' ELSE << >>
  BY Zenon DEF FirstKey
<1> HIDE DEF c, z
<1>7. FirstKey(5)' = FirstKey(5)
  BY <1>4, <1>5, <1>6, Zenon
<1> QED  BY <1>1, <1>7

\* At the only body section the parser enters the document, which ends where the
\* payload does; nothing else renames the command.
LEMMA TrackStep ==
  ASSUME TypeOK, CursorsInBounds, BodyTracked, [Next]_vars
  PROVE  BodyTracked'
<1>1. N \in Nat /\ pos \in Nat
  BY PayloadBytes DEF TypeOK
<1>2. ASSUME UNCHANGED stream
      PROVE  op' = op /\ N' = N /\ (OneBody' <=> OneBody) /\ FirstKey(5)' = FirstKey(5)
  BY <1>2, BodyKept DEF stream, N
<1>3. OneBody => N >= 10 /\ At(4) = 0 /\ IsDoc(5) /\ Word(5) = N - 5
  BY DEF OneBody
<1>4. ~(op' = OpMsg /\ OneBody') \/ pc' \notin {"section", "element", "log"} => BodyTracked'
  BY DEF BodyTracked
<1>5. CASE ReadMessage
  <2>1. pc' \in {"enter", "log", "closed"} /\ (pc' = "log" => op' \in Legacy)
    BY <1>5, ReadTypes
  <2>2. OpMsg \notin Legacy
    BY SMT DEF OpMsg, Legacy
  <2> QED  BY <1>4, <2>1, <2>2
<1>6. CASE EnterMsg
  <2>1. pos' = 4 /\ pc' \in {"read", "section"}
    BY <1>6 DEF EnterMsg
  <2> QED  BY <2>1 DEF BodyTracked
<1>7. CASE EnterQuery
  <2>1. op' = OpQuery
    BY <1>7 DEF EnterQuery, stream
  <2>2. OpQuery # OpMsg
    BY SMT DEF OpQuery, OpMsg
  <2> QED  BY <1>4, <2>1, <2>2
<1> DEFINE T == op = OpMsg /\ OneBody
<1>8. ASSUME T, pc = "section", pos < N
      PROVE  pos = 4
  BY <1>1, <1>8 DEF BodyTracked
<1>9. CASE Body
  <2>1. UNCHANGED stream /\ pc = "section" /\ pos < N
    BY <1>9 DEF Body
  <2>2. CASE T
    <3>1. pos = 4 /\ pos + 1 = 5
      BY <1>8, <2>1, <2>2
    <3>2. IsDoc(pos + 1)
      BY <1>3, <2>2, <3>1
    <3>3. pc' = "element" /\ base' = 5 /\ command' = FirstKey(5)
      BY <1>9, <3>1, <3>2 DEF Body
    <3> QED  BY <1>2, <2>1, <3>3 DEF BodyTracked
  <2> QED  BY <1>2, <1>4, <2>1, <2>2
<1>10. CASE Sequence \/ UnknownKind
  <2>1. UNCHANGED stream /\ pc = "section" /\ pos < N /\ At(pos) # 0
    BY <1>10 DEF Sequence, UnknownKind
  <2>2. ~T
    BY <1>3, <1>8, <2>1
  <2> QED  BY <1>2, <1>4, <2>1, <2>2
<1>11. CASE SectionsEnd
  <2>1. /\ UNCHANGED stream /\ pc = "section" /\ pos >= N /\ pc' = "log"
        /\ command' = command
    BY <1>11 DEF SectionsEnd
  <2>2. T => command = FirstKey(5)
    BY <1>1, <1>3, <2>1 DEF BodyTracked
  <2> QED  BY <1>2, <2>1, <2>2 DEF BodyTracked
<1>12. CASE Element
  <2>1. UNCHANGED stream /\ pc = "element" /\ pc' = "element" /\ base' = base /\ command' = command
    BY <1>12 DEF Element
  <2> QED  BY <1>2, <2>1 DEF BodyTracked
<1>13. CASE DocumentEnd
  <2>1. /\ UNCHANGED stream /\ pc = "element" /\ pos' = base + Word(base)
        /\ command' = command
    BY <1>13 DEF DocumentEnd
  <2>2. CASE T
    <3>1. pc' = "section"
      BY <1>13, <2>2 DEF DocumentEnd
    <3>2. base = 5 /\ command = FirstKey(5)
      BY <2>1, <2>2 DEF BodyTracked
    <3>3. pos' = N
      BY <1>1, <1>3, <2>1, <2>2, <3>2
    <3> QED  BY <1>2, <2>1, <3>1, <3>2, <3>3 DEF BodyTracked
  <2> QED  BY <1>2, <1>4, <2>1, <2>2
<1>14. CASE ReadFails \/ LogLegacy \/ Send \/ SendFails \/ FinishQuery \/ FinishMsg
  BY <1>4, <1>14 DEF ReadFails, LogLegacy, Send, SendFails, FinishQuery, FinishMsg
<1>15. CASE UNCHANGED vars
  <2>1. UNCHANGED stream /\ UNCHANGED <<pc, pos, base, command>>
    BY <1>15 DEF vars
  <2> QED  BY <1>2, <2>1 DEF BodyTracked
<1> QED
  BY <1>5, <1>6, <1>7, <1>9, <1>10, <1>11, <1>12, <1>13, <1>14, <1>15 DEF Next, Closed

\* handleOpMsg logs the command it tracked, whether or not the user of an
\* authentication is logged behind it.
LEMMA MsgLogged ==
  ASSUME TypeOK, EventsOK, FinishMsg
  PROVE  Logged' = Event("MSG", Sanitize(command))
<1> DEFINE main == Event("MSG", Sanitize(command))
           auth == Event("AUTH", command)
           first == Append(events, main)
<1>1. main \in Records /\ auth \in Records
  <2>1. Sanitize(command) \in Names /\ command \in Names
    BY DEF TypeOK, Names
  <2> QED  BY <2>1, EventType
<1>2. main.kind = "MSG" /\ auth.kind = "AUTH"
  BY DEF Event
<1>3. events' = first \o <<auth>> \/ events' = first \o << >>
  BY DEF FinishMsg
<1> HIDE DEF main, auth
<1>4. PICK n \in Nat : n = Len(events)
  BY DEF EventsOK
<1>5. first \in Seq(Records) /\ Len(first) = n + 1 /\ first[n + 1] = main
  BY <1>1, <1>4, AppendProperties DEF EventsOK
<1> HIDE DEF first
<1>6. CASE events' = first \o <<auth>>
  <2>1. first \o <<auth>> = Append(first, auth)
    BY <1>1, <1>5, AppendIsConcat
  <2>2. Len(events') = n + 2 /\ events'[n + 2] = auth /\ events'[n + 1] = main
    BY <1>1, <1>5, <1>6, <2>1, AppendProperties
  <2> QED  BY <1>2, <2>2 DEF Logged, main
<1>7. CASE events' = first \o << >>
  <2>1. events' = first
    BY <1>5, <1>7, ConcatEmptySeq
  <2> QED  BY <1>2, <1>5, <2>1 DEF Logged, main
<1> QED  BY <1>3, <1>6, <1>7

\* Only the two handlers put a reply up for sending.
LEMMA OnlyFinishSends ==
  ASSUME TypeOK, [Next]_vars
  PROVE  FinishMsg \/ FinishQuery \/ UNCHANGED vars \/ pc' # "send"
<1>1. CASE ReadMessage
  BY <1>1, ReadTypes
<1>2. CASE Body
  BY <1>2 DEF Body
<1>3. CASE EnterQuery
  BY <1>3 DEF EnterQuery
<1>4. CASE \/ ReadFails \/ LogLegacy \/ Send \/ SendFails \/ EnterMsg \/ Sequence
           \/ UnknownKind \/ SectionsEnd \/ Element \/ DocumentEnd
  BY <1>4 DEF ReadFails, LogLegacy, Send, SendFails, EnterMsg, Sequence, UnknownKind,
              SectionsEnd, Element, DocumentEnd
<1> QED  BY <1>1, <1>2, <1>3, <1>4, Zenon DEF Next, Closed

LEMMA LoggedStep ==
  ASSUME TypeOK, EventsOK, BodyTracked, BodyLogged, [Next]_vars
  PROVE  BodyLogged'
<1>1. CASE FinishMsg
  <2>1. /\ Logged' = Event("MSG", Sanitize(command)) /\ pc = "log" /\ op = OpMsg /\ payload' = payload
    BY <1>1, MsgLogged DEF FinishMsg, stream
  <2>2. (OneBody' <=> OneBody) /\ FirstKey(5)' = FirstKey(5)
    BY <2>1, BodyKept
  <2>3. OneBody => command = FirstKey(5)
    BY <2>1 DEF BodyTracked
  <2>4. OneBody' => Logged' = Event("MSG", Sanitize(FirstKey(5)'))
    BY <2>1, <2>2, <2>3, Zenon
  <2>5. BodyNamed' <=> Logged' = Event("MSG", Sanitize(FirstKey(5)'))
    BY Zenon DEF BodyNamed
  <2> QED  BY <2>4, <2>5, Zenon DEF BodyLogged
<1>2. CASE FinishQuery
  <2>1. op' = OpQuery /\ OpQuery # OpMsg
    BY <1>2, SMT DEF FinishQuery, stream, OpQuery, OpMsg
  <2> QED  BY <2>1 DEF BodyLogged
<1>3. CASE UNCHANGED vars
  <2>1. UNCHANGED <<payload, events, pc, op>>
    BY <1>3 DEF vars, stream
  <2>2. (OneBody' <=> OneBody) /\ FirstKey(5)' = FirstKey(5)
    BY <2>1, BodyKept
  <2>3. Logged' = Logged
    BY <2>1, Zenon DEF Logged
  <2>4. BodyNamed' <=> BodyNamed
    BY <2>2, <2>3, Zenon DEF BodyNamed
  <2> QED  BY <2>1, <2>2, <2>4, Zenon DEF BodyLogged
<1> QED  BY <1>1, <1>2, <1>3, OnlyFinishSends DEF BodyLogged

-----------------------------------------------------------------------------
(* Replies. *)

ReplyReady == pc = "send" => ReplyFramed

LEMMA ReplyStep ==
  ASSUME TypeOK, ReplyReady, [Next]_vars
  PROVE  ReplyReady'
<1>1. CASE FinishMsg
  <2>1. Framed(reply', id', OpMsg) /\ op' = OpMsg
    BY <1>1, MsgReply DEF FinishMsg, stream
  <2> QED  BY <2>1 DEF Framed, ReplyReady, ReplyFramed, Int32
<1>2. CASE FinishQuery
  <2>1. Framed(reply', id', OpReply) /\ op' = OpQuery
    BY <1>2, QueryReply DEF FinishQuery, stream
  <2>2. OpQuery # OpMsg
    BY SMT DEF OpQuery, OpMsg
  <2> QED  BY <2>1, <2>2 DEF Framed, ReplyReady, ReplyFramed, Int32
<1>3. CASE UNCHANGED vars
  BY <1>3 DEF vars, stream, ReplyReady, ReplyFramed
<1> QED  BY <1>1, <1>2, <1>3, OnlyFinishSends DEF ReplyReady

-----------------------------------------------------------------------------
(* Every request logged and answered once. *)

\* What is known of the requests while one of them is handled: the registers hold
\* the last one, which is complete from the sections on; it is logged from the
\* reply on, and answered when the handler is back at its read.
LastRead ==
  /\ starts # << >>
  /\ id = Request(Len(starts)).id
  /\ op = Request(Len(starts)).op
  /\ payload = Request(Len(starts)).body

Handled == IF pc = "read" THEN Len(starts) ELSE Len(starts) - 1

Recorded == IF pc \in {"read", "send"} THEN Len(starts) ELSE Len(starts) - 1

RequestsInv ==
  pc # "closed" =>
    /\ Consecutive
    /\ pc # "read" => LastRead
    /\ (pc \in {"section", "element", "send"} \/ (pc = "log" /\ op \notin Legacy)
         => Complete(Request(Len(starts))))
    /\ AnsweredUpTo(Handled)
    /\ LoggedUpTo(Recorded)

LEMMA Opcodes == OpMsg \notin Legacy /\ OpQuery \notin Legacy /\ OpMsg # OpQuery
BY SMT DEF OpMsg, OpQuery, Legacy

\* The kinds logged, without the second event of an authentication.
Mains(ev) == Pick([i \in DOMAIN ev |-> ev[i].kind], {i \in DOMAIN ev : ev[i].kind # "AUTH"})

LEMMA MainsAppend ==
  ASSUME NEW ev \in Seq(Records), NEW e \in Records
  PROVE  /\ e.kind # "AUTH" => Mains(Append(ev, e)) = Append(Mains(ev), e.kind)
         /\ e.kind = "AUTH" => Mains(Append(ev, e)) = Mains(ev)
<1>1. PICK n \in Nat : n = Len(ev) /\ DOMAIN ev = 1..n
  BY LenProperties
<1>2. PICK w : w = Append(ev, e)
  OBVIOUS
<1>3. w \in Seq(Records) /\ DOMAIN w = 1..(n + 1) /\ w[n + 1] = e /\ \A i \in 1..n : w[i] = ev[i]
  BY <1>1, <1>2, AppendProperties, LenProperties
<1>4. PICK S : S = {i \in DOMAIN ev : ev[i].kind # "AUTH"}
  OBVIOUS
<1>5. PICK T : T = {i \in DOMAIN w : w[i].kind # "AUTH"}
  OBVIOUS
<1>6. PICK f : f = [i \in DOMAIN ev |-> ev[i].kind]
  OBVIOUS
<1>7. PICK g : g = [i \in DOMAIN w |-> w[i].kind]
  OBVIOUS
<1>8. S \in SUBSET (1..n)
  BY <1>1, <1>4
<1>9. (\A i \in S : g[i] = f[i]) /\ g[n + 1] = e.kind
  <2>1. \A i \in 1..n : i \in 1..(n + 1)
    OBVIOUS
  <2>2. \A i \in 1..n : g[i] = w[i].kind /\ f[i] = ev[i].kind
    BY <1>1, <1>3, <1>6, <1>7, <2>1
  <2>3. g[n + 1] = w[n + 1].kind
    BY <1>3, <1>7
  <2> QED  BY <1>3, <1>8, <2>2, <2>3
<1>10. PickExtends(f, g, S, n)
  BY <1>8, <1>9, PickAppend
<1>11. \A i \in 1..n : i \in T <=> i \in S
  BY <1>1, <1>3, <1>4, <1>5
<1>12. \A i : i \in T => i \in 1..n \/ i = n + 1
  BY <1>3, <1>5
<1>13. n + 1 \in T <=> e.kind # "AUTH"
  BY <1>3, <1>5
<1>14. e.kind # "AUTH" => T = S \cup {n + 1}
  BY <1>8, <1>11, <1>12, <1>13
<1>15. e.kind = "AUTH" => T = S
  BY <1>8, <1>11, <1>12, <1>13
<1>16. Mains(ev) = Pick(f, S) /\ Mains(w) = Pick(g, T)
  BY <1>4, <1>5, <1>6, <1>7, Zenon DEF Mains
<1> QED  BY <1>2, <1>9, <1>10, <1>14, <1>15, <1>16 DEF PickExtends

\* The last of n requests is one more to answer and to log, or it is not.
LEMMA LastOf ==
  ASSUME NEW n \in Nat, n > 0
  PROVE  /\ ToAnswer(n - 1) \in SUBSET (1..n - 1)
         /\ ToLog(n - 1) \in SUBSET (1..n - 1)
         /\ Complete(Request(n)) => ToAnswer(n) = ToAnswer(n - 1) \cup {n}
         /\ ~Complete(Request(n)) => ToAnswer(n) = ToAnswer(n - 1)
         /\ Complete(Request(n)) \/ Request(n).op \in Legacy => ToLog(n) = ToLog(n - 1) \cup {n}
         /\ ~(Complete(Request(n)) \/ Request(n).op \in Legacy) => ToLog(n) = ToLog(n - 1)
<1>1. \A k : k \in 1..n <=> k \in 1..n - 1 \/ k = n
  OBVIOUS
<1> DEFINE A(k) == Complete(Request(k))
           B(k) == Complete(Request(k)) \/ Request(k).op \in Legacy
<1>2. \A m : ToAnswer(m) = {k \in 1..m : A(k)} /\ ToLog(m) = {k \in 1..m : B(k)}
  BY DEF ToAnswer, ToLog
<1>3. /\ A(n) => ToAnswer(n) = ToAnswer(n - 1) \cup {n}
      /\ ~A(n) => ToAnswer(n) = ToAnswer(n - 1)
      /\ B(n) => ToLog(n) = ToLog(n - 1) \cup {n}
      /\ ~B(n) => ToLog(n) = ToLog(n - 1)
  <2> HIDE DEF A, B
  <2> QED  BY <1>1, <1>2
<1>4. ToAnswer(n - 1) \in SUBSET (1..n - 1) /\ ToLog(n - 1) \in SUBSET (1..n - 1)
  BY <1>2
<1> QED  BY <1>3, <1>4

\* Whether the registers hold a complete request shows in them.
LEMMA LastComplete ==
  ASSUME LastRead
  PROVE  Complete(Request(Len(starts))) <=>
           \/ op = OpMsg /\ N >= 4
           \/ op = OpQuery /\ \E z \in 5..(N - 8) : payload[z] = 0
<1>1. PICK r : r = Request(Len(starts))
  OBVIOUS
<1>2. r.op = op /\ r.body = payload
  BY <1>1 DEF LastRead
<1>3. Complete(r) <=> \/ op = OpMsg /\ Len(payload) >= 4
                      \/ op = OpQuery /\ \E z \in 5..(Len(payload) - 8) : payload[z] = 0
  BY <1>2, Zenon DEF Complete
<1> QED  BY <1>1, <1>3 DEF N

\* indexByte finds the first zero byte.
LEMMA ZeroFromFirst ==
  ASSUME TypeOK, NEW i \in Nat
  PROVE  /\ ZeroFrom(i) >= 0 => At(ZeroFrom(i)) = 0
         /\ \A j \in i..(N - 1) : At(j) = 0 => ZeroFrom(i) \in Nat /\ ZeroFrom(i) <= j
<1> DEFINE zeros == {j \in i..(N - 1) : At(j) = 0}
<1>1. zeros \in SUBSET Nat
  BY PayloadBytes
<1>2. zeros # {} => ZeroFrom(i) = Min(zeros)
  BY DEF ZeroFrom
<1>3. zeros = {} => ZeroFrom(i) = -1
  BY DEF ZeroFrom
<1>4. zeros # {} => Min(zeros) \in zeros /\ \A j \in zeros : Min(zeros) <= j
  <2> HIDE DEF zeros
  <2> QED  BY <1>1, MinIn
<1> QED  BY <1>1, <1>2, <1>3, <1>4

\* The search in handleOpQuery finds the end of the name just where a complete
\* query has one.
LEMMA QueryFound ==
  ASSUME TypeOK
  PROVE  (N >= 4 /\ ZeroFrom(4) >= 0 /\ ZeroFrom(4) + 9 <= N)
           <=> \E z \in 5..(N - 8) : payload[z] = 0
<1>1. N \in Nat
  BY PayloadBytes
<1>2. \A j : At(j) = payload[j + 1]
  BY DEF At
<1>3. ASSUME N >= 4, ZeroFrom(4) >= 0, ZeroFrom(4) + 9 <= N
      PROVE  \E z \in 5..(N - 8) : payload[z] = 0
  <2>1. PICK j : j = ZeroFrom(4)
    OBVIOUS
  <2>2. j \in Nat /\ 4 <= j /\ j + 9 <= N /\ At(j) = 0
    BY <1>3, <2>1, ZeroFromRange, ZeroFromFirst
  <2>3. j + 1 \in 5..(N - 8) /\ payload[j + 1] = 0
    BY <1>1, <1>2, <2>2
  <2> QED  BY <2>3
<1>4. ASSUME NEW z \in 5..(N - 8), payload[z] = 0
      PROVE  N >= 4 /\ ZeroFrom(4) >= 0 /\ ZeroFrom(4) + 9 <= N
  <2>1. z - 1 \in 4..(N - 1) /\ z - 1 + 1 = z /\ z - 1 + 9 <= N
    BY <1>1
  <2>2. At(z - 1) = 0
    BY <1>2, <1>4, <2>1
  <2>3. ZeroFrom(4) \in Nat /\ ZeroFrom(4) <= z - 1
    BY <2>1, <2>2, ZeroFromFirst
  <2> QED  BY <1>1, <2>1, <2>3
<1> QED  BY <1>3, <1>4

\* A step that neither reads, sends nor logs keeps what the requests are and what
\* has become of them.
LEMMA RequestsKept ==
  ASSUME UNCHANGED <<input, starts>>
  PROVE  /\ \A k : Request(k)' = Request(k) /\ EndOf(k)' = EndOf(k)
         /\ \A n : ToAnswer(n)' = ToAnswer(n) /\ ToLog(n)' = ToLog(n)
         /\ sent' = sent => \A n : AnsweredUpTo(n)' <=> AnsweredUpTo(n)
         /\ events' = events => \A n : LoggedUpTo(n)' <=> LoggedUpTo(n)
         /\ rd' = rd => (Consecutive' <=> Consecutive)
<1>1. \A k : Request(k)' = Request(k) /\ EndOf(k)' = EndOf(k)
  BY DEF Request, EndOf
<1>2. \A n : ToAnswer(n)' = ToAnswer(n) /\ ToLog(n)' = ToLog(n)
  BY <1>1, Zenon DEF ToAnswer, ToLog
<1>3. /\ [k \in DOMAIN starts |-> Request(k).id]' = [k \in DOMAIN starts |-> Request(k).id]
      /\ [k \in DOMAIN starts |-> KindOf(Request(k).op)]'
           = [k \in DOMAIN starts |-> KindOf(Request(k).op)]
  BY <1>1, Zenon
<1>4. sent' = sent => \A n : AnsweredUpTo(n)' <=> AnsweredUpTo(n)
  BY <1>2, <1>3, Zenon DEF AnsweredUpTo
<1>5. events' = events => \A n : LoggedUpTo(n)' <=> LoggedUpTo(n)
  BY <1>2, <1>3, Zenon DEF LoggedUpTo, MainEvents
<1>6. rd' = rd => (Consecutive' <=> Consecutive)
  BY <1>1, Zenon DEF Consecutive
<1> QED  BY <1>1, <1>2, <1>4, <1>5, <1>6

\* readMessage takes the message behind the last one, and with it nothing becomes
\* of the earlier ones.
LEMMA RequestRead ==
  ASSUME TypeOK, RequestsInv, ReadMessage
  PROVE  RequestsInv'
<1>1. PICK n \in Nat : n = Len(starts) /\ DOMAIN starts = 1..n
  BY LenProperties DEF TypeOK
<1>2. PICK m \in Nat : m = rd
  BY DEF TypeOK
<1>3. starts' = Append(starts, m) /\ starts \in Seq(Nat)
  BY <1>2 DEF ReadMessage, TypeOK
<1>4. /\ Len(starts') = n + 1 /\ DOMAIN starts' = 1..(n + 1) /\ starts'[n + 1] = m
      /\ \A k \in 1..n : starts'[k] = starts[k]
  BY <1>1, <1>3, AppendProperties, LenProperties
<1>5. input' = input /\ sent' = sent /\ events' = events /\ pc = "read"
  BY DEF ReadMessage
<1>6. \A k \in 1..n : Request(k)' = Request(k) /\ EndOf(k)' = EndOf(k)
  BY <1>4, <1>5, Zenon DEF Request, EndOf
<1>7. Consecutive /\ AnsweredUpTo(n) /\ LoggedUpTo(n)
  BY <1>1, <1>5, Zenon DEF RequestsInv, Handled, Recorded
<1>8. starts' # << >> /\ (starts = << >> <=> n = 0)
  BY <1>1, <1>3, <1>4, EmptySeq
<1>9. Consecutive'
  <2>1. EndOf(n + 1)' = rd'
    BY <1>2, <1>4, <1>5 DEF EndOf, ReadMessage
  <2>2. m = IF n + 1 = 1 THEN 0 ELSE EndOf(n)
    BY <1>1, <1>2, <1>7, <1>8 DEF Consecutive
  <2>3. n # 0 => n \in 1..n /\ EndOf(n)' = EndOf(n)
    BY <1>6
  <2>4. ASSUME NEW k \in 1..n
        PROVE  starts'[k] = IF k = 1 THEN 0 ELSE EndOf(k - 1)'
    <3>1. starts'[k] = IF k = 1 THEN 0 ELSE EndOf(k - 1)
      BY <1>1, <1>4, <1>7 DEF Consecutive
    <3>2. k # 1 => k - 1 \in 1..n
      OBVIOUS
    <3>3. k # 1 => EndOf(k - 1)' = EndOf(k - 1)
      BY <1>6, <3>2
    <3> QED  BY <3>1, <3>3
  <2>5. starts'[n + 1] = IF n + 1 = 1 THEN 0 ELSE EndOf((n + 1) - 1)'
    <3>1. (n + 1) - 1 = n /\ (n + 1 # 1 => n # 0)
      OBVIOUS
    <3> QED  BY <1>4, <2>2, <2>3, <3>1
  <2>6. \A k \in 1..(n + 1) : k \in 1..n \/ k = n + 1
    OBVIOUS
  <2>7. \A k \in DOMAIN starts' : starts'[k] = IF k = 1 THEN 0 ELSE EndOf(k - 1)'
    BY <1>4, <2>4, <2>5, <2>6
  <2>8. rd' = IF starts' = << >> THEN 0 ELSE EndOf(Len(starts))'
    <3>1. EndOf(Len(starts))' = EndOf(n + 1)'
      BY <1>4, <1>5, Zenon DEF EndOf
    <3> QED  BY <1>8, <2>1, <3>1
  <2> QED  BY <2>7, <2>8, Zenon DEF Consecutive
<1>10. /\ Request(Len(starts))' = Request(n + 1)'
       /\ id' = Request(n + 1)'.id /\ op' = Request(n + 1)'.op
       /\ payload' = Request(n + 1)'.body
  <2>1. Request(Len(starts))' = Request(n + 1)'
    BY <1>4, <1>5, Zenon DEF Request, EndOf
  <2>2. Request(n + 1)' = [id |-> Int32(input, m + 4), op |-> Int32(input, m + 12),
                           body |-> SubSeq(input, m + 17, m + Int32(input, m))]
    BY <1>4, <1>5, Zenon DEF Request, EndOf
  <2>3. /\ id' = Int32(input, m + 4) /\ op' = Int32(input, m + 12)
        /\ payload' = SubSeq(input, m + 17, m + Int32(input, m))
    BY <1>2, Zenon DEF ReadMessage, RequestID
  <2> HIDE DEF Int32
  <2> QED  BY <2>1, <2>2, <2>3
<1>11. LastRead'
  BY <1>8, <1>10, Zenon DEF LastRead
<1>12. pc' \in {"enter", "log", "closed"} /\ (pc' = "log" => op' \in Legacy)
  BY ReadTypes
<1>13. ToAnswer(n)' = ToAnswer(n) /\ ToLog(n)' = ToLog(n)
  BY <1>6, Zenon DEF ToAnswer, ToLog
<1>14. ToAnswer(n) \in SUBSET (1..n) /\ ToLog(n) \in SUBSET (1..n)
  BY DEF ToAnswer, ToLog
<1>15. \A k \in 1..n : k \in 1..(n + 1)
  OBVIOUS
<1>16. AnsweredUpTo(n)'
  <2>1. PICK f : f = [k \in DOMAIN starts |-> Request(k).id]
    OBVIOUS
  <2>2. PICK g : g = [k \in DOMAIN starts' |-> Request(k)'.id]
    OBVIOUS
  <2>3. \A k \in ToAnswer(n) : g[k] = f[k]
    BY <1>1, <1>4, <1>6, <1>14, <1>15, <2>1, <2>2
  <2>4. PickExtends(f, g, ToAnswer(n), n)
    BY <1>14, <2>3, PickAppend
  <2>5. AnsweredUpTo(n)' <=> [i \in DOMAIN sent' |-> Int32(sent'[i], 8)] = Pick(g, ToAnswer(n)')
    BY <2>2, Zenon DEF AnsweredUpTo
  <2>6. [i \in DOMAIN sent |-> Int32(sent[i], 8)] = Pick(f, ToAnswer(n))
    BY <1>7, <2>1, Zenon DEF AnsweredUpTo
  <2> QED  BY <1>5, <1>13, <2>4, <2>5, <2>6, Zenon DEF PickExtends
<1>17. LoggedUpTo(n)'
  <2>1. PICK f : f = [k \in DOMAIN starts |-> KindOf(Request(k).op)]
    OBVIOUS
  <2>2. PICK g : g = [k \in DOMAIN starts' |-> KindOf(Request(k)'.op)]
    OBVIOUS
  <2>3. \A k \in ToLog(n) : g[k] = f[k]
    <3> HIDE DEF KindOf
    <3> QED  BY <1>1, <1>4, <1>6, <1>14, <1>15, <2>1, <2>2
  <2>4. PickExtends(f, g, ToLog(n), n)
    BY <1>14, <2>3, PickAppend
  <2>5. LoggedUpTo(n)' <=> Mains(events') = Pick(g, ToLog(n)')
    BY <2>2, Zenon DEF LoggedUpTo, MainEvents, Mains
  <2>6. Mains(events) = Pick(f, ToLog(n))
    BY <1>7, <2>1, Zenon DEF LoggedUpTo, MainEvents, Mains
  <2> QED  BY <1>5, <1>13, <2>4, <2>5, <2>6, Zenon DEF PickExtends
<1>18. Handled' = n /\ Recorded' = n
  BY <1>4, <1>12 DEF Handled, Recorded
<1>19. AnsweredUpTo(Handled)' /\ LoggedUpTo(Recorded)'
  BY <1>16, <1>17, <1>18, Zenon DEF AnsweredUpTo, LoggedUpTo, ToAnswer, ToLog
<1> QED  BY <1>9, <1>11, <1>12, <1>19 DEF RequestsInv

\* What is handled is the last request read.
LEMMA LastKnown ==
  ASSUME TypeOK, RequestsInv, pc \notin {"read", "closed"}
  PROVE  /\ LastRead /\ Consecutive
         /\ \E n \in Nat : /\ n = Len(starts) /\ n > 0 /\ n \in DOMAIN starts
                           /\ AnsweredUpTo(n - 1)
                           /\ pc = "send" => LoggedUpTo(n)
                           /\ pc # "send" => LoggedUpTo(n - 1)
                           /\ id = Request(n).id /\ op = Request(n).op
<1>1. PICK n \in Nat : n = Len(starts) /\ DOMAIN starts = 1..n
  BY LenProperties DEF TypeOK
<1>2. LastRead /\ Consecutive /\ starts # << >>
  BY DEF RequestsInv, LastRead
<1>3. n > 0
  BY <1>1, <1>2, EmptySeq DEF TypeOK
<1>4. id = Request(n).id /\ op = Request(n).op
  BY <1>1, <1>2, Zenon DEF LastRead
<1>5. AnsweredUpTo(n - 1)
  BY <1>1, Zenon DEF RequestsInv, Handled
<1>6. pc = "send" => LoggedUpTo(n)
  BY <1>1, Zenon DEF RequestsInv, Recorded
<1>7. pc # "send" => LoggedUpTo(n - 1)
  BY <1>1, Zenon DEF RequestsInv, Recorded
<1>8. n \in DOMAIN starts
  BY <1>1, <1>3
<1> QED  BY <1>1, <1>2, <1>3, <1>4, <1>5, <1>6, <1>7, <1>8

\* A reply appended is the answer to the last request.
LEMMA RequestAnswered ==
  ASSUME TypeOK, RequestsInv, ReplyReady, Send
  PROVE  RequestsInv'
<1>0. pc = "send" /\ pc' = "read" /\ UNCHANGED stream /\ UNCHANGED events
  BY DEF Send
<1>1. UNCHANGED <<input, starts, rd>>
  BY <1>0 DEF stream
<1>2. PICK n \in Nat : /\ n = Len(starts) /\ n > 0 /\ n \in DOMAIN starts
                       /\ AnsweredUpTo(n - 1) /\ LoggedUpTo(n)
                       /\ id = Request(n).id
  BY <1>0, LastKnown
<1>3. Consecutive' /\ LoggedUpTo(n)'
  <2>1. Consecutive
    BY <1>0, LastKnown
  <2> QED  BY <1>0, <1>1, <1>2, <2>1, RequestsKept
<1>4. Complete(Request(n))
  BY <1>0, <1>2, Zenon DEF RequestsInv
<1>5. /\ ToAnswer(n) = ToAnswer(n - 1) \cup {n}
      /\ ToAnswer(n - 1) \in SUBSET (1..n - 1)
  BY <1>2, <1>4, LastOf
<1>6. PICK f : f = [k \in DOMAIN starts |-> Request(k).id]
  OBVIOUS
<1>7. Pick(f, ToAnswer(n)) = Append(Pick(f, ToAnswer(n - 1)), f[n])
  <2>1. PICK m \in Nat : m = n - 1
    BY <1>2
  <2>2. PICK S : S = ToAnswer(n - 1)
    OBVIOUS
  <2>3. S \in SUBSET (1..m) /\ m + 1 = n
    BY <1>5, <2>1, <2>2
  <2>4. PickExtends(f, f, S, m)
    BY <2>3, PickAppend
  <2>5. Pick(f, S \cup {n}) = Append(Pick(f, S), f[n])
    BY <2>3, <2>4 DEF PickExtends
  <2> QED  BY <1>5, <2>2, <2>5
<1>8. f[n] = id
  BY <1>2, <1>6
<1>9. PICK a : a = [i \in DOMAIN sent |-> Int32(sent[i], 8)]
  OBVIOUS
<1>10. a = Pick(f, ToAnswer(n - 1))
  BY <1>2, <1>6, <1>9, Zenon DEF AnsweredUpTo
<1>11. Int32(reply, 8) = id
  BY <1>0, Zenon DEF ReplyReady, ReplyFramed
<1>12. sent' = Append(sent, reply) /\ sent \in Seq(Seq(Byte)) /\ reply \in Seq(Byte)
  BY DEF Send, TypeOK
<1>13. [i \in DOMAIN sent' |-> Int32(sent'[i], 8)] = Append(a, id)
  <2>1. PICK l \in Nat : l = Len(sent) /\ DOMAIN sent = 1..l
    BY <1>12, LenProperties
  <2>2. /\ DOMAIN sent' = 1..(l + 1) /\ sent'[l + 1] = reply
        /\ \A i \in 1..l : sent'[i] = sent[i]
    BY <1>12, <2>1, AppendProperties, LenProperties
  <2>3. PICK R : R = {Int32(sent[i], 8) : i \in 1..l} \cup {id}
    OBVIOUS
  <2>4. a \in Seq(R) /\ Len(a) = l /\ id \in R /\ \A i \in 1..l : a[i] = Int32(sent[i], 8)
    <3> HIDE DEF Int32
    <3>1. a \in [1..l -> R] /\ id \in R /\ \A i \in 1..l : a[i] = Int32(sent[i], 8)
      BY <1>9, <2>1, <2>3
    <3>2. a \in Seq(R)
      BY <3>1, SeqDef
    <3> QED  BY <3>1, <3>2, LenProperties
  <2>5. PICK b : b = Append(a, id)
    OBVIOUS
  <2>6. /\ b \in Seq(R) /\ Len(b) = l + 1 /\ b[l + 1] = id
        /\ \A i \in 1..l : b[i] = a[i]
    BY <2>4, <2>5, AppendProperties
  <2>7. b = [i \in 1..(l + 1) |-> b[i]]
    BY <2>6, LenProperties
  <2>8. ASSUME NEW i \in 1..(l + 1)
        PROVE  Int32(sent'[i], 8) = b[i]
    <3>1. CASE i \in 1..l
      <4>1. sent'[i] = sent[i]
        BY <2>2, <3>1
      <4>2. b[i] = Int32(sent[i], 8)
        BY <2>4, <2>6, <3>1
      <4> QED  BY <4>1, <4>2, Zenon
    <3>2. CASE i = l + 1
      <4>1. sent'[i] = reply /\ b[i] = id
        BY <2>2, <2>6, <3>2
      <4> QED  BY <1>11, <4>1, Zenon
    <3> QED  BY <3>1, <3>2
  <2> HIDE DEF Int32
  <2>9. [i \in DOMAIN sent' |-> Int32(sent'[i], 8)] = [i \in 1..(l + 1) |-> b[i]]
    BY <2>2, <2>8
  <2> QED  BY <2>5, <2>7, <2>9
<1>14. [k \in DOMAIN starts |-> Request(k).id]' = f /\ ToAnswer(n)' = ToAnswer(n)
  BY <1>1, <1>6, RequestsKept, Zenon
<1>15. AnsweredUpTo(n)'
  <2>1. AnsweredUpTo(n)' <=>
          [i \in DOMAIN sent' |-> Int32(sent'[i], 8)]
            = Pick([k \in DOMAIN starts |-> Request(k).id]', ToAnswer(n)')
    BY Zenon DEF AnsweredUpTo
  <2> QED  BY <1>7, <1>8, <1>10, <1>13, <1>14, <2>1, Zenon
<1>16. Handled' = n /\ Recorded' = n
  BY <1>0, <1>1, <1>2 DEF Handled, Recorded
<1>17. AnsweredUpTo(Handled)' /\ LoggedUpTo(Recorded)'
  BY <1>3, <1>15, <1>16, Zenon DEF AnsweredUpTo, LoggedUpTo, ToAnswer, ToLog
<1> QED  BY <1>0, <1>3, <1>17 DEF RequestsInv

\* An event logged is the record of the last request.
LEMMA RequestLogged ==
  ASSUME TypeOK, RequestsInv, pc = "log", UNCHANGED stream,
         Complete(Request(Len(starts))) \/ op \in Legacy,
         Mains(events') = Append(Mains(events), KindOf(op))
  PROVE  LoggedUpTo(Len(starts))'
<1>1. UNCHANGED <<input, starts>>
  BY DEF stream
<1>2. PICK n \in Nat : /\ n = Len(starts) /\ n > 0 /\ n \in DOMAIN starts
                       /\ LoggedUpTo(n - 1) /\ op = Request(n).op
  BY LastKnown
<1>3. /\ ToLog(n) = ToLog(n - 1) \cup {n}
      /\ ToLog(n - 1) \in SUBSET (1..n - 1)
  BY <1>2, LastOf
<1>4. PICK f : f = [k \in DOMAIN starts |-> KindOf(Request(k).op)]
  OBVIOUS
<1>5. Pick(f, ToLog(n)) = Append(Pick(f, ToLog(n - 1)), f[n])
  <2>1. PICK m \in Nat : m = n - 1
    BY <1>2
  <2>2. PICK S : S = ToLog(n - 1)
    OBVIOUS
  <2>3. S \in SUBSET (1..m) /\ m + 1 = n
    BY <1>3, <2>1, <2>2
  <2>4. PickExtends(f, f, S, m)
    BY <2>3, PickAppend
  <2>5. Pick(f, S \cup {n}) = Append(Pick(f, S), f[n])
    BY <2>3, <2>4 DEF PickExtends
  <2> QED  BY <1>3, <2>2, <2>5
<1>6. f[n] = KindOf(op)
  <2> HIDE DEF KindOf
  <2> QED  BY <1>2, <1>4
<1>7. Mains(events) = Pick(f, ToLog(n - 1))
  BY <1>2, <1>4, Zenon DEF LoggedUpTo, MainEvents, Mains
<1>8. [k \in DOMAIN starts |-> KindOf(Request(k).op)]' = f /\ ToLog(n)' = ToLog(n)
  BY <1>1, <1>4, RequestsKept, Zenon
<1>9. LoggedUpTo(n)'
  <2>1. LoggedUpTo(n)' <=>
          Mains(events') = Pick([k \in DOMAIN starts |-> KindOf(Request(k).op)]', ToLog(n)')
    BY Zenon DEF LoggedUpTo, MainEvents, Mains
  <2> QED  BY <1>5, <1>6, <1>7, <1>8, <2>1, Zenon
<1> QED  BY <1>1, <1>2, <1>9, Zenon DEF LoggedUpTo, ToLog

\* After a log entry the request's answer is due, or, of a legacy operation, none is.
LEMMA RequestRecorded ==
  ASSUME TypeOK, RequestsInv, EventsOK, LogLegacy \/ FinishQuery \/ FinishMsg
  PROVE  RequestsInv'
<1>1. pc = "log" /\ UNCHANGED stream /\ UNCHANGED sent
  BY DEF LogLegacy, FinishQuery, FinishMsg
<1>2. UNCHANGED <<input, starts, rd, id, op, payload>>
  BY <1>1 DEF stream
<1>3. PICK n \in Nat : /\ n = Len(starts) /\ n > 0 /\ n \in DOMAIN starts
                       /\ AnsweredUpTo(n - 1) /\ op = Request(n).op
  BY <1>1, LastKnown
<1>4. LastRead /\ Consecutive
  BY <1>1, LastKnown
<1>5. Consecutive' /\ AnsweredUpTo(n - 1)' /\ Request(n)' = Request(n)
  BY <1>1, <1>2, <1>3, <1>4, RequestsKept
<1>6. LastRead'
  <2>1. Request(Len(starts))' = Request(Len(starts))
    BY <1>2, Zenon DEF Request, EndOf
  <2> QED  BY <1>2, <1>4, <2>1, Zenon DEF LastRead
<1>7. Complete(Request(n)) => op \notin Legacy
  <2>1. Complete(Request(n)) => op \in {OpMsg, OpQuery}
    BY <1>3, <1>4, LastComplete
  <2> QED  BY <2>1, Opcodes
<1>8. CASE LogLegacy
  <2>1. op \in Legacy /\ pc' = "read" /\ events' = Append(events, Event("opcode", <<op>>))
    BY <1>8 DEF LogLegacy
  <2>2. KindOf(op) = "opcode"
    BY <2>1, Opcodes DEF KindOf
  <2>3. Event("opcode", <<op>>) \in Records /\ Event("opcode", <<op>>).kind = "opcode"
    <3>1. <<op>> \in Names
      BY <2>1 DEF Names
    <3> QED  BY <3>1, EventType DEF Event
  <2>4. Mains(events') = Append(Mains(events), KindOf(op))
    BY <2>1, <2>2, <2>3, MainsAppend DEF EventsOK
  <2>5. LoggedUpTo(n)'
    <3>1. LoggedUpTo(Len(starts))'
      BY <1>1, <2>1, <2>4, RequestLogged
    <3> QED  BY <1>2, <1>3, <3>1, Zenon DEF LoggedUpTo, ToLog
  <2>6. ToAnswer(n) = ToAnswer(n - 1)
    BY <1>3, <1>7, <2>1, LastOf
  <2>7. AnsweredUpTo(n)'
    <3>1. ToAnswer(n)' = ToAnswer(n - 1)'
      BY <1>2, <2>6, RequestsKept
    <3> QED  BY <1>5, <3>1, Zenon DEF AnsweredUpTo
  <2>8. Handled' = n /\ Recorded' = n
    BY <1>2, <1>3, <2>1 DEF Handled, Recorded
  <2>9. AnsweredUpTo(Handled)' /\ LoggedUpTo(Recorded)'
    BY <2>5, <2>7, <2>8, Zenon DEF AnsweredUpTo, LoggedUpTo, ToAnswer, ToLog
  <2> QED  BY <1>5, <2>1, <2>9 DEF RequestsInv
<1>9. ASSUME FinishQuery \/ FinishMsg, Mains(events') = Append(Mains(events), KindOf(op))
      PROVE  RequestsInv'
  <2>1. op \in {OpQuery, OpMsg} /\ pc' = "send"
    BY <1>9 DEF FinishQuery, FinishMsg
  <2>2. op \notin Legacy
    BY <2>1, Opcodes
  <2>3. Complete(Request(Len(starts)))
    BY <1>1, <2>2, Zenon DEF RequestsInv
  <2>4. LoggedUpTo(n)'
    <3>1. LoggedUpTo(Len(starts))'
      BY <1>1, <1>9, <2>3, RequestLogged
    <3> QED  BY <1>2, <1>3, <3>1, Zenon DEF LoggedUpTo, ToLog
  <2>5. Complete(Request(Len(starts)))'
    <3>1. Request(Len(starts))' = Request(Len(starts))
      BY <1>2, Zenon DEF Request, EndOf
    <3> QED  BY <2>3, <3>1, Zenon DEF Complete
  <2>6. Handled' = n - 1 /\ Recorded' = n
    BY <1>2, <1>3, <2>1 DEF Handled, Recorded
  <2>7. AnsweredUpTo(Handled)' /\ LoggedUpTo(Recorded)'
    BY <1>5, <2>4, <2>6, Zenon DEF AnsweredUpTo, LoggedUpTo, ToAnswer, ToLog
  <2> QED  BY <1>5, <1>6, <2>1, <2>5, <2>7 DEF RequestsInv
<1>10. CASE FinishQuery
  <2>1. op = OpQuery /\ events' = Append(events, Event("QUERY", Sanitize(command)))
    BY <1>10 DEF FinishQuery
  <2>2. KindOf(op) = "QUERY"
    BY <2>1, Opcodes DEF KindOf
  <2>3. PICK e : e = Event("QUERY", Sanitize(command))
    OBVIOUS
  <2>4. e \in Records /\ e.kind = "QUERY"
    <3>1. Sanitize(command) \in Names
      BY DEF TypeOK, Names
    <3> QED  BY <2>3, <3>1, EventType DEF Event
  <2>5. Mains(events') = Append(Mains(events), KindOf(op))
    BY <2>1, <2>2, <2>3, <2>4, MainsAppend DEF EventsOK
  <2> QED  BY <1>9, <1>10, <2>5
<1>11. CASE FinishMsg
  <2>1. PICK e : e = Event("MSG", Sanitize(command))
    OBVIOUS
  <2>2. PICK x : x = Event("AUTH", command)
    OBVIOUS
  <2>3. /\ op = OpMsg
        /\ events' = Append(events, e) \o <<x>> \/ events' = Append(events, e) \o << >>
    BY <1>11, <2>1, <2>2 DEF FinishMsg
  <2>4. KindOf(op) = "MSG"
    BY <2>3, Opcodes DEF KindOf
  <2>5. e \in Records /\ e.kind = "MSG" /\ x \in Records /\ x.kind = "AUTH"
    <3>1. Sanitize(command) \in Names /\ command \in Names
      BY DEF TypeOK, Names
    <3> QED  BY <2>1, <2>2, <3>1, EventType DEF Event
  <2>6. PICK w : w = Append(events, e)
    OBVIOUS
  <2>7. w \in Seq(Records) /\ Mains(w) = Append(Mains(events), KindOf(op))
    BY <2>4, <2>5, <2>6, MainsAppend, AppendProperties DEF EventsOK
  <2>8. Mains(Append(w, x)) = Mains(w)
    BY <2>5, <2>7, MainsAppend
  <2>9. w \o <<x>> = Append(w, x) /\ w \o << >> = w
    BY <2>5, <2>7, AppendIsConcat, ConcatEmptySeq
  <2>10. Mains(events') = Append(Mains(events), KindOf(op))
    BY <2>3, <2>6, <2>7, <2>8, <2>9, Zenon
  <2> QED  BY <1>9, <1>11, <2>10
<1> QED  BY <1>8, <1>10, <1>11

\* The parser's steps change nothing of that; a request that is not complete is
\* dropped without a trace.
LEMMA RequestCarried ==
  ASSUME TypeOK, RequestsInv, UNCHANGED stream, UNCHANGED <<events, sent>>,
         pc \in {"enter", "section", "element"},
         \/ pc' \in {"section", "element", "log"} /\ Complete(Request(Len(starts)))
         \/ pc' = "read" /\ ~Complete(Request(Len(starts))) /\ op \notin Legacy
  PROVE  RequestsInv'
<1>1. UNCHANGED <<input, starts, rd, id, op, payload>>
  BY DEF stream
<1>2. PICK n \in Nat : /\ n = Len(starts) /\ n > 0 /\ n \in DOMAIN starts
                       /\ AnsweredUpTo(n - 1) /\ LoggedUpTo(n - 1) /\ op = Request(n).op
  BY LastKnown
<1>3. LastRead /\ Consecutive
  BY LastKnown
<1>4. Consecutive' /\ AnsweredUpTo(n - 1)' /\ LoggedUpTo(n - 1)'
  BY <1>1, <1>2, <1>3, RequestsKept
<1>5. Request(Len(starts))' = Request(Len(starts))
  BY <1>1, Zenon DEF Request, EndOf
<1>6. LastRead'
  BY <1>1, <1>3, <1>5, Zenon DEF LastRead
<1>7. CASE pc' \in {"section", "element", "log"} /\ Complete(Request(Len(starts)))
  <2>1. Complete(Request(Len(starts)))'
    BY <1>5, <1>7, Zenon DEF Complete
  <2>2. Handled' = n - 1 /\ Recorded' = n - 1
    BY <1>1, <1>2, <1>7 DEF Handled, Recorded
  <2>3. AnsweredUpTo(Handled)' /\ LoggedUpTo(Recorded)'
    BY <1>4, <2>2, Zenon DEF AnsweredUpTo, LoggedUpTo, ToAnswer, ToLog
  <2> QED  BY <1>4, <1>6, <2>1, <2>3 DEF RequestsInv
<1>8. CASE pc' = "read" /\ ~Complete(Request(Len(starts))) /\ op \notin Legacy
  <2>1. ToAnswer(n) = ToAnswer(n - 1) /\ ToLog(n) = ToLog(n - 1)
    BY <1>2, <1>8, LastOf
  <2>2. ToAnswer(n)' = ToAnswer(n - 1)' /\ ToLog(n)' = ToLog(n - 1)'
    BY <1>1, <2>1, RequestsKept
  <2>3. AnsweredUpTo(n)' /\ LoggedUpTo(n)'
    BY <1>4, <2>2, Zenon DEF AnsweredUpTo, LoggedUpTo
  <2>4. Handled' = n /\ Recorded' = n
    BY <1>1, <1>2, <1>8 DEF Handled, Recorded
  <2>5. AnsweredUpTo(Handled)' /\ LoggedUpTo(Recorded)'
    BY <2>3, <2>4, Zenon DEF AnsweredUpTo, LoggedUpTo, ToAnswer, ToLog
  <2> QED  BY <1>4, <1>8, <2>5 DEF RequestsInv
<1> QED  BY <1>7, <1>8

LEMMA RequestsStep ==
  ASSUME TypeOK, EventsOK, ReplyReady, RequestsInv, [Next]_vars
  PROVE  RequestsInv'
<1>1. CASE ReadMessage
  BY <1>1, RequestRead
<1>2. CASE Send
  BY <1>2, RequestAnswered
<1>3. CASE LogLegacy \/ FinishQuery \/ FinishMsg
  BY <1>3, RequestRecorded
<1>4. CASE ReadFails \/ SendFails
  BY <1>4 DEF ReadFails, SendFails, RequestsInv
<1>5. CASE EnterMsg
  <2>1. /\ UNCHANGED stream /\ UNCHANGED <<events, sent>> /\ pc = "enter" /\ op = OpMsg
        /\ pc' = IF N < 4 THEN "read" ELSE "section"
    BY <1>5 DEF EnterMsg
  <2>2. LastRead
    BY <2>1, LastKnown
  <2>3. Complete(Request(Len(starts))) <=> N >= 4
    BY <2>1, <2>2, LastComplete, Opcodes
  <2>4. N \in Nat
    BY PayloadBytes
  <2> QED  BY <2>1, <2>3, <2>4, RequestCarried, Opcodes
<1>6. CASE EnterQuery
  <2> DEFINE found == N >= 4 /\ ZeroFrom(4) >= 0 /\ ZeroFrom(4) + 9 <= N
  <2>1. UNCHANGED stream /\ UNCHANGED <<events, sent>> /\ pc = "enter" /\ op = OpQuery
    BY <1>6 DEF EnterQuery
  <2>2. found => pc' \in {"element", "log"}
    BY <1>6, SMT DEF EnterQuery
  <2>3. ~found => pc' = "read"
    BY <1>6, SMT DEF EnterQuery
  <2>4. LastRead
    BY <2>1, LastKnown
  <2>5. Complete(Request(Len(starts))) <=> \E z \in 5..(N - 8) : payload[z] = 0
    BY <2>1, <2>4, LastComplete, Opcodes
  <2>6. found <=> \E z \in 5..(N - 8) : payload[z] = 0
    BY QueryFound
  <2> HIDE DEF found
  <2> QED  BY <2>1, <2>2, <2>3, <2>5, <2>6, RequestCarried, Opcodes
<1>7. CASE Body \/ Sequence \/ UnknownKind \/ SectionsEnd \/ Element \/ DocumentEnd
  <2>1. /\ UNCHANGED stream /\ UNCHANGED <<events, sent>> /\ pc \in {"section", "element"}
        /\ pc' \in {"section", "element", "log"}
    BY <1>7 DEF Body, Sequence, UnknownKind, SectionsEnd, Element, DocumentEnd
  <2>2. Complete(Request(Len(starts)))
    BY <2>1, Zenon DEF RequestsInv
  <2> QED  BY <2>1, <2>2, RequestCarried
<1>8. CASE UNCHANGED vars
  <2>1. UNCHANGED <<input, rd, starts, id, op, payload, pc, events, sent>>
    BY <1>8 DEF vars, stream
  <2>2. /\ Request(Len(starts))' = Request(Len(starts)) /\ (Consecutive' <=> Consecutive)
        /\ \A n : AnsweredUpTo(n)' <=> AnsweredUpTo(n)
        /\ \A n : LoggedUpTo(n)' <=> LoggedUpTo(n)
    <3>1. Request(Len(starts))' = Request(Len(starts))
      BY <2>1, Zenon DEF Request, EndOf
    <3> QED  BY <2>1, <3>1, RequestsKept
  <2>3. Handled' = Handled /\ Recorded' = Recorded
    BY <2>1 DEF Handled, Recorded
  <2>4. /\ AnsweredUpTo(Handled)' <=> AnsweredUpTo(Handled)
        /\ LoggedUpTo(Recorded)' <=> LoggedUpTo(Recorded)
    <3>1. PICK h : h = Handled
      OBVIOUS
    <3>2. PICK r : r = Recorded
      OBVIOUS
    <3>3. AnsweredUpTo(Handled)' <=> AnsweredUpTo(h)'
      BY <2>3, <3>1, Zenon DEF AnsweredUpTo, ToAnswer
    <3>4. LoggedUpTo(Recorded)' <=> LoggedUpTo(r)'
      BY <2>3, <3>2, Zenon DEF LoggedUpTo, ToLog
    <3> QED  BY <2>2, <3>1, <3>2, <3>3, <3>4, Zenon
  <2>5. LastRead' <=> LastRead
    BY <2>1, <2>2, Zenon DEF LastRead
  <2>6. Complete(Request(Len(starts)))' <=> Complete(Request(Len(starts)))
    BY <2>2, Zenon DEF Complete
  <2> QED  BY <2>1, <2>2, <2>4, <2>5, <2>6, Zenon DEF RequestsInv
<1> QED
  BY <1>1, <1>2, <1>3, <1>4, <1>5, <1>6, <1>7, <1>8, Zenon DEF Next, Closed

-----------------------------------------------------------------------------
(* The inductive invariant.  The types need the cursors' bounds, which keep    *)
(* every length field read inside the payload, and the bounds need the types;  *)
(* what is logged needs the parser tracked up to the end of the sections, and  *)
(* which requests are logged and answered needs the one being handled.         *)

IInv == /\ TypeOK /\ EventsOK
        /\ CursorsInBounds
        /\ BodyTracked /\ BodyLogged
        /\ ReplyReady
        /\ RequestsInv

\* The inductive invariant holds in every state of a connection, whatever bytes
\* the client sends and whatever maxMsgSize and maxBSONDoc are.
THEOREM MongoInvariance == Spec => []IInv
<1>1. Init => IInv
  <2> SUFFICES ASSUME Init PROVE IInv
    OBVIOUS
  <2>1. input \in Seq(Byte) /\ Len(input) \in Nat
    BY MongoWireAssumption DEF Init
  <2>2. 0 \in Int32s
    BY SMT DEF Int32s
  <2>3. TypeOK
    BY <2>1, <2>2 DEF Init, TypeOK
  <2>4. EventsOK
    BY DEF Init, EventsOK
  <2>5. pc = "read"
    BY DEF Init
  <2>6. RequestsInv
    <3>1. Len(starts) = 0 /\ DOMAIN starts = {} /\ rd = 0 /\ starts = << >>
      BY DEF Init
    <3>2. Consecutive
      BY <3>1 DEF Consecutive
    <3>3. ToAnswer(0) = {} /\ ToLog(0) = {}
      BY DEF ToAnswer, ToLog
    <3>4. \A f : Pick(f, {}) = << >>
      BY FS_EmptySet DEF Pick
    <3>5. DOMAIN sent = {} /\ DOMAIN events = {}
      BY DEF Init
    <3>6. AnsweredUpTo(0)
      <4>1. [i \in DOMAIN sent |-> Int32(sent[i], 8)] = << >>
        <5> HIDE DEF Int32
        <5> QED  BY <3>5
      <4> QED  BY <3>3, <3>4, <4>1, Zenon DEF AnsweredUpTo
    <3>7. LoggedUpTo(0)
      BY <3>3, <3>4, <3>5 DEF LoggedUpTo, MainEvents
    <3>8. Handled = 0 /\ Recorded = 0
      BY <2>5, <3>1 DEF Handled, Recorded
    <3> QED  BY <2>5, <3>2, <3>6, <3>7, <3>8 DEF RequestsInv
  <2> QED
    BY <2>3, <2>4, <2>5, <2>6 DEF IInv, CursorsInBounds, BodyTracked, BodyLogged, ReplyReady
<1>2. IInv /\ [Next]_vars => IInv'
  BY EventsStep, TypeStep, CursorsStep, TrackStep, LoggedStep, ReplyStep, RequestsStep DEF IInv
<1> QED  BY <1>1, <1>2, PTL DEF Spec

\* Type correctness: what readMessage, the parser and the encoder produce are
\* bytes, and the header's fields fit their 32 bits.
THEOREM MongoTypes == Spec => []TypeOK
<1>1. IInv => TypeOK
  BY DEF IInv
<1> QED  BY <1>1, MongoInvariance, PTL

\* No length field a client sends moves a cursor of handleOpMsg or parseBSONDoc
\* past the payload, for payloads of any length.
THEOREM CursorsStayInBounds == Spec => []CursorsInBounds
<1>1. IInv => CursorsInBounds
  BY DEF IInv
<1> QED  BY <1>1, MongoInvariance, PTL

\* The section loop and parseLoop consume at least a byte with every step, so
\* neither can go round for ever on any payload.
THEOREM CursorsAlwaysAdvance == Spec => CursorsAdvance
<1>1. IInv /\ [Next]_vars =>
        [/\ pc = "section" /\ pc' # "log" => pos' > pos
         /\ pc = "element" /\ pc' = "element" => dpos' > dpos]_vars
  BY AdvanceStep DEF IInv
<1> QED  BY <1>1, MongoInvariance, PTL DEF Spec, CursorsAdvance

\* A message with one body section is logged under the first key of that body,
\* whatever its elements are.
THEOREM BodyAlwaysLogged == Spec => []BodyLogged
<1>1. IInv => BodyLogged
  BY DEF IInv
<1> QED  BY <1>1, MongoInvariance, PTL

\* Every reply of sendOpReply and sendOpMsgReply starts with its own length,
\* the ID of the request just read and the opcode of its format.
THEOREM RepliesAlwaysFramed == Spec => [](pc = "send" => ReplyFramed)
<1>1. IInv => (pc = "send" => ReplyFramed)
  BY DEF IInv, ReplyReady
<1> QED  BY <1>1, MongoInvariance, PTL

\* Whatever the client sends, whenever Handler's loop is back at its read the
\* messages read lie end to end from the first byte on, each complete query and
\* message has been logged once and answered once under its own ID, in order,
\* and legacy operations have been logged and not answered.
THEOREM RequestsAlwaysAnswered == Spec => []RequestsAnswered
<1>1. IInv => RequestsAnswered
  <2> SUFFICES ASSUME IInv, pc = "read" PROVE RequestsAnswered
    BY DEF RequestsAnswered
  <2>1. Consecutive /\ AnsweredUpTo(Handled) /\ LoggedUpTo(Recorded)
    BY DEF IInv, RequestsInv
  <2>2. Handled = Len(starts) /\ Recorded = Len(starts)
    BY DEF Handled, Recorded
  <2> QED  BY <2>1, <2>2, Zenon DEF RequestsAnswered
<1> QED  BY <1>1, MongoInvariance, PTL
=============================================================================
