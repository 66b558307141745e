-------------------------------- MODULE Text --------------------------------
(***************************************************************************)
(* Strings as the handlers and the store cut, decode and clean them.       *)
(*                                                                         *)
(* A string is a sequence of symbols, one per byte.  A word such as "AUTH" *)
(* or "alice" is a symbol that stands for harmless ASCII text and counts   *)
(* as one byte; the bytes that some code treats specially have symbols of  *)
(* their own.  "x.." are bytes above 127: xC2 and xC3 start a two-byte     *)
(* rune, x85 and xA9 continue one, xFF is never valid.                     *)
(***************************************************************************)
EXTENDS Integers, Sequences, SequencesExt, Positions

CONSTANTS MaxField, \* the 4096 bytes of sanitizeStr
          MaxPath,  \* the 512 bytes of sanitizePath
          PathText  \* the symbols made of [A-Za-z0-9._/-] only

CRLF == <<"CR", "LF">>

HighBytes == {"xC2", "xC3", "x85", "xA9", "xFF"}

\* The rune of two bytes that make one.
Lead == {"xC2", "xC3"}
Continuation == {"x85", "xA9"}

TwoByte(a, b) == CASE a = "xC2" /\ b = "x85" -> "U85"
                   [] a = "xC2" /\ b = "xA9" -> "UA9"
                   [] a = "xC3" /\ b = "x85" -> "UC5"
                   [] OTHER -> "UE9"

\* The symbols for which unicode.IsControl holds; U85 is the C1 control NEL.
Controls == {"CR", "LF", "NUL", "ESC", "U85"}

ASSUME TextAssumption ==
  /\ MaxField \in Nat \ {0} /\ MaxPath \in Nat \ {0}
  /\ {"_", "SESSION"} \subseteq PathText
  /\ PathText \cap (Controls \cup HighBytes \cup {"SP", "UA9", "UC5", "UE9", "UFFFD"}) = {}

\* Ranging over the first n bytes of a string: a byte that does not decode is the
\* rune UFFFD.  No byte both starts and continues a rune, so pairs do not overlap.
Runes(s, n) ==
  LET cut == {i \in 1..n : i \in DOMAIN s}
      pair(i) == {i, i + 1} \subseteq cut /\ s[i] \in Lead /\ s[i + 1] \in Continuation
      rune == [i \in cut |-> IF pair(i) THEN TwoByte(s[i], s[i + 1])
                             ELSE IF s[i] \in HighBytes THEN "UFFFD" ELSE s[i]]
  IN  Pick(rune, {i \in cut : ~pair(i - 1)})

\* truncate: bytes, not runes.
Truncate(s, n) == SubSeq(s, 1, IF Len(s) <= n THEN Len(s) ELSE n)

\* indexByte(s, 0), counted from 1; 0 if there is none.
IndexNul(s) == SelectInSeq(s, LAMBDA b : b = "NUL")

\* nullTermString: up to the first zero byte, or all.
NullTerm(s) == IF IndexNul(s) = 0 THEN s ELSE SubSeq(s, 1, IndexNul(s) - 1)

\* Faulty variant: bytes are tested where the code tests runes.
SanitizeStrBytes(s) ==
  Runes(Pick(s, {i \in 1..MaxField : i \in DOMAIN s /\ s[i] \notin Controls}), MaxField)

\* Cut first, then drop control runes; what does not decode grows to three bytes.
SanitizeStr(s) ==
  LET runes == Runes(s, MaxField)
  IN  Pick(runes, {i \in DOMAIN runes : runes[i] \notin Controls})

\* Faulty variant: only control characters are replaced.
SanitizePathKeeping(s) ==
  LET runes == Runes(s, MaxPath)
  IN  [i \in DOMAIN runes |-> IF runes[i] \in Controls THEN "_" ELSE runes[i]]

\* Every rune outside [A-Za-z0-9._/-] becomes "_".
SanitizePath(s) ==
  LET runes == Runes(s, MaxPath)
  IN  [i \in DOMAIN runes |-> IF runes[i] \in PathText THEN runes[i] ELSE "_"]
=============================================================================
