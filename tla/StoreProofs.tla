---------------------------- MODULE StoreProofs ----------------------------
(* Theorems about module Store, for every number of sessions, events and   *)
(* restarts, with and without a webhook.                                   *)
EXTENDS Store, FiniteSetTheorems, TLAPS

-----------------------------------------------------------------------------
(* Types and the mutex. *)

\* Every step of Log, Close and the process leaves the variables in their ranges.
LEMMA TypeStep ==
  ASSUME IInv, Next
  PROVE  TypeOK'
<1> USE StoreAssumption DEF IInv, TypeOK
<1>1. ASSUME NEW s \in Sessions, Begin(s) \/ Lock(s)
      PROVE  TypeOK'
  <2>1. /\ pc' \in [Sessions -> {"idle", "lock", "write", "rest", "hook"}]
        /\ mu' \in Sessions \cup {Free}
    BY <1>1, Zenon DEF Begin, Lock, Go
  <2>2. count' \in [Sessions -> 0..MaxEvents]
    <3>1. \A n \in 0..MaxEvents : n < MaxEvents => n + 1 \in 0..MaxEvents
      OBVIOUS
    <3> QED  BY <1>1, <3>1 DEF Begin, Lock
  <2> QED  BY <1>1, <2>1, <2>2, Zenon DEF Begin, Lock
<1>2. ASSUME NEW s \in Sessions, pc[s] # "idle"
      PROVE  Current(s) \in Events
  BY <1>2 DEF Current, Events, InLogCounted
<1>3. ASSUME NEW s \in Sessions, WriteWhole(s) \/ WriteHead(s) \/ WriteTail(s)
      PROVE  TypeOK'
  <2>1. Current(s) \in Events
    BY <1>2, <1>3 DEF WriteWhole, WriteHead, WriteTail, Go
  <2>2. \A p \in Parts : [ev |-> Current(s), part |-> p] \in Fragments
    BY <2>1 DEF Fragments
  <2>3. file' \in Seq(Fragments)
    <3>1. PICK p \in Parts : file' = Append(file, [ev |-> Current(s), part |-> p])
      BY <1>3, Zenon DEF WriteWhole, WriteHead, WriteTail, Extend, Parts
    <3> HIDE DEF Current
    <3> QED  BY <2>2, <3>1
  <2>4. pc' \in [Sessions -> {"idle", "lock", "write", "rest", "hook"}]
    BY <1>3 DEF WriteWhole, WriteHead, WriteTail, Go
  <2> QED  BY <1>3, <2>3, <2>4, Zenon DEF WriteWhole, WriteHead, WriteTail
<1>4. ASSUME NEW s \in Sessions, WriteError(s)
      PROVE  TypeOK'
  BY <1>4 DEF WriteError, Go
<1>5. ASSUME NEW s \in Sessions, Finish(s)
      PROVE  TypeOK'
  <2>1. Current(s) \in Events
    BY <1>2, <1>5 DEF Finish, Go
  <2> QED  BY <1>5, <2>1 DEF Finish, Go
<1>6. ASSUME NEW e \in Events, Send(e)
      PROVE  TypeOK'
  BY <1>6 DEF Send
<1>7. CASE CloseCall \/ Close \/ Rest
  BY <1>7, Zenon DEF CloseCall, Close, Rest, vars
<1>8. CASE New
  <2>1. runs' \in 1..MaxRuns
    BY <1>8 DEF New
  <2> QED  BY <1>8, <2>1, Zenon DEF New
<1>9. CASE End
  <2>1. hook' \in [Events -> {"none", "sending", "over"}] /\ faults' \in Nat
    BY <1>9 DEF End
  <2>2. pc' \in [Sessions -> {"idle", "lock", "write", "rest", "hook"}]
        /\ mu' \in Sessions \cup {Free}
    BY <1>9, Zenon DEF End
  <2> QED  BY <1>9, <2>1, <2>2, Zenon DEF End
<1> QED  BY <1>1, <1>3, <1>4, <1>5, <1>6, <1>7, <1>8, <1>9 DEF Next, Critical

\* The mutex goes with the part of Log between Lock and Unlock.
LEMMA HoldersStep ==
  ASSUME IInv, Next
  PROVE  HoldersExact' /\ InLogCounted'
<1> USE StoreAssumption DEF IInv, TypeOK, HoldersExact, InLogCounted
<1>1. ASSUME NEW s \in Sessions, Begin(s) \/ Lock(s)
      PROVE  HoldersExact' /\ InLogCounted'
  <2>1. CASE Begin(s)
    BY <2>1 DEF Begin, Go
  <2>2. CASE Lock(s)
    BY <2>2 DEF Lock, Go
  <2> QED  BY <1>1, <2>1, <2>2
<1>2. ASSUME NEW s \in Sessions, Critical(s)
      PROVE  HoldersExact' /\ InLogCounted'
  BY <1>2 DEF Critical, WriteWhole, WriteHead, WriteTail, WriteError, Finish, Go
<1>3. CASE (\E e \in Events : Send(e)) \/ CloseCall \/ Close \/ New \/ Rest
  BY <1>3 DEF Send, CloseCall, Close, New, Rest, vars
<1>4. CASE End
  BY <1>4 DEF End
<1> QED  BY <1>1, <1>2, <1>3, <1>4 DEF Next

\* Only its session can disturb a line between its two system calls, and Close
\* cannot, as it needs the mutex.
LEMMA HeadStep ==
  ASSUME IInv, Next
  PROVE  HeadAtEnd'
<1> USE StoreAssumption DEF IInv, TypeOK, HeadAtEnd, HoldersExact, Current
<1>1. ASSUME NEW s \in Sessions, Begin(s) \/ Lock(s)
      PROVE  HeadAtEnd'
  BY <1>1 DEF Begin, Lock, Go
<1>2. ASSUME NEW s \in Sessions, WriteHead(s)
      PROVE  HeadAtEnd'
  <2>1. ASSUME NEW r \in Sessions, pc'[r] = "rest"
        PROVE  r = s
    BY <1>2, <2>1 DEF WriteHead, Go
  <2>2. Len(file') = Len(file) + 1 /\ file'[Len(file')] = [ev |-> <<s, count[s]>>, part |-> "head"]
    BY <1>2 DEF WriteHead, Extend
  <2>3. Len(file') > 0
    BY <2>2
  <2> QED  BY <1>2, <2>1, <2>2, <2>3, Zenon DEF WriteHead
<1>3. ASSUME NEW s \in Sessions, WriteWhole(s) \/ WriteTail(s) \/ WriteError(s) \/ Finish(s)
      PROVE  HeadAtEnd'
  <2>1. ASSUME NEW r \in Sessions
        PROVE  pc'[r] # "rest"
    BY <1>3 DEF WriteWhole, WriteTail, WriteError, Finish, Go
  <2> QED  BY <2>1
<1>4. CASE (\E e \in Events : Send(e)) \/ CloseCall \/ Close \/ New \/ Rest
  BY <1>4 DEF Send, CloseCall, Close, New, Rest, vars
<1>5. CASE End
  BY <1>5 DEF End
<1> QED  BY <1>1, <1>2, <1>3, <1>4, <1>5 DEF Next, Critical

-----------------------------------------------------------------------------
(* What a step can do to the file. *)

Quiet == file' = file /\ (MidLine' <=> MidLine) /\ faults' \in Nat /\ faults' >= faults

Cuts == file' = file /\ ~MidLine' /\ faults' = faults + 1

Adds(e, p) == /\ file' = Append(file, [ev |-> e, part |-> p])
              /\ faults' = faults
              /\ MidLine <=> (p = "tail")
              /\ MidLine' <=> (p = "head")
              /\ p = "tail" => Len(file) > 0 /\ file[Len(file)] = [ev |-> e, part |-> "head"]

\* A step leaves the file alone, or may have cut a line and is counted as a fault,
\* or appends one entry where it belongs.
LEMMA StepShape ==
  ASSUME IInv, Next
  PROVE  Quiet \/ Cuts \/ \E e \in Events, p \in Parts : Adds(e, p)
<1> USE StoreAssumption DEF IInv, TypeOK
<1>1. ASSUME NEW s \in Sessions, Begin(s) \/ Lock(s) \/ Finish(s)
      PROVE  Quiet
  <2>1. \A r \in Sessions : pc'[r] = "rest" <=> pc[r] = "rest"
    BY <1>1 DEF Begin, Lock, Finish, Go
  <2>2. file' = file /\ faults' = faults
    BY <1>1 DEF Begin, Lock, Finish
  <2> QED  BY <2>1, <2>2 DEF Quiet, MidLine
\* Only one session is in the part of Log that holds the mutex.
<1>2. ASSUME NEW s \in Sessions, NEW r \in Sessions, pc[s] \in {"write", "rest", "hook"}, pc[r] = "rest"
      PROVE  r = s
  BY <1>2 DEF HoldersExact
<1>3. ASSUME NEW s \in Sessions, pc[s] # "idle"
      PROVE  Current(s) \in Events
  BY <1>3 DEF Current, Events, InLogCounted
<1>4. ASSUME NEW s \in Sessions, WriteWhole(s)
      PROVE  Adds(Current(s), "whole") /\ Current(s) \in Events
  <2>1. ~MidLine /\ ~MidLine'
    BY <1>2, <1>4 DEF WriteWhole, Go, MidLine
  <2> QED  BY <1>3, <1>4, <2>1 DEF WriteWhole, Go, Extend, Adds
<1>5. ASSUME NEW s \in Sessions, WriteHead(s)
      PROVE  Adds(Current(s), "head") /\ Current(s) \in Events
  <2>1. ~MidLine /\ MidLine'
    BY <1>2, <1>5 DEF WriteHead, Go, MidLine
  <2> QED  BY <1>3, <1>5, <2>1 DEF WriteHead, Go, Extend, Adds
<1>6. ASSUME NEW s \in Sessions, WriteTail(s)
      PROVE  Adds(Current(s), "tail") /\ Current(s) \in Events
  <2>1. MidLine /\ ~MidLine'
    BY <1>2, <1>6 DEF WriteTail, Go, MidLine
  <2>2. Len(file) > 0 /\ file[Len(file)] = [ev |-> Current(s), part |-> "head"]
    BY <1>6 DEF WriteTail, Go, HeadAtEnd
  <2> QED  BY <1>3, <1>6, <2>1, <2>2 DEF WriteTail, Go, Extend, Adds
<1>7. ASSUME NEW s \in Sessions, WriteError(s)
      PROVE  Quiet \/ Cuts
  <2>1. ~MidLine' /\ file' = file
    BY <1>2, <1>7 DEF WriteError, Go, MidLine
  <2>2. CASE pc[s] = "write"
    <3>1. ~MidLine
      BY <1>2, <2>2 DEF MidLine
    <3>2. faults' \in Nat /\ faults' >= faults
      BY <1>7 DEF WriteError
    <3> QED  BY <2>1, <3>1, <3>2 DEF Quiet
  <2>3. CASE pc[s] = "rest"
    BY <1>7, <2>1, <2>3 DEF WriteError, HeadAtEnd, Cuts
  <2> QED  BY <1>7, <2>2, <2>3 DEF WriteError, Go
<1>8. CASE (\E e \in Events : Send(e)) \/ CloseCall \/ Close \/ New \/ Rest
  <2>1. pc' = pc /\ file' = file /\ faults' = faults
    BY <1>8, Zenon DEF Send, CloseCall, Close, New, Rest, vars
  <2>2. MidLine' <=> MidLine
    BY <2>1 DEF MidLine
  <2> QED  BY <2>1, <2>2 DEF Quiet
<1>9. CASE End
  BY <1>9 DEF End, Cuts, MidLine
<1>10. "whole" \in Parts /\ "head" \in Parts /\ "tail" \in Parts
  BY DEF Parts
<1> QED  BY <1>1, <1>4, <1>5, <1>6, <1>7, <1>8, <1>9, <1>10, Zenon DEF Next, Critical

\* The positions of the file, before and after an entry is appended.
LEMMA Positions ==
  ASSUME TypeOK
  PROVE  /\ Len(file) \in Nat /\ DOMAIN file = 1..Len(file)
         /\ \A S \in SUBSET (DOMAIN file) : IsFiniteSet(S) /\ Cardinality(S) \in Nat
<1>1. Len(file) \in Nat /\ DOMAIN file = 1..Len(file)
  BY DEF TypeOK
<1>2. IsFiniteSet(1..Len(file))
  BY <1>1, FS_Interval
<1> QED  BY <1>1, <1>2, FS_Subset, FS_CardinalityType

LEMMA Appended ==
  ASSUME TypeOK, NEW f, file' = Append(file, f)
  PROVE  /\ Len(file') = Len(file) + 1 /\ DOMAIN file' = 1..Len(file) + 1
         /\ \A i \in 1..Len(file) : file'[i] = file[i]
         /\ file'[Len(file) + 1] = f
BY Positions DEF TypeOK

\* A fault adds at most one torn line, and nothing else adds any.
LEMMA CutStep ==
  ASSUME IInv, Next
  PROVE  CutOnlyByFault'
<1> USE DEF IInv
<1>1. TypeOK' /\ faults \in Nat
  BY TypeStep DEF TypeOK
<1>2. /\ Torn \in SUBSET (DOMAIN file) /\ Torn' \in SUBSET (DOMAIN file')
  BY DEF Torn
<1>3. IsFiniteSet(Torn) /\ Cardinality(Torn) \in Nat /\ Cardinality(Torn) <= faults
  BY <1>2, Positions DEF CutOnlyByFault
<1>4. ASSUME Torn' \subseteq Torn, faults' \in Nat, faults' >= faults
      PROVE  CutOnlyByFault'
  <2>1. Cardinality(Torn') <= Cardinality(Torn) /\ Cardinality(Torn') \in Nat
    BY <1>3, <1>4, FS_Subset, FS_CardinalityType
  <2> QED  BY <1>1, <1>3, <1>4, <2>1 DEF CutOnlyByFault
<1>5. CASE Quiet
  <2>1. Torn' = Torn
    BY <1>5, Zenon DEF Quiet, Torn
  <2> QED  BY <1>4, <1>5, <2>1 DEF Quiet
<1>6. CASE Cuts
  <2>1. Torn' \subseteq Torn \cup {Len(file)}
    BY <1>6 DEF Cuts, Torn
  <2>2. IsFiniteSet(Torn \cup {Len(file)}) /\ Cardinality(Torn \cup {Len(file)}) <= faults + 1
    <3>1. /\ IsFiniteSet(Torn \cup {Len(file)})
          /\ Cardinality(Torn \cup {Len(file)}) \in {Cardinality(Torn), Cardinality(Torn) + 1}
      BY <1>3, FS_AddElement, Zenon
    <3> QED  BY <1>1, <1>3, <3>1
  <2>3. Cardinality(Torn \cup {Len(file)}) \in Nat
    BY <2>2, FS_CardinalityType
  <2>4. Cardinality(Torn') <= Cardinality(Torn \cup {Len(file)}) /\ Cardinality(Torn') \in Nat
    BY <2>1, <2>2, FS_Subset, FS_CardinalityType
  <2>5. faults' = faults + 1
    BY <1>6 DEF Cuts
  <2> QED  BY <1>1, <2>2, <2>3, <2>4, <2>5 DEF CutOnlyByFault
<1>7. ASSUME NEW e \in Events, NEW p \in Parts, Adds(e, p)
      PROVE  CutOnlyByFault'
  <2> DEFINE n == Len(file)
  <2>1. /\ n \in Nat /\ Len(file') = n + 1 /\ DOMAIN file' = 1..n + 1 /\ DOMAIN file = 1..n
        /\ \A i \in 1..n : file'[i] = file[i]
        /\ file'[n + 1] = [ev |-> e, part |-> p]
    BY <1>7, Positions, Appended DEF Adds
  <2>2. ASSUME NEW i \in Torn'
        PROVE  i \in Torn
    <3>1. i \in 1..n + 1 /\ file'[i].part = "head"
      BY <2>1, <2>2 DEF Torn
    <3>2. i # n + 1
      BY <1>7, <2>1, <2>2 DEF Torn, Adds
    <3>3. i \in 1..n /\ file[i].part = "head"
      BY <2>1, <3>1, <3>2
    <3>4. ASSUME i < n PROVE file[i + 1] # [ev |-> file[i].ev, part |-> "tail"]
      BY <2>1, <2>2, <3>3, <3>4 DEF Torn
    <3>5. ASSUME i = n PROVE ~MidLine
      <4>1. ~(file'[n + 1] = [ev |-> file'[n].ev, part |-> "tail"])
        <5>1. i < Len(file')
          BY <2>1, <3>3, <3>5
        <5> QED  BY <2>2, <3>5, <5>1, Zenon DEF Torn
      <4>2. file[n] # [ev |-> e, part |-> "head"] \/ p # "tail"
        BY <2>1, <3>3, <3>5, <4>1
      <4> QED  BY <1>7, <4>2 DEF Adds
    <3> QED  BY <2>1, <3>3, <3>4, <3>5 DEF Torn
  <2> QED  BY <1>1, <1>4, <1>7, <2>2 DEF Adds
<1> QED  BY <1>5, <1>6, <1>7, StepShape

\* Whether a line is legible is settled once it has ended: it does not depend on
\* what is appended later.
LEMMA LegibleKept ==
  ASSUME TypeOK, NEW f, file' = Append(file, f), NEW i \in 1..Len(file)
  PROVE  (Ends(i)' <=> Ends(i)) /\ (Legible(i)' <=> Legible(i))
<1>1. Len(file) \in Nat /\ \A j \in 1..Len(file) : file'[j] = file[j]
  BY Positions, Appended
<1>2. Ends(i)' <=> Ends(i)
  BY <1>1 DEF Ends
<1> DEFINE first == IF file[i].part = "tail" THEN i - 1 ELSE i
<1>3. first \in Int /\ first <= i
  BY <1>1
<1>4. first' = first
  BY <1>1
<1>5. CASE first \in 1..Len(file)
  <2>1. file'[first] = file[first] /\ file'[i] = file[i]
    BY <1>1, <1>5
  <2>2. first > 1 => file'[first - 1] = file[first - 1]
    BY <1>1, <1>5
  <2>3. Legible(i) <=> /\ first > 0
                       /\ file[i].part = "tail" => file[first] = [ev |-> file[i].ev, part |-> "head"]
                       /\ first > 1 => file[first - 1].part # "head"
    BY Zenon DEF Legible, Ends
  <2>4. Legible(i)' <=> /\ first' > 0
                        /\ file'[i].part = "tail" => file'[first'] = [ev |-> file'[i].ev, part |-> "head"]
                        /\ first' > 1 => file'[first' - 1].part # "head"
    BY Zenon DEF Legible, Ends
  <2> HIDE DEF first
  <2>5. Legible(i)' <=> Legible(i)
    BY <1>4, <2>1, <2>2, <2>3, <2>4, Zenon
  <2> QED  BY <1>2, <2>5
<1>6. CASE ~(first > 0)
  <2>1. ~(first' > 0)
    BY <1>4, <1>6, Zenon
  <2> QED  BY <1>2, <1>6, <2>1, Zenon DEF Legible
<1> QED  BY <1>1, <1>2, <1>3, <1>5, <1>6

\* A fault spoils at most the next line to be finished: it is counted before it
\* does, and a line that is finished behind one that is whole is legible.
LEMMA DamageStep ==
  ASSUME IInv, Next
  PROVE  DamageCounted'
<1> USE DEF IInv
<1>0. PICK n \in Nat : n = Len(file)
  BY Positions
<1>1. /\ faults \in Nat /\ TypeOK /\ n \in Nat /\ DOMAIN file = 1..n
      /\ IsFiniteSet(Spoiled) /\ Cardinality(Spoiled) \in Nat
  <2>1. Spoiled \in SUBSET (DOMAIN file)
    BY DEF Spoiled
  <2> QED  BY <1>0, <2>1, Positions DEF TypeOK
<1>2. Cardinality(Spoiled) + (IF Behind THEN 1 ELSE 0) <= faults
  BY DEF DamageCounted
<1>3. file' = file => Spoiled' = Spoiled
  BY DEF Spoiled, Legible, Ends
<1>4. CASE Quiet
  <2>1. Spoiled' = Spoiled /\ (Behind' <=> Behind) /\ faults' \in Nat /\ faults' >= faults
    BY <1>3, <1>4 DEF Quiet, Behind
  <2> QED  BY <1>1, <1>2, <2>1 DEF DamageCounted
<1>5. CASE Cuts
  <2>1. Spoiled' = Spoiled /\ faults' = faults + 1
    BY <1>3, <1>5 DEF Cuts
  <2> QED  BY <1>1, <1>2, <2>1 DEF DamageCounted
<1>6. ASSUME NEW e \in Events, NEW p \in Parts, Adds(e, p)
      PROVE  DamageCounted'
  <2>1. /\ Len(file') = n + 1 /\ DOMAIN file' = 1..n + 1
        /\ \A i \in 1..n : file'[i] = file[i]
        /\ file'[n + 1] = [ev |-> e, part |-> p]
        /\ faults' = faults
    BY <1>0, <1>1, <1>6, Appended DEF Adds
  <2>2. \A i \in 1..n : i \in Spoiled' <=> i \in Spoiled
    BY <1>0, <1>1, <1>6, <2>1, LegibleKept DEF Adds, Spoiled
  <2>3. /\ Spoiled \subseteq 1..n /\ Spoiled' \subseteq 1..n + 1
        /\ n + 1 \notin 1..n /\ \A i \in 1..n + 1 : i = n + 1 \/ i \in 1..n
    BY <1>1, <2>1 DEF Spoiled
  <2>4. CASE p = "head"
    <3>1. n + 1 \notin Spoiled'
      BY <2>1, <2>4 DEF Spoiled, Ends
    <3>2. Spoiled' = Spoiled
      BY <2>2, <2>3, <3>1, Zenon
    <3>3. ~MidLine /\ MidLine'
      BY <1>6, <2>4 DEF Adds
    <3>4. Behind <=> n > 0 /\ file[n].part = "head"
      BY <1>0, <3>3, Zenon DEF Behind
    <3>5. Behind' <=> Len(file') - 1 > 0 /\ file'[Len(file') - 1].part = "head"
      BY <3>3, Zenon DEF Behind
    <3>6. Behind' <=> Behind
      BY <1>1, <2>1, <3>4, <3>5
    <3> QED  BY <1>1, <1>2, <2>1, <3>2, <3>6 DEF DamageCounted
  <2>5. CASE p # "head"
    <3>1. ~Behind'
      <4>1. ~MidLine'
        BY <1>6, <2>5 DEF Adds
      <4>2. Behind' => file'[Len(file')].part = "head"
        BY <4>1, Zenon DEF Behind
      <4> QED  BY <2>1, <2>5, <4>2
    <3>2. n + 1 \in Spoiled' => Behind
      <4> SUFFICES ASSUME ~Behind PROVE Legible(n + 1)'
        BY <2>1, Zenon DEF Spoiled
      <4>1. CASE p = "whole"
        <5>1. ~(n > 0 /\ file[n].part = "head")
          BY <1>0, <1>6, <4>1 DEF Adds, Behind
        <5>2. n + 1 > 1 => file'[n].part # "head"
          BY <1>1, <2>1, <5>1
        <5>3. file'[n + 1].part = "whole"
          BY <2>1, <4>1
        <5> QED  BY <1>1, <5>2, <5>3 DEF Legible, Ends
      <4>2. CASE p = "tail"
        <5>1. MidLine /\ n > 0 /\ file'[n] = [ev |-> e, part |-> "head"]
          BY <1>0, <1>1, <1>6, <2>1, <4>2 DEF Adds
        <5>2. ~(n - 1 > 0 /\ file[n - 1].part = "head")
          BY <1>0, <5>1, Zenon DEF Behind
        <5>3. n > 1 => file'[n - 1].part # "head"
          BY <1>1, <2>1, <5>2
        <5>4. file'[n + 1].part = "tail" /\ file'[n + 1].ev = e /\ n + 1 - 1 = n
          BY <1>1, <2>1, <4>2
        <5> QED  BY <1>1, <5>1, <5>3, <5>4 DEF Legible, Ends
      <4> QED  BY <2>5, <4>1, <4>2 DEF Parts
    <3>3. CASE Behind
      <4>1. Spoiled' \subseteq Spoiled \cup {n + 1}
        BY <1>1, <2>2, <2>3
      <4>2. /\ IsFiniteSet(Spoiled \cup {n + 1})
            /\ Cardinality(Spoiled \cup {n + 1}) = Cardinality(Spoiled) + 1
        BY <1>1, <2>3, FS_AddElement, Zenon
      <4>3. Cardinality(Spoiled') <= Cardinality(Spoiled) + 1 /\ Cardinality(Spoiled') \in Nat
        BY <4>1, <4>2, FS_Subset, FS_CardinalityType
      <4> QED  BY <1>1, <1>2, <2>1, <3>1, <3>3, <4>3 DEF DamageCounted
    <3>4. CASE ~Behind
      <4>1. Spoiled' = Spoiled
        BY <2>2, <2>3, <3>2, <3>4, Zenon
      <4> QED  BY <1>1, <1>2, <2>1, <3>1, <4>1 DEF DamageCounted
    <3> QED  BY <3>3, <3>4
  <2> QED  BY <2>4, <2>5
<1> QED  BY <1>4, <1>5, <1>6, StepShape

-----------------------------------------------------------------------------
(* The theorems of the specification. *)

\* The invariant holds of a new store and every step keeps it.
THEOREM StoreInvariance == Spec => []IInv
<1>1. Init => IInv
  <2> SUFFICES ASSUME Init PROVE IInv
    OBVIOUS
  <2>1. TypeOK
    <3>1. open \in BOOLEAN /\ up \in BOOLEAN
      BY Zenon DEF Init
    <3>2. file \in Seq(Fragments) /\ DOMAIN file = {} /\ Len(file) = 0
      BY DEF Init
    <3>3. runs \in 1..MaxRuns /\ faults \in Nat
      BY StoreAssumption DEF Init
    <3>4. count \in [Sessions -> 0..MaxEvents]
      BY StoreAssumption DEF Init
    <3> QED  BY <3>1, <3>2, <3>3, <3>4, Zenon DEF Init, TypeOK
  <2>2. HoldersExact /\ InLogCounted /\ HeadAtEnd /\ ~MidLine
    BY StoreAssumption DEF Init, HoldersExact, InLogCounted, HeadAtEnd, MidLine
  <2>3. DOMAIN file = {} /\ Len(file) = 0 /\ faults = 0
    BY DEF Init
  <2>4. Torn = {} /\ Spoiled = {} /\ ~Behind
    BY <2>2, <2>3 DEF Torn, Spoiled, Behind
  <2>5. CutOnlyByFault /\ DamageCounted
    BY <2>3, <2>4, FS_EmptySet DEF CutOnlyByFault, DamageCounted
  <2> QED  BY <2>1, <2>2, <2>5 DEF IInv
<1>2. IInv /\ [Next]_vars => IInv'
  <2> SUFFICES ASSUME IInv, [Next]_vars PROVE IInv'
    OBVIOUS
  <2>1. CASE Next
    BY <2>1, TypeStep, HoldersStep, HeadStep, CutStep, DamageStep, Zenon DEF IInv
  <2>2. CASE UNCHANGED vars
    BY <2>2, Zenon DEF vars, IInv, TypeOK, HoldersExact, InLogCounted, HeadAtEnd, Current,
       CutOnlyByFault, DamageCounted, Torn, Spoiled, Behind, MidLine, Ends, Legible
  <2> QED  BY <2>1, <2>2
<1> QED  BY <1>1, <1>2, PTL DEF Spec

\* The variables stay in their ranges, the mutex among them.
THEOREM StoreTypes == Spec => []TypeOK
<1>1. IInv => TypeOK
  BY DEF IInv
<1> QED  BY <1>1, StoreInvariance, PTL

\* However many handlers log, the mutex is held by exactly the one in s.f.Write.
THEOREM MutexExact == Spec => []HoldersExact
<1>1. IInv => HoldersExact
  BY DEF IInv
<1> QED  BY <1>1, StoreInvariance, PTL

\* Every line that was cut short is accounted for by a failed write or the end of
\* the process.
THEOREM CutsAreFaults == Spec => []CutOnlyByFault
<1>1. IInv => CutOnlyByFault
  BY DEF IInv
<1> QED  BY <1>1, StoreInvariance, PTL

\* A reader of the file loses at most one finished line to each failed write and
\* each end of the process, over any number of restarts.
THEOREM DamageAlwaysBounded == Spec => []DamageBounded
<1>1. IInv => DamageBounded
  <2> SUFFICES ASSUME IInv PROVE DamageBounded
    OBVIOUS
  <2>1. Spoiled \in SUBSET (DOMAIN file)
    BY DEF Spoiled
  <2>2. Cardinality(Spoiled) \in Nat /\ faults \in Nat
    BY <2>1, Positions DEF IInv, TypeOK
  <2> QED  BY <2>2 DEF IInv, DamageCounted, DamageBounded
<1> QED  BY <1>1, StoreInvariance, PTL

-----------------------------------------------------------------------------
(* The store implements the event log. *)

\* An entry that ends a line adds its event to the log, a head adds nothing, and
\* what was logged before stays where it was.
LEMMA LoggedStep ==
  ASSUME TypeOK, NEW e, NEW p \in Parts, file' = Append(file, [ev |-> e, part |-> p])
  PROVE  /\ p = "head" => Logged' = Logged
         /\ p # "head" => Logged' = Append(Logged, e)
<1>0. PICK n \in Nat : n = Len(file)
  BY Positions
<1>1. /\ DOMAIN file = 1..n /\ DOMAIN file' = 1..n + 1
      /\ \A i \in 1..n : file'[i] = file[i]
      /\ file'[n + 1] = [ev |-> e, part |-> p]
  BY <1>0, Positions, Appended
<1>2. \A i \in 1..n + 1 : i = n + 1 \/ i \in 1..n
  OBVIOUS
<1>3. Ended \subseteq 1..n /\ n + 1 \notin Ended
  BY <1>1 DEF Ended
<1>4. IsFiniteSet(Ended) /\ Cardinality(Ended) \in Nat
  BY <1>1, <1>3, Positions
<1>5. CASE p = "head"
  <2>1. Ended' = Ended
    BY <1>1, <1>2, <1>5 DEF Ended, Ends
  <2>2. ASSUME NEW k
        PROVE  EventsOf(k)' = EventsOf(k)
    <3>1. \A i : Rank(i)' = Rank(i)
      BY <2>1 DEF Rank
    <3>2. {j \in Ended : Rank(j) = k}' = {j \in Ended : Rank(j) = k}
      BY <2>1, <3>1
    <3> QED  BY <1>1, <1>3, <3>2 DEF EventsOf
  <2> QED  BY <1>5, <2>1, <2>2, Zenon DEF Logged
<1>6. CASE p # "head"
  <2>0. PICK m \in Nat : m = Cardinality(Ended)
    BY <1>4
  <2>1. Ended' = Ended \cup {n + 1}
    BY <1>1, <1>2, <1>6 DEF Ended, Ends
  <2>2. Cardinality(Ended') = m + 1
    BY <1>3, <1>4, <2>0, <2>1, FS_AddElement
  <2>3. ASSUME NEW i \in Ended
        PROVE  Rank(i)' = Rank(i) /\ Rank(i) \in 0..m
    <3>1. {j \in Ended : j <= i}' = {j \in Ended : j <= i}
      BY <1>3, <2>1
    <3>2. {j \in Ended : j <= i} \in SUBSET Ended
      OBVIOUS
    <3>3. Rank(i) \in Nat /\ Rank(i) <= m
      BY <1>4, <2>0, <3>2, FS_Subset, FS_CardinalityType DEF Rank
    <3>4. Rank(i)' = Rank(i)
      BY <3>1, Zenon DEF Rank
    <3> QED  BY <3>3, <3>4
  <2>4. Rank(n + 1)' = m + 1
    <3>0. \A j \in Ended' : j <= n + 1
      BY <1>3, <2>1
    <3>1. {j \in Ended : j <= n + 1}' = Ended'
      BY <3>0, Zenon
    <3>2. Rank(n + 1)' = Cardinality({j \in Ended : j <= n + 1}')
      BY Zenon DEF Rank
    <3> QED  BY <2>2, <3>1, <3>2, Zenon
  <2>5. ASSUME NEW k \in 1..m
        PROVE  EventsOf(k)' = EventsOf(k)
    <3>1. {j \in Ended : Rank(j) = k}' = {j \in Ended : Rank(j) = k}
      <4>1. Rank(n + 1)' # k
        BY <2>4
      <4> QED  BY <2>1, <2>3, <4>1, Zenon
    <3> QED  BY <1>1, <1>3, <3>1 DEF EventsOf
  <2>6. EventsOf(m + 1)' = {e}
    <3>1. {j \in Ended : Rank(j) = m + 1}' = {n + 1}
      <4>1. \A i \in Ended : Rank(i)' # m + 1
        BY <2>3
      <4> QED  BY <2>1, <2>4, <4>1, Zenon
    <3> QED  BY <1>1, <3>1 DEF EventsOf
  <2>7. Pick({e}) = e
    BY DEF Pick
  <2>8. Logged' = [k \in 1..m + 1 |-> Pick(EventsOf(k)')]
    BY <2>2, Zenon DEF Logged
  <2>9. Logged = [k \in 1..m |-> Pick(EventsOf(k))]
    BY <2>0, Zenon DEF Logged
  <2> DEFINE new == [k \in 1..m + 1 |-> IF k = m + 1 THEN e ELSE Pick(EventsOf(k))]
  <2>10. Logged' = new
    <3>1. ASSUME NEW k \in 1..m + 1
          PROVE  Pick(EventsOf(k)') = IF k = m + 1 THEN e ELSE Pick(EventsOf(k))
      <4>1. CASE k = m + 1
        BY <2>6, <2>7, <4>1, Zenon
      <4>2. CASE k # m + 1
        <5>1. k \in 1..m
          BY <4>2
        <5> QED  BY <2>5, <4>2, <5>1, Zenon
      <4> QED  BY <4>1, <4>2
    <3> QED  BY <2>8, <3>1, Zenon
  <2>11. Append(Logged, e) = new
    BY <2>9
  <2> QED  BY <1>6, <2>10, <2>11
<1> QED  BY <1>5, <1>6

\* The log and the state of the calls after a step, as the event log sees them.
Calls == [s \in Sessions |-> CallState(s)]

\* The calls stand where they stood when no session has moved.
LEMMA CallsKept ==
  ASSUME pc' = pc
  PROVE  Calls' = Calls
<1>1. \A s \in Sessions : CallState(s)' = CallState(s)
  BY DEF CallState
<1> QED  BY <1>1, Zenon DEF Calls

SameCalls == Logged' = Logged /\ Calls' = Calls /\ count' = count

\* A step of the store is one step of the event log or none: the whole line and
\* the tail take a call's effect, a failed write drops the event, and the head, the
\* mutex, the webhook, Close and a restart are invisible.
LEMMA StepImplements ==
  ASSUME IInv, Next
  PROVE  [EventLog!Next]_(EventLog!vars)
<1> USE DEF IInv
<1>0. /\ TypeOK /\ pc \in [Sessions -> {"idle", "lock", "write", "rest", "hook"}]
      /\ \A s \in Sessions : Calls[s] = CallState(s)
  BY DEF TypeOK, Calls
<1>1. SameCalls => UNCHANGED EventLog!vars
  BY Zenon DEF SameCalls, EventLog!vars, Calls
<1>2. file' = file => Logged' = Logged
  BY Zenon DEF Logged, EventsOf, Rank, Ended, Ends
<1>2a. \A s \in Sessions : /\ pc[s] = "idle" => CallState(s) = "idle"
                           /\ pc[s] \in {"lock", "write", "rest"} => CallState(s) = "called"
                           /\ pc[s] = "hook" => CallState(s) = "done"
  BY DEF CallState
\* One session moves and the rest stay where they are.
<1>3. ASSUME NEW s \in Sessions, NEW from, NEW to, Go(s, from, to)
      PROVE  /\ to = "idle" => Calls' = [Calls EXCEPT ![s] = "idle"]
             /\ to \in {"lock", "write", "rest"} => Calls' = [Calls EXCEPT ![s] = "called"]
             /\ to = "hook" => Calls' = [Calls EXCEPT ![s] = "done"]
             /\ pc[s] = from
  <2>1. pc[s] = from /\ pc' = [pc EXCEPT ![s] = to]
    BY <1>3 DEF Go
  <2>2. pc'[s] = to /\ \A r \in Sessions : r # s => pc'[r] = pc[r]
    BY <1>0, <2>1
  <2>3. \A r \in Sessions : r # s => CallState(r)' = CallState(r)
    BY <2>2, Zenon DEF CallState
  <2>4. Calls' = [r \in Sessions |-> CallState(r)']
    BY Zenon DEF Calls
  <2>5. [Calls EXCEPT ![s] = CallState(s)'] = [r \in Sessions |-> CallState(r)']
    BY <2>3 DEF Calls
  <2>6. /\ to = "idle" => CallState(s)' = "idle"
        /\ to \in {"lock", "write", "rest"} => CallState(s)' = "called"
        /\ to = "hook" => CallState(s)' = "done"
    BY <2>2 DEF CallState
  <2> QED  BY <2>1, <2>4, <2>5, <2>6, Zenon
<1>4. ASSUME NEW s \in Sessions, Begin(s)
      PROVE  EventLog!Call(s)
  <2>1. Calls' = [Calls EXCEPT ![s] = "called"] /\ Calls[s] = "idle"
    BY <1>0, <1>2a, <1>3, <1>4, Zenon DEF Begin
  <2>2. /\ count[s] < MaxEvents /\ count' = [count EXCEPT ![s] = @ + 1] /\ Logged' = Logged
    BY <1>2, <1>4, Zenon DEF Begin
  <2> QED  BY <2>1, <2>2, Zenon DEF EventLog!Call, Calls
<1>5. ASSUME NEW s \in Sessions, Lock(s)
      PROVE  SameCalls
  <2>1. Calls' = [Calls EXCEPT ![s] = "called"] /\ Calls[s] = "called"
    BY <1>0, <1>2a, <1>3, <1>5, Zenon DEF Lock
  <2>2. Calls' = Calls
    BY <2>1 DEF Calls
  <2> QED  BY <1>2, <1>5, <2>2, Zenon DEF Lock, SameCalls
<1>6. ASSUME NEW s \in Sessions, WriteHead(s)
      PROVE  SameCalls
  <2>1. Calls' = [Calls EXCEPT ![s] = "called"] /\ Calls[s] = "called"
    BY <1>0, <1>2a, <1>3, <1>6, Zenon DEF WriteHead
  <2>2. Calls' = Calls
    BY <2>1 DEF Calls
  <2>3. Logged' = Logged
    BY <1>0, <1>6, LoggedStep DEF WriteHead, Extend, Parts
  <2> QED  BY <1>6, <2>2, <2>3, Zenon DEF WriteHead, SameCalls
<1>7. ASSUME NEW s \in Sessions, WriteWhole(s) \/ WriteTail(s)
      PROVE  EventLog!Take(s)
  <2>1. Calls' = [Calls EXCEPT ![s] = "done"] /\ Calls[s] = "called" /\ count' = count
    BY <1>0, <1>2a, <1>3, <1>7, Zenon DEF WriteWhole, WriteTail
  <2>2. Logged' = Append(Logged, <<s, count[s]>>)
    BY <1>0, <1>7, LoggedStep DEF WriteWhole, WriteTail, Extend, Parts, Current
  <2> QED  BY <2>1, <2>2, Zenon DEF EventLog!Take, Calls
<1>8. ASSUME NEW s \in Sessions, WriteError(s)
      PROVE  EventLog!Take(s)
  <2>1. Calls' = [Calls EXCEPT ![s] = "done"] /\ Calls[s] = "called" /\ count' = count
    BY <1>0, <1>2a, <1>3, <1>8, Zenon DEF WriteError
  <2>2. Logged' = Logged
    BY <1>2, <1>8, Zenon DEF WriteError
  <2> QED  BY <2>1, <2>2, Zenon DEF EventLog!Take, Calls
<1>9. ASSUME NEW s \in Sessions, Finish(s)
      PROVE  EventLog!Return(s)
  <2>1. Calls' = [Calls EXCEPT ![s] = "idle"] /\ Calls[s] = "done" /\ count' = count
    BY <1>0, <1>2a, <1>3, <1>9, Zenon DEF Finish
  <2>2. Logged' = Logged
    BY <1>2, <1>9, Zenon DEF Finish
  <2> QED  BY <2>1, <2>2, Zenon DEF EventLog!Return, Calls
<1>10. CASE (\E e \in Events : Send(e)) \/ CloseCall \/ Close \/ New \/ Rest
  <2>1. pc' = pc /\ file' = file /\ count' = count
    BY <1>10, Zenon DEF Send, CloseCall, Close, New, Rest, vars
  <2>2. Calls' = Calls
    BY <2>1, CallsKept, Zenon
  <2>3. SameCalls
    BY <1>2, <2>1, <2>2, Zenon DEF SameCalls
  <2> QED  BY <1>1, <2>3
<1>11. CASE End
  <2>1. \A s \in Sessions : pc'[s] = "idle"
    BY <1>11 DEF End
  <2>2. \A s \in Sessions : CallState(s)' = "idle"
    BY <2>1 DEF CallState
  <2>3. Logged' = Logged /\ count' = count
    BY <1>2, <1>11, Zenon DEF End
  <2>4. EventLog!Crash
    BY <2>2, <2>3, Zenon DEF EventLog!Crash
  <2> QED  BY <2>4, Zenon DEF EventLog!Next
<1>12. ASSUME NEW s \in Sessions, Begin(s) \/ Lock(s) \/ Critical(s)
       PROVE  [EventLog!Next]_(EventLog!vars)
  BY <1>1, <1>4, <1>5, <1>6, <1>7, <1>8, <1>9, <1>12, Zenon DEF Critical, EventLog!Next
<1> QED  BY <1>10, <1>11, <1>12, Zenon DEF Next

\* Every behaviour of the store is one of the event log: each call of Log takes
\* effect at one instant, whatever the other handlers, Close and restarts do.
THEOREM StoreImplementsEventLog == Spec => ImplementsEventLog
<1>1. Init => EventLog!Init
  <2> SUFFICES ASSUME Init PROVE EventLog!Init
    OBVIOUS
  <2>1. Ended = {}
    BY DEF Init, Ended
  <2>2. Logged = << >>
    <3>1. 1..Cardinality(Ended) = {}
      BY <2>1, FS_EmptySet
    <3> QED  BY <3>1 DEF Logged
  <2>3. [s \in Sessions |-> CallState(s)] = [s \in Sessions |-> "idle"]
    BY DEF Init, CallState
  <2> QED  BY <2>2, <2>3, Zenon DEF Init, EventLog!Init
<1>2. IInv /\ [Next]_vars => [EventLog!Next]_(EventLog!vars)
  <2> SUFFICES ASSUME IInv, [Next]_vars PROVE [EventLog!Next]_(EventLog!vars)
    OBVIOUS
  <2>1. CASE Next
    BY <2>1, StepImplements
  <2>2. CASE UNCHANGED vars
    <3>1. pc' = pc /\ file' = file /\ count' = count
      BY <2>2 DEF vars
    <3>2. Logged' = Logged
      BY <3>1, Zenon DEF Logged, EventsOf, Rank, Ended, Ends
    <3>3. UNCHANGED EventLog!vars
      BY <3>1, <3>2, CallsKept, Zenon DEF EventLog!vars, Calls
    <3> QED  BY <3>3
  <2> QED  BY <2>1, <2>2
<1> QED  BY <1>1, <1>2, StoreInvariance, PTL DEF Spec, ImplementsEventLog, EventLog!Spec
=============================================================================
