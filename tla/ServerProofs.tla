---------------------------- MODULE ServerProofs ----------------------------
(* Theorems about module Server, for every set of connections and addresses *)
(* and every pair of limits.                                               *)
EXTENDS Server, FiniteSetTheorems, TLAPS

\* The holder sets are subsets of the finite set Conns.
LEMMA HoldersFinite ==
  /\ IsFiniteSet(SemHolders) /\ IsFiniteSet(WgHolders) /\ IsFiniteSet(Admitted)
  /\ \A ip \in IPs : IsFiniteSet(IPHolders(ip))
<1>1. \A S \in SUBSET Conns : IsFiniteSet(S)
  BY ServerAssumption, FS_Subset
<1>2. /\ SemHolders \in SUBSET Conns /\ WgHolders \in SUBSET Conns
      /\ Admitted \in SUBSET Conns
      /\ \A ip \in IPs : IPHolders(ip) \in SUBSET Conns
  BY DEF SemHolders, WgHolders, Admitted, IPHolders
<1> QED  BY <1>1, <1>2

\* Cardinality when one element joins or leaves a finite set.
LEMMA CardAdd ==
  ASSUME NEW S, IsFiniteSet(S), NEW x, x \notin S
  PROVE  Cardinality(S \cup {x}) = Cardinality(S) + 1
BY FS_AddElement

LEMMA CardRemove ==
  ASSUME NEW S, IsFiniteSet(S), NEW x \in S
  PROVE  /\ Cardinality(S \ {x}) = Cardinality(S) - 1
         /\ Cardinality(S) \in Nat \ {0}
<1>1. Cardinality(S \ {x}) = Cardinality(S) - 1 /\ IsFiniteSet(S \ {x})
  BY FS_RemoveElement
<1>2. Cardinality(S \ {x}) \in Nat /\ Cardinality(S) \in Nat
  BY <1>1, FS_CardinalityType
<1> QED  BY <1>1, <1>2

SameHolders ==
  /\ SemHolders' = SemHolders /\ WgHolders' = WgHolders /\ Admitted' = Admitted
  /\ \A ip \in IPs : IPHolders(ip)' = IPHolders(ip)

\* A step that moves no connection in or out of a holder set and touches no
\* counter keeps the accounts.
LEMMA QuietStep ==
  ASSUME AccountsExact, SameHolders, UNCHANGED <<sem, ipCounts, wg, totalConns>>
  PROVE  AccountsExact'
BY DEF AccountsExact, SameHolders, SlotsExact, AddressesExact, WaitGroupExact

\* Every step of Serve, of a connection's goroutine and of Stop keeps the
\* accounts.
LEMMA AccountsStep ==
  ASSUME IInv, Next
  PROVE  AccountsExact'
<1> USE DEF Move, LoopTo
<1>0. AccountsExact /\ TypeOK /\ LoopHolds /\ IdleOutsideLoop
  BY DEF IInv, AccountsExact
<1>1. ASSUME NEW c \in Conns, Arrive(c) \/ AcceptOK(c) \/ Start(c)
      PROVE  AccountsExact'
  <2>1. SameHolders
    BY <1>0, <1>1 DEF Arrive, AcceptOK, Start, SameHolders, SemHolders, WgHolders,
                 Admitted, IPHolders, TypeOK, LoopHolds, Held
  <2> QED  BY <1>0, <1>1, <2>1, QuietStep DEF Arrive, AcceptOK, Start
<1>2. CASE Listen \/ AcceptClosed \/ AcceptTransient \/ Select \/ WaitReturn \/ Cancel
             \/ \E s \in Stoppers : StopSignal(s) \/ StopReturn(s)
  <2>1. SameHolders
    BY <1>0, <1>2 DEF Listen, AcceptClosed, AcceptTransient, Select, WaitReturn, Cancel,
                 StopSignal, StopReturn, SameHolders, SemHolders, WgHolders,
                 Admitted, IPHolders, TypeOK, LoopHolds, Held
  <2> QED  BY <1>0, <1>2, <2>1, QuietStep DEF Listen, AcceptClosed, AcceptTransient,
                 Select, WaitReturn, Cancel, StopSignal, StopReturn
<1>3. CASE CloseListener
  <2>1. SameHolders
    BY <1>0, <1>3 DEF CloseListener, SameHolders, SemHolders, WgHolders,
                 Admitted, IPHolders, TypeOK
  <2> QED  BY <1>0, <1>3, <2>1, QuietStep DEF CloseListener
<1>4. CASE Rest
  BY <1>0, <1>4, QuietStep DEF Rest, vars, SameHolders, SemHolders, WgHolders,
                 Admitted, IPHolders
<1>5. ASSUME NEW c \in Conns, AcquireSem(c)
      PROVE  AccountsExact'
  <2>1. /\ WgHolders' = WgHolders /\ Admitted' = Admitted
        /\ \A ip \in IPs : IPHolders(ip)' = IPHolders(ip)
        /\ UNCHANGED <<ipCounts, wg, totalConns>>
    BY <1>0, <1>5 DEF AcquireSem, WgHolders, Admitted, IPHolders, TypeOK
  <2>2. SlotsExact'
    <3>1. CASE sem = MaxConns
      <4>1. SemHolders' = SemHolders /\ sem' = sem
        BY <1>0, <1>5, <3>1, ServerAssumption DEF AcquireSem, SemHolders, TypeOK, LoopHolds, Held
      <4> QED  BY <4>1, <1>0 DEF AccountsExact, SlotsExact
    <3>2. CASE sem < MaxConns
      <4>1. /\ SemHolders' = SemHolders \cup {c}
            /\ c \notin SemHolders
            /\ sem' = sem + 1
        BY <1>0, <1>5, <3>2, ServerAssumption DEF AcquireSem, SemHolders, TypeOK, LoopHolds, Held
      <4> QED  BY <4>1, <1>0, CardAdd, HoldersFinite DEF AccountsExact, SlotsExact
    <3> QED  BY <3>1, <3>2, <1>0, ServerAssumption DEF TypeOK
  <2> QED  BY <2>1, <2>2, <1>0 DEF AccountsExact, AddressesExact, WaitGroupExact
<1>6. ASSUME NEW c \in Conns, AcquireIP(c)
      PROVE  AccountsExact'
  <2>0. ipOf[c] \in IPs
    BY ServerAssumption
  <2>1. /\ WgHolders' = WgHolders /\ Admitted' = Admitted
        /\ SemHolders' = SemHolders
        /\ UNCHANGED <<sem, wg, totalConns>>
    BY <1>0, <1>6 DEF AcquireIP, WgHolders, Admitted, SemHolders, TypeOK
  <2>2. AddressesExact'
    <3>1. CASE pc' = "unsem"
      <4>1. UNCHANGED ipCounts /\ \A ip \in IPs : IPHolders(ip)' = IPHolders(ip)
        BY <1>0, <1>6, <3>1 DEF AcquireIP, IPHolders
      <4> QED  BY <4>1, <1>0 DEF AccountsExact, AddressesExact
    <3>2. CASE pc' = "spawn"
      <4>1. /\ ipCounts' = [ipCounts EXCEPT ![ipOf[c]] = @ + 1]
            /\ IPHolders(ipOf[c])' = IPHolders(ipOf[c]) \cup {c}
            /\ c \notin IPHolders(ipOf[c])
            /\ \A ip \in IPs \ {ipOf[c]} : IPHolders(ip)' = IPHolders(ip)
        BY <1>0, <1>6, <3>2 DEF AcquireIP, IPHolders, LoopHolds, Held
      <4>2. Cardinality(IPHolders(ipOf[c])') = Cardinality(IPHolders(ipOf[c])) + 1
        BY <4>1, <2>0, HoldersFinite, CardAdd
      <4> QED  BY <4>1, <4>2, <2>0, <1>0 DEF AccountsExact, AddressesExact, TypeOK
    <3> QED  BY <3>1, <3>2, <1>6 DEF AcquireIP
  <2> QED  BY <2>1, <2>2, <1>0 DEF AccountsExact, SlotsExact, WaitGroupExact
<1>7. ASSUME NEW c \in Conns, RefuseIP(c)
      PROVE  AccountsExact'
  <2>1. /\ WgHolders' = WgHolders /\ Admitted' = Admitted
        /\ \A ip \in IPs : IPHolders(ip)' = IPHolders(ip)
        /\ UNCHANGED <<ipCounts, wg, totalConns>>
    BY <1>0, <1>7 DEF RefuseIP, WgHolders, Admitted, IPHolders, TypeOK
  <2>2. SemHolders' = SemHolders \ {c} /\ c \in SemHolders /\ sem' = sem - 1
    BY <1>0, <1>7 DEF RefuseIP, SemHolders, TypeOK, LoopHolds, Held
  <2>3. SlotsExact'
    BY <2>2, <1>0, CardRemove, HoldersFinite DEF AccountsExact, SlotsExact
  <2> QED  BY <2>1, <2>3, <1>0 DEF AccountsExact, AddressesExact, WaitGroupExact
<1>8. ASSUME NEW c \in Conns, Spawn(c)
      PROVE  AccountsExact'
  <2>1. /\ SemHolders' = SemHolders
        /\ \A ip \in IPs : IPHolders(ip)' = IPHolders(ip)
        /\ UNCHANGED <<sem, ipCounts>>
    BY <1>0, <1>8 DEF Spawn, SemHolders, IPHolders, TypeOK, LoopHolds, Held
  <2>2. /\ WgHolders' = WgHolders \cup {c} /\ c \notin WgHolders
        /\ Admitted' = Admitted \cup {c} /\ c \notin Admitted
        /\ wg' = wg + 1 /\ totalConns' = totalConns + 1
    BY <1>0, <1>8 DEF Spawn, WgHolders, Admitted, TypeOK
  <2>3. WaitGroupExact'
    BY <2>2, <1>0, CardAdd, HoldersFinite DEF AccountsExact, WaitGroupExact
  <2> QED  BY <2>1, <2>3, <1>0 DEF AccountsExact, SlotsExact, AddressesExact
<1>9. ASSUME NEW c \in Conns, Finish(c)
      PROVE  AccountsExact'
  <2>1. SameHolders
    BY <1>0, <1>9 DEF Finish, SameHolders, SemHolders, WgHolders, Admitted, IPHolders, TypeOK
  <2> QED  BY <1>0, <1>9, <2>1, QuietStep DEF Finish
<1>10. ASSUME NEW c \in Conns, ReleaseSem(c)
       PROVE  AccountsExact'
  <2>1. /\ WgHolders' = WgHolders /\ Admitted' = Admitted
        /\ \A ip \in IPs : IPHolders(ip)' = IPHolders(ip)
        /\ UNCHANGED <<ipCounts, wg, totalConns>>
    BY <1>0, <1>10 DEF ReleaseSem, WgHolders, Admitted, IPHolders, TypeOK
  <2>2. SemHolders' = SemHolders \ {c} /\ c \in SemHolders /\ sem' = sem - 1
    BY <1>0, <1>10 DEF ReleaseSem, SemHolders, TypeOK
  <2>3. SlotsExact'
    BY <2>2, <1>0, CardRemove, HoldersFinite DEF AccountsExact, SlotsExact
  <2> QED  BY <2>1, <2>3, <1>0 DEF AccountsExact, AddressesExact, WaitGroupExact
<1>11. ASSUME NEW c \in Conns, ReleaseIP(c)
       PROVE  AccountsExact'
  <2>0. ipOf[c] \in IPs
    BY ServerAssumption
  <2>1. /\ WgHolders' = WgHolders /\ Admitted' = Admitted
        /\ SemHolders' = SemHolders
        /\ UNCHANGED <<sem, wg, totalConns>>
    BY <1>0, <1>11 DEF ReleaseIP, WgHolders, Admitted, SemHolders, TypeOK
  <2>2. /\ IPHolders(ipOf[c])' = IPHolders(ipOf[c]) \ {c}
        /\ c \in IPHolders(ipOf[c])
        /\ \A ip \in IPs \ {ipOf[c]} : IPHolders(ip)' = IPHolders(ip)
    BY <1>0, <1>11 DEF ReleaseIP, IPHolders, TypeOK
  <2>3. /\ Cardinality(IPHolders(ipOf[c])') = Cardinality(IPHolders(ipOf[c])) - 1
        /\ Cardinality(IPHolders(ipOf[c])) \in Nat \ {0}
    BY <2>0, <2>2, HoldersFinite, CardRemove
  <2>4. ipCounts[ipOf[c]] = Cardinality(IPHolders(ipOf[c]))
    BY <2>0, <1>0 DEF AccountsExact, AddressesExact
  <2>5. ipCounts' = [ipCounts EXCEPT ![ipOf[c]] = @ - 1]
    <3>1. (IF ipCounts[ipOf[c]] - 1 <= 0 THEN 0 ELSE ipCounts[ipOf[c]] - 1)
            = ipCounts[ipOf[c]] - 1
      BY <2>3, <2>4
    <3> QED  BY <3>1, <1>11, Zenon DEF ReleaseIP
  <2>6. AddressesExact'
    BY <2>0, <2>2, <2>3, <2>4, <2>5, <1>0 DEF AccountsExact, AddressesExact, TypeOK
  <2> QED  BY <2>1, <2>6, <1>0 DEF AccountsExact, SlotsExact, WaitGroupExact
<1>12. ASSUME NEW c \in Conns, WgDone(c)
       PROVE  AccountsExact'
  <2>1. /\ SemHolders' = SemHolders /\ Admitted' = Admitted
        /\ \A ip \in IPs : IPHolders(ip)' = IPHolders(ip)
        /\ UNCHANGED <<sem, ipCounts, totalConns>>
    BY <1>0, <1>12 DEF WgDone, SemHolders, WgHolders, Admitted, IPHolders, TypeOK
  <2>2. WgHolders' = WgHolders \ {c} /\ c \in WgHolders /\ wg' = wg - 1
    BY <1>0, <1>12 DEF WgDone, WgHolders, TypeOK
  <2>3. WaitGroupExact'
    BY <2>1, <2>2, <1>0, CardRemove, HoldersFinite DEF AccountsExact, WaitGroupExact
  <2> QED  BY <2>1, <2>3, <1>0 DEF AccountsExact, SlotsExact, AddressesExact
<1> QED
  BY <1>1, <1>2, <1>3, <1>4, <1>5, <1>6, <1>7, <1>8, <1>9, <1>10, <1>11, <1>12
  DEF Next, AcceptLoop, Epilogue

\* The remaining conjuncts of IInv: types, the loop's hold on one connection,
\* and the two facts about closing and returning.
LEMMA ShapeStep ==
  ASSUME IInv, Next
  PROVE  TypeOK' /\ LoopHolds' /\ ClosedOnRequest' /\ IdleOutsideLoop'
<1> USE DEF Move, LoopTo
<1>0. TypeOK /\ LoopHolds /\ ClosedOnRequest /\ IdleOutsideLoop /\ AccountsExact
  BY DEF IInv, AccountsExact
<1>t. TypeOK'
  <2> USE ServerAssumption, <1>0 DEF TypeOK, ConnStates, LoopStates
  <2>1. ASSUME NEW c \in Conns, Arrive(c) \/ Start(c) \/ Finish(c) \/ AcceptOK(c)
        PROVE  TypeOK'
    BY <2>1 DEF Arrive, Start, Finish, AcceptOK
  <2>2. CASE Listen \/ AcceptClosed \/ AcceptTransient \/ Select \/ WaitReturn \/ Cancel
    BY <2>2 DEF Listen, AcceptClosed, AcceptTransient, Select, WaitReturn, Cancel
  <2>3. CASE CloseListener \/ Rest
    BY <2>3 DEF CloseListener, Rest, vars
  <2>4. ASSUME NEW s \in Stoppers, StopSignal(s) \/ StopReturn(s)
        PROVE  TypeOK'
    BY <2>4 DEF StopSignal, StopReturn
  <2>5. ASSUME NEW c \in Conns, AcquireSem(c) \/ RefuseIP(c) \/ ReleaseSem(c) \/ Spawn(c)
        PROVE  TypeOK'
    BY <2>5 DEF AcquireSem, RefuseIP, ReleaseSem, Spawn
  <2>6. ASSUME NEW c \in Conns, AcquireIP(c) \/ ReleaseIP(c)
        PROVE  TypeOK'
    <3>1. ipOf[c] \in IPs /\ ipCounts[ipOf[c]] \in 0..PerIP
      OBVIOUS
    <3>2. ipCounts' \in [IPs -> 0..PerIP]
      BY <3>1, <2>6 DEF AcquireIP, ReleaseIP
    <3> QED  BY <2>6, <3>2 DEF AcquireIP, ReleaseIP
  <2>7. ASSUME NEW c \in Conns, WgDone(c)
        PROVE  TypeOK'
    <3>1. c \in WgHolders
      BY <2>7 DEF WgDone, WgHolders
    <3>2. wg \in Nat \ {0}
      BY <3>1, CardRemove, HoldersFinite DEF AccountsExact, WaitGroupExact
    <3> QED  BY <2>7, <3>2 DEF WgDone
  <2> QED
    BY <2>1, <2>2, <2>3, <2>4, <2>5, <2>6, <2>7 DEF Next, AcceptLoop, Epilogue
<1>h. LoopHolds'
  <2> USE <1>0 DEF TypeOK, LoopHolds, Held
  <2>1. ASSUME NEW c \in Conns, Arrive(c) \/ Start(c) \/ Finish(c) \/ Epilogue(c)
        PROVE  LoopHolds'
    BY <2>1 DEF Arrive, Start, Finish, Epilogue, ReleaseSem, ReleaseIP, WgDone
  <2>2. CASE Listen \/ AcceptClosed \/ AcceptTransient \/ Select \/ WaitReturn \/ Cancel
    BY <2>2 DEF Listen, AcceptClosed, AcceptTransient, Select, WaitReturn, Cancel
  <2>3. CASE CloseListener \/ Rest
    BY <2>3 DEF CloseListener, Rest, vars
  <2>4. ASSUME NEW s \in Stoppers, StopSignal(s) \/ StopReturn(s)
        PROVE  LoopHolds'
    BY <2>4 DEF StopSignal, StopReturn
  <2>5. ASSUME NEW c \in Conns, AcceptOK(c) \/ AcquireSem(c) \/ AcquireIP(c)
        PROVE  LoopHolds'
    BY <2>5 DEF AcceptOK, AcquireSem, AcquireIP
  <2>6. ASSUME NEW c \in Conns, RefuseIP(c) \/ Spawn(c)
        PROVE  LoopHolds'
    BY <2>6 DEF RefuseIP, Spawn
  <2> QED
    BY <2>1, <2>2, <2>3, <2>4, <2>5, <2>6 DEF Next, AcceptLoop
<1>c. ClosedOnRequest'
  BY <1>0 DEF ClosedOnRequest, TypeOK, Next, AcceptLoop, Epilogue, vars, Arrive, Cancel,
     Listen, AcceptOK, AcceptClosed, AcceptTransient, Select, AcquireSem, AcquireIP,
     RefuseIP, Spawn, WaitReturn, CloseListener, Start, Finish, ReleaseSem, ReleaseIP,
     WgDone, StopSignal, StopReturn, Rest
<1>r. IdleOutsideLoop'
  <2> SUFFICES ASSUME pc' \in {"listen", "returned"}
               PROVE  WgHolders' = {}
    BY DEF IdleOutsideLoop
  <2>1. WgHolders = {}
    <3>1. CASE WaitReturn
      BY <3>1, <1>0, HoldersFinite, FS_EmptySet DEF WaitReturn, AccountsExact, WaitGroupExact
    <3>2. CASE ~WaitReturn
      BY <3>2, <1>0 DEF IdleOutsideLoop, Next, AcceptLoop, Epilogue, vars, Arrive, Cancel,
         Listen, AcceptOK, AcceptClosed, AcceptTransient, Select, AcquireSem, AcquireIP,
         RefuseIP, Spawn, CloseListener, Start, Finish, ReleaseSem, ReleaseIP,
         WgDone, StopSignal, StopReturn, Rest
    <3> QED  BY <3>1, <3>2
  <2>2. WgHolders' \subseteq WgHolders
    BY <1>0 DEF WgHolders, TypeOK, Next, AcceptLoop, Epilogue, vars, Arrive, Cancel,
       Listen, AcceptOK, AcceptClosed, AcceptTransient, Select, AcquireSem, AcquireIP,
       RefuseIP, Spawn, WaitReturn, CloseListener, Start, Finish, ReleaseSem, ReleaseIP,
       WgDone, StopSignal, StopReturn, Rest
  <2> QED  BY <2>1, <2>2
<1> QED  BY <1>t, <1>h, <1>c, <1>r
-----------------------------------------------------------------------------

\* The inductive invariant of the accept loop and its goroutines.
THEOREM Invariance == Spec => []IInv
<1>1. Init => IInv
  <2> SUFFICES ASSUME Init PROVE IInv
    OBVIOUS
  <2>1. /\ SemHolders = {} /\ WgHolders = {} /\ Admitted = {}
        /\ \A ip \in IPs : IPHolders(ip) = {}
    BY DEF Init, SemHolders, WgHolders, Admitted, IPHolders
  <2>2. SlotsExact /\ AddressesExact /\ WaitGroupExact
    BY <2>1, FS_EmptySet DEF Init, SlotsExact, AddressesExact, WaitGroupExact
  <2>3. TypeOK
    <3>1. 0 \in 0..MaxConns /\ 0 \in 0..PerIP /\ 0 \in Nat
      BY ServerAssumption
    <3> QED  BY <3>1 DEF Init, TypeOK, ConnStates, LoopStates
  <2>4. LoopHolds /\ ClosedOnRequest /\ IdleOutsideLoop
    BY <2>1 DEF Init, LoopHolds, Held, ClosedOnRequest, IdleOutsideLoop
  <2> QED  BY <2>2, <2>3, <2>4 DEF IInv
<1>2. IInv /\ [Next]_vars => IInv'
  <2>1. IInv /\ Next => IInv'
    BY AccountsStep, ShapeStep DEF IInv, AccountsExact
  <2>2. IInv /\ UNCHANGED vars => IInv'
    <3> SUFFICES ASSUME IInv, UNCHANGED vars PROVE IInv'
      OBVIOUS
    <3>1. SameHolders
      BY DEF vars, SameHolders, SemHolders, IPHolders, WgHolders, Admitted
    <3>2. SlotsExact' /\ AddressesExact' /\ WaitGroupExact' /\ IdleOutsideLoop'
      BY <3>1 DEF vars, IInv, SameHolders, SlotsExact, AddressesExact, WaitGroupExact,
                  IdleOutsideLoop
    <3>3. TypeOK' /\ LoopHolds' /\ ClosedOnRequest'
      BY DEF vars, IInv, TypeOK, LoopHolds, Held, ClosedOnRequest
    <3> QED  BY <3>2, <3>3 DEF IInv
  <2> QED  BY <2>1, <2>2
<1> QED  BY <1>1, <1>2, PTL DEF Spec

\* Type correctness: in particular the semaphore and the per-address counts
\* never leave their ranges.
THEOREM TypeCorrect == Spec => []TypeOK
<1>1. IInv => TypeOK
  BY DEF IInv
<1> QED  BY <1>1, Invariance, PTL

\* The semaphore, the address table and the wait group agree with the
\* connections at every moment.
THEOREM AccountsCorrect == Spec => []AccountsExact
<1>1. IInv => AccountsExact
  BY DEF IInv, AccountsExact
<1> QED  BY <1>1, Invariance, PTL

\* Serve returns only after every connection goroutine has ended and released
\* its slot and its address.
THEOREM DrainedOnReturn == Spec => []Drained
<1>1. IInv => Drained
  <2> SUFFICES ASSUME IInv, pc = "returned"
               PROVE  WgHolders = {} /\ sem = 0 /\ \A ip \in IPs : ipCounts[ip] = 0
    BY DEF Drained
  <2>1. WgHolders = {}
    BY DEF IInv, IdleOutsideLoop
  <2>2. SemHolders = {} /\ \A ip \in IPs : IPHolders(ip) = {}
    BY <2>1 DEF SemHolders, IPHolders, WgHolders
  <2> QED  BY <2>1, <2>2, FS_EmptySet DEF IInv, SlotsExact, AddressesExact
<1> QED  BY <1>1, Invariance, PTL

\* The accept loop of Serve never spins on a closed listener: from the select behind
\* a failed Accept it goes to wg.Wait, since ctx or s.done must have been the reason.
THEOREM NoRetry == Spec => NoRetryOnClosed
<1>1. IInv /\ [Next]_vars => [pc = "select" /\ ~lnOpen /\ pc' # pc => pc' = "wait"]_vars
  <2> SUFFICES ASSUME IInv, Next, pc = "select", ~lnOpen, pc' # pc
               PROVE  pc' = "wait"
    OBVIOUS
  <2>1. ctxDone \/ done
    BY DEF IInv, ClosedOnRequest
  <2>2. Select
    BY DEF Next, AcceptLoop, Listen, AcceptOK, AcceptClosed, AcceptTransient, AcquireSem,
           AcquireIP, RefuseIP, Spawn, WaitReturn, CloseListener, Cancel, Arrive, Start, Finish,
           Epilogue, ReleaseSem, ReleaseIP, WgDone, StopSignal, StopReturn, Rest, LoopTo, vars
  <2> QED  BY <2>1, <2>2 DEF Select, LoopTo
<1> QED  BY <1>1, Invariance, PTL DEF Spec, NoRetryOnClosed

\* Returning a token to s.sem never blocks.
THEOREM ReleaseProceeds == Spec => []ReleaseNeverBlocks
<1>1. IInv => ReleaseNeverBlocks
  <2> SUFFICES ASSUME IInv, (\E c \in Conns : st[c] = "relSem") \/ pc = "unsem"
               PROVE  sem > 0
    BY DEF ReleaseNeverBlocks
  <2>1. PICK c \in Conns : c \in SemHolders
    BY DEF IInv, LoopHolds, Held, SemHolders
  <2>2. sem \in Nat \ {0}
    BY <2>1, CardRemove, HoldersFinite DEF IInv, SlotsExact
  <2> QED  BY <2>2
<1> QED  BY <1>1, Invariance, PTL
-----------------------------------------------------------------------------

\* Below the limits of the real counters there is room under the abstract ones.
LEMMA AdmitHasRoom ==
  ASSUME IInv, NEW c \in Conns, st[c] = "held", pc = "spawn"
  PROVE  /\ Cardinality(Active) < MaxConns
         /\ Cardinality({d \in Active : ipOf[d] = ipOf[c]}) < PerIP
<1> DEFINE Here == {d \in Active : ipOf[d] = ipOf[c]}
<1>0. ipOf[c] \in IPs /\ TypeOK /\ SlotsExact /\ AddressesExact
  BY ServerAssumption DEF IInv
<1>1. /\ c \in SemHolders /\ Active \subseteq SemHolders \ {c}
      /\ c \in IPHolders(ipOf[c]) /\ Here \subseteq IPHolders(ipOf[c]) \ {c}
  BY DEF SemHolders, IPHolders, Active
<1>2. /\ IsFiniteSet(SemHolders \ {c}) /\ IsFiniteSet(IPHolders(ipOf[c]) \ {c})
      /\ Cardinality(SemHolders \ {c}) = sem - 1
      /\ Cardinality(IPHolders(ipOf[c]) \ {c}) = ipCounts[ipOf[c]] - 1
  BY <1>0, <1>1, HoldersFinite, CardRemove, FS_RemoveElement DEF SlotsExact, AddressesExact
<1>3. IsFiniteSet(Active) /\ Cardinality(Active) <= sem - 1
  BY <1>1, <1>2, FS_Subset
<1>4. IsFiniteSet(Here) /\ Cardinality(Here) <= ipCounts[ipOf[c]] - 1
  <2> HIDE DEF Here
  <2> QED  BY <1>1, <1>2, FS_Subset
<1>5. /\ Cardinality(Active) \in Nat /\ Cardinality(Here) \in Nat
      /\ sem \in 0..MaxConns /\ ipCounts[ipOf[c]] \in 0..PerIP
  <2> HIDE DEF Here
  <2> QED  BY <1>0, <1>3, <1>4, FS_CardinalityType DEF TypeOK
<1> QED  BY <1>3, <1>4, <1>5, ServerAssumption

\* The instance's Cardinality is the one used here.
LEMMA SameCardinality == \A S : Limiter!Cardinality(S) = Cardinality(S)
BY DEF Limiter!Cardinality, Cardinality

\* Every step of the server is a step of the limiter or leaves it unchanged.
LEMMA StepSimulation ==
  ASSUME IInv, [Next]_vars
  PROVE  [Limiter!Next]_(Limiter!vars)
<1> USE DEF Move, LoopTo
<1>0. TypeOK /\ LoopHolds /\ IdleOutsideLoop
  BY DEF IInv
<1> DEFINE Same == Active' = Active /\ Admitted' = Admitted
                     /\ (pc' = "returned") = (pc = "returned")
<1>s. Same => UNCHANGED Limiter!vars
  BY DEF Limiter!vars
<1>1. ASSUME NEW c \in Conns, Spawn(c)
      PROVE  Limiter!Admit(c)
  <2>1. st[c] = "held" /\ pc = "spawn" /\ pc' = "accept"
    BY <1>1 DEF Spawn
  <2>2. /\ Active' = Active \cup {c} /\ Admitted' = Admitted \cup {c} /\ c \notin Admitted
    BY <1>0, <1>1 DEF Spawn, Active, Admitted, WgHolders, TypeOK
  <2>3. /\ Cardinality(Active) < MaxConns
        /\ Cardinality({d \in Active : ipOf[d] = ipOf[c]}) < PerIP
    BY <2>1, AdmitHasRoom
  <2> QED  BY <2>1, <2>2, <2>3, SameCardinality, Zenon DEF Limiter!Admit
<1>2. ASSUME NEW c \in Conns, Finish(c)
      PROVE  Limiter!Release(c)
  BY <1>0, <1>2 DEF Finish, Active, Admitted, WgHolders, TypeOK, Limiter!Release
<1>3. CASE WaitReturn \/ Listen
  <2>1. Active' = Active /\ Admitted' = Admitted
    BY <1>3 DEF WaitReturn, Listen, Active, Admitted, WgHolders
  <2>2. CASE pc' = "returned"
    <3>1. WgHolders = {}
      BY <1>0, <1>3, HoldersFinite, FS_EmptySet
      DEF WaitReturn, Listen, IInv, WaitGroupExact, IdleOutsideLoop
    <3>2. Active = {}
      BY <3>1 DEF Active, WgHolders
    <3>3. pc # "returned"
      BY <1>3 DEF WaitReturn, Listen
    <3>4. Limiter!Stop
      BY <2>1, <2>2, <3>2, <3>3 DEF Limiter!Stop
    <3> QED  BY <3>4 DEF Limiter!Next
  <2>3. CASE pc' # "returned"
    BY <1>s, <2>1, <2>3, <1>3 DEF WaitReturn, Listen
  <2> QED  BY <2>2, <2>3
<1>4. ASSUME NEW c \in Conns,
             Arrive(c) \/ AcceptOK(c) \/ AcquireSem(c) \/ AcquireIP(c) \/ RefuseIP(c)
               \/ Start(c) \/ Epilogue(c)
      PROVE  Same
  BY <1>0, <1>4 DEF Arrive, AcceptOK, AcquireSem, AcquireIP, RefuseIP, Start, Epilogue,
     ReleaseSem, ReleaseIP, WgDone, Active, Admitted, WgHolders, TypeOK
<1>5. CASE AcceptClosed \/ AcceptTransient \/ Select \/ Cancel \/ CloseListener \/ Rest
             \/ UNCHANGED vars \/ \E s \in Stoppers : StopSignal(s) \/ StopReturn(s)
  <2>1. Same
    BY <1>0, <1>5 DEF AcceptClosed, AcceptTransient, Select, Cancel, CloseListener, Rest,
       vars, StopSignal, StopReturn, Active, Admitted, WgHolders, TypeOK
  <2> QED  BY <1>s, <2>1
<1> HIDE DEF Same
<1> QED
  BY <1>s, <1>1, <1>2, <1>3, <1>4, <1>5 DEF Next, AcceptLoop, Limiter!Next

\* The listener implements the limiter.
THEOREM Refinement == Spec => ImplementsLimiter
<1>1. Init => Limiter!Init
  BY DEF Init, Limiter!Init, Active, Admitted, WgHolders
<1>2. IInv /\ [Next]_vars => [Limiter!Next]_(Limiter!vars)
  BY StepSimulation
<1> QED  BY <1>1, <1>2, Invariance, PTL DEF Spec, ImplementsLimiter, Limiter!Spec
=============================================================================
