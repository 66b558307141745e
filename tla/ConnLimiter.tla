---------------------------- MODULE ConnLimiter ----------------------------
(***************************************************************************)
(* What the bounded listener promises its operator, with no semaphore, no  *)
(* per-address table, no wait group and no accept loop: connections are    *)
(* admitted within both limits, each at most once, and the service only    *)
(* reports itself stopped when nobody is being served, after which nobody  *)
(* is served again.  Module Server is shown to implement it.               *)
(***************************************************************************)
EXTENDS Integers, FiniteSets

CONSTANTS Conns, IPs, ipOf, MaxConns, PerIP

VARIABLES active,   \* connections being served
          admitted, \* connections admitted so far
          stopped   \* the service has reported that it has stopped

vars == <<active, admitted, stopped>>

Init == active = {} /\ admitted = {} /\ stopped = FALSE

Admit(c) ==
  /\ ~stopped
  /\ c \notin admitted
  /\ Cardinality(active) < MaxConns
  /\ Cardinality({d \in active : ipOf[d] = ipOf[c]}) < PerIP
  /\ active' = active \cup {c}
  /\ admitted' = admitted \cup {c}
  /\ UNCHANGED stopped

Release(c) ==
  /\ c \in active
  /\ active' = active \ {c}
  /\ UNCHANGED <<admitted, stopped>>

Stop ==
  /\ ~stopped
  /\ active = {}
  /\ stopped' = TRUE
  /\ UNCHANGED <<active, admitted>>

Next == Stop \/ \E c \in Conns : Admit(c) \/ Release(c)

Spec == Init /\ [][Next]_vars
=============================================================================
