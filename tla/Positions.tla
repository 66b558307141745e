----------------------------- MODULE Positions -----------------------------
(***************************************************************************)
(* Filtering a sequence by the positions that are kept.  It says the same  *)
(* as SelectSeq, in a form that can be reasoned about: extending a         *)
(* sequence adds at most one position to what was kept of it.              *)
(***************************************************************************)
EXTENDS Integers, FiniteSets, FiniteSetsExt

\* The k-th smallest of the positions in S.
Nth(S, k) == Min({i \in S : Cardinality({j \in S : j <= i}) >= k})

\* What f has at the positions in S, in their order.
Pick(f, S) == [k \in 1..Cardinality(S) |-> f[Nth(S, k)]]
=============================================================================
