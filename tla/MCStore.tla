------------------------------ MODULE MCStore ------------------------------
(* Instances of Store: two sessions of any protocols. *)
EXTENDS Store

CONSTANTS s1, s2
=============================================================================
