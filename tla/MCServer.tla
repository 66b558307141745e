------------------------------ MODULE MCServer ------------------------------
(* Instances of Server: connections a1.. come from address A, b1 from B. *)
EXTENDS Server

CONSTANTS a1, a2, a3, b1, A, B, s1

MCConns == {a1, a2, a3, b1}
MCSmallConns == {a1, a2, b1}
MCIPs == {A, B}
MCIpOf == [c \in Conns |-> IF c \in {a1, a2, a3} THEN A ELSE B]
=============================================================================
