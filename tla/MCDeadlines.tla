---------------------------- MODULE MCDeadlines ----------------------------
(* Instances of Deadlines.  One unit of time is 30 s, so the defaults are   *)
(* ConnTimeout = 4, IdleTimeout = 2, AuthTimeout = 1.                        *)
EXTENDS Deadlines

All == {"redis", "mysql", "postgres", "mongodb"}
=============================================================================
