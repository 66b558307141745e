---------------------------- MODULE MCLifecycle ----------------------------
(* Instances of Lifecycle: TCP services are all alike, and so are HTTP ones. *)
EXTENDS Lifecycle

CONSTANTS redis, mysql, elasticsearch, k1

Plain == [enabled |-> Services, num |-> DefaultNum, port |-> [v \in Services |-> 1000],
          text |-> [f \in Texts |-> "set"],
          webhook |-> FALSE, url |-> ""]

\* Every choice of services; every limit missing or negative; timeouts that fit a
\* Duration, wrap to a negative one and wrap to a short one; ports missing or no
\* ports; texts missing; a webhook with and without a URL.  One second is Second =
\* 100000 units and MaxInt is 2^22 - 1, so 41 seconds fit, 42 do not, and 84 wrap to
\* less than a second.
MCConfigs ==
  {[Plain EXCEPT !.enabled = s] : s \in SUBSET Services} \cup
  {[Plain EXCEPT !.num[l] = n] : l \in Limits, n \in {-1, 0}} \cup
  {[Plain EXCEPT !.num["connection_timeout_seconds"] = n] : n \in {41, 42, 84}} \cup
  {[Plain EXCEPT !.port[v] = n] : v \in Services, n \in {-1, 0, 65536}} \cup
  {[Plain EXCEPT !.text[f] = ""] : f \in Texts} \cup
  {[Plain EXCEPT !.webhook = TRUE, !.url = u] : u \in {"", "set"}}
=============================================================================
