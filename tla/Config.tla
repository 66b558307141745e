------------------------------- MODULE Config -------------------------------
(***************************************************************************)
(* internal/config/config.go after decoding: validate, applyDefaults, and  *)
(* the checks other packages repeat on the values they are given.          *)
(*                                                                         *)
(* A configuration is a record:                                            *)
(*   enabled   the services switched on                                    *)
(*   num       the limits that validate looks at                           *)
(*   port      the port of each service, which nothing validates           *)
(*   text      the strings with a default, "" where absent                 *)
(*   webhook   webhook.enabled                                             *)
(*   url       webhook.url                                                 *)
(***************************************************************************)
EXTENDS Integers

CONSTANTS Second, \* time.Second, the nanoseconds of a second
          MaxInt  \* the largest int, int64 and time.Duration

\* The default limits are integers of that width.
ASSUME ConfigAssumption == Second \in Nat \ {0} /\ MaxInt \in Nat /\ MaxInt >= 1048576

Int64 == (-MaxInt - 1)..MaxInt

\* An integer as 64 bits hold it.
Wrapped(n) == ((n + (MaxInt + 1)) % (2 * (MaxInt + 1))) - (MaxInt + 1)

Limits == {"max_connections", "connection_timeout_seconds", "max_request_body_bytes"}

\* Strings with a default: the one a later check looks at, and another.
Texts == {"log_file", "node_name"}

\* A string is absent, says something of the operator's, or has its default.
TextValues == {"", "set", "default"}

\* What decoding a file can yield; a number of more than 64 bits is an error.
Configurations(services) ==
  [enabled : SUBSET services, num : [Limits -> Int64], port : [services -> Int64],
   text : [Texts -> TextValues], webhook : BOOLEAN, url : TextValues]

DefaultNum == [max_connections |-> 200, connection_timeout_seconds |-> 30,
               max_request_body_bytes |-> 1048576]

Validate(c) ==
  /\ \A l \in Limits : c.num[l] >= 0
  /\ c.webhook => c.url # ""

\* What is missing from the file (zero, or the empty string) gets its default.
Or(value, missing, default) == IF value = missing THEN default ELSE value

\* Faulty variant: connection_timeout_seconds has no default.
ApplyDefaultsForgetting(c) ==
  [c EXCEPT !.num = [l \in Limits |-> IF l = "connection_timeout_seconds" THEN @[l]
                                      ELSE Or(@[l], 0, DefaultNum[l])],
            !.port = [v \in DOMAIN @ |-> Or(@[v], 0, 1000)],
            !.text = [f \in DOMAIN @ |-> Or(@[f], "", "default")]]

\* The default ports and texts are constants of the source: their values do not
\* matter, only that they are ports and not empty.
ApplyDefaults(c) ==
  [enabled |-> c.enabled,
   num |-> [l \in Limits |-> Or(c.num[l], 0, DefaultNum[l])],
   port |-> [v \in DOMAIN c.port |-> Or(c.port[v], 0, 1000)],
   text |-> [f \in DOMAIN c.text |-> Or(c.text[f], "", "default")],
   webhook |-> c.webhook,
   url |-> c.url]

-----------------------------------------------------------------------------
(* What is made of it. *)

\* NewWebhook refuses an empty URL.
NewWebhookFails(c) == c.webhook /\ c.url = ""

\* server.New has a limit of its own for callers that give none.
MaxConns(c) == IF c.num["max_connections"] <= 0 THEN 500 ELSE c.num["max_connections"]

\* The nanoseconds the file asks for, and the time.Duration main makes of them,
\* which overflows for more than 292 years.
ConfiguredTimeout(c) == c.num["connection_timeout_seconds"] * Second

ConnTimeout(c) == Wrapped(ConfiguredTimeout(c))

\* Serve sets the absolute deadline of a connection only for a positive timeout.
SetsDeadline(c) == ConnTimeout(c) > 0

\* fingerprint.New makes up a host name for callers that give none.
Hostname(c) == Or(c.text["node_name"], "", "random")

\* net.Listen refuses other ports.
MaxPort == 65535

CanListen(c, v) == c.port[v] \in 0..MaxPort
=============================================================================
