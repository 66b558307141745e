-------------------------------- MODULE Http --------------------------------
(***************************************************************************)
(* internal/proto/http: the routes of the Elasticsearch and CouchDB        *)
(* honeypots.  A request is [svc, method, path, body, basic]; basic is the *)
(* name and password of a Basic Authorization header, or empty.  The mux   *)
(* and the reading of requests belong to net/http.                         *)
(*                                                                         *)
(* A body <<"{", n, p, "}">> is the JSON object with that name and         *)
(* password, <<"{", "}">> an object without them; anything else, a JSON    *)
(* text cut short among it, is not JSON.                                   *)
(***************************************************************************)
EXTENDS Session

CONSTANTS MaxBody \* maxBodyBytes

Under(path, prefix) == IsPrefix(prefix, path)

\* http.ServeMux: an exact pattern, else the longest pattern ending in "/"; a
\* path that lacks only the "/" of such a pattern is redirected.
Route(svc, path) ==
  IF svc = "es"
  THEN CASE path \in {<<"/", "_nodes">>, <<"/", "_cluster", "/", "health">>,
                      <<"/", "_cluster", "/", "stats">>, <<"/", "_xpack">>} -> "fixed"
         [] Under(path, <<"/", "_nodes", "/">>) -> "fixed"
         [] Under(path, <<"/", "_cat", "/">>) -> "cat"
         [] path = <<"/", "_cat">> -> "redirect"
         [] path = <<"/", "_search">> -> "search"
         [] OTHER -> "root"
  ELSE CASE path = <<"/", "_session">> -> "session"
         [] Under(path, <<"/", "_utils", "/">>) -> "fixed"
         [] path = <<"/", "_utils">> -> "redirect"
         [] OTHER -> "root"

\* readLimitedBody
LimitedBody(r) == Truncate(r.body, MaxBody)

\* logHTTPEvent
RequestEvent(c, r) ==
  [Blank(c) EXCEPT !.cmd = SanitizePath(<<r.method, "SP">> \o r.path),
                   !.payload = LimitedBody(r)]

\* json.Unmarshal into the struct of name and password.
IsJSON(body) == Len(body) \in {2, 4} /\ Head(body) = "{" /\ Last(body) = "}"

NamePassword(body) == IF Len(body) = 4 THEN <<<<body[2]>>, <<body[3]>>>> ELSE <<<< >>, << >>>>

\* couchSessionHandler: the body if it is JSON, whatever is in it, else the header.
Credentials(r) ==
  LET body == LimitedBody(r)
  IN  IF IsJSON(body) THEN NamePassword(body)
      ELSE IF r.basic = << >> THEN <<<< >>, << >>>> ELSE r.basic

\* The first segment of the path.
DBName(path) ==
  LET p == Tail(path)
      k == SelectInSeq(p, LAMBDA b : b = "/")
  IN  SanitizePath(IF k = 0 THEN p ELSE SubSeq(p, 1, k - 1))

\* A reply: its status, the path or part of one it reflects and the login it echoes.
Status(code, path, name) == [status |-> code, path |-> path, name |-> name]

HttpRequest(c, svc, routes) ==
  /\ At(c, "http", "accepted") /\ HasMessage(c)
  /\ Message(c).svc = svc
  /\ Route(svc, Message(c).path) \in routes
  /\ Consume(c)
  /\ UNCHANGED <<client, who, parsed, out, counters>>

HttpReply(c, code, path) == Answer(c, <<Status(code, path, << >>)>>, "accepted")

\* esNodesHandler, esClusterHealthHandler, esClusterStatsHandler, esXpackHandler,
\* couchFutonHandler; redirects are the mux's own.
HttpFixed(c) ==
  \E svc \in {"es", "couch"} :
    /\ HttpRequest(c, svc, {"fixed", "redirect"})
    /\ HttpReply(c, IF Route(svc, Message(c).path) = "fixed" THEN 200 ELSE 301, << >>)
    /\ UNCHANGED log

\* esRootHandler and couchRootHandler on "/" itself.
HttpRoot(c) ==
  \E svc \in {"es", "couch"} :
    /\ HttpRequest(c, svc, {"root"}) /\ Message(c).path = <<"/">>
    /\ HttpReply(c, 200, << >>)
    /\ UNCHANGED log

ESContent(c) ==
  /\ HttpRequest(c, "es", {"cat", "search"})
  /\ Log(<<RequestEvent(c, Message(c))>>)
  /\ HttpReply(c, 200, << >>)

\* esCatchAllHandler reflects the path, sanitized.
ESCatchAll(c) ==
  /\ HttpRequest(c, "es", {"root"}) /\ Message(c).path # <<"/">>
  /\ Log(<<RequestEvent(c, Message(c))>>)
  /\ HttpReply(c, 404, SanitizePath(Message(c).path))

\* POST /_session; the name is echoed as it is.
CouchLogin(c) ==
  LET creds == Credentials(Message(c))
  IN  /\ HttpRequest(c, "couch", {"session"}) /\ Message(c).method = "POST"
      /\ Log(IF creds = <<<< >>, << >>>> THEN << >>
             ELSE <<[Blank(c) EXCEPT !.user = creds[1], !.pass = creds[2],
                                     !.cmd = <<"SESSION">>]>>)
      /\ Answer(c, <<Status(200, << >>, creds[1])>>, "accepted")

CouchSession(c) ==
  /\ HttpRequest(c, "couch", {"session"}) /\ Message(c).method # "POST"
  /\ HttpReply(c, 200, << >>)
  /\ UNCHANGED log

\* couchDBHandler
CouchDB(c) ==
  /\ HttpRequest(c, "couch", {"root"}) /\ Message(c).path # <<"/">>
  /\ Log(<<RequestEvent(c, Message(c))>>)
  /\ CASE Message(c).method = "GET" -> HttpReply(c, 200, DBName(Message(c).path))
       [] Message(c).method = "PUT" -> HttpReply(c, 201, << >>)
       [] OTHER -> HttpReply(c, 405, << >>)

\* net/http closes the connection when no further request comes.
HttpClose(c) ==
  /\ At(c, "http", "accepted") /\ ~HasMessage(c)
  /\ Goto(c, "closed")
  /\ UNCHANGED <<client, in, who, parsed, out, sent, log, counters>>

HttpNext(c) == \/ HttpFixed(c) \/ HttpRoot(c) \/ ESContent(c) \/ ESCatchAll(c)
               \/ CouchLogin(c) \/ CouchSession(c) \/ CouchDB(c) \/ HttpClose(c)
=============================================================================
