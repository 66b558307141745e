# TLA+ models of White Toyota Tacoma

This directory models the parts of Tacoma, a honeypot that impersonates six
databases, in which concurrency, time, failure and arithmetic decide whether it
works: the bounded TCP listener, the deadlines of a connection, the event store
with its webhook, the life of the process with its configuration, and the session
handlers of all six protocols, from the client's bytes to the replies and the
events logged. TLC checks the models on small instances; TLAPS proves most of the
safety properties for every value of the parameters.

`tlc -config X.cfg MCy` runs a check, `tlapm XProofs.tla` checks the proofs about
module `X` (`SessionsProofs` and `DialogueProofs` are both about `Sessions`). `PROJECT.json` lists runs,
properties, the source lines each definition models, hazards and findings.

## Inventory

| Component | State | Operations | What is hard | What makes it correct |
|---|---|---|---|---|
| Listener (`internal/server`) | semaphore, table of connections per address, wait group, `done` | `Serve`, its closer goroutine, one goroutine per connection, `acquireIP`, `releaseIP`, `Stop` | admission takes two steps, release three, in goroutines that overlap; shutdown in the middle of either | limits hold, nothing leaks, `Serve` returns and only when nobody is served |
| Handlers' deadlines (`internal/proto/*`) | read and write deadline of the connection | `SetDeadline`, `SetReadDeadline`, reads, writes, the check of `ctx` | two parties set the same deadline; `ctx` is looked at only between messages | a connection cannot be held for ever, shutdown is prompt |
| Event store (`internal/capture/store.go`) | mutex, file | `New`, `Log`, `Close` | concurrent callers, writes in several system calls, failing writes, crashes, restarts | events are appended once, in order, unmixed |
| Webhook (`internal/capture/webhook.go`) | HTTP client | `NewWebhook`, `send` | a receiver that never answers | never holds up a handler |
| Process (`cmd/tacoma/main.go`) | context, signal channel, wait group | start-up, services, signal, deferred calls | order of shutdown, a service that fails, a signal at a bad moment | stops when told, only then, and loses no event |
| MongoDB sessions (`internal/proto/mongodb`) | cursors in the stream and the payload | `readMessage`, dispatch, `handleOpQuery`, `handleOpMsg`, `bsonFirstKey`, `parseBSONDoc`, `encodeBSON` | lengths from the wire, nested lengths computed by hand | cursors stay inside and advance, the right command is logged, every request is answered once and decodably |
| Redis sessions (`internal/proto/redis`) | counters shared by all connections, buffered reader and writer | `ReadCommand`, command table | counts from the wire, echoed bytes, the reply buffer, every way a session can end | commands read as meant, replies framed, counters exact |
| MySQL sessions (`internal/proto/mysql`) | sequence number, user, database | handshake, commands | sequence number wraps, fields of the login packet | each login and query logged under the right names, replies numbered on |
| PostgreSQL sessions (`internal/proto/postgres`) | startup parameters | SSL negotiation, startup, password, query | parameters in any order, messages that are answered or not | as MySQL, and the client is always told when it may go on |
| HTTP honeypots (`internal/proto/http`) | none of their own | routes of Elasticsearch and CouchDB, serving, shutdown | handlers outliving the server, two places for credentials, cutting and cleaning paths | requests and credentials logged, nothing unsafe reflected |
| Configuration (`internal/config`) | the configuration | `Load`, `validate`, `applyDefaults` | limits looked after in several places | what is loaded is usable |
| Fingerprint (`internal/fingerprint`) | identifiers drawn at start-up | generation | ranges | values look real |

They interact as follows. `main` loads the configuration, opens the store and
starts one goroutine per enabled service. A TCP service is a `Server` with the
protocol's handler; an HTTP service is `net/http`. Every handler calls
`Store.Log`, which may start a webhook goroutine. One context, cancelled by the
first signal or by `main` returning, stops everything. `main` waits for the
services, says so, cancels, closes the store and returns.

## Modules

| Module | Models |
|---|---|
| `Server` | `server.go`. `pc` is the accept loop, `st[c]` each connection from the kernel's queue to the end of its goroutine, one value per deferred call |
| `ConnLimiter` | what the listener promises: both limits, each connection admitted once, stopped only when nobody is served |
| `Deadlines` | one connection: each handler is a table of the operations it performs on the connection, in code order, and a clock |
| `Store` | `Log` step by step, `Close`, the end of the process and the next start on the same file |
| `EventLog` | what `Log` promises: each call takes effect at one instant, or the event is dropped |
| `Config` | `validate`, `applyDefaults`, and the checks other packages repeat on configured values |
| `Lifecycle` | `main` from any configuration that decodes, its signal goroutine and all services; extends `Config` |
| `Positions` | no code: filtering a sequence by positions (`Nth`, `Pick`), in a form proofs can use |
| `MongoReply` | `encodeBSON`, the reply documents and the two reply formats, as bytes |
| `MongoWire` | one MongoDB connection, from the client's bytes to events and replies; extends `MongoReply` |
| `Text` | `sanitizeStr`, `truncate`, `sanitizePath` and UTF-8 decoding on symbolic bytes |
| `Session` | what the other handlers share: reading, answering, `Store.Log` with `sanitize`; the counters |
| `Redis`, `MySQL`, `Postgres`, `Http` | one handler each, as actions of a connection; extend `Session` |
| `Sessions` | the four together on one log, and their properties |
| `ServerProofs`, `DeadlinesProofs`, `LifecycleProofs`, `StoreProofs`, `MongoWireProofs`, `SessionsProofs`, `DialogueProofs` | the theorems |
| `PositionsProofs` | the lemmas about `Positions`, which the last three of them use |
| `MCServer`, `MCDeadlines`, `MCStore`, `MCLifecycle`, `MCMongoWire`, `MCSessions` | instances for TLC |

The modules rest on each other through assumptions that another one discharges.
`Server` assumes that a handler returns once the context is cancelled, which
`Deadlines` shows (`HandlerReturns`, `DrainBound`). `Lifecycle` takes a TCP
service as serving until cancelled and returning when nobody is served, which
`Server` shows (`ImplementsLimiter`, `ShutdownCompletes`). `Server` and `Deadlines`
assume positive limits, which `Lifecycle` shows of every service that serves
(`ConfigUsable`); of the connection timeout only as long as its nanoseconds fit a
`time.Duration`, 292 years. The session modules append events in one step each, which `Store`
justifies (`ImplementsEventLog`), and leave deadlines and the check of `ctx` to
`Deadlines`: there the connection may end at any read or write, and so it may here.

Operators commented *Faulty variant* are not used by any specification. Each is
an action or table with one plausible mistake; put in place of the real one it
makes TLC report the property that guards against that mistake, which shows that
the property can fail.

### How the code is abstracted

- **Server.** Atomic steps are the operations other goroutines can see: a channel
  operation, a critical section of `ipMu`, an operation on the wait group.
  Absent keys of `ipCounts` are 0. Closing the listener resets what the kernel had
  queued. `IncrCommands` and `TotalCommands` are left out: nothing calls them.
- **Deadlines.** What a message says is left out; a read is followed by any step
  some message leads to, and consecutive writes are one step. Time passes only
  while the goroutine is blocked in a read or a write, since the computing in
  between is negligible against timeouts of 30 s. Redis reads through a buffer: a
  command that is already there is parsed whatever the deadline.
- **Store.** The file is the sequence of what write system calls appended: a whole
  line, or its head and its tail. A write may fail before either. The text of an
  event is left out here; what `sanitize` makes of it is in `Session` and `Text`. The
  process may end at any step.
- **Lifecycle.** HTTP follows `net/http` as the code uses it: `Shutdown` makes
  `ListenAndServe` return at once and itself waits for handlers, at most 5 s.
  Signals before `signal.Notify` kill the process and are left out. A configuration is
  a record of what `validate`, `applyDefaults` and later checks look at; reading and
  decoding the file is a step that may fail. Default ports and texts are one
  representative each. Its integers are those of 64 bits (`Int64`), and the product of
  the timeout with `time.Second` wraps as theirs does (`Wrapped`, `ConnTimeout`).
- **MongoWire.** Byte for byte, with the code's own comparisons, from the stream to
  the stream. `int` is 64 bits wide, so offsets do not overflow. Of a document only
  the keys with string values are kept, because nothing else is read from it; of an
  event only its command. Command names are shortened, and a key written in a reply is
  one byte, since `encodeBSON` treats keys alike. Lower case is that of ASCII; no
  property depends on other letters. The history variable `starts` records
  where in the stream each complete message began; no action reads it. Go walks maps in random order; the
  model writes the fields in one order, which no length depends on.
- **Sessions.** A string is a sequence of symbols, one per byte. A word such as
  `"AUTH"` stands for harmless ASCII text and counts as one byte; the bytes code
  treats specially (line breaks, zero, escape, the two bytes of a rune, an invalid
  byte) are symbols of their own. `PathText` is the set of symbols made of the
  characters `sanitizePath` lets through; it replaces every other one. Ranging over a string (`Runes`) is stated by the
  positions at which a rune starts: a lead byte never continues a rune, so no position
  depends on an earlier one and no recursion is needed. Runes of three and four bytes are left out; they
  are cut and decoded as those of two. Redis reads a stream of bytes that can end
  anywhere; the other three read whole messages (`io.ReadFull`, `net/http`) and the
  connection can end between any two. How TCP cuts a stream makes no difference to
  `bufio` and `io.ReadFull`, so the input is there from the start. Any write of a
  reply may fail, after any part of the replies to one message. A Redis command takes
  two steps, read and counted, then handled, so that connections interleave
  between the shared counters and the log; the two counters INFO prints are loaded in
  one step. Fixed greetings, JSON answers and INFO texts are left out but for what
  they take from the client or the counters.

## Runs

| Run | Instance | Shows |
|---|---|---|
| `server` | 4 connections, 2 addresses, limits 3 and 2, 1 caller of `Stop` | slots, address counts and wait group are exact in every state, nothing is left when `Serve` returns, the loop never goes back to `Accept` on a closed listener, the limiter is implemented, `Serve` returns once `ctx` is cancelled |
| `server_stop` (violated) | 3 connections, limits 2 and 1 | `Stop` returns and a connection is admitted afterwards |
| `deadlines` | all protocols, timeouts in units of 30 s | shutdown takes at most an idle timeout (or the login that is under way), SSL requests buy no time, Redis and MySQL keep the wall-clock limit, every message read restarts the idle timeout (in MySQL every answer does, and an empty packet has none), every handler returns |
| `deadlines_backstop` (violated) | same | PostgreSQL and MongoDB connections outlive the absolute deadline |
| `store` | 2 sessions, 2 events each, 2 runs of the process, webhook | the mutex is exact, lines are spoiled only behind a cut line and one per fault, `Close` cuts no line, the store is the abstract log across restarts, `Log` returns |
| `store_lines` (violated) | 1 event each | a cut line swallows the next event |
| `lifecycle` | 2 TCP services, 1 HTTP service, 1 client each, any subset enabled; limits absent, negative or given, timeouts that fit a `Duration`, wrap to a negative one and wrap to a short one, with and without webhook | what is loaded is usable and no later check finds more to do, a timeout is kept unless it overflows, no TCP event meets a closed store, one failing service stops no other, a signal ends the process |
| `lifecycle_stopped` (violated) | 1 TCP and 1 HTTP service | "all services stopped" is printed while an HTTP handler runs |
| `mongowire` | 1113 connections of one or two messages | cursors stay in the payload and always advance, the connection ends, a message with one body is logged under its first key, every request is answered once, in order and by its own id, every reply decodes |
| `mongowire_checksum` (violated) | same | the checksum of a message can replace its command name |
| `sessions` | 1081 pairs of connections | see below |
| `sessions_credentials` (violated) | a client that logs in to CouchDB by Basic header alone, with POST or GET, beside a Redis client | the password of a GET of `/_session` is never logged |

`sessions` compares what the handlers did with what the clients meant; the clients of
`MCSessions` carry both their bytes and their meaning. The two could disagree by a slip in
the instance, so `MeaningAssumption` has TLC compare them: the login, query or database a
MySQL or PostgreSQL message is said to mean is what its bytes hold (`Understood`), and a
credential is where Redis or HTTP put one (`Declared`).

- `CommandsFaithful`: `ReadCommand` returns what was encoded, for binary, null and
  empty arguments, pipelines, inline commands and limits met exactly, and nothing
  after something malformed.
- `RepliesFramed`, `InfoCounts`: a client that reads replies by the protocol's own
  rules finds one per command, its own argument in the reply to PING, and counters
  that are neither behind its commands nor ahead of all. That holds for every client up
  to its first command of which an error line repeats a line break (`Repeated`,
  `Framed`): an unknown command name or subcommand of CONFIG. Nothing else puts
  a client out of step.
- `CountersExact`: in every state the shared counters are the sizes of three sets, the
  handlers started, those that run and the commands read, whichever way sessions end.
- `SessionLogged`: MySQL and PostgreSQL logins and queries are logged once, in order,
  under the user and database in force.
- `SequenceFollows`: a MySQL client that numbers its packets by bytes (`Conforming`)
  is sent the greeting and the answers due, each at its place, and each numbered on
  modulo 256 from the packet it answers.
- `ReadyFollows`: PostgreSQL says ReadyForQuery once for everything a client waits for
  (`Awaited`: its password, each query, each Sync), and says it last. For each Parse,
  Bind, Describe and Execute (`Unsynced`), after which a client does not wait, it says it
  once more; the property counts these exactly, so there is no other surplus.
- `CredentialsLogged`: credentials are logged in every form the code looks for.
- `LogClean`, `PathsSafe`: no control character and no invalid UTF-8 reaches the log,
  no field has more runes than the bytes kept of it, and only the characters of
  `PathText` reach a logged request line, the index name of a "not found" reply or
  CouchDB's `db_name`, wherever a cut falls.

### Bounds

- *Server*: with limits 3 and 2, three connections from one address and one from
  another, both refusals happen and with every split of the two releases. The
  proofs remove the bound.
- *Deadlines*: 4, 2 and 1 units are the shipped 120, 60 and 30 s. The clock runs to
  12, twice the bound of `LifetimeBound`; the context is cancelled by 8, so that a
  cancellation is followed past `DrainBound` as well. The proofs do not depend on
  these values. They keep `MaxTime` and `LastCancel`, which may be any numbers.
- *Store*: two sessions and two events give overlapping and consecutive calls; the
  second run appends to what the first one left, also to a cut line. At the last
  end of the process the model rests.
- *Lifecycle*: TCP services share only the store and the context, so two of them
  show one failing while the other serves. `Second` and `MaxInt` are scaled to TLC's
  integers, 100000 and 2^22 - 1: 41 seconds fit, 42 wrap to a negative duration, 84 to
  one of less than a second. The proofs have no such bound.
- *MongoWire*: `MaxMsgSize` is 120 and `MaxBSONDoc` 100; bytes of lengths stay below
  127, which keeps a word inside TLC's integers. Lengths still take every relation to
  the payload: too short, exact, one off, far beyond. Each BSON type occurs once,
  before an element that is read. Two messages show that the next one is found.
- *Sessions*: limits are scaled so that a short input meets each exactly and passes it
  by one: 5 arguments, bulks of 3 bytes, inline commands of 5, fields, paths and
  bodies of 4, queries of 3. Every command of the table occurs; pairs of the
  interesting ones run beside a second Redis client that uses the same counters and
  log; streams are cut at every byte.

Deadlock is checked in every run but `server_stop`, which ends at its violation.
Models that end have an explicit resting step.

### Fairness

- *Server*: goroutines that can run do. A handler ends once the context is
  cancelled; a new connection, a failing `Accept` and a call of `Stop` are never
  forced. `Accept` on an open listener need not fail.
- *Deadlines*: the goroutine runs unless blocked, and time passes. A blocked write
  need not succeed; a client need not send anything.
- *Store*: calls of `Log` make progress, and Go's mutex is starvation free (a waiter
  that has waited 1 ms is served first), so `Lock` is strongly fair. Webhook
  deliveries never need to end.
- *Lifecycle*: `main`, the signal goroutine, the services' goroutines and the
  handlers of TCP connections after cancellation run. HTTP handlers need not end.
- *MongoWire*: the goroutine runs; a read that finds nothing more fails in the end
  (`Deadlines`), so the connection closes. Writes need not succeed.
- *Sessions*: only safety is stated; that handlers return is shown in `Deadlines`.

## Proofs

`ServerProofs` assumes finitely many connections, positive limits and an address
for each connection. The counters alone are not inductive, because a decrement is
right only if the connection that makes it is among those counted. `IInv` adds
where a held connection can be: exactly one connection is held, and only while the
accept loop is between `Accept` and its decision (`LoopHolds`). It also says that a
listener closed while the loop runs was closed on request (`ClosedOnRequest`), which is
what makes the select after a failed `Accept` see the cause, and that no connection goroutine exists before the loop or after `Serve`
(`IdleOutsideLoop`). With that, each step adds or
removes one member of exactly one holder set, and the cardinality lemmas carry the
equalities over.

- `TypeCorrect`, `AccountsCorrect` (slots, addresses, wait group),
  `DrainedOnReturn`, and `ReleaseProceeds`: no release of a slot blocks;
- `NoRetry`, an action property: from the select a loop whose listener is closed goes
  nowhere but to the way out;
- `Refinement`: `Server` implements `ConnLimiter`, with the connections in
  `start` or `run` as active.

`DeadlinesProofs` assumes positive timeouts and a login timeout not above the idle
timeout. The bounds are not inductive: one must know what the read deadline can be
at each step. `DInv` says that the write deadline stays what `Serve` set, the read
deadline lies at most an idle timeout ahead, logins start before the connection
timeout, PostgreSQL's startup has the deadline set at time 0, and a read under way
at cancellation ends in time. Lemmas `TableFacts` and `AnsweringFacts` read what is
needed off the handlers' tables, once per protocol.

- `DeadlinesTypeCorrect`, `Drains` (`DrainBound`), `Negotiates`
  (`NegotiationWindow`);
- `Lifetime` (`AnsweredLifetime`), by a further invariant `LInv`: in Redis and MySQL
  a deadline is only ever set right after a write or followed by one, and writes
  succeed only before the connection timeout;
- `Idles` (`IdleOnEveryPath`), by `FInv`: at the steps from which a handler goes on to
  wait without setting the deadline again (`Fresh`), the deadline in force lies an idle
  timeout or more after the last message read (`lastRead`, set by every read); MySQL's
  lies exactly an idle timeout after the last write (`lastWrite`), because its deadline is
  set right behind one and only there. Lemma `RestartFacts` reads off the tables
  that such a step is only reached by setting it or from another such step.

`LifecycleProofs` assumes that no service is both TCP and HTTP and that configurations
have the shape decoding gives them, with any 64-bit integers, any number of services
and clients, and any width of integers that holds the defaults (`ConfigAssumption`). `TCPEventsKept` speaks of one moment, the step that closes the store, and needs
all that led there: `IInv` says that goroutines exist only for enabled services, once
`main` has started them from a validated configuration with its defaults
(`StartedByMain`, `Settled`), that an HTTP service's `Shutdown` waits for the context
(`ShutOnCancel`), and that `main` holds the store open until each service has ended, a TCP
service not before its connections (`StoreOutlivesServices`).

- `LifecycleTypes`, `TCPEventsAlwaysKept`, `StopsOnlyWhenToldAlways`;
- `ConfigAlwaysUsable`: for every content of the file. Of the timeout it says
  (`TimeoutKept`) that it is the configured one and sets a deadline whenever its
  nanoseconds fit; lemma `WrappedFits` is the arithmetic. Above that the code promises
  nothing, and the theorem does not either.

`StoreProofs` allows any sessions, with a bound of any size on events and runs.
`IInv` adds to the types that a session inside `Log` has an event (`InLogCounted`), that
between its two system calls the file is open and ends with the head it wrote
(`HeadAtEnd`), and counts the damage ahead of time (`DamageCounted`): a cut at the end of
the file that has spoiled nothing yet will spoil the next line, so it must already be
paid for by a fault. Without that `DamageBounded` is not inductive: a step that finishes
a line behind a cut would spoil one without a new fault.

- `StoreTypes`, `MutexExact` (`HoldersExact`), `CutsAreFaults` (`CutOnlyByFault`, which
  counts the heads left unfinished), `DamageAlwaysBounded`;
- `StoreImplementsEventLog`: the abstract log is the sequence of the events whose last
  byte is in the file (`Logged`, stated by rank and not by a filter, so that appending
  a line can be reasoned about). A call takes effect with the write that ends its
  line; every other step of `Log`, `Close`, the end of the process and the next start
  leave the abstract log as it is.

`MongoWireProofs` takes any set of byte strings as input and any `MaxMsgSize` and
`MaxBSONDoc`. Of the two strings in replies it assumes that they have less than 2^24
bytes: the version comes from a configuration file of limited size, the hash has 40.
Types and bounds need each other: a length read from the payload is a number only if its
four bytes are inside, and the cursor stays inside only if the lengths are what the code
compared. `IInv` joins both with `BodyTracked`, which relates the name the parser has
found so far to the body it is in, and `ReplyReady`, which relates the reply under
construction to the header just read.

- `MongoTypes`, `CursorsStayInBounds`, `BodyAlwaysLogged`;
- `CursorsAlwaysAdvance`, the action property behind the end of both loops;
- `RepliesAlwaysFramed`: every reply begins with its own length, the request's ID and
  the opcode of its format. It is the header half of `RepliesDecode`, with the
  little-endian encoding inverted once in a lemma;
- `RequestsAlwaysAnswered`: whenever the loop is back at its read, the messages read lie
  end to end, and each was logged and answered as its opcode asks, once, in order and
  under its own ID. The part `RequestsInv` of `IInv` counts along: in the middle of a
  message the answers are complete up to the one before it (`Handled`), and the log up to
  this message or the one before, depending on the place (`Recorded`).

`PositionsProofs` supplies the form in which sequences are filtered there and below.
`Pick(f, S)` is what `f` has at the positions in `S`, in order; the lemmas say that it is a
sequence of as many elements, that it depends on `f` at `S` only, and that one more
position behind all others appends one element. An inductive step is then one use
of that lemma, where a filter would ask for an induction.

`SessionsProofs` assumes finitely many connections and positive limits and leaves the
clients open: any assignment of protocols, and any sequence of messages, cut anywhere
within it (`IsClient`). There are two inductive invariants.

- `CInv` for `CountersAlwaysExact`: every handler is at one of its places, what was read
  on a connection is a sequence, and the commands counted form a finite set. Each
  Redis step then adds one member to, or takes one from, each set whose counter it
  changes; the other protocols' steps touch none of them (`MySQLForeign`,
  `PostgresForeign`, `HttpForeign`).
- `LInv` for `LogAlwaysClean` and `PathsAlwaysSafe`: the log and the HTTP replies are
  sequences that steps append to. The content is in lemmas on strings: what picking
  positions returns (`PickIn`, of `PositionsProofs`), that ranging over a string yields runes only and keeps
  valid text (`RunesAre`), what `sanitizeStr` and `sanitizePath` leave
  (`SanitizeStrClean`, `SanitizePathSafe`), for strings and limits of any length.
  `PathsSafe` needs both, since a request line goes through one and then the other. A
  last group of lemmas shows that each step of each handler logs at most one event, under
  its own connection (`RedisWrites`, `MySQLWrites`, `PostgresWrites`, `HttpWrites`).

`DialogueProofs` compares what a handler sent and logged with what it read, for one
connection among any number of others. Each step of a handler touches the input,
place, replies and names of its own connection only (`Own`) and appends to the log only
under its own name, so an invariant of one connection survives every step of the others.

- `DInv`, by `DialogueInvariance`: what a handler has read is a prefix of its client's
  messages and, at each place of the handler, what it has sent answers exactly that
  prefix. For MySQL (`MInv`) that is the number of packets due and the sequence number of
  each; for PostgreSQL (`PInv`) the number of ReadyForQuery messages (one for each
  message in `Awaited` or `Unsynced`) and, before the query loop, which message was
  the last. In the loop everything is answered; where a write has failed
  the replies may fall short, but what was sent is still in place.
- `SequencesAlwaysFollow` and `ReadyAlwaysFollows` follow from it. The messages are
  any messages at all; only `Conforming` restricts a client, and that is a hypothesis
  inside `SequenceFollows`.
- `SessionsAlwaysLogged`, by `SInv`: the events of a connection are those its messages
  ask for, none before the login is read, and `who` holds the user and the database that the
  messages read so far put in force, those of the startup message while the
  password is awaited. The theorem assumes `Understood`: without it there is nothing the
  log could be compared with, since the meaning is a field of the client.
- `CredentialsAlwaysLogged`, by `KInv`: every item a Redis or HTTP handler is done with
  has its credential in the log, and what is logged stays. It assumes `Declared`, as above,
  and `[]CommandsFaithful`: that `ReadCommand` recovers the arguments a client encoded is
  an induction over its bytes, which only TLC checks. Given that, the theorem covers
  the dispatch, the search of HELLO's arguments, the two places of an HTTP login and
  every interleaving with other sessions.

TLC evaluates both assumptions on the clients of `MCSessions`, so neither is empty.

Only model-checked:

- the liveness properties `ShutdownCompletes`, `HandlerReturns`, `LogReturns`,
  `SignalEnds` and `SessionEnds`: the proof system has no support for fairness;
- the body half of `RepliesDecode`: `IsBSON` follows nested lengths recursively;
- `CommandsFaithful`, `RepliesFramed` and `InfoCounts`: decoding a stream of bytes
  again is a recursive function. What such a function computes for every input needs an
  induction over data, which the installed provers cannot do.

## Findings

1. `Stop` (`server.go:125`) "signals the server to stop accepting new
   connections" but returns while the accept loop may still admit one, and waits on
   a wait group that is still being added to.
2. The "absolute deadline for the entire connection lifetime" (`server.go:115`)
   loses its read half to the handlers' `SetReadDeadline`. PostgreSQL and MongoDB
   have messages they do not answer, and so no absolute limit.
3. "One JSON object per line" does not hold after a write that failed part way.
4. "main: all services stopped" is printed, and the store closed, while HTTP
   handlers run: nobody waits for `Shutdown`.
5. An OP_MSG checksum is parsed as further sections. A zero byte in it, unless a byte
   above 1 comes first and stops the parsing, erases the command name and with it the
   authentication event. A `break` leaves the switch only.
6. "Logs every credential" (`README.md`) does not hold for a GET of CouchDB's `/_session`
   with a Basic header: `couchSessionHandler` looks for credentials only under POST
   (`http/handler.go:300`). That is the run's trace. `Overlooked` names the other forms
   no code looks for: a Basic header on any other HTTP route or beside a JSON body,
   and Redis AUTH with a user name and a password, where the user name is logged as the
   password and the password lost.

Remarks, met while modelling and not expressed as runs:

- "Read deadline resets on each successful read" (`README.md:47`): MySQL's empty packet
  is read, ignored and restarts nothing (`mysql/handler.go:84-86`). The timeout goes on
  counting from the last answer, which is what `IdleOnEveryPath` says of MySQL.
- The "safe RESP response builders" (`redis/resp.go:117`) repeat an unknown command name
  (`redis/handler.go:216`, `225`) and an unknown subcommand of CONFIG (`251`) as they came.
  One with a line break gives the client that sent it two lines, and from there it is out
  of step; `RepliesFramed` states this as the only exception.
- PostgreSQL answers each Parse, Bind, Describe and Execute, like Sync, with an
  ErrorResponse and ReadyForQuery (`postgres/handler.go:128-135`). A client
  of the extended protocol waits for ReadyForQuery only after Sync, and finds one too many
  for each of the others; `ReadyFollows` counts them.
- The reply to QUIT is left in the buffer and never flushed.
- The README gives 500 as the default for connections; `applyDefaults` gives 200, and
  the 500 in `server.New` cannot be reached (`LateChecksRedundant`, a part of `ConfigUsable`).
- For the same reason `fingerprint.New` never makes up a host name: unless configured,
  every deployment calls itself `node-1`, while `fingerprint.go` says that no two
  share static fingerprints.
- A request line is logged through `sanitizePath`, as `POST_/_search`; the README's
  example has a space.
- The salt of the MySQL greeting is commented as [1,254]; 255 is possible.
- `connection_timeout_seconds` has no upper limit and its product with `time.Second`
  (`main.go:67`) can wrap. Where it comes out negative `Serve` sets no deadline at all
  (`server.go:116`), where it comes out positive connections end early; `TimeoutKept`, a
  part of `ConfigUsable`, says that nothing else loses the configured timeout.

## Not modelled

- *Fingerprint*: it draws identifiers at random once per start or connection and keeps
  no state; no behaviour depends on their values. Only the host name of `New` is in
  `Config`.
- *Fixed data*: greetings, JSON answers and INFO texts, and the webhook's request and
  TLS settings, are data without control. The payload field of MongoDB events, the
  document as JSON, is left out.
- *Decoding the configuration file*: library code, a step that may fail.
- *`IncrCommands`, `TotalCommands`*: nothing calls them.
- *Processor time and memory*: the retry of a failing `Accept` without a pause, and
  an unbounded number of webhook goroutines, are in the models but cost nothing there.

## Plan

Done: every component but the fingerprint; the proofs of every safety property that
does not need induction over data.

Left: liveness and the four properties named above under "Only model-checked". They
need a prover with fairness rules and with induction schemes; the models need no change for it.
