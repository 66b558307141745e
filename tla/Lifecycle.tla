----------------------------- MODULE Lifecycle -----------------------------
(***************************************************************************)
(* The process of cmd/tacoma/main.go: start-up, the signal goroutine, the  *)
(* services, and main waiting for them, printing that they have stopped    *)
(* and running its deferred calls.                                         *)
(*                                                                         *)
(* A TCP service is taken from its promise (ConnLimiter, which Server      *)
(* implements): it serves until ctx is cancelled and returns when nobody   *)
(* is served.  An HTTP service is net/http as ServeElasticsearch and       *)
(* ServeCouchDB use it: Shutdown makes ListenAndServe return at once and   *)
(* waits for the handlers itself, in a goroutine nobody waits for.         *)
(***************************************************************************)
EXTENDS Config

CONSTANTS Configs, \* what the configuration file may say
          TCP,     \* redis, mysql, postgres, mongodb
          HTTP,    \* elasticsearch, couchdb
          Clients  \* bound: each opens one connection per service

Services == TCP \cup HTTP

ASSUME LifecycleAssumption == /\ TCP \cap HTTP = {}
                              /\ Configs \subseteq Configurations(Services)

VARIABLES main,      \* where main stands
          cfg,       \* the configuration
          sigs,      \* number of signals in sigCh, of capacity 1
          catcher,   \* the signal goroutine is still waiting for one
          ctxDone,   \* ctx has been cancelled
          svc,       \* the goroutine main started for each service
          shut,      \* HTTP: the goroutine that calls Shutdown
          conn,      \* each client's connection to each service
          storeOpen, \* the capture store is open
          lost       \* services with an event the closed store refused

vars == <<main, cfg, sigs, catcher, ctxDone, svc, shut, conn, storeOpen, lost>>

\* The services the configuration enables.
enabled == cfg.enabled

MainStates == {"config", "webhook", "store", "start", "wait", "stopped",
               "cancelled", "exited"}

TypeOK ==
  /\ main \in MainStates
  /\ cfg \in Configurations(Services)
  /\ sigs \in 0..1
  /\ catcher \in BOOLEAN
  /\ ctxDone \in BOOLEAN
  /\ svc \in [Services -> {"none", "starting", "serving", "failed", "returned"}]
  /\ shut \in [HTTP -> {"none", "waiting", "called", "over"}]
  /\ conn \in [Services \X Clients -> {"none", "new", "active", "idle", "closed"}]
  /\ storeOpen \in BOOLEAN
  /\ lost \subseteq Services

Init ==
  /\ main = "config"
  /\ cfg \in Configs
  /\ sigs = 0
  /\ catcher = FALSE
  /\ ctxDone = FALSE
  /\ svc = [v \in Services |-> "none"]
  /\ shut = [h \in HTTP |-> "none"]
  /\ conn = [c \in Services \X Clients |-> "none"]
  /\ storeOpen = FALSE
  /\ lost = {}

Alive == main # "exited"

-----------------------------------------------------------------------------
(* main. *)

\* config.Load, NewWebhook and capture.New in turn; each is fatal if it fails.
\* log.Fatalf runs no deferred call.  A file that cannot be read, is too long or
\* does not parse fails whatever it says.
LoadConfig ==
  /\ main = "config"
  /\ \/ Validate(cfg) /\ main' = "webhook" /\ cfg' = ApplyDefaults(cfg)
     \/ main' = "exited" /\ cfg' = cfg
  /\ UNCHANGED <<sigs, catcher, ctxDone, svc, shut, conn, storeOpen, lost>>

BuildWebhook ==
  /\ main = "webhook"
  /\ main' = IF NewWebhookFails(cfg) THEN "exited" ELSE "store"
  /\ UNCHANGED <<cfg, sigs, catcher, ctxDone, svc, shut, conn, storeOpen, lost>>

OpenStore ==
  /\ main = "store" /\ main' \in {"start", "exited"}
  /\ storeOpen' = (main' = "start")
  /\ UNCHANGED <<cfg, sigs, catcher, ctxDone, svc, shut, conn, lost>>

\* signal.Notify and its goroutine, then wg.Add(1) and a goroutine for every
\* service that is enabled.
StartServices ==
  /\ main = "start" /\ main' = "wait"
  /\ catcher' = TRUE
  /\ svc' = [v \in Services |-> IF v \in enabled THEN "starting" ELSE "none"]
  /\ shut' = [h \in HTTP |-> IF h \in enabled THEN "waiting" ELSE "none"]
  /\ UNCHANGED <<cfg, sigs, ctxDone, conn, storeOpen, lost>>

\* Faulty variant: main waits for one service.
WaitForAny ==
  /\ main = "wait" /\ main' = "stopped"
  /\ \E v \in enabled : svc[v] \in {"failed", "returned"}
  /\ UNCHANGED <<cfg, sigs, catcher, ctxDone, svc, shut, conn, storeOpen, lost>>

\* wg.Wait returns and "main: all services stopped" is printed.
Wait ==
  /\ main = "wait" /\ main' = "stopped"
  /\ \A v \in enabled : svc[v] \in {"failed", "returned"}
  /\ UNCHANGED <<cfg, sigs, catcher, ctxDone, svc, shut, conn, storeOpen, lost>>

\* The deferred calls, last first: cancel, then store.Close.
DeferredCancel ==
  /\ main = "stopped" /\ main' = "cancelled"
  /\ ctxDone' = TRUE
  /\ UNCHANGED <<cfg, sigs, catcher, svc, shut, conn, storeOpen, lost>>

DeferredClose ==
  /\ main = "cancelled"
  /\ storeOpen
  /\ storeOpen' = FALSE
  /\ UNCHANGED <<main, cfg, sigs, catcher, ctxDone, svc, shut, conn, lost>>

\* main returns and takes every goroutine with it.
Exit ==
  /\ main = "cancelled" /\ main' = "exited"
  /\ ~storeOpen
  /\ UNCHANGED <<cfg, sigs, catcher, ctxDone, svc, shut, conn, storeOpen, lost>>

-----------------------------------------------------------------------------
(* Signals.  os/signal drops a signal the channel has no room for. *)

\* Faulty variant: the channel has no bound.
SignalUndropped ==
  /\ main \in {"wait", "stopped", "cancelled"}
  /\ sigs' = sigs + 1
  /\ UNCHANGED <<main, cfg, catcher, ctxDone, svc, shut, conn, storeOpen, lost>>

Signal ==
  /\ main \in {"wait", "stopped", "cancelled"}
  /\ sigs = 0
  /\ sigs' = 1
  /\ UNCHANGED <<main, cfg, catcher, ctxDone, svc, shut, conn, storeOpen, lost>>

\* Faulty variant: the signal goroutine does not cancel.
CatchForgetting ==
  /\ Alive /\ catcher /\ sigs = 1
  /\ sigs' = 0
  /\ catcher' = FALSE
  /\ UNCHANGED <<main, cfg, ctxDone, svc, shut, conn, storeOpen, lost>>

\* The signal goroutine takes one signal, cancels and ends.
Catch ==
  /\ Alive /\ catcher /\ sigs = 1
  /\ sigs' = 0
  /\ catcher' = FALSE
  /\ ctxDone' = TRUE
  /\ UNCHANGED <<main, cfg, svc, shut, conn, storeOpen, lost>>

-----------------------------------------------------------------------------
(* TCP services: Server.Serve. *)

TCPListen(v) ==
  /\ Alive
  /\ svc[v] = "starting"
  /\ \E r \in {"serving", "failed"} : /\ r = "serving" => CanListen(cfg, v)
                                     /\ svc' = [svc EXCEPT ![v] = r]
  /\ UNCHANGED <<main, cfg, sigs, catcher, ctxDone, shut, conn, storeOpen, lost>>

TCPAdmit(v, k) ==
  /\ Alive
  /\ svc[v] = "serving"
  /\ conn[<<v, k>>] = "none"
  /\ conn' = [conn EXCEPT ![<<v, k>>] = "active"]
  /\ UNCHANGED <<main, cfg, sigs, catcher, ctxDone, svc, shut, storeOpen, lost>>

TCPEnd(v, k) ==
  /\ Alive
  /\ conn[<<v, k>>] = "active"
  /\ conn' = [conn EXCEPT ![<<v, k>>] = "closed"]
  /\ UNCHANGED <<main, cfg, sigs, catcher, ctxDone, svc, shut, storeOpen, lost>>

\* Faulty variant: Serve returns without wg.Wait.
TCPReturnAtOnce(v) ==
  /\ Alive
  /\ svc[v] = "serving"
  /\ ctxDone
  /\ svc' = [svc EXCEPT ![v] = "returned"]
  /\ UNCHANGED <<main, cfg, sigs, catcher, ctxDone, shut, conn, storeOpen, lost>>

\* The listener is closed and s.wg.Wait has returned.
TCPReturn(v) ==
  /\ Alive
  /\ svc[v] = "serving"
  /\ ctxDone
  /\ \A k \in Clients : conn[<<v, k>>] # "active"
  /\ svc' = [svc EXCEPT ![v] = "returned"]
  /\ UNCHANGED <<main, cfg, sigs, catcher, ctxDone, shut, conn, storeOpen, lost>>

-----------------------------------------------------------------------------
(* HTTP services: ServeElasticsearch, ServeCouchDB and net/http. *)

\* ListenAndServe starts; it returns at once if Shutdown came first.
HTTPListen(h) ==
  /\ Alive
  /\ svc[h] = "starting"
  /\ \/ /\ shut[h] = "waiting" /\ CanListen(cfg, h)
        /\ svc' = [svc EXCEPT ![h] = "serving"]
     \/ shut[h] = "waiting" /\ svc' = [svc EXCEPT ![h] = "failed"]
     \/ shut[h] # "waiting" /\ svc' = [svc EXCEPT ![h] = "returned"]
  /\ UNCHANGED <<main, cfg, sigs, catcher, ctxDone, shut, conn, storeOpen, lost>>

\* A permanent Accept error ends ListenAndServe: unlike Server.Serve it gives up.
HTTPAcceptError(h) ==
  /\ Alive
  /\ svc[h] = "serving" /\ shut[h] = "waiting"
  /\ svc' = [svc EXCEPT ![h] = "failed"]
  /\ UNCHANGED <<main, cfg, sigs, catcher, ctxDone, shut, conn, storeOpen, lost>>

HTTPConnect(h, k) ==
  /\ Alive
  /\ svc[h] = "serving" /\ shut[h] = "waiting"
  /\ conn[<<h, k>>] = "none"
  /\ conn' = [conn EXCEPT ![<<h, k>>] = "new"]
  /\ UNCHANGED <<main, cfg, sigs, catcher, ctxDone, svc, shut, storeOpen, lost>>

\* A request arrives: its handler runs, even if Shutdown has been called.
HTTPRequest(h, k) ==
  /\ Alive
  /\ conn[<<h, k>>] \in {"new", "idle"}
  /\ conn' = [conn EXCEPT ![<<h, k>>] = "active"]
  /\ UNCHANGED <<main, cfg, sigs, catcher, ctxDone, svc, shut, storeOpen, lost>>

\* The handler returns; keep-alive ends with Shutdown.
HTTPEnd(h, k) ==
  /\ Alive
  /\ conn[<<h, k>>] = "active"
  /\ \E s \in {"idle", "closed"} :
       /\ s = "idle" => shut[h] = "waiting"
       /\ conn' = [conn EXCEPT ![<<h, k>>] = s]
  /\ UNCHANGED <<main, cfg, sigs, catcher, ctxDone, svc, shut, storeOpen, lost>>

\* The client leaves, or a server timeout of the waiting connection fires.
HTTPClose(h, k) ==
  /\ Alive
  /\ conn[<<h, k>>] \in {"new", "idle"}
  /\ conn' = [conn EXCEPT ![<<h, k>>] = "closed"]
  /\ UNCHANGED <<main, cfg, sigs, catcher, ctxDone, svc, shut, storeOpen, lost>>

\* "<-ctx.Done()", then Shutdown closes the listener and the idle connections.
ShutdownCall(h) ==
  /\ Alive
  /\ shut[h] = "waiting" /\ ctxDone
  /\ shut' = [shut EXCEPT ![h] = "called"]
  /\ conn' = [c \in DOMAIN conn |->
                IF c[1] = h /\ conn[c] = "idle" THEN "closed" ELSE conn[c]]
  /\ UNCHANGED <<main, cfg, sigs, catcher, ctxDone, svc, storeOpen, lost>>

\* ListenAndServe returns ErrServerClosed; the handlers are not waited for.
HTTPReturn(h) ==
  /\ Alive
  /\ svc[h] = "serving" /\ shut[h] \in {"called", "over"}
  /\ svc' = [svc EXCEPT ![h] = "returned"]
  /\ UNCHANGED <<main, cfg, sigs, catcher, ctxDone, shut, conn, storeOpen, lost>>

\* Shutdown ends: every connection is closed, or its 5 s are over.
ShutdownReturn(h) ==
  /\ Alive
  /\ shut[h] = "called"
  /\ shut' = [shut EXCEPT ![h] = "over"]
  /\ UNCHANGED <<main, cfg, sigs, catcher, ctxDone, svc, conn, storeOpen, lost>>

-----------------------------------------------------------------------------

\* A running handler calls store.Log; a closed file refuses the event.
Log(v, k) ==
  /\ Alive
  /\ conn[<<v, k>>] = "active"
  /\ lost' = IF storeOpen THEN lost ELSE lost \cup {v}
  /\ UNCHANGED <<main, cfg, sigs, catcher, ctxDone, svc, shut, conn, storeOpen>>

Exited == ~Alive /\ UNCHANGED vars

MainStep == \/ LoadConfig \/ BuildWebhook \/ OpenStore \/ StartServices
            \/ Wait \/ DeferredCancel \/ DeferredClose \/ Exit

TCPStep(v) == TCPListen(v) \/ TCPReturn(v)

HTTPStep(h) == HTTPListen(h) \/ HTTPReturn(h)

Next ==
  \/ MainStep \/ Signal \/ Catch \/ Exited
  \/ \E v \in TCP : TCPStep(v) \/ \E k \in Clients : TCPAdmit(v, k) \/ TCPEnd(v, k)
  \/ \E h \in HTTP :
       \/ HTTPStep(h) \/ HTTPAcceptError(h) \/ ShutdownCall(h) \/ ShutdownReturn(h)
       \/ \E k \in Clients : \/ HTTPConnect(h, k) \/ HTTPRequest(h, k)
                             \/ HTTPEnd(h, k) \/ HTTPClose(h, k)
  \/ \E v \in Services, k \in Clients : Log(v, k)

Spec == Init /\ [][Next]_vars

\* Goroutines run.  A TCP handler returns once ctx is cancelled (Deadlines) and
\* Serve then returns (Server), so clients are not admitted for ever; nothing is
\* assumed of HTTP handlers or clients.
Fairness ==
  /\ WF_vars(MainStep)
  /\ WF_vars(Catch)
  /\ \A v \in TCP : /\ WF_vars(TCPStep(v))
                    /\ \A k \in Clients : WF_vars(ctxDone /\ TCPEnd(v, k))
  /\ \A h \in HTTP : WF_vars(HTTPStep(h)) /\ WF_vars(ShutdownCall(h))

FairSpec == Spec /\ Fairness

-----------------------------------------------------------------------------
(* Properties. *)

\* An event of a TCP handler never meets a closed store: Serve waits for its
\* handlers, main for Serve, and Close is deferred behind both.
TCPEventsKept == lost \cap TCP = {}

\* One service failing to listen, or giving up, does not take the others down:
\* main stops only after a signal or when no service is left.
StopsOnlyWhenTold ==
  main \in {"stopped", "cancelled"} =>
    \/ ctxDone
    \/ \A v \in enabled : svc[v] = "failed"

\* The checks made later find nothing left to do once a configuration has been
\* loaded: NewWebhook cannot fail, and neither the limit of server.New nor a host
\* name made up by fingerprint.New replaces what was configured.
LateChecksRedundant ==
  main \notin {"config", "exited"} => /\ ~NewWebhookFails(cfg)
                                     /\ MaxConns(cfg) = cfg.num["max_connections"]
                                     /\ Hostname(cfg) = cfg.text["node_name"]

\* The timeout that main computes for the TCP services is the configured one and
\* Serve sets it, if it fits a time.Duration.  Nothing checks that it does: a
\* longer one wraps to some other timeout, or to a negative one, and then Serve
\* sets no deadline at all.
TimeoutKept ==
  ConfiguredTimeout(cfg) \in Int64 =>
    ConnTimeout(cfg) = ConfiguredTimeout(cfg) /\ SetsDeadline(cfg)

\* A service that serves has the limits the other modules assume, room for a
\* connection, room for a body, a port and, within TimeoutKept, a lifetime, and they
\* are the ones of the configuration: no check made later changes or refuses what
\* applyDefaults left.
ConfigUsable ==
  /\ LateChecksRedundant
  /\ \A v \in Services : svc[v] = "serving" =>
       /\ v \in enabled
       /\ \A l \in Limits : cfg.num[l] > 0
       /\ cfg.port[v] \in 1..MaxPort
       /\ v \in TCP => TimeoutKept

-----------------------------------------------------------------------------
(* The inductive invariant behind the safety properties. *)

\* A configuration that validate and applyDefaults have been over.
Settled == /\ \A l \in Limits : cfg.num[l] > 0
           /\ \A v \in Services : cfg.port[v] # 0
           /\ cfg.text["node_name"] # ""
           /\ cfg.webhook => cfg.url # ""

\* A goroutine exists for a service only once main has started it, from such a
\* configuration and on a port that can be listened on; Serve returns only when
\* ctx has been cancelled.
StartedByMain ==
  \A v \in Services : svc[v] # "none" =>
    /\ v \in enabled /\ Settled
    /\ main \in {"wait", "stopped", "cancelled", "exited"}
    /\ svc[v] = "serving" => CanListen(cfg, v)
    /\ svc[v] = "returned" => ctxDone

\* Every HTTP service has its goroutine for Shutdown, which waits for ctx.
ShutOnCancel ==
  \A h \in HTTP : /\ svc[h] # "none" => shut[h] # "none"
                  /\ shut[h] \in {"called", "over"} => ctxDone

\* main holds the store open until every service has ended, and a TCP service
\* does not end before its connections.
StoreOutlivesServices ==
  /\ main \in {"start", "wait"} => storeOpen
  /\ main \in {"stopped", "cancelled"} => \A v \in enabled : svc[v] \in {"failed", "returned"}
  /\ \A v \in TCP, k \in Clients : conn[<<v, k>>] = "active" => svc[v] = "serving"

IInv == /\ TypeOK
        /\ main \notin {"config", "exited"} => Settled
        /\ StartedByMain /\ ShutOnCancel /\ StoreOutlivesServices
        /\ TCPEventsKept

-----------------------------------------------------------------------------

\* After a signal the process exits, even if HTTP handlers never finish, clients
\* keep every connection busy and the signal arrives before the services listen.
SignalEnds == (main = "wait" /\ sigs = 1 /\ catcher) ~> (main = "exited")

\* What main prints before it returns: "all services stopped".  After a graceful
\* stop, with no service having failed, no handler of any service is running.
StoppedMeansIdle ==
  (main = "stopped" /\ ctxDone /\ \A v \in enabled : svc[v] = "returned") =>
    \A v \in Services, k \in Clients : conn[<<v, k>>] # "active"
=============================================================================
