-------------------------- MODULE LifecycleProofs --------------------------
(* Theorems about module Lifecycle, for every set of services, clients and  *)
(* configurations.                                                         *)
EXTENDS Lifecycle, TLAPS

\* A number that 64 bits hold is not changed by wrapping.
LEMMA WrappedFits ==
  ASSUME NEW n \in Int64
  PROVE  Wrapped(n) = n
<1> DEFINE h == MaxInt + 1
<1>1. h \in Nat /\ h > 0 /\ n \in Int /\ n + h >= 0 /\ n + h < 2 * h
  BY ConfigAssumption, SMT DEF Int64
<1>2. Wrapped(n) = ((n + h) % (2 * h)) - h
  BY DEF Wrapped
<1> HIDE DEF h
<1> DEFINE a == n + h
           m == 2 * h
<1>3. a \in Nat /\ m \in Nat /\ m > 0 /\ a < m /\ a - h = n
  BY <1>1, SMT
<1>4. Wrapped(n) = (a % m) - h
  BY <1>2
<1> HIDE DEF a, m
<1>5. a % m = a
  BY <1>3, SMT
<1> QED  BY <1>1, <1>3, <1>4, <1>5, SMT

\* applyDefaults leaves a configuration that needs no further check.
LEMMA DefaultsSettle ==
  ASSUME NEW c \in Configurations(Services), Validate(c),
         NEW d, d = ApplyDefaults(c)
  PROVE  /\ d \in Configurations(Services)
         /\ d.enabled = c.enabled
         /\ \A l \in Limits : d.num[l] > 0
         /\ \A v \in Services : d.port[v] # 0
         /\ d.text["node_name"] # ""
         /\ d.webhook => d.url # ""
<1> DEFINE num  == [l \in Limits |-> Or(c.num[l], 0, DefaultNum[l])]
           port == [v \in Services |-> Or(c.port[v], 0, 1000)]
           text == [f \in Texts |-> Or(c.text[f], "", "default")]
<1>1. /\ c.num \in [Limits -> Int64] /\ c.port \in [Services -> Int64]
      /\ c.text \in [Texts -> TextValues]
      /\ c.enabled \in SUBSET Services /\ c.webhook \in BOOLEAN /\ c.url \in TextValues
  BY SMT DEF Configurations
<1>2. \A l \in Limits : DefaultNum[l] \in Int64 /\ DefaultNum[l] > 0
  BY ConfigAssumption, SMT DEF DefaultNum, Limits, Int64
<1>3. d = [enabled |-> c.enabled, num |-> num, port |-> port, text |-> text,
           webhook |-> c.webhook, url |-> c.url]
  <2>1. DOMAIN c.port = Services /\ DOMAIN c.text = Texts
    BY <1>1, SMT
  <2> QED  BY <2>1, Zenon DEF ApplyDefaults
<1>4. \A l \in Limits : num[l] \in Int64 /\ num[l] > 0
  <2> TAKE l \in Limits
  <2>1. num[l] = IF c.num[l] = 0 THEN DefaultNum[l] ELSE c.num[l]
    BY Zenon DEF Or
  <2>2. c.num[l] \in Int64 /\ c.num[l] >= 0 /\ DefaultNum[l] \in Int64 /\ DefaultNum[l] > 0
    BY <1>1, <1>2, Zenon DEF Validate
  <2> HIDE DEF num
  <2> QED  BY <2>1, <2>2, ConfigAssumption, SMT DEF Int64
<1>5. \A v \in Services : port[v] \in Int64 /\ port[v] # 0
  BY <1>1, ConfigAssumption, SMT DEF Or, Int64
<1>6. \A f \in Texts : text[f] \in TextValues /\ text[f] # ""
  <2> TAKE f \in Texts
  <2>1. text[f] = IF c.text[f] = "" THEN "default" ELSE c.text[f]
    BY Zenon DEF Or
  <2>2. c.text[f] \in TextValues
    BY <1>1, Zenon
  <2> HIDE DEF text
  <2> QED  BY <2>1, <2>2, Zenon DEF TextValues
<1>7. num \in [Limits -> Int64] /\ port \in [Services -> Int64] /\ text \in [Texts -> TextValues]
  <2>1. /\ num = [l \in Limits |-> num[l]]
        /\ port = [v \in Services |-> port[v]]
        /\ text = [f \in Texts |-> text[f]]
    BY Zenon
  <2> HIDE DEF num, port, text
  <2>2. num \in [Limits -> Int64]
    BY <2>1, <1>4, SMT
  <2>3. port \in [Services -> Int64]
    BY <2>1, <1>5, SMT
  <2>4. text \in [Texts -> TextValues]
    BY <2>1, <1>6, Zenon
  <2> QED  BY <2>2, <2>3, <2>4
<1>8. c.webhook => c.url # ""
  BY Zenon DEF Validate
<1> HIDE DEF num, port, text
<1>9. "node_name" \in Texts
  BY SMT DEF Texts
<1>10. /\ d.enabled = c.enabled /\ d.webhook = c.webhook /\ d.url = c.url
       /\ d.num = num /\ d.port = port /\ d.text = text
  BY <1>3, SMT
<1>11. d \in Configurations(Services)
  BY <1>1, <1>3, <1>7, SMT DEF Configurations
<1> QED  BY <1>4, <1>5, <1>6, <1>8, <1>9, <1>10, <1>11, Zenon

\* Every step of the process leaves the variables in their ranges.
LEMMA TypeStep ==
  ASSUME IInv, Next
  PROVE  TypeOK'
<1> USE DEF IInv, TypeOK, MainStates
<1>1. CASE LoadConfig
  BY <1>1, DefaultsSettle DEF LoadConfig
<1>2. CASE BuildWebhook \/ OpenStore \/ Wait \/ DeferredCancel \/ DeferredClose \/ Exit
  BY <1>2 DEF BuildWebhook, OpenStore, Wait, DeferredCancel, DeferredClose, Exit
<1>3. CASE StartServices
  BY <1>3 DEF StartServices
<1>4. CASE Signal \/ Catch \/ Exited
  <2>1. sigs' \in 0..1
    BY <1>4 DEF Signal, Catch, Exited, vars
  <2>2. catcher' \in BOOLEAN /\ ctxDone' \in BOOLEAN
    BY <1>4, Zenon DEF Signal, Catch, Exited, vars
  <2> QED  BY <1>4, <2>1, <2>2, Zenon DEF Signal, Catch, Exited, vars
<1>5. ASSUME NEW v \in TCP, TCPStep(v) \/ \E k \in Clients : TCPAdmit(v, k) \/ TCPEnd(v, k)
      PROVE  TypeOK'
  BY <1>5 DEF TCPStep, TCPListen, TCPReturn, TCPAdmit, TCPEnd, Services
<1>6. ASSUME NEW h \in HTTP, HTTPStep(h) \/ HTTPAcceptError(h) \/ ShutdownReturn(h)
      PROVE  TypeOK'
  BY <1>6 DEF HTTPStep, HTTPListen, HTTPReturn, HTTPAcceptError, ShutdownReturn, Services
<1>7. ASSUME NEW h \in HTTP, ShutdownCall(h)
      PROVE  TypeOK'
  BY <1>7 DEF ShutdownCall
<1>8. ASSUME NEW h \in HTTP, NEW k \in Clients,
             HTTPConnect(h, k) \/ HTTPRequest(h, k) \/ HTTPEnd(h, k) \/ HTTPClose(h, k)
      PROVE  TypeOK'
  BY <1>8 DEF HTTPConnect, HTTPRequest, HTTPEnd, HTTPClose
<1>9. ASSUME NEW v \in Services, NEW k \in Clients, Log(v, k)
      PROVE  TypeOK'
  BY <1>9 DEF Log
<1> QED  BY <1>1, <1>2, <1>3, <1>4, <1>5, <1>6, <1>7, <1>8, <1>9 DEF Next, MainStep

\* Only config.Load changes the configuration, and main goes on only with one it
\* has settled.
LEMMA SettledStep ==
  ASSUME IInv, Next
  PROVE  /\ main' \notin {"config", "exited"} => Settled'
         /\ main # "config" => cfg' = cfg
<1> USE DEF IInv, TypeOK
<1>1. CASE LoadConfig
  <2>1. CASE Validate(cfg) /\ cfg' = ApplyDefaults(cfg)
    BY <1>1, <2>1, DefaultsSettle, Zenon DEF LoadConfig, Settled
  <2>2. CASE main' = "exited"
    BY <1>1, <2>2, Zenon DEF LoadConfig
  <2> QED  BY <1>1, <2>1, <2>2, Zenon DEF LoadConfig
<1>2. CASE UNCHANGED cfg /\ (main \in {"config", "exited"} => main' = main)
  BY <1>2, Zenon DEF Settled
<1>3. LoadConfig \/ (UNCHANGED cfg /\ (main \in {"config", "exited"} => main' = main))
  <2>1. CASE MainStep
    BY <2>1 DEF MainStep, BuildWebhook, OpenStore, StartServices, Wait, DeferredCancel,
                DeferredClose, Exit
  <2>2. CASE Signal \/ Catch \/ Exited
    BY <2>2 DEF Signal, Catch, Exited, vars
  <2>3. CASE \E v \in TCP : TCPStep(v) \/ \E k \in Clients : TCPAdmit(v, k) \/ TCPEnd(v, k)
    BY <2>3 DEF TCPStep, TCPListen, TCPReturn, TCPAdmit, TCPEnd
  <2>4. CASE \E h \in HTTP :
               \/ HTTPStep(h) \/ HTTPAcceptError(h) \/ ShutdownCall(h) \/ ShutdownReturn(h)
               \/ \E k \in Clients : \/ HTTPConnect(h, k) \/ HTTPRequest(h, k)
                                     \/ HTTPEnd(h, k) \/ HTTPClose(h, k)
    BY <2>4 DEF HTTPStep, HTTPListen, HTTPReturn, HTTPAcceptError, ShutdownCall, ShutdownReturn,
                HTTPConnect, HTTPRequest, HTTPEnd, HTTPClose
  <2>5. CASE \E v \in Services, k \in Clients : Log(v, k)
    BY <2>5 DEF Log
  <2> QED  BY <2>1, <2>2, <2>3, <2>4, <2>5, Zenon DEF Next
<1> QED  BY <1>1, <1>2, <1>3, Zenon DEF LoadConfig

\* A goroutine of a service keeps the configuration main started it with.
LEMMA StartedStep ==
  ASSUME IInv, Next
  PROVE  StartedByMain'
<1> USE DEF IInv, TypeOK
<1> DEFINE Running == {"wait", "stopped", "cancelled", "exited"}
\* What has to be shown of a service that has a goroutine after the step.
<1>1. ASSUME NEW v \in Services, svc[v] # "none"
      PROVE  /\ v \in enabled' /\ Settled' /\ cfg' = cfg /\ main \in Running
             /\ svc[v] = "serving" => CanListen(cfg, v)
             /\ svc[v] = "returned" => ctxDone
  <2>1. v \in enabled /\ Settled /\ main \in Running /\ cfg' = cfg
    BY <1>1, SettledStep, Zenon DEF StartedByMain
  <2>2. v \in enabled' /\ Settled'
    BY <2>1, Zenon DEF Settled, enabled
  <2> QED  BY <1>1, <2>1, <2>2, Zenon DEF StartedByMain
<1>2. ASSUME UNCHANGED svc, ctxDone => ctxDone', main \in Running => main' \in Running
      PROVE  StartedByMain'
  BY <1>1, <1>2, Zenon DEF StartedByMain
<1>3. ASSUME NEW w \in Services, NEW r, svc[w] # "none", svc' = [svc EXCEPT ![w] = r],
             r = "serving" => CanListen(cfg, w), r = "returned" => ctxDone,
             ctxDone' = ctxDone, main' = main
      PROVE  StartedByMain'
  <2>1. \A v \in Services : svc'[v] = IF v = w THEN r ELSE svc[v]
    BY <1>3
  <2>2. \A v \in Services : svc'[v] # "none" => svc[v] # "none"
    BY <1>3, <2>1, Zenon
  <2> QED  BY <1>1, <1>3, <2>1, <2>2, Zenon DEF StartedByMain
<1>4. CASE LoadConfig \/ BuildWebhook \/ OpenStore \/ Wait \/ DeferredCancel \/ DeferredClose \/ Exit
  BY <1>2, <1>4 DEF LoadConfig, BuildWebhook, OpenStore, Wait, DeferredCancel, DeferredClose, Exit
<1>5. CASE StartServices
  <2>1. cfg' = cfg /\ Settled' /\ main' = "wait"
        /\ \A v \in Services : svc'[v] = IF v \in enabled THEN "starting" ELSE "none"
    BY <1>5, SettledStep, Zenon DEF StartServices
  <2>2. enabled' = enabled
    BY <2>1 DEF enabled
  <2> QED  BY <2>1, <2>2, Zenon DEF StartedByMain
<1>6. CASE Signal \/ Catch \/ Exited
  BY <1>2, <1>6, Zenon DEF Signal, Catch, Exited, vars
<1>7. ASSUME NEW v \in TCP, TCPStep(v)
      PROVE  StartedByMain'
  BY <1>3, <1>7, Zenon DEF TCPStep, TCPListen, TCPReturn, Services
<1>8. ASSUME NEW v \in TCP, NEW k \in Clients, TCPAdmit(v, k) \/ TCPEnd(v, k)
      PROVE  StartedByMain'
  BY <1>2, <1>8, Zenon DEF TCPAdmit, TCPEnd
<1>9. ASSUME NEW h \in HTTP, HTTPStep(h) \/ HTTPAcceptError(h)
      PROVE  StartedByMain'
  <2>1. h \in Services /\ (svc[h] # "none" /\ shut[h] # "waiting" => ctxDone)
    BY Zenon DEF ShutOnCancel, Services
  <2> QED  BY <1>3, <1>9, <2>1, Zenon DEF HTTPStep, HTTPListen, HTTPReturn, HTTPAcceptError
<1>10. ASSUME NEW h \in HTTP, ShutdownCall(h) \/ ShutdownReturn(h)
      PROVE  StartedByMain'
  BY <1>2, <1>10, Zenon DEF ShutdownCall, ShutdownReturn
<1>11. ASSUME NEW h \in HTTP, NEW k \in Clients,
             HTTPConnect(h, k) \/ HTTPRequest(h, k) \/ HTTPEnd(h, k) \/ HTTPClose(h, k)
      PROVE  StartedByMain'
  BY <1>2, <1>11, Zenon DEF HTTPConnect, HTTPRequest, HTTPEnd, HTTPClose
<1>12. ASSUME NEW v \in Services, NEW k \in Clients, Log(v, k)
      PROVE  StartedByMain'
  BY <1>2, <1>12, Zenon DEF Log
<1> QED  BY <1>4, <1>5, <1>6, <1>7, <1>8, <1>9, <1>10, <1>11, <1>12, Zenon DEF Next, MainStep

\* The goroutine that calls Shutdown is there as long as its service, and nothing
\* but the cancelled ctx wakes it.
LEMMA ShutStep ==
  ASSUME IInv, Next
  PROVE  ShutOnCancel'
<1> USE DEF IInv, TypeOK, ShutOnCancel
<1>1. CASE LoadConfig \/ BuildWebhook \/ OpenStore \/ Wait \/ DeferredCancel \/ DeferredClose \/ Exit
  BY <1>1 DEF LoadConfig, BuildWebhook, OpenStore, Wait, DeferredCancel, DeferredClose, Exit
<1>2. CASE StartServices
  BY <1>2 DEF StartServices, Services
<1>3. CASE Signal \/ Catch \/ Exited
  BY <1>3, Zenon DEF Signal, Catch, Exited, vars
<1>4. ASSUME NEW v \in TCP, TCPStep(v)
      PROVE  ShutOnCancel'
  BY <1>4, LifecycleAssumption DEF TCPStep, TCPListen, TCPReturn, Services
<1>5. ASSUME NEW v \in TCP, NEW k \in Clients, TCPAdmit(v, k) \/ TCPEnd(v, k)
      PROVE  ShutOnCancel'
  BY <1>5, Zenon DEF TCPAdmit, TCPEnd
<1>6. ASSUME NEW h \in HTTP, HTTPStep(h) \/ HTTPAcceptError(h)
      PROVE  ShutOnCancel'
  BY <1>6 DEF HTTPStep, HTTPListen, HTTPReturn, HTTPAcceptError, Services
<1>7. ASSUME NEW h \in HTTP, ShutdownCall(h) \/ ShutdownReturn(h)
      PROVE  ShutOnCancel'
  BY <1>7 DEF ShutdownCall, ShutdownReturn
<1>8. ASSUME NEW h \in HTTP, NEW k \in Clients,
             HTTPConnect(h, k) \/ HTTPRequest(h, k) \/ HTTPEnd(h, k) \/ HTTPClose(h, k)
      PROVE  ShutOnCancel'
  BY <1>8, Zenon DEF HTTPConnect, HTTPRequest, HTTPEnd, HTTPClose
<1>9. ASSUME NEW v \in Services, NEW k \in Clients, Log(v, k)
      PROVE  ShutOnCancel'
  BY <1>9, Zenon DEF Log
<1> QED  BY <1>1, <1>2, <1>3, <1>4, <1>5, <1>6, <1>7, <1>8, <1>9, Zenon DEF Next, MainStep

\* main gives the store up only behind every service, and a TCP service ends only
\* behind its connections.
LEMMA StoreStep ==
  ASSUME IInv, Next
  PROVE  StoreOutlivesServices'
<1> USE DEF IInv, TypeOK
<1> DEFINE Over == {"stopped", "cancelled"}
<1>1. Over \cap {"start", "wait", "config", "exited"} = {}
  OBVIOUS
\* Once main has passed wg.Wait no service has a goroutine that does anything.
<1>2. ASSUME NEW v \in Services, svc[v] \in {"starting", "serving"}
      PROVE  main \notin Over /\ main # "start"
  BY <1>2, Zenon DEF StartedByMain, StoreOutlivesServices
<1>3. ASSUME UNCHANGED <<svc, conn>>, main \in Over => main' \in Over \cup {"exited"},
             main' \in Over => (main \in Over \/ \A v \in enabled : svc[v] \in {"failed", "returned"}),
             main' \in {"start", "wait"} => storeOpen', main # "config"
      PROVE  StoreOutlivesServices'
  <2>1. enabled' = enabled
    BY <1>3, SettledStep DEF enabled
  <2> QED  BY <1>3, <2>1, Zenon DEF StoreOutlivesServices
<1> DEFINE Moves(w) ==
      /\ svc[w] \in {"starting", "serving"}
      /\ \E r \in {"serving", "failed", "returned"} :
           /\ svc' = [svc EXCEPT ![w] = r]
           /\ w \in TCP => (r = "serving" \/ \A k \in Clients : conn[<<w, k>>] # "active")
      /\ UNCHANGED <<main, conn, storeOpen>>
<1>4. ASSUME NEW w \in Services, Moves(w)
      PROVE  StoreOutlivesServices'
  <2>1. main \notin Over
    BY <1>2, <1>4, Zenon
  <2>2. PICK r \in {"serving", "failed", "returned"} :
          /\ svc' = [svc EXCEPT ![w] = r]
          /\ w \in TCP => (r = "serving" \/ \A k \in Clients : conn[<<w, k>>] # "active")
    BY <1>4, Zenon
  <2>3. \A v \in TCP : svc'[v] = IF v = w THEN r ELSE svc[v]
    BY <2>2 DEF Services
  <2> QED  BY <1>4, <2>1, <2>2, <2>3, Zenon DEF StoreOutlivesServices
<1>5. ASSUME UNCHANGED <<main, cfg, svc, storeOpen>>,
             \A v \in TCP, k \in Clients : conn'[<<v, k>>] = "active" =>
               conn[<<v, k>>] = "active" \/ svc[v] = "serving"
      PROVE  StoreOutlivesServices'
  <2>1. enabled' = enabled
    BY <1>5 DEF enabled
  <2> QED  BY <1>5, <2>1, Zenon DEF StoreOutlivesServices
<1>6. CASE LoadConfig
  BY <1>6 DEF LoadConfig, StoreOutlivesServices
<1>7. CASE BuildWebhook \/ OpenStore \/ Wait \/ DeferredCancel \/ DeferredClose \/ Exit
  <2>1. UNCHANGED <<svc, conn>> /\ main # "config"
    BY <1>7 DEF BuildWebhook, OpenStore, Wait, DeferredCancel, DeferredClose, Exit
  <2>2. /\ main \in Over => main' \in Over \cup {"exited"}
        /\ main' \in Over => (main \in Over \/ \A v \in enabled : svc[v] \in {"failed", "returned"})
        /\ main' \in {"start", "wait"} => storeOpen'
    BY <1>7 DEF BuildWebhook, OpenStore, Wait, DeferredCancel, DeferredClose, Exit
  <2> QED  BY <1>3, <2>1, <2>2, Zenon
<1>8. CASE StartServices
  <2>1. \A v \in TCP, k \in Clients : conn[<<v, k>>] # "active"
    BY <1>8, <1>2, Zenon DEF StartServices, StoreOutlivesServices, Services
  <2> QED  BY <1>8, <2>1, Zenon DEF StartServices, StoreOutlivesServices
<1>9. CASE Signal \/ Catch \/ Exited
  BY <1>5, <1>9, Zenon DEF Signal, Catch, Exited, vars
<1>10. ASSUME NEW v \in TCP, TCPStep(v)
      PROVE  StoreOutlivesServices'
  <2>1. v \in Services
    BY DEF Services
  <2>2. svc[v] = "starting" => \A k \in Clients : conn[<<v, k>>] # "active"
    BY Zenon DEF StoreOutlivesServices
  <2>3. Moves(v)
    BY <1>10, <2>2, Zenon DEF TCPStep, TCPListen, TCPReturn
  <2> HIDE DEF Moves
  <2> QED  BY <1>4, <2>1, <2>3
<1>11. ASSUME NEW v \in TCP, NEW k \in Clients, TCPAdmit(v, k) \/ TCPEnd(v, k)
      PROVE  StoreOutlivesServices'
  <2>1. svc[v] = "serving"
    BY <1>11, Zenon DEF TCPAdmit, TCPEnd, StoreOutlivesServices
  <2>2. \A w \in TCP, j \in Clients : conn'[<<w, j>>] = "active" =>
          conn[<<w, j>>] = "active" \/ svc[w] = "serving"
    BY <1>11, <2>1 DEF TCPAdmit, TCPEnd, Services
  <2> QED  BY <1>5, <1>11, <2>2, Zenon DEF TCPAdmit, TCPEnd
<1>12. ASSUME NEW h \in HTTP, HTTPStep(h) \/ HTTPAcceptError(h)
      PROVE  StoreOutlivesServices'
  <2>1. h \in Services /\ h \notin TCP
    BY LifecycleAssumption DEF Services
  <2>2. Moves(h)
    BY <1>12, <2>1, Zenon DEF HTTPStep, HTTPListen, HTTPReturn, HTTPAcceptError
  <2> HIDE DEF Moves
  <2> QED  BY <1>4, <2>1, <2>2
<1>13. ASSUME NEW h \in HTTP, ShutdownCall(h) \/ ShutdownReturn(h)
      PROVE  StoreOutlivesServices'
  <2>1. ASSUME NEW w \in TCP, NEW j \in Clients, conn'[<<w, j>>] = "active"
        PROVE  conn[<<w, j>>] = "active"
    BY <1>13, <2>1 DEF ShutdownCall, ShutdownReturn, Services
  <2> QED  BY <1>5, <1>13, <2>1, Zenon DEF ShutdownCall, ShutdownReturn
<1>14. ASSUME NEW h \in HTTP, NEW k \in Clients,
             HTTPConnect(h, k) \/ HTTPRequest(h, k) \/ HTTPEnd(h, k) \/ HTTPClose(h, k)
      PROVE  StoreOutlivesServices'
  <2>1. ASSUME NEW w \in TCP, NEW j \in Clients
        PROVE  conn'[<<w, j>>] = conn[<<w, j>>]
    BY <1>14, LifecycleAssumption DEF HTTPConnect, HTTPRequest, HTTPEnd, HTTPClose, Services
  <2> QED  BY <1>5, <1>14, <2>1, Zenon DEF HTTPConnect, HTTPRequest, HTTPEnd, HTTPClose
<1>15. ASSUME NEW v \in Services, NEW k \in Clients, Log(v, k)
      PROVE  StoreOutlivesServices'
  BY <1>5, <1>15, Zenon DEF Log
<1> QED  BY <1>6, <1>7, <1>8, <1>9, <1>10, <1>11, <1>12, <1>13, <1>14, <1>15, Zenon
         DEF Next, MainStep

\* The handler of a TCP service that logs finds the store open.
LEMMA KeptStep ==
  ASSUME IInv, Next
  PROVE  TCPEventsKept'
<1> USE DEF IInv
<1>1. ASSUME NEW v \in Services, NEW k \in Clients, Log(v, k)
      PROVE  TCPEventsKept'
  <2>1. CASE v \in TCP
    <3>1. svc[v] = "serving" /\ main # "exited"
      BY <1>1, <2>1, Zenon DEF Log, StoreOutlivesServices, Alive
    <3>2. main = "wait"
      BY <3>1, Zenon DEF StartedByMain, StoreOutlivesServices
    <3> QED  BY <1>1, <3>2, Zenon DEF Log, StoreOutlivesServices, TCPEventsKept
  <2>2. CASE v \notin TCP
    BY <1>1, <2>2 DEF Log, TCPEventsKept
  <2> QED  BY <2>1, <2>2
<1>2. CASE UNCHANGED lost
  BY <1>2 DEF TCPEventsKept
<1>3. UNCHANGED lost \/ \E v \in Services, k \in Clients : Log(v, k)
  BY Zenon DEF Next, MainStep, LoadConfig, BuildWebhook, OpenStore, StartServices, Wait,
     DeferredCancel, DeferredClose, Exit, Signal, Catch, Exited, vars, TCPStep, TCPListen,
     TCPReturn, TCPAdmit, TCPEnd, HTTPStep, HTTPListen, HTTPReturn, HTTPAcceptError,
     ShutdownCall, ShutdownReturn, HTTPConnect, HTTPRequest, HTTPEnd, HTTPClose
<1> QED  BY <1>1, <1>2, <1>3, Zenon

\* The invariant holds before main has done anything, and every step of main, of
\* the signal goroutine, of a service or of a handler keeps it.
THEOREM LifecycleInvariance == Spec => []IInv
<1>1. Init => IInv
  <2> SUFFICES ASSUME Init PROVE IInv
    OBVIOUS
  <2>1. TypeOK
    <3>1. cfg \in Configurations(Services)
      BY LifecycleAssumption, Zenon DEF Init
    <3>2. catcher \in BOOLEAN /\ ctxDone \in BOOLEAN /\ storeOpen \in BOOLEAN
      BY Zenon DEF Init
    <3>3. main \in MainStates /\ sigs \in 0..1 /\ lost \subseteq Services
      BY DEF Init, MainStates
    <3>4. /\ svc \in [Services -> {"none", "starting", "serving", "failed", "returned"}]
          /\ shut \in [HTTP -> {"none", "waiting", "called", "over"}]
          /\ conn \in [Services \X Clients -> {"none", "new", "active", "idle", "closed"}]
      BY Zenon DEF Init
    <3> QED  BY <3>1, <3>2, <3>3, <3>4, Zenon DEF TypeOK
  <2>2. StartedByMain /\ ShutOnCancel /\ StoreOutlivesServices /\ TCPEventsKept
    BY DEF Init, StartedByMain, ShutOnCancel, StoreOutlivesServices, TCPEventsKept, Services
  <2> QED  BY <2>1, <2>2 DEF IInv, Init
<1>2. IInv /\ [Next]_vars => IInv'
  <2> SUFFICES ASSUME IInv, [Next]_vars PROVE IInv'
    OBVIOUS
  <2>1. CASE Next
    BY <2>1, TypeStep, SettledStep, StartedStep, ShutStep, StoreStep, KeptStep, Zenon DEF IInv
  <2>2. CASE UNCHANGED vars
    BY <2>2, Zenon DEF vars, IInv, TypeOK, StartedByMain, ShutOnCancel, StoreOutlivesServices,
       TCPEventsKept, Settled, enabled
  <2> QED  BY <2>1, <2>2
<1> QED  BY <1>1, <1>2, PTL DEF Spec

\* The variables of the process stay in their ranges; in particular at most one
\* signal waits in sigCh.
THEOREM LifecycleTypes == Spec => []TypeOK
<1>1. IInv => TypeOK
  BY DEF IInv
<1> QED  BY <1>1, LifecycleInvariance, PTL

\* No event of a TCP handler meets a closed store, however many services there
\* are and whenever the signal comes.
THEOREM TCPEventsAlwaysKept == Spec => []TCPEventsKept
<1>1. IInv => TCPEventsKept
  BY DEF IInv
<1> QED  BY <1>1, LifecycleInvariance, PTL

\* main gets past wg.Wait only after a signal or when every service has failed.
THEOREM StopsOnlyWhenToldAlways == Spec => []StopsOnlyWhenTold
<1>1. IInv => StopsOnlyWhenTold
  <2> SUFFICES ASSUME IInv, main \in {"stopped", "cancelled"}, ~ctxDone,
                      NEW v \in enabled
               PROVE  svc[v] = "failed"
    BY Zenon DEF StopsOnlyWhenTold
  <2>1. v \in Services
    BY SMT DEF IInv, TypeOK, enabled, Configurations
  <2> QED  BY <2>1, Zenon DEF IInv, StartedByMain, StoreOutlivesServices
<1> QED  BY <1>1, LifecycleInvariance, PTL

\* What validate and applyDefaults leave is enough for every later check, and for
\* every service that serves, whatever 64-bit integers the file holds; a TCP service
\* has the configured timeout whenever it fits a time.Duration.
THEOREM ConfigAlwaysUsable == Spec => []ConfigUsable
<1>1. IInv => ConfigUsable
  <2> SUFFICES ASSUME IInv PROVE ConfigUsable
    OBVIOUS
  <2>1. /\ cfg.num["max_connections"] \in Int
        /\ cfg.num["connection_timeout_seconds"] \in Int
    <3>1. cfg.num \in [Limits -> Int64]
      BY SMT DEF IInv, TypeOK, Configurations
    <3>2. {"max_connections", "connection_timeout_seconds"} \subseteq Limits
      BY SMT DEF Limits
    <3>3. Int64 \subseteq Int
      BY ConfigAssumption, SMT DEF Int64
    <3> QED  BY <3>1, <3>2, <3>3, Zenon
  <2>2. ASSUME Settled
        PROVE  /\ ~NewWebhookFails(cfg)
               /\ MaxConns(cfg) = cfg.num["max_connections"]
               /\ Hostname(cfg) = cfg.text["node_name"]
    <3>1. "max_connections" \in Limits
      BY SMT DEF Limits
    <3>2. cfg.num["max_connections"] > 0
      BY <2>2, <3>1, Zenon DEF Settled
    <3>3. MaxConns(cfg) = cfg.num["max_connections"]
      BY <2>1, <3>2, SMT DEF MaxConns
    <3> QED  BY <2>2, <3>3, Zenon DEF Settled, NewWebhookFails, Hostname, Or
  <2>3. LateChecksRedundant
    BY <2>2, Zenon DEF IInv, LateChecksRedundant
  <2>4. ASSUME NEW v \in Services, svc[v] = "serving"
        PROVE  /\ v \in enabled
               /\ \A l \in Limits : cfg.num[l] > 0
               /\ cfg.port[v] \in 1..MaxPort
               /\ TimeoutKept
    <3>1. v \in enabled /\ Settled /\ CanListen(cfg, v)
      BY <2>4, Zenon DEF IInv, StartedByMain
    <3>2. cfg.port[v] # 0 /\ \A l \in Limits : cfg.num[l] > 0
      BY <3>1, Zenon DEF Settled
    <3>3. cfg.port[v] \in 1..MaxPort
      BY <3>1, <3>2, SMT DEF CanListen
    <3>4. ASSUME ConfiguredTimeout(cfg) \in Int64
          PROVE  ConnTimeout(cfg) = ConfiguredTimeout(cfg) /\ SetsDeadline(cfg)
      <4>1. ConnTimeout(cfg) = ConfiguredTimeout(cfg)
        BY <3>4, WrappedFits, Zenon DEF ConnTimeout
      <4>2. cfg.num["connection_timeout_seconds"] > 0
        BY <3>2, SMT DEF Limits
      <4>3. ConfiguredTimeout(cfg) > 0
        BY <2>1, <4>2, ConfigAssumption, SMT DEF ConfiguredTimeout
      <4> QED  BY <4>1, <4>3, Zenon DEF SetsDeadline
    <3> QED  BY <3>1, <3>2, <3>3, <3>4, Zenon DEF TimeoutKept
  <2> HIDE DEF LateChecksRedundant
  <2> QED  BY <2>3, <2>4, SMT DEF ConfigUsable
<1> QED  BY <1>1, LifecycleInvariance, PTL
=============================================================================
