------------------------------- MODULE Server -------------------------------
(***************************************************************************)
(* The bounded TCP listener of internal/server/server.go: the accept loop  *)
(* of Serve, the goroutine that closes the listener, one goroutine per     *)
(* admitted connection, and callers of Stop.                               *)
(*                                                                         *)
(* Every connection is used once.  st[c] is where connection c stands:     *)
(*   new      not opened yet            backlog  queued in the kernel      *)
(*   held     returned by Accept        start    goroutine not yet running *)
(*   run      inside s.handler          relSem   deferred "<-s.sem" next   *)
(*   relIP    deferred releaseIP next   wgDone   deferred wg.Done next     *)
(*   gone     goroutine has ended       refused  closed by the accept loop *)
(*   reset    dropped by the kernel when the listener closed               *)
(***************************************************************************)
EXTENDS Integers, FiniteSets

CONSTANTS Conns,     \* connections clients may open
          IPs,       \* remote addresses
          ipOf,      \* the remote address of each connection
          MaxConns,  \* s.maxConns, the capacity of s.sem
          PerIP,     \* the per-address limit, 20 in acquireIP
          Stoppers   \* goroutines that may call Stop

ASSUME ServerAssumption ==
  /\ IsFiniteSet(Conns)
  /\ ipOf \in [Conns -> IPs]
  /\ MaxConns \in Nat \ {0}
  /\ PerIP \in Nat \ {0}

VARIABLES st,         \* the state of each connection
          pc,         \* the accept loop of Serve
          lnOpen,     \* the listener accepts connections
          ctxDone,    \* ctx has been cancelled
          done,       \* s.done has been closed
          sem,        \* number of tokens in s.sem
          ipCounts,   \* s.ipCounts; 0 stands for an absent key
          wg,         \* counter of s.wg
          totalConns, \* s.totalConns
          stop        \* where each caller of Stop stands

vars == <<st, pc, lnOpen, ctxDone, done, sem, ipCounts, wg, totalConns, stop>>

ConnStates == {"new", "backlog", "held", "start", "run", "relSem", "relIP",
               "wgDone", "gone", "refused", "reset"}
LoopStates == {"listen", "accept", "sem", "ip", "unsem", "spawn", "select",
               "wait", "returned"}

TypeOK ==
  /\ st \in [Conns -> ConnStates]
  /\ pc \in LoopStates
  /\ lnOpen \in BOOLEAN
  /\ ctxDone \in BOOLEAN
  /\ done \in BOOLEAN
  /\ sem \in 0..MaxConns
  /\ ipCounts \in [IPs -> 0..PerIP]
  /\ wg \in Nat
  /\ totalConns \in Nat
  /\ stop \in [Stoppers -> {"idle", "waiting", "returned"}]

Init ==
  /\ st = [c \in Conns |-> "new"]
  /\ pc = "listen"
  /\ lnOpen = FALSE
  /\ ctxDone = FALSE
  /\ done = FALSE
  /\ sem = 0
  /\ ipCounts = [ip \in IPs |-> 0]
  /\ wg = 0
  /\ totalConns = 0
  /\ stop = [s \in Stoppers |-> "idle"]

Move(c, from, to) == st[c] = from /\ st' = [st EXCEPT ![c] = to]

LoopTo(from, to) == pc = from /\ pc' = to

-----------------------------------------------------------------------------
(* The environment: clients, and whoever cancels ctx. *)

\* A client's connection reaches the kernel's accept queue.
Arrive(c) ==
  /\ lnOpen
  /\ Move(c, "new", "backlog")
  /\ UNCHANGED <<pc, lnOpen, ctxDone, done, sem, ipCounts, wg, totalConns, stop>>

\* main's signal goroutine, or main returning, cancels ctx.
Cancel ==
  /\ ~ctxDone
  /\ ctxDone' = TRUE
  /\ UNCHANGED <<st, pc, lnOpen, done, sem, ipCounts, wg, totalConns, stop>>

-----------------------------------------------------------------------------
(* The accept loop. *)

Listen ==
  /\ \/ LoopTo("listen", "accept") /\ lnOpen' = TRUE
     \/ LoopTo("listen", "returned") /\ lnOpen' = FALSE    \* address in use
  /\ UNCHANGED <<st, ctxDone, done, sem, ipCounts, wg, totalConns, stop>>

AcceptOK(c) ==
  /\ lnOpen
  /\ LoopTo("accept", "sem")
  /\ Move(c, "backlog", "held")
  /\ UNCHANGED <<lnOpen, ctxDone, done, sem, ipCounts, wg, totalConns, stop>>

\* Accept fails because the listener has been closed.
AcceptClosed ==
  /\ ~lnOpen
  /\ LoopTo("accept", "select")
  /\ UNCHANGED <<st, lnOpen, ctxDone, done, sem, ipCounts, wg, totalConns, stop>>

\* Accept fails for another reason (out of descriptors, an aborted client).
AcceptTransient ==
  /\ lnOpen
  /\ LoopTo("accept", "select")
  /\ UNCHANGED <<st, lnOpen, ctxDone, done, sem, ipCounts, wg, totalConns, stop>>

\* Faulty variant: the select has no case for ctx.Done().
SelectIgnoringCtx ==
  /\ LoopTo("select", IF done THEN "wait" ELSE "accept")
  /\ UNCHANGED <<st, lnOpen, ctxDone, done, sem, ipCounts, wg, totalConns, stop>>

\* The select after an Accept error: drain if told to stop, else try again.
Select ==
  /\ LoopTo("select", IF ctxDone \/ done THEN "wait" ELSE "accept")
  /\ UNCHANGED <<st, lnOpen, ctxDone, done, sem, ipCounts, wg, totalConns, stop>>

\* The non-blocking send on s.sem.
AcquireSem(c) ==
  /\ \/ /\ sem < MaxConns
        /\ sem' = sem + 1
        /\ LoopTo("sem", "ip")
        /\ st[c] = "held" /\ UNCHANGED st
     \/ /\ sem = MaxConns
        /\ LoopTo("sem", "accept")
        /\ Move(c, "held", "refused")
        /\ UNCHANGED sem
  /\ UNCHANGED <<lnOpen, ctxDone, done, ipCounts, wg, totalConns, stop>>

\* Faulty variant: the limit is tested with > instead of >=.
AcquireIPOffByOne(c) ==
  /\ st[c] = "held"
  /\ \/ /\ ipCounts[ipOf[c]] <= PerIP
        /\ ipCounts' = [ipCounts EXCEPT ![ipOf[c]] = @ + 1]
        /\ LoopTo("ip", "spawn")
     \/ /\ ipCounts[ipOf[c]] > PerIP
        /\ LoopTo("ip", "unsem")
        /\ UNCHANGED ipCounts
  /\ UNCHANGED <<st, lnOpen, ctxDone, done, sem, wg, totalConns, stop>>

\* acquireIP, and the branch on its result.
AcquireIP(c) ==
  /\ st[c] = "held"
  /\ \/ /\ ipCounts[ipOf[c]] < PerIP
        /\ ipCounts' = [ipCounts EXCEPT ![ipOf[c]] = @ + 1]
        /\ LoopTo("ip", "spawn")
     \/ /\ ipCounts[ipOf[c]] >= PerIP
        /\ LoopTo("ip", "unsem")
        /\ UNCHANGED ipCounts
  /\ UNCHANGED <<st, lnOpen, ctxDone, done, sem, wg, totalConns, stop>>

\* Over the per-address limit: close the connection and return the token.
RefuseIP(c) ==
  /\ sem > 0
  /\ sem' = sem - 1
  /\ LoopTo("unsem", "accept")
  /\ Move(c, "held", "refused")
  /\ UNCHANGED <<lnOpen, ctxDone, done, ipCounts, wg, totalConns, stop>>

\* totalConns.Add(1), wg.Add(1) and the go statement.
Spawn(c) ==
  /\ LoopTo("spawn", "accept")
  /\ Move(c, "held", "start")
  /\ wg' = wg + 1
  /\ totalConns' = totalConns + 1
  /\ UNCHANGED <<lnOpen, ctxDone, done, sem, ipCounts, stop>>

\* Faulty variant: Serve returns without wg.Wait.
WaitReturnAtOnce ==
  /\ LoopTo("wait", "returned")
  /\ UNCHANGED <<st, lnOpen, ctxDone, done, sem, ipCounts, wg, totalConns, stop>>

\* wg.Wait at the end of Serve.
WaitReturn ==
  /\ wg = 0
  /\ LoopTo("wait", "returned")
  /\ UNCHANGED <<st, lnOpen, ctxDone, done, sem, ipCounts, wg, totalConns, stop>>

-----------------------------------------------------------------------------
(* The goroutine that closes the listener.  The kernel resets whatever was *)
(* still queued.                                                           *)

CloseListener ==
  /\ lnOpen
  /\ ctxDone \/ done
  /\ lnOpen' = FALSE
  /\ st' = [c \in Conns |-> IF st[c] = "backlog" THEN "reset" ELSE st[c]]
  /\ UNCHANGED <<pc, ctxDone, done, sem, ipCounts, wg, totalConns, stop>>

-----------------------------------------------------------------------------
(* The goroutine of an admitted connection.  Its deferred calls run in     *)
(* reverse order: c.Close, then "<-s.sem" and releaseIP, then wg.Done.     *)

\* SetDeadline, and s.handler is entered.
Start(c) ==
  /\ Move(c, "start", "run")
  /\ UNCHANGED <<pc, lnOpen, ctxDone, done, sem, ipCounts, wg, totalConns, stop>>

\* s.handler returns and the deferred c.Close runs.
Finish(c) ==
  /\ Move(c, "run", "relSem")
  /\ UNCHANGED <<pc, lnOpen, ctxDone, done, sem, ipCounts, wg, totalConns, stop>>

\* The deferred receive from s.sem; it would block on an empty channel.
ReleaseSem(c) ==
  /\ sem > 0
  /\ sem' = sem - 1
  /\ Move(c, "relSem", "relIP")
  /\ UNCHANGED <<pc, lnOpen, ctxDone, done, ipCounts, wg, totalConns, stop>>

\* Faulty variant: the deferred releaseIP is missing.
ReleaseIPForgotten(c) ==
  /\ Move(c, "relIP", "wgDone")
  /\ UNCHANGED <<pc, lnOpen, ctxDone, done, sem, ipCounts, wg, totalConns, stop>>

\* releaseIP: decrement, and delete the key when nothing is left.
ReleaseIP(c) ==
  /\ Move(c, "relIP", "wgDone")
  /\ ipCounts' = [ipCounts EXCEPT ![ipOf[c]] = IF @ - 1 <= 0 THEN 0 ELSE @ - 1]
  /\ UNCHANGED <<pc, lnOpen, ctxDone, done, sem, wg, totalConns, stop>>

WgDone(c) ==
  /\ Move(c, "wgDone", "gone")
  /\ wg' = wg - 1
  /\ UNCHANGED <<pc, lnOpen, ctxDone, done, sem, ipCounts, totalConns, stop>>

-----------------------------------------------------------------------------
(* Stop, an exported method: close s.done once, then wg.Wait. *)

StopSignal(s) ==
  /\ stop[s] = "idle"
  /\ stop' = [stop EXCEPT ![s] = "waiting"]
  /\ done' = TRUE
  /\ UNCHANGED <<st, pc, lnOpen, ctxDone, sem, ipCounts, wg, totalConns>>

StopReturn(s) ==
  /\ stop[s] = "waiting"
  /\ wg = 0
  /\ stop' = [stop EXCEPT ![s] = "returned"]
  /\ UNCHANGED <<st, pc, lnOpen, ctxDone, done, sem, ipCounts, wg, totalConns>>

-----------------------------------------------------------------------------

\* Once Serve has returned and nobody is left, the server rests.
Rest ==
  /\ pc = "returned"
  /\ ~lnOpen
  /\ \A s \in Stoppers : stop[s] # "waiting"
  /\ UNCHANGED vars

\* What the accept loop's own goroutine does.
AcceptLoop ==
  \/ Listen \/ AcceptClosed \/ Select \/ WaitReturn
  \/ \E c \in Conns : AcceptOK(c) \/ AcquireSem(c) \/ AcquireIP(c)
                        \/ RefuseIP(c) \/ Spawn(c)

\* What a connection's goroutine does outside s.handler.
Epilogue(c) == ReleaseSem(c) \/ ReleaseIP(c) \/ WgDone(c)

Next ==
  \/ AcceptLoop
  \/ AcceptTransient
  \/ CloseListener
  \/ Cancel
  \/ \E c \in Conns : Arrive(c) \/ Start(c) \/ Finish(c) \/ Epilogue(c)
  \/ \E s \in Stoppers : StopSignal(s) \/ StopReturn(s)
  \/ Rest

Spec == Init /\ [][Next]_vars

\* Goroutines that can run do run.  A handler is only promised to return once
\* ctx is cancelled (module Deadlines shows that it then does); clients,
\* failing system calls and callers of Stop promise nothing.
Fairness ==
  /\ WF_vars(AcceptLoop)
  /\ WF_vars(CloseListener)
  /\ \A c \in Conns :
       /\ WF_vars(Start(c))
       /\ WF_vars(ctxDone /\ Finish(c))
       /\ WF_vars(Epilogue(c))

FairSpec == Spec /\ Fairness

-----------------------------------------------------------------------------
(* Who holds what. *)

Held(c) == st[c] = "held"

\* Connections whose handler has been promised a slot and has not ended.
Active == {c \in Conns : st[c] \in {"start", "run"}}

ActiveFrom(ip) == {c \in Active : ipOf[c] = ip}

SemHolders ==
  {c \in Conns : \/ st[c] \in {"start", "run", "relSem"}
                 \/ st[c] = "held" /\ pc \in {"ip", "unsem", "spawn"}}

IPHolders(ip) ==
  {c \in Conns : /\ ipOf[c] = ip
                 /\ \/ st[c] \in {"start", "run", "relSem", "relIP"}
                    \/ st[c] = "held" /\ pc = "spawn"}

WgHolders == {c \in Conns : st[c] \in {"start", "run", "relSem", "relIP", "wgDone"}}

Admitted == WgHolders \cup {c \in Conns : st[c] = "gone"}

-----------------------------------------------------------------------------
(* Properties. *)

\* s.sem holds exactly one token per connection that is admitted or being
\* admitted, through every refusal and every order of the deferred releases:
\* no refusal and no ending connection leaks or over-returns a slot.
SlotsExact == sem = Cardinality(SemHolders)

\* s.ipCounts counts exactly the connections of each address between
\* acquireIP and releaseIP, so an address with no connection has no key and
\* is never refused for connections that have ended.
AddressesExact == \A ip \in IPs : ipCounts[ip] = Cardinality(IPHolders(ip))

\* s.wg counts exactly the connection goroutines that have not ended, and
\* s.totalConns every connection ever admitted.
WaitGroupExact ==
  /\ wg = Cardinality(WgHolders)
  /\ totalConns = Cardinality(Admitted)

\* The three together: every counter of the Server agrees with the connections it
\* counts, whatever refusals, admissions and releases are half done.
AccountsExact == SlotsExact /\ AddressesExact /\ WaitGroupExact

\* When Serve has returned, every connection goroutine has ended and has given
\* back its slot and its address count: the deferred calls of the goroutine
\* run before the wg.Done that Serve waits for.
Drained ==
  pc = "returned" =>
    /\ WgHolders = {}
    /\ sem = 0
    /\ \A ip \in IPs : ipCounts[ip] = 0

\* The accept loop never goes back to Accept on a closed listener, where it would
\* spin: whichever of ctx and s.done made the closer goroutine close it, the select
\* behind the failed Accept sees it too and the loop goes on to wg.Wait.
NoRetryOnClosed == [][pc = "select" /\ ~lnOpen /\ pc' # pc => pc' = "wait"]_vars

\* The deferred "<-s.sem" never blocks a goroutine that is ending, nor the
\* accept loop that refuses an address.
ReleaseNeverBlocks ==
  ((\E c \in Conns : st[c] = "relSem") \/ pc = "unsem") => sem > 0

\* The listener implements the limiter its README describes: both limits, one
\* admission per connection, and no admission once Serve has returned.
Limiter == INSTANCE ConnLimiter WITH
  active <- Active, admitted <- Admitted, stopped <- (pc = "returned")
ImplementsLimiter == Limiter!Spec

\* Graceful shutdown: once ctx is cancelled Serve returns, whatever is queued,
\* half admitted or half released at that moment.
ShutdownCompletes == ctxDone ~> (pc = "returned")

\* The inductive strengthening used by the proofs: the accept loop holds a
\* connection exactly while it is deciding about it, a listener that is closed
\* while the loop runs was closed on request, and no connection goroutine exists
\* before the loop starts or after Serve has returned.
LoopHolds ==
  /\ \A c, d \in Conns : Held(c) /\ Held(d) => c = d
  /\ (\E c \in Conns : Held(c)) <=> pc \in {"sem", "ip", "unsem", "spawn"}

ClosedOnRequest == (~lnOpen /\ pc \notin {"listen", "returned"}) => (ctxDone \/ done)

IdleOutsideLoop == pc \in {"listen", "returned"} => WgHolders = {}

IInv == /\ TypeOK /\ SlotsExact /\ AddressesExact /\ WaitGroupExact
        /\ LoopHolds /\ ClosedOnRequest /\ IdleOutsideLoop

\* What the comment on Stop says, read at the moment Stop returns: the server
\* has stopped accepting, so no connection is being served any more.
StopMeansStopped == (\E s \in Stoppers : stop[s] = "returned") => Active = {}
=============================================================================
