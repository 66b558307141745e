------------------------------- MODULE Store -------------------------------
(***************************************************************************)
(* The event store of internal/capture: Store.Log called by any number of  *)
(* handlers, the webhook goroutines it starts, Close, and the process that *)
(* ends (main returns, or it is killed) and is started again on the same   *)
(* file.                                                                   *)
(*                                                                         *)
(* An event is <<s, k>>, the k-th event session s logs.  The file is the   *)
(* sequence of what each successful write system call appended: a whole    *)
(* line, or the head of one and its tail (with the newline) when the line  *)
(* took two calls.  The text of an event is left out.                      *)
(***************************************************************************)
EXTENDS Integers, FiniteSets, Sequences

CONSTANTS Sessions,   \* handlers that log
          MaxEvents,  \* bound: events per session
          MaxRuns,    \* bound: times the process is started
          Webhook,    \* a webhook is configured (s.webhook != nil)
          Free        \* nobody holds s.mu

ASSUME StoreAssumption ==
  /\ MaxEvents \in Nat
  /\ MaxRuns \in Nat \ {0}
  /\ Webhook \in BOOLEAN
  /\ Free \notin Sessions

VARIABLES pc,       \* where each session stands in Log
          count,    \* number of calls of Log each session has made
          mu,       \* who holds s.mu
          file,     \* what the file holds
          open,     \* s.f is open
          closer,   \* main's deferred Close: before, waiting, after
          hook,     \* the webhook goroutine of each event
          runs,     \* times the process has been started; up while it runs
          up,
          faults    \* failed writes to an open file, and ends of the process

vars == <<pc, count, mu, file, open, closer, hook, runs, up, faults>>

Events == Sessions \X (1..MaxEvents)

Parts == {"whole", "head", "tail"}

Fragments == [ev : Events, part : Parts]

TypeOK ==
  /\ pc \in [Sessions -> {"idle", "lock", "write", "rest", "hook"}]
  /\ count \in [Sessions -> 0..MaxEvents]
  /\ mu \in Sessions \cup {Free}
  /\ file \in Seq(Fragments)
  /\ open \in BOOLEAN
  /\ closer \in {"before", "waiting", "after"}
  /\ hook \in [Events -> {"none", "sending", "over"}]
  /\ runs \in 1..MaxRuns
  /\ up \in BOOLEAN
  /\ faults \in Nat

\* New on a path where there is no file yet.
Init ==
  /\ pc = [s \in Sessions |-> "idle"]
  /\ count = [s \in Sessions |-> 0]
  /\ mu = Free
  /\ file = << >>
  /\ open = TRUE
  /\ closer = "before"
  /\ hook = [e \in Events |-> "none"]
  /\ runs = 1
  /\ up = TRUE
  /\ faults = 0

Current(s) == <<s, count[s]>>

Go(s, from, to) == pc[s] = from /\ pc' = [pc EXCEPT ![s] = to]

Extend(s, part) == file' = Append(file, [ev |-> Current(s), part |-> part])

-----------------------------------------------------------------------------
(* Store.Log. *)

\* The event is stamped, sanitized and marshalled; the caller's copy is its own.
Begin(s) ==
  /\ up
  /\ count[s] < MaxEvents
  /\ Go(s, "idle", "lock")
  /\ count' = [count EXCEPT ![s] = @ + 1]
  /\ UNCHANGED <<mu, file, open, closer, hook, runs, up, faults>>

\* Faulty variant: the mutex does not exclude.
LockShared(s) ==
  /\ Go(s, "lock", "write")
  /\ mu' = s
  /\ UNCHANGED <<count, file, open, closer, hook, runs, up, faults>>

Lock(s) ==
  /\ mu = Free
  /\ Go(s, "lock", "write")
  /\ mu' = s
  /\ UNCHANGED <<count, file, open, closer, hook, runs, up, faults>>

\* s.f.Write, by one system call or by two.
WriteWhole(s) ==
  /\ open
  /\ Go(s, "write", "hook")
  /\ Extend(s, "whole")
  /\ UNCHANGED <<count, mu, open, closer, hook, runs, up, faults>>

WriteHead(s) ==
  /\ open
  /\ Go(s, "write", "rest")
  /\ Extend(s, "head")
  /\ UNCHANGED <<count, mu, open, closer, hook, runs, up, faults>>

WriteTail(s) ==
  /\ open
  /\ Go(s, "rest", "hook")
  /\ Extend(s, "tail")
  /\ UNCHANGED <<count, mu, open, closer, hook, runs, up, faults>>

\* The write fails: the disk is full, or s.f is closed.  The error is printed
\* and Log goes on; what an earlier system call wrote stays in the file.
WriteError(s) ==
  /\ Go(s, "write", "hook") \/ Go(s, "rest", "hook")
  /\ faults' = IF open THEN faults + 1 ELSE faults
  /\ UNCHANGED <<count, mu, file, open, closer, hook, runs, up>>

\* Faulty variant: the webhook is called under the mutex.
FinishAfterSend(s) ==
  /\ \/ /\ Go(s, "hook", "idle")
        /\ hook[Current(s)] = "over"
        /\ mu' = Free
        /\ UNCHANGED hook
     \/ /\ pc[s] = "hook"
        /\ hook[Current(s)] = "none"
        /\ hook' = [hook EXCEPT ![Current(s)] = "sending"]
        /\ UNCHANGED <<pc, mu>>
  /\ UNCHANGED <<count, file, open, closer, runs, up, faults>>

\* "go s.webhook.send(b)" if there is a webhook, then the deferred Unlock.
Finish(s) ==
  /\ Go(s, "hook", "idle")
  /\ mu' = Free
  /\ hook' = IF Webhook THEN [hook EXCEPT ![Current(s)] = "sending"] ELSE hook
  /\ UNCHANGED <<count, file, open, closer, runs, up, faults>>

\* webhookClient.send ends: delivered, refused or timed out, it returns.
Send(e) ==
  /\ hook[e] = "sending"
  /\ hook' = [hook EXCEPT ![e] = "over"]
  /\ UNCHANGED <<pc, count, mu, file, open, closer, runs, up, faults>>

-----------------------------------------------------------------------------
(* Store.Close, deferred by main, and the process. *)

CloseCall ==
  /\ up
  /\ closer = "before"
  /\ closer' = "waiting"
  /\ UNCHANGED <<pc, count, mu, file, open, hook, runs, up, faults>>

\* Faulty variant: Close does not take the mutex.
CloseUnlocked ==
  /\ mu' = mu
  /\ closer = "waiting"
  /\ closer' = "after"
  /\ open' = FALSE
  /\ UNCHANGED <<pc, count, file, hook, runs, up, faults>>

\* Faulty variant: Close keeps the mutex.
CloseWithoutUnlock ==
  /\ mu = Free
  /\ closer = "waiting"
  /\ closer' = "after"
  /\ open' = FALSE
  /\ mu' = "main"
  /\ UNCHANGED <<pc, count, file, hook, runs, up, faults>>

\* Lock, close the file, unlock.
Close ==
  /\ mu = Free
  /\ closer = "waiting"
  /\ closer' = "after"
  /\ open' = FALSE
  /\ UNCHANGED <<pc, count, mu, file, hook, runs, up, faults>>

\* The process ends at any moment: every goroutine, and the mutex, is gone.
End ==
  /\ up
  /\ up' = FALSE
  /\ open' = FALSE
  /\ mu' = Free
  /\ pc' = [s \in Sessions |-> "idle"]
  /\ hook' = [e \in Events |-> IF hook[e] = "sending" THEN "over" ELSE hook[e]]
  /\ faults' = faults + 1
  /\ UNCHANGED <<count, file, closer, runs>>

\* Faulty variant: the file is opened with O_TRUNC instead of O_APPEND.
NewTruncating ==
  /\ ~up
  /\ runs < MaxRuns
  /\ up' = TRUE
  /\ runs' = runs + 1
  /\ open' = TRUE
  /\ closer' = "before"
  /\ file' = << >>
  /\ UNCHANGED <<pc, count, mu, hook, faults>>

\* New on the file of the previous run: O_APPEND keeps what it holds.
New ==
  /\ ~up
  /\ runs < MaxRuns
  /\ up' = TRUE
  /\ runs' = runs + 1
  /\ open' = TRUE
  /\ closer' = "before"
  /\ UNCHANGED <<pc, count, mu, file, hook, faults>>

Rest == ~up /\ runs = MaxRuns /\ UNCHANGED vars

-----------------------------------------------------------------------------

\* What Log does once it has s.mu.
Critical(s) == WriteWhole(s) \/ WriteHead(s) \/ WriteTail(s) \/ WriteError(s) \/ Finish(s)

Next ==
  \/ \E s \in Sessions : Begin(s) \/ Lock(s) \/ Critical(s)
  \/ \E e \in Events : Send(e)
  \/ CloseCall \/ Close \/ End \/ New \/ Rest

Spec == Init /\ [][Next]_vars

\* Goroutines run and writes return; sync.Mutex hands itself to a goroutine
\* that has waited long.  No webhook receiver promises to answer.
FairSpec == /\ Spec
            /\ \A s \in Sessions : WF_vars(Critical(s)) /\ SF_vars(Lock(s))
            /\ WF_vars(Close)

-----------------------------------------------------------------------------
(* Properties. *)

\* Entry i ends a line: it carries the newline.
Ends(i) == file[i].part # "head"

\* The line that entry i ends holds its event and nothing else.
Legible(i) ==
  LET first == IF file[i].part = "tail" THEN i - 1 ELSE i
  IN  /\ first > 0
      /\ file[i].part = "tail" => file[first] = [ev |-> file[i].ev, part |-> "head"]
      /\ first > 1 => Ends(first - 1)

Spoiled == {i \in DOMAIN file : Ends(i) /\ ~Legible(i)}

\* However Log calls, Close and restarts interleave, an event that was written
\* to the end is lost to a reader of the file only behind a line that a failed
\* write or the end of the process cut short, and each of those spoils at most
\* one.
DamageBounded == Cardinality(Spoiled) <= faults

\* Log is between the two system calls of a line.
MidLine == \E s \in Sessions : pc[s] = "rest"

\* The heads of lines that were never finished, the one being written excepted.
Torn == {i \in DOMAIN file :
           /\ file[i].part = "head"
           /\ ~(i < Len(file) /\ file[i + 1] = [ev |-> file[i].ev, part |-> "tail"])
           /\ ~(i = Len(file) /\ MidLine)}

\* A line is only ever cut short by a failed write to an open file or the end of
\* the process: Close, which takes the mutex, never lands inside a line.
CutOnlyByFault == Cardinality(Torn) <= faults

\* A session holds the mutex exactly while it is between Lock and Unlock, so two
\* handlers are never in s.f.Write at once.
HoldersExact == \A s \in Sessions : mu = s <=> pc[s] \in {"write", "rest", "hook"}

\* The events that reached the file to their end, in order: the k-th is the one
\* of the entry that ends the k-th line.
Ended == {i \in DOMAIN file : Ends(i)}
Rank(i) == Cardinality({j \in Ended : j <= i})
EventsOf(k) == {file[i].ev : i \in {j \in Ended : Rank(j) = k}}
Pick(S) == CHOOSE x \in S : TRUE
Logged == [k \in 1..Cardinality(Ended) |-> Pick(EventsOf(k))]

\* The store is the event log the handlers rely on: each call of Log takes
\* effect at one instant before it returns, in every interleaving and across
\* restarts.
CallState(s) == CASE pc[s] = "idle" -> "idle"
                  [] pc[s] \in {"lock", "write", "rest"} -> "called"
                  [] pc[s] = "hook" -> "done"
EventLog == INSTANCE EventLog WITH
  log <- Logged, call <- [s \in Sessions |-> CallState(s)]
ImplementsEventLog == EventLog!Spec

\* A handler is never held up for good: Log returns although no webhook
\* receiver ever answers and other sessions keep logging.
LogReturns == \A s \in Sessions : pc[s] # "idle" ~> pc[s] = "idle"

-----------------------------------------------------------------------------
(* The inductive invariant behind the safety properties. *)

\* A session in Log has an event.
InLogCounted == \A s \in Sessions : pc[s] # "idle" => count[s] > 0

\* Between its two system calls Log has the file open and its head at the end.
HeadAtEnd ==
  \A s \in Sessions : pc[s] = "rest" =>
    /\ open
    /\ Len(file) > 0 /\ file[Len(file)] = [ev |-> Current(s), part |-> "head"]

\* The next line to be finished begins behind one that was cut short.
Behind == LET last == IF MidLine THEN Len(file) - 1 ELSE Len(file)
          IN  last > 0 /\ file[last].part = "head"

\* A cut that has not spoiled a line yet will spoil at most the next one.
DamageCounted == Cardinality(Spoiled) + (IF Behind THEN 1 ELSE 0) <= faults

IInv == /\ TypeOK /\ HoldersExact /\ InLogCounted /\ HeadAtEnd
        /\ CutOnlyByFault /\ DamageCounted

-----------------------------------------------------------------------------

\* What the README says of the file: every line is one event.
OneObjectPerLine == Spoiled = {}
=============================================================================
