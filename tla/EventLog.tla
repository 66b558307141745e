------------------------------ MODULE EventLog ------------------------------
(***************************************************************************)
(* What Store.Log promises the handlers, with no mutex, no file and no     *)
(* webhook: each call appends its event at one instant between the call    *)
(* and the return, or drops it; nothing else ever changes the log, and a   *)
(* crash changes it in no way at all.  Module Store is shown to implement  *)
(* it, so events of calls that do not overlap are in the order of the      *)
(* calls, and no event is there twice.                                     *)
(***************************************************************************)
EXTENDS Integers, Sequences

CONSTANTS Sessions, MaxEvents

VARIABLES log,    \* the events logged so far, as <<session, number>>
          call,   \* where each session stands: idle, called or done
          count   \* number of calls each session has made

vars == <<log, call, count>>

Init == /\ log = << >>
        /\ call = [s \in Sessions |-> "idle"]
        /\ count = [s \in Sessions |-> 0]

Call(s) ==
  /\ call[s] = "idle"
  /\ count[s] < MaxEvents
  /\ call' = [call EXCEPT ![s] = "called"]
  /\ count' = [count EXCEPT ![s] = @ + 1]
  /\ UNCHANGED log

\* The event is in the log, or it is dropped.
Take(s) ==
  /\ call[s] = "called"
  /\ call' = [call EXCEPT ![s] = "done"]
  /\ log' \in {log, Append(log, <<s, count[s]>>)}
  /\ UNCHANGED count

Return(s) ==
  /\ call[s] = "done"
  /\ call' = [call EXCEPT ![s] = "idle"]
  /\ UNCHANGED <<log, count>>

Crash ==
  /\ call' = [s \in Sessions |-> "idle"]
  /\ UNCHANGED <<log, count>>

Next == Crash \/ \E s \in Sessions : Call(s) \/ Take(s) \/ Return(s)

Spec == Init /\ [][Next]_vars
=============================================================================
