------------------------- MODULE AutomaticLifecycle -------------------------
(***************************************************************************)
(* What automatic planning promises for each booked segment, without       *)
(* processes, locks, refreshes or tables: one attempt at a time, a failed  *)
(* or interrupted attempt may be followed by another, a completed one is   *)
(* final and no attempt follows it (V8_ITINERARY_MONITORING.md, dispatch). *)
(***************************************************************************)
EXTENDS Naturals, Sequences

CONSTANT Segments

VARIABLES
  phase,     \* NOT_ACTIVATED, PLANNING, FAILED or COMPLETED
  history    \* the outcomes of the attempts so far, the running one last

lifecycleVars == <<phase, history>>

Init ==
  /\ phase = [s \in Segments |-> "NOT_ACTIVATED"]
  /\ history = [s \in Segments |-> <<>>]

Begin(s) ==
  /\ phase[s] \in {"NOT_ACTIVATED", "FAILED"}
  /\ phase' = [phase EXCEPT ![s] = "PLANNING"]
  /\ history' = [history EXCEPT ![s] = Append(@, "PLANNING")]

Settle(s, outcome) ==
  /\ phase[s] = "PLANNING"
  /\ phase' = [phase EXCEPT ![s] = outcome]
  /\ history' = [history EXCEPT ![s][Len(history[s])] = outcome]

Next == \E s \in Segments :
  \/ Begin(s)
  \/ \E outcome \in {"COMPLETED", "FAILED"} : Settle(s, outcome)

Spec == Init /\ [][Next]_lifecycleVars
=============================================================================
