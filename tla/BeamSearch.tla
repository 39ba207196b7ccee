----------------------------- MODULE BeamSearch -----------------------------
(***************************************************************************)
(* The search for a leave time in travel_agent/planning: the deadline that *)
(* makes a plan feasible, the critic's score, the beam that keeps the best *)
(* plans of every round, and the outcome the coordinator reports.          *)
(*                                                                         *)
(* Time is counted in ticks, Minute of them to a minute, because a host    *)
(* may propose a leave time between two minutes.  A score is in hundredths.*)
(* A plan is its leave time: labels, summaries, the history of its shifts   *)
(* and the score's breakdown decide nothing and are left out.              *)
(***************************************************************************)
EXTENDS Integers, Sequences, FiniteSetsExt, Functions

CONSTANTS
  Proposals,   \* sequences of leave times a host may propose
  Minute,      \* ticks in a minute: 60 seconds in the code
  BeamWidth, Depth

ASSUME MinuteAssumption == Minute \in Nat \ {0}
ASSUME SearchAssumption == BeamWidth \in Nat \ {0} /\ Depth \in Nat \ {0}
ASSUME ProposalAssumption == Proposals \subseteq Seq(Int) \ {<<>>}

VARIABLES
  context,     \* the trip
  proposal,    \* initial_candidates, by leave time; empty before the search
  round,       \* rankings done
  beam,        \* the plans kept, best first
  evaluated,   \* leave times evaluated so far
  outcome      \* what evaluate_trip_plans returns

searchVars == <<context, proposal, round, beam, evaluated, outcome>>

-----------------------------------------------------------------------------
(* One plan.                                                                *)

\* modeled_gate_arrival: drive, security and the walk to the gate.
GateArrival(leave) == leave + context.travel * Minute

GateDeadline == context.departure - context.gateBuffer * Minute

TicksLate(leave) == GateArrival(leave) - GateDeadline

\* Arriving at the deadline itself is in time.
Feasible(leave) == TicksLate(leave) <= 0

BoardingPenalty(margin) ==
  IF margin < 0 THEN 10000
  ELSE IF margin < 20 * Minute THEN 3500
  ELSE IF margin < context.preferredBuffer * Minute THEN 1000
  ELSE 0

EventPenalty(event, leave) ==
  (IF event.start <= leave /\ leave < event.end THEN IF event.priority = "high" THEN 6000 ELSE 2500 ELSE 0)
  + (IF event.priority = "high" /\ leave <= event.start THEN 2000 ELSE 0)

\* Eight hundredths for every minute of leaving more than two hours early,
\* rounded to a hundredth as the score is.
EarlyPenalty(leave) ==
  (8 * Max({0, context.departure - leave - 120 * Minute}) + Minute \div 2) \div Minute

\* Every entry of the list counts, also one that is like another.
EventPenalties(leave) ==
  MapThenSumSet(LAMBDA event : EventPenalty(event, leave), context.events)

Score(leave) ==
  10000 - BoardingPenalty(context.boarding - GateArrival(leave)) - EarlyPenalty(leave)
        - EventPenalties(leave)

-----------------------------------------------------------------------------
(* One ranking.                                                             *)

\* The first plan of a pool at each leave time.
Distinct(pool) ==
  {i \in DOMAIN pool : \A j \in 1..(i - 1) : pool[j] # pool[i]}

\* Feasible plans by score, ties in pool order, then the others by lateness.
Precedes(pool, i, j) ==
  LET a == pool[i]
      b == pool[j]
  IN \/ Feasible(a) /\ ~Feasible(b)
     \/ /\ Feasible(a) /\ Feasible(b)
        /\ Score(a) > Score(b) \/ (Score(a) = Score(b) /\ i < j)
     \/ ~Feasible(a) /\ ~Feasible(b) /\ TicksLate(a) < TicksLate(b)

Rank(pool) ==
  LET places == Distinct(pool)
      ahead(i) == Cardinality({j \in places : Precedes(pool, j, i)})
  IN [n \in 1..Min({BeamWidth, Cardinality(places)}) |-> pool[CHOOSE i \in places : ahead(i) = n - 1]]

\* The leave time is written to the minute, so what lies between two is dropped.
ToTheMinute(leave) == leave - (leave % Minute)
Shifted(plan, minutes) == ToTheMinute(plan + minutes * Minute)

\* Mutant: children take the place of their parents.
ChildrenOnly ==
  [i \in 1..(2 * Len(beam)) |-> Shifted(beam[(i + 1) \div 2], IF i % 2 = 1 THEN -10 ELSE 10)]

\* Mutant: only the best plan is refined, and only to leave later.
LaterOnly == Append(beam, Shifted(beam[1], 10))

\* Parents in beam order, then the children of each, earlier before later.
Expanded ==
  [i \in 1..(3 * Len(beam)) |->
     IF i <= Len(beam) THEN beam[i]
     ELSE LET k == i - Len(beam) + 1
          IN Shifted(beam[k \div 2], IF k % 2 = 0 THEN -10 ELSE 10)]

-----------------------------------------------------------------------------
(* The search.                                                              *)

\* The planner's own proposal when the host makes none, written to the minute.
Baseline(trip) ==
  [i \in 1..4 |-> ToTheMinute(trip.departure - <<195, 165, 135, 105>>[i] * Minute)]

Pending == [status |-> "PENDING", plans |-> <<>>, leastLate |-> 0]

\* The feasible plans of the beam, in its order.
Finalists ==
  LET kept[i \in 0..Len(beam)] ==
        IF i = 0 THEN <<>>
        ELSE IF Feasible(beam[i]) THEN Append(kept[i - 1], beam[i])
        ELSE kept[i - 1]
  IN kept[Len(beam)]

\* Without one, how far every evaluated plan missed.
Outcome ==
  IF Finalists # <<>>
     THEN [status |-> "PLAN_FOUND", plans |-> Finalists, leastLate |-> 0]
     ELSE [status |-> "NO_FEASIBLE_PLAN", plans |-> <<>>,
           leastLate |-> Min({TicksLate(leave) : leave \in evaluated})]

NoTrip ==
  [departure |-> 0, boarding |-> 0, travel |-> 0, gateBuffer |-> 0, preferredBuffer |-> 0,
   events |-> {}]

SearchInit ==
  /\ context = NoTrip
  /\ proposal = <<>>
  /\ round = 0
  /\ beam = <<>>
  /\ evaluated = {}
  /\ outcome = Pending

\* A search for a trip, with the plans a host proposes or those of the planner.
Ask(trip) ==
  /\ proposal = <<>>
  /\ context' = trip
  /\ proposal' \in Proposals \cup {Baseline(trip)}
  /\ UNCHANGED <<round, beam, evaluated, outcome>>

\* _rank evaluates every distinct plan of the pool, also those it then drops.
Keep(pool) ==
  /\ beam' = Rank(pool)
  /\ evaluated' = evaluated \cup Range(pool)
  /\ round' = round + 1
  /\ UNCHANGED <<context, proposal, outcome>>

Start == round = 0 /\ proposal # <<>> /\ Keep(proposal)

Refine == round \in 1..(Depth - 1) /\ Keep(Expanded)

Report ==
  /\ round = Depth
  /\ outcome = Pending
  /\ outcome' = Outcome
  /\ UNCHANGED <<context, proposal, round, beam, evaluated>>

Search == Start \/ Refine \/ Report

-----------------------------------------------------------------------------
(* Properties.                                                              *)

\* The beam drops most of what it evaluates, yet the plan it selects is the best
\* of all, and it refuses only when every plan evaluated was too late.
SelectedIsBest ==
  /\ outcome.status = "PLAN_FOUND" =>
       \A leave \in evaluated : Feasible(leave) => Score(leave) <= Score(outcome.plans[1])
  /\ outcome.status = "NO_FEASIBLE_PLAN" =>
       /\ \A leave \in evaluated : ~Feasible(leave)
       /\ outcome.leastLate = TicksLate(beam[1])

\* However narrow the beam, a trip is refused only when no seed can be brought
\* to the deadline by leaving ten minutes earlier in every refinement.
RefusalIsDue ==
  outcome.status = "NO_FEASIBLE_PLAN" =>
    \A i \in DOMAIN proposal : TicksLate(proposal[i]) > 10 * (Depth - 1) * Minute

=============================================================================
