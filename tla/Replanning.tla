------------------------------ MODULE Replanning ------------------------------
(***************************************************************************)
(* ReplanningEvaluator over a trip.  The evaluator is stateless; what it   *)
(* promises shows only over the polls of a caller that keeps the active    *)
(* plan, the travel state and the inputs the last evaluation missed.  That *)
(* caller is not in the repository yet: Observe, Advance and Adopt are it, *)
(* as the comments of PlanSnapshot and the parameters of evaluate ask.     *)
(*                                                                         *)
(* Minutes and instants are integers.  Left out: the segment (one is       *)
(* monitored), prices, which no rule reads, and the size of each change in *)
(* the evidence.                                                           *)
(***************************************************************************)
EXTENDS Integers

CONSTANTS
    Plans,     \* snapshots the trip may start with
    Snapshots, \* snapshots that later polls may assemble
    Policy,    \* ReplanningPolicy
    Unknown    \* a field that is None

Fields == {"road_minutes", "rideshare_pickup_minutes", "rideshare_travel_minutes",
           "security_minutes", "selected_parking_available"}

\* A trip goes through these in turn.
Trip == <<"PLANNING", "READY_TO_DEPART", "EN_ROUTE_TO_AIRPORT",
          "ARRIVED_AT_AIRPORT", "AIRPORT_MONITORING", "FLIGHT_DEPARTED">>
TravelStates == {Trip[i] : i \in 1 .. 6}

Minutes == Nat \cup {Unknown}

PlanSnapshots ==
    [departure : Int, cancelled : BOOLEAN, terminal : STRING \cup {Unknown},
     gate : STRING \cup {Unknown}, road_minutes : Minutes,
     rideshare_pickup_minutes : Minutes, rideshare_travel_minutes : Minutes,
     security_minutes : Minutes, active_window_conflicts : SUBSET STRING,
     selected_parking_available : BOOLEAN \cup {Unknown},
     missing_required : SUBSET STRING]

ASSUME ReplanningAssumption ==
    /\ Plans \subseteq PlanSnapshots /\ Snapshots \subseteq PlanSnapshots
    /\ Policy \in [traffic : Nat, rideshare : Nat, security : Nat, schedule : Nat]
    /\ Unknown \notin Nat \cup STRING \cup BOOLEAN

VARIABLES
    active,      \* the snapshot the active plan was made from
    current,     \* the latest snapshot
    travel,      \* the travel state
    unavailable, \* what the last evaluation missed
    result       \* the last evaluation, of current against active

evaluatorVars == <<active, current, travel, unavailable, result>>

Known(x) == x # Unknown

-----------------------------------------------------------------------------
(* evaluate *)

RoadActive(state) == state \in {"PLANNING", "READY_TO_DEPART", "EN_ROUTE_TO_AIRPORT"}

Deteriorated(before, after, threshold) ==
    Known(before) /\ Known(after) /\ after > before /\ after - before >= threshold

RideMinutes(p) ==
    IF Known(p.rideshare_pickup_minutes) /\ Known(p.rideshare_travel_minutes)
      THEN p.rideshare_pickup_minutes + p.rideshare_travel_minutes
      ELSE Unknown

Shift(a, c) == c.departure - a.departure
\* Mutant: only a flight that leaves later is rescheduled.
Delayed(a, c) == Shift(a, c) > 0 /\ Shift(a, c) >= Policy.schedule

Rescheduled(a, c) ==
    Shift(a, c) # 0 /\ (Shift(a, c) >= Policy.schedule \/ -Shift(a, c) >= Policy.schedule)

BothKnown(a, c, field) == Known(a[field]) /\ Known(c[field])

\* Mutant: any conflict, not only one that the plan did not have.
AnyConflict(a, c) == c.active_window_conflicts

NewConflicts(a, c) == c.active_window_conflicts \ a.active_window_conflicts

\* The reasons that a difference between the plan and the snapshot gives,
\* those that call for a new plan and those that only inform.
Material(a, c, state) ==
    LET enRouteDelay == state = "EN_ROUTE_TO_AIRPORT" /\ Shift(a, c) > 0
        holds ==
          [TRAFFIC_DETERIORATED |->
             RoadActive(state) /\ Deteriorated(a.road_minutes, c.road_minutes, Policy.traffic),
           RIDESHARE_DETERIORATED |->
             RoadActive(state) /\ Deteriorated(RideMinutes(a), RideMinutes(c), Policy.rideshare),
           SECURITY_INCREASED |->
             Deteriorated(a.security_minutes, c.security_minutes, Policy.security),
           FLIGHT_SCHEDULE_CHANGED |-> Rescheduled(a, c) /\ ~enRouteDelay,
           FLIGHT_CANCELLED |-> c.cancelled /\ ~a.cancelled,
           TERMINAL_CHANGED |-> BothKnown(a, c, "terminal") /\ a.terminal # c.terminal,
           CALENDAR_CONFLICT |-> NewConflicts(a, c) # {},
           PARKING_UNAVAILABLE |->
             RoadActive(state) /\ a.selected_parking_available = TRUE
                               /\ c.selected_parking_available = FALSE]
    IN {reason \in DOMAIN holds : holds[reason]}

Informative(a, c, state) ==
    {reason \in {"FLIGHT_DELAYED_EN_ROUTE"} :
        Rescheduled(a, c) /\ state = "EN_ROUTE_TO_AIRPORT" /\ Shift(a, c) > 0}
    \cup
    {reason \in {"GATE_CHANGED"} :
        /\ BothKnown(a, c, "terminal") /\ a.terminal = c.terminal
        /\ BothKnown(a, c, "gate") /\ a.gate # c.gate}

\* Mutant: security is taken to be an input of the road only.
RoadOnly(state) == IF RoadActive(state) THEN Fields \ {"security_minutes"} ELSE {}

\* The inputs that still matter in a travel state.
Applicable(state) == IF RoadActive(state) THEN Fields ELSE {"security_minutes"}

Missing(a, c, state) ==
    c.missing_required \cup {f \in Applicable(state) : Known(a[f]) /\ ~Known(c[f])}

Result(decision, replan, reliable, evidence, missing, continue) ==
    [decision |-> decision, replan_required |-> replan, reliable_plan_allowed |-> reliable,
     evidence |-> evidence, missing_required |-> missing, continue_to_airport |-> continue]

Recovered(a, before) == before # {} \/ a.missing_required # {}

Evaluation(a, c, state, before) ==
    LET material == Material(a, c, state)
        evidence == material \cup Informative(a, c, state)
        enRoute  == state = "EN_ROUTE_TO_AIRPORT"
        missing  == Missing(a, c, state)
        recovery == IF Recovered(a, before) THEN {"REQUIRED_DATA_RECOVERED"} ELSE {}
    IN CASE state = "FLIGHT_DEPARTED" ->
              Result("NO_CHANGE", FALSE, FALSE, {}, {}, FALSE)
         [] state # "FLIGHT_DEPARTED" /\ missing # {} ->
              Result("DATA_UNAVAILABLE", material # {}, FALSE,
                     evidence \cup {"REQUIRED_DATA_UNAVAILABLE"}, missing, enRoute)
         [] state # "FLIGHT_DEPARTED" /\ missing = {} ->
              Result(IF material \cup recovery # {} THEN "REPLAN"
                       ELSE IF evidence # {} THEN "INFORMATIONAL" ELSE "NO_CHANGE",
                     material \cup recovery # {}, ~c.cancelled,
                     evidence \cup recovery, {}, enRoute)

-----------------------------------------------------------------------------
(* The trip *)

NotYet == Result("NOT_YET", FALSE, FALSE, {}, {}, FALSE)

EvaluatorInit ==
    /\ active \in Plans
    /\ current = active
    /\ travel = "PLANNING"
    /\ unavailable = {}
    /\ result = NotYet

\* A poll assembles a snapshot.
Observe ==
    /\ current' \in Snapshots
    /\ result' = NotYet
    /\ UNCHANGED <<active, travel, unavailable>>

\* The traveller gets on.
Advance ==
    /\ \E i \in 1 .. 5 : travel = Trip[i] /\ travel' = Trip[i + 1]
    /\ result' = NotYet
    /\ UNCHANGED <<active, current, unavailable>>

Evaluate ==
    /\ result' = Evaluation(active, current, travel, unavailable)
    /\ unavailable' = result'.missing_required
    /\ UNCHANGED <<active, current, travel>>

\* A reliable revised plan becomes the active one.
Adopt ==
    /\ result.replan_required /\ result.reliable_plan_allowed
    /\ active' = current
    /\ result' = NotYet
    /\ UNCHANGED <<current, travel, unavailable>>

EvaluatorNext == Observe \/ Advance \/ Evaluate \/ Adopt

EvaluatorSpec == EvaluatorInit /\ [][EvaluatorNext]_evaluatorVars

-----------------------------------------------------------------------------
(* Properties *)

Kept == result.decision \in {"NO_CHANGE", "INFORMATIONAL"} /\ travel # "FLIGHT_DEPARTED"

\* What is left between the journey to the gate and the departure.
Slack(p, journey) == p.departure - journey - p.security_minutes
Tolerated(threshold) == IF threshold = 0 THEN 0 ELSE threshold - 1

\* However the inputs drifted over however many polls, a plan that is kept has
\* lost less slack, by road or by rideshare, than its thresholds tolerate
\* together: the evaluator compares with the active plan, an input that
\* disappeared does not count as unchanged, and a flight that leaves earlier
\* counts as much as one that leaves later.
KeptPlanStillFits ==
    Kept /\ RoadActive(travel) /\ Known(active.security_minutes) =>
      /\ Known(active.road_minutes) =>
           Slack(active, active.road_minutes) - Slack(current, current.road_minutes)
             <= Tolerated(Policy.traffic) + Tolerated(Policy.security) + Tolerated(Policy.schedule)
      /\ Known(RideMinutes(active)) =>
           Slack(active, RideMinutes(active)) - Slack(current, RideMinutes(current))
             <= Tolerated(Policy.rideshare) + Tolerated(Policy.security) + Tolerated(Policy.schedule)

\* Once a revised plan is active, the same snapshot asks for no other revision:
\* what made the old plan obsolete is a part of the new one.
NoEndlessReplanning ==
    [][Evaluate /\ active = current /\ unavailable = {} => ~result'.replan_required]_evaluatorVars

\* Replacing the active plan never loses an input that the rest of the trip
\* needs, nor takes a plan for a cancelled flight: what the first plan knew is
\* known to every later one.
RevisionsKeepInputs ==
    [][active' # active =>
         /\ \A f \in Fields : (RoadActive(travel) \/ f = "security_minutes") /\ Known(active[f])
                              => Known(active'[f])
         /\ active'.missing_required = {} /\ ~active'.cancelled]_evaluatorVars
=============================================================================
