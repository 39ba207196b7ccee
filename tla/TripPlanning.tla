---------------------------- MODULE TripPlanning ----------------------------
(***************************************************************************)
(* TravelCoordinator (travel_agent/coordinator.py) over its agents: a trip *)
(* context is gathered from the flight, the calendar of its day and the    *)
(* transport estimate, each of which may fail or answer nonsense, and the  *)
(* search of BeamSearch is made in it.  A host may also bring a context of *)
(* its own, or use the calendar agent alone.                               *)
(*                                                                         *)
(* One call is one behaviour.  Names, gates, delays and the other texts of *)
(* the agents' answers are left out.                                       *)
(***************************************************************************)
EXTENDS CalendarAgent, BeamSearch

\* What context_from_dict lets a host bring, and the planner's policy.
Contexts ==
  {trip \in [departure : Int, boarding : Int, travel : Nat, gateBuffer : Nat, preferredBuffer : Nat,
             events : SUBSET Meetings] :
     /\ trip.boarding <= trip.departure
     /\ IsFiniteSet(trip.events)
     /\ \A e \in trip.events : e.start < e.end /\ e.priority \in {"normal", "high"}}

CONSTANTS
  FlightsBeside,  \* what the flight tool may know, by what the calendar tool holds
  TripsBeside,    \* the contexts a host may bring, likewise
  Drives,         \* travel_minutes the transport tool may answer
  GateBuffers     \* gate_closing_buffer_minutes of the planner's policy

ASSUME FlightsAssumption ==
  /\ DOMAIN FlightsBeside = Answers
  /\ \A a \in Answers : FlightsBeside[a] \subseteq [departure : Int, boarding : Int]
  /\ DOMAIN TripsBeside = Answers
ASSUME HostAssumption == \A a \in Answers : TripsBeside[a] \subseteq Contexts
\* The calendar tool answers a list.
ASSUME ListAssumption == \A a \in Answers : IsFiniteSet(a)
ASSUME DrivesAssumption == Drives \subseteq Int /\ GateBuffers \subseteq Nat

VARIABLES
  step,     \* what the call does next, or the error it raised
  flight    \* the flight that was found

vars == <<step, flight, agentVars, searchVars>>

NoFlight == [departure |-> 0, boarding |-> 0]

Init ==
  /\ AgentInit
  /\ SearchInit
  /\ step = "idle"
  /\ flight = NoFlight

-----------------------------------------------------------------------------
(* get_trip_context.                                                        *)

OnTheDay(f) == DayStart(day) <= f.departure /\ f.departure < DayEnd(day)

GetFlight ==
  /\ step = "idle"
  /\ \E f \in FlightsBeside[tool] :
       \/ /\ OnTheDay(f) /\ f.boarding <= f.departure
          /\ step' = "events"
          /\ flight' = f
       \/ /\ ~OnTheDay(f) \/ f.boarding > f.departure
          /\ step' = "InvalidDataError"
          /\ UNCHANGED flight
  /\ UNCHANGED <<agentVars, searchVars>>

\* The request is malformed; or the tool raises, knows nothing, or answers
\* with another flight number, an empty text or a negative delay.
FlightFails ==
  /\ step = "idle"
  /\ step' \in Failures
  /\ UNCHANGED <<flight, agentVars, searchVars>>

\* An error of the calendar agent is the error of the call.
CollectEvents ==
  /\ step = "events"
  /\ GetEvents \/ ToolFails
  /\ step' = IF stage' = "fetched" THEN "mapping" ELSE stage'
  /\ UNCHANGED <<flight, searchVars>>

\* The planner knows two priorities.
MapPriorities ==
  /\ step = "mapping"
  /\ step' = IF \A e \in events : e.priority \in {"normal", "high"}
             THEN "transport" ELSE "InvalidDataError"
  /\ UNCHANGED <<flight, agentVars, searchVars>>

\* Twenty minutes of security and a walk of fifteen, to reach the gate with 45.
TripBy(drive, buffer) ==
  [departure |-> flight.departure, boarding |-> flight.boarding,
   travel |-> drive + 20 + 15, gateBuffer |-> buffer, preferredBuffer |-> 45,
   events |-> events]

\* The transport agent refuses a negative drive.
GetEstimate ==
  /\ step = "transport"
  /\ \E drive \in Drives, buffer \in GateBuffers :
       \/ drive >= 0 /\ Ask(TripBy(drive, buffer)) /\ step' = "search"
       \/ drive < 0 /\ step' = "InvalidDataError" /\ UNCHANGED searchVars
  /\ UNCHANGED <<flight, agentVars>>

\* The tool raises, knows nothing, or is wrong about parking or walking, which
\* the search does not use.
TransportFails ==
  /\ step = "transport"
  /\ step' \in Failures \ {"InvalidInputError"}
  /\ UNCHANGED <<flight, agentVars, searchVars>>

-----------------------------------------------------------------------------
(* evaluate_trip_plans, of the gathered context or of one a host brings.    *)

HostAsks ==
  /\ step = "idle"
  /\ \E trip \in TripsBeside[tool] : Ask(trip)
  /\ step' = "search"
  /\ UNCHANGED <<flight, agentVars>>

SearchOn ==
  /\ step = "search"
  /\ Search
  /\ UNCHANGED <<step, flight, agentVars>>

\* Someone who asks for events and then for the free windows between them.
AskAgent ==
  /\ step = "idle" /\ step' = "agent"
  /\ GetEvents \/ ToolFails
  /\ UNCHANGED <<flight, searchVars>>

AgentOn ==
  /\ step = "agent"
  /\ FreeWindows \/ VisitNext \/ Finish
  /\ UNCHANGED <<step, flight, searchVars>>

Next ==
  \/ GetFlight \/ FlightFails \/ CollectEvents \/ MapPriorities \/ GetEstimate \/ TransportFails
  \/ HostAsks \/ SearchOn \/ AskAgent \/ AgentOn

Spec == Init /\ [][Next]_vars

-----------------------------------------------------------------------------
(* Properties.                                                              *)

\* A plan whose score holds no meeting against it is one the traveller can
\* follow: nothing in the whole calendar, fetched or not, is on when it leaves,
\* provided it leaves on the day of the flight.
UnpenalizedIsFree ==
  flight # NoFlight =>
    \A i \in DOMAIN outcome.plans :
      LET leave == outcome.plans[i]
      IN Within(leave, <<DayStart(day), DayEnd(day)>>) /\ EventPenalties(leave) = 0 =>
           \A m \in tool : ~At(m, leave)
=============================================================================
