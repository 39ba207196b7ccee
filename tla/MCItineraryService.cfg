SPECIFICATION FairSpec
CONSTANTS
  trip1 = trip1
  trip2 = trip2
  leg1 = leg1
  leg2 = leg2
  leg3 = leg3
  Itineraries <- TwoTrips
  Segments = {leg1, leg2, leg3}
  ItineraryOf <- TwoTripsOf
  Times <- MCTimes
  NoFacts = NoFacts
  Callers = {c1, c2}
  NoCaller = NoCaller
  NoJob = NoJob
  Batches <- TwoTripsBatches
  Rejected = Rejected
  LeadTime = 1
  MaxInvocations = 3
  MaxAborts = 1
INVARIANTS
  AutomaticStateMatchesHistory
  NoUnexpectedExecution
  AttemptsJustified
  MonitorLeavesNothingPending
  ProjectionMatchesRevision
PROPERTIES
  ManualIndependent
  RecordsDurable
  ImplementsLifecycle
  InvocationTerminates
CHECK_DEADLOCK FALSE
