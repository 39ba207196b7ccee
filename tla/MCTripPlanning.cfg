SPECIFICATION Spec
CONSTANTS
  Answers <- MCAnswers
  Limits <- MCLimits
  Days <- MCDays
  DayLength = 2880
  FlightsBeside <- MCFlightsBeside
  Drives <- MCDrives
  GateBuffers <- MCGateBuffers
  TripsBeside <- MCTripsBeside
  Proposals <- MCProposals
  Minute = 2
  BeamWidth = 2
  Depth = 3
INVARIANTS
  FreeIsExact
  UnpenalizedIsFree
  SelectedIsBest
  RefusalIsDue
CHECK_DEADLOCK FALSE
