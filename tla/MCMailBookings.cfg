SPECIFICATION LiveSpec
CONSTANTS
  m1 = m1
  m2 = m2
  r1 = r1
  r2 = r2
  leg = leg
  trip = trip
  anna = anna
  life = life
  day = day
  policy = policy
  Messages = {m1, m2}
  Received <- MCReceived
  Times <- MCTimes
  NoTime = NoTime
  Lookback = 0
  Runners = {r1, r2}
  MaxPages = 2
  MaxMessages = 2
  MaxCalls = 2
  MaxChanges = 1
  Segments = {leg}
  Lifetimes = {life}
  MaxSequence = 1
  Schedules = {day}
  Complete = {day}
  NoSegment = NoSegment
  NoLifetime = NoLifetime
  NoSchedule = NoSchedule
  Bookings = {trip}
  BookingOf <- OneBooking
  Travelers = {anna}
  TravelerOf <- OneTraveler
  Callers <- OneCaller
  SegmentOf <- OneSegment
  Policies = {policy}
  Reading <- OneReading
INVARIANTS
  MirrorMatchesMailbox
  CursorCarriesBookings
  CancellationsReachPlans
PROPERTIES
  ExpiryConcernsCheckpoint
  ImplementsMirror
SYMMETRY SameRunners
CHECK_DEADLOCK FALSE
