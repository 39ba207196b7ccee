SPECIFICATION Spec
CONSTANTS
  leg1 = leg1
  trip = trip
  anna = anna
  life1 = life1
  life2 = life2
  early = early
  late = late
  strict = strict
  Segments = {leg1}
  Lifetimes = {life1, life2}
  MaxSequence = 3
  Schedules = {early, late}
  Complete = {early, late}
  NoSegment = NoSegment
  NoLifetime = NoLifetime
  NoSchedule = NoSchedule
  Bookings = {trip}
  BookingOf <- OneBooking
  Travelers = {anna}
  TravelerOf <- OneTraveler
  Messages <- HistoryNames
  SegmentOf <- HistorySegments
  Policies = {strict}
  Reading <- HistoryReadings
  MaxMessages = 4
  Callers <- Always
  Batches <- Alone
INVARIANTS
  OrderIrrelevant
  CurrentIsVerdict
PROPERTIES
  ConflictPermanent
