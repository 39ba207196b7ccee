SPECIFICATION Spec
CONSTANTS
  leg1 = leg1
  leg2 = leg2
  trip = trip
  anna = anna
  life1 = life1
  life2 = life2
  early = early
  late = late
  strict = strict
  lenient = lenient
  Segments = {leg1, leg2}
  Lifetimes = {life1, life2}
  MaxSequence = 2
  Schedules = {early, late}
  Complete = {early, late}
  NoSegment = NoSegment
  NoLifetime = NoLifetime
  NoSchedule = NoSchedule
  Bookings = {trip}
  BookingOf <- OneBooking
  Travelers = {anna}
  TravelerOf <- OneTraveler
  Messages <- FamilyNames
  SegmentOf <- FamilySegments
  Policies = {strict, lenient}
  Reading <- FamilyReadings
  Registry <- MCRegistry
  Grants <- MCGrants
  Ordering = {strict}
  TextOf <- FamilyTexts
  MaxMessages = 4
  Callers <- Sometimes
  Batches <- Pairs
INVARIANTS
  Traceable
  CurrentIsProjection
  RevisionsExplained
  ReadyIsSafe
  ShownIsWritten
