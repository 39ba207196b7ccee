SPECIFICATION Spec
CONSTANTS
  itinerary = itinerary
  live = live
  booking1 = booking1
  booking2 = booking2
  Itinerary <- MCItinerary
  Live <- MCLive
  Booking <- MCBooking
  Nobody = Nobody
  LegacySize = 3
  LiveSize = 2
  BookingSize = 2
  MaxOpens = 4
  MaxSyncs = 2
INVARIANTS
  NoPartialMigration
  OpenHasItsSchema
PROPERTIES
  RefusalIsDue
CHECK_DEADLOCK FALSE
