-------------------------- MODULE MCSchemaMigration --------------------------
(* Small instances of SchemaMigration: one process of each kind, a second     *)
(* BookingRepository, and scripts of two or three statements.                 *)
EXTENDS SchemaMigration

CONSTANTS itinerary, live, booking1, booking2

MCItinerary == {itinerary}
MCLive == {live}
MCBooking == {booking1, booking2}
=============================================================================
