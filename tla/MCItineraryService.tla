------------------------- MODULE MCItineraryService -------------------------
(* A small instance of ItineraryService: a trip of two bookings that move,    *)
(* are cancelled, leave the itinerary and return, and a second itinerary of   *)
(* the source that comes and goes.                                            *)
EXTENDS ItineraryService, TLC

CONSTANTS trip1, trip2, leg1, leg2, leg3

Booked(d) == [departure |-> d, status |-> "CONFIRMED"]
Cancelled(d) == [departure |-> d, status |-> "CANCELLED"]

MCTimes == 0..2

TwoTrips == {trip1, trip2}
TwoTripsOf == leg1 :> trip1 @@ leg2 :> trip1 @@ leg3 :> trip2
TwoTripsBatches == {
  trip1 :> (leg1 :> Booked(1) @@ leg2 :> Booked(2)),
  trip1 :> (leg1 :> Booked(2)) @@ trip2 :> (leg3 :> Cancelled(2)),
  trip1 :> (leg2 :> Cancelled(2))}
=============================================================================
