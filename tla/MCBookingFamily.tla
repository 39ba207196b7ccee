--------------------------- MODULE MCBookingFamily ---------------------------
(* A small instance of BookingTexts: mail about the two coupons of a booking, *)
(* some of it with parts that disagree, under two deployments of which one    *)
(* reads no order and grants its template no cancellation.                    *)
EXTENDS BookingTexts, TLC

CONSTANTS leg1, leg2, trip, anna, life1, life2, early, late, strict, lenient

OneBooking == [s \in Segments |-> trip]
OneTraveler == trip :> anna

Northstar ==
  [rule |-> "synthetic-northstar/v1", sender |-> "northstar", events |-> Kinds,
   subjects |-> "booking confirmation" :> "BOOKING" @@ "schedule change" :> "CHANGE"
                  @@ "flight cancellation" :> "CANCELLATION"]
\* A family of the tests, registered but granted by no policy.
Alpha ==
  [rule |-> "fixture-alpha/v1", sender |-> "fixture-alpha", events |-> Kinds,
   subjects |-> "fixture-alpha CHANGE" :> "CHANGE"]

MCRegistry == {Northstar, Alpha}
MCGrants ==
  strict :> (Northstar.rule :> Kinds) @@ lenient :> (Northstar.rule :> {"BOOKING", "CHANGE"})

Text(subject, kind, coupon, itinerary, lines) ==
  [subject |-> subject, sender |-> "northstar",
   lines |-> {<<"Event", kind>>, <<"Segment reference", coupon>>, <<"Itinerary", itinerary>>} \cup lines]
Says(life, n) == {<<"Booking lifetime", life>>, <<"Airline sequence", n>>}

Book(s, itinerary, lines) == Text("booking confirmation", "BOOKING", s, itinerary, lines)
Move(s, itinerary, lines) == Text("schedule change", "CHANGE", s, itinerary, lines)
Cancel(s, lines) == Text("flight cancellation", "CANCELLATION", s, early, lines)
After(s, life, n) ==
  {<<"Travel state", "REINSTATED">>, <<"Reinstates lifetime", life>>,
   <<"Reinstates cancellation sequence", n>>, <<"Reinstates segment reference", s>>}

FamilyTexts == <<
  Book(leg1, early, Says(life1, 0)), Cancel(leg1, Says(life1, 1)),
  Book(leg1, late, Says(life1, 2) \cup After(leg1, life1, 1)),
  Book(leg2, early, Says(life1, 0)), Book(leg2, late, Says(life2, 1)), Move(leg2, late, Says(life1, 1)),
  Cancel(leg2, Says(life2, 2)), Book(leg1, late, Says(life1, 0)),
  \* Parts that disagree on the order, and on the itinerary.
  Move(leg2, early, Says(life1, 0) \cup Says(life1, 2)),
  Move(leg1, late, Says(life1, 2) \cup {<<"Itinerary", early>>})>>

FamilyNames == DOMAIN FamilyTexts
FamilySegments == [m \in FamilyNames |-> Coupon(FamilyTexts[m])]
\* TLC evaluates a definition once, and the value of a constant at each use.
Readings == [p \in Policies |-> [m \in FamilyNames |-> EventOf(p, FamilyTexts[m])]]
FamilyReadings == Readings

\* A caller that authorizes the traveler, and one that does not.
Sometimes == {{anna}, {}}

\* Nothing new, one message, or two: about one coupon, or about both.
Pairs == {{}} \cup {{m} : m \in Messages} \cup {{1, 2}, {1, 4}, {2, 5}, {7, 8}}
=============================================================================
