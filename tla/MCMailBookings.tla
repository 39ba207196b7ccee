--------------------------- MODULE MCMailBookings ---------------------------
(* A small instance of MailBookings: a cancellation older than the lookback   *)
(* of the second instant, and a later change of the same coupon.              *)
EXTENDS MailBookings, TLC

CONSTANTS m1, m2, r1, r2, leg, trip, anna, life, day, policy

SameRunners == Permutations({r1, r2})

MCTimes == 0..1
MCReceived == m1 :> 0 @@ m2 :> 1

At(n) == [lifetime |-> life, sequence |-> n]
NoReinstatement == [authority |-> [lifetime |-> NoLifetime, sequence |-> -1], segment |-> NoSegment]
Event(kind, n) == [kind |-> kind, schedule |-> day, authority |-> At(n), issues |-> FALSE,
                   reinstatement |-> NoReinstatement]

OneBooking == leg :> trip
OneTraveler == trip :> anna
OneSegment == m1 :> leg @@ m2 :> leg
OneReading == policy :> (m1 :> Event("CANCELLATION", 0) @@ m2 :> Event("CHANGE", 1))
OneCaller == {{anna}}
=============================================================================
