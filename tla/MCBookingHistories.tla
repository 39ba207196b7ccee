------------------------ MODULE MCBookingHistories ------------------------
(* A small instance of BookingRepository: the documents about one coupon, as *)
(* any interpreter that a policy trusts may present them.                    *)
EXTENDS BookingRepository, TLC

CONSTANTS leg1, trip, anna, life1, life2, early, late, strict

OneBooking == [s \in Segments |-> trip]
OneTraveler == trip :> anna

States(s, kind, schedule, authority, reinstatement) ==
  [segment |-> s, event |-> [kind |-> kind, schedule |-> schedule, authority |-> authority,
                             issues |-> FALSE, reinstatement |-> reinstatement]]
At(life, n) == [lifetime |-> life, sequence |-> n]

Book(s, schedule, a) == States(s, "BOOKING", schedule, a, NoReinstatement)
Move(s, schedule, a) == States(s, "CHANGE", schedule, a, NoReinstatement)
Cancel(s, a) == States(s, "CANCELLATION", early, a, NoReinstatement)
Restore(s, a, c) == States(s, "BOOKING", late, a, [authority |-> c, segment |-> s])
Faulty(d) == [d EXCEPT !.event.issues = TRUE]

\* Every order of bookings, cancellations and reinstatements at four sequence
\* numbers, and documents that can settle nothing.
HistoryMail == <<
  Book(leg1, early, At(life1, 0)), Book(leg1, late, At(life1, 0)),
  Book(leg1, early, At(life1, 2)), Book(leg1, late, At(life1, 2)),
  Move(leg1, late, At(life1, 1)), Move(leg1, late, At(life1, 3)),
  Cancel(leg1, At(life1, 0)), Cancel(leg1, At(life1, 1)),
  Cancel(leg1, At(life1, 2)), Cancel(leg1, At(life1, 3)),
  Restore(leg1, At(life1, 1), At(life1, 0)), Restore(leg1, At(life1, 1), At(life1, 2)),
  Restore(leg1, At(life1, 2), At(life1, 0)), Restore(leg1, At(life1, 2), At(life1, 1)),
  Restore(leg1, At(life1, 3), At(life1, 0)), Restore(leg1, At(life1, 3), At(life1, 1)),
  Restore(leg1, At(life1, 3), At(life1, 2)),
  Book(leg1, early, NoAuthority), Cancel(leg1, NoAuthority),
  Faulty(Book(leg1, early, At(life1, 2))), Book(leg1, early, At(life2, 3))>>

Always == {{anna}}

\* Nothing new, or one message.
Alone == {{}} \cup {{m} : m \in Messages}

HistoryNames == DOMAIN HistoryMail
HistorySegments == [m \in HistoryNames |-> HistoryMail[m].segment]
\* TLC evaluates a definition once, and the value of a constant at each use.
Readings == [p \in Policies |-> [m \in HistoryNames |-> HistoryMail[m].event]]
HistoryReadings == Readings
=============================================================================
