------------------------------ MODULE Booking ------------------------------
(***************************************************************************)
(* The pure projection of travel_agent/live/booking.py: what the evidence  *)
(* about one flight coupon, and about its siblings under one booking, says *)
(* of it.  Times, routes and references of an itinerary are one value, a   *)
(* schedule; event ids and parser versions are left out.                   *)
(***************************************************************************)
EXTENDS Integers, FiniteSetsExt

CONSTANTS
  Segments,       \* canonical coupons
  Lifetimes,      \* explicit booking lifetimes
  MaxSequence,    \* largest airline sequence: 2147483647 in the code
  Schedules,      \* extracted flight facts
  Complete,       \* the schedules that planning_readiness finds no fault with
  NoSegment, NoLifetime, NoSchedule

ASSUME SequenceAssumption == MaxSequence \in Nat
ASSUME ScheduleAssumption == Complete \subseteq Schedules
ASSUME AbsenceAssumption ==
  NoSegment \notin Segments /\ NoLifetime \notin Lifetimes /\ NoSchedule \notin Schedules

Kinds == {"BOOKING", "CHANGE", "CANCELLATION"}

Authority == [lifetime : Lifetimes, sequence : 0..MaxSequence]
NoAuthority == [lifetime |-> NoLifetime, sequence |-> -1]

Reinstatement == [authority : Authority, segment : Segments]
NoReinstatement == [authority |-> NoAuthority, segment |-> NoSegment]

BookingEvent == [kind : Kinds, schedule : Schedules, authority : Authority \cup {NoAuthority},
                 issues : BOOLEAN, reinstatement : Reinstatement \cup {NoReinstatement}]

\* The value None where the code may hold an event, and a walk that returned unresolved().
NoEvent == [kind |-> "NONE", schedule |-> NoSchedule, authority |-> NoAuthority,
            issues |-> FALSE, reinstatement |-> NoReinstatement]
Broken == [NoEvent EXCEPT !.kind = "INVALID"]

Reasons == {"CONFLICTING_EVENT_HISTORY", "INVALID_REINSTATEMENT_HISTORY", "BOOKING_LIFETIME_COLLISION"}

\* An unresolved coupon shows no schedule and no authority, only the reasons.
Settled == [status : {"BOOKED", "CANCELLED"}, schedule : Schedules, reasons : {{}},
            authority : Authority \cup {NoAuthority}]
Unsettled == [status : {"UNRESOLVED"}, schedule : {NoSchedule}, reasons : SUBSET Reasons \ {{}},
              authority : {NoAuthority}]
CanonicalSegment == Settled \cup Unsettled

Unresolved(reasons) ==
  [status |-> "UNRESOLVED", schedule |-> NoSchedule, reasons |-> reasons, authority |-> NoAuthority]

-----------------------------------------------------------------------------
(* The facts of a history and what makes them contradict each other.        *)

Fact(e) == [kind |-> e.kind, schedule |-> e.schedule, reinstatement |-> e.reinstatement]
IsCancellation(e) == e.kind = "CANCELLATION"
IsReinstatement(e) == e.reinstatement # NoReinstatement
Attributed(E) == \A e \in E : e.authority # NoAuthority

\* Two different explicit lifetimes; no lifetime is guessed for the rest.
Collide(E) ==
  \E d, e \in E : /\ d.authority # NoAuthority
                  /\ e.authority # NoAuthority
                  /\ d.authority.lifetime # e.authority.lifetime

\* Mutant: a later document repairs a contradiction at an earlier sequence.
ContradictsAtTheTop(E, d, e) ==
  /\ Fact(d) # Fact(e)
  /\ ~Attributed(E) \/ /\ d.authority.sequence = e.authority.sequence
                       /\ \A f \in E : f.authority.sequence <= d.authority.sequence

\* Mutant: the schedule alone is compared at one sequence.
ContradictsInSchedule(E, d, e) ==
  /\ Fact(d) # Fact(e)
  /\ ~Attributed(E) \/ /\ d.authority.sequence = e.authority.sequence
                       /\ d.schedule # e.schedule

Contradicts(E, d, e) ==
  /\ Fact(d) # Fact(e)
  /\ ~Attributed(E) \/ d.authority.sequence = e.authority.sequence

Conflict(E) ==
  \/ \E e \in E : e.issues
  \/ Collide(E)
  \/ \E d, e \in E : Contradicts(E, d, e)

-----------------------------------------------------------------------------
(* The cancellation barrier.                                                *)

\* The event each sequence number stands for: rows come in the order of their
\* digests, so any event of that number may be the one the code picks.
Rows(E) ==
  LET numbers == {e.authority.sequence : e \in E}
  IN {row \in [numbers -> E] : \A n \in numbers : row[n].authority.sequence = n}

Older(a, b) == a.lifetime = b.lifetime /\ a.sequence < b.sequence

\* A reinstatement names a cancellation of this coupon that it is newer than.
Linked(s, E, e) ==
  /\ \E c \in E : IsCancellation(c) /\ c.authority = e.reinstatement.authority
  /\ e.reinstatement.segment = s
  /\ Older(e.reinstatement.authority, e.authority)
  /\ ~IsCancellation(e)

\* Mutant: a later booking or change crosses the barrier.
CrossFreely(selected, e) ==
  IF selected = Broken THEN Broken
  ELSE IF IsReinstatement(e) /\ e.reinstatement.authority # selected.authority THEN Broken ELSE e

\* Mutant: a reinstatement ends any cancellation, not the one it names.
CrossOnAnyLink(selected, e) ==
  IF selected = Broken THEN Broken
  ELSE IF IsCancellation(e) THEN e
  ELSE IF IsReinstatement(e) THEN IF IsCancellation(selected) THEN e ELSE Broken
  ELSE IF IsCancellation(selected) THEN selected ELSE e

\* The state after one more event in airline order.
Cross(selected, e) ==
  LET barred == IsCancellation(selected)
  IN IF selected = Broken THEN Broken
     ELSE IF IsCancellation(e) THEN e
     ELSE IF IsReinstatement(e)
          THEN IF barred /\ e.reinstatement.authority = selected.authority THEN e ELSE Broken
     ELSE IF barred THEN selected ELSE e

Walk(row) ==
  LET after[n \in -1..MaxSequence] ==
        IF n = -1 THEN NoEvent
        ELSE IF n \in DOMAIN row THEN Cross(after[n - 1], row[n])
        ELSE after[n - 1]
  IN after[MaxSequence]

-----------------------------------------------------------------------------
(* The projection of one coupon, and the constraint of its booking on it.   *)

Barrier(E) == \E e \in E : IsReinstatement(e) \/ IsCancellation(e)

Selected(s, E, row) ==
  IF ~Barrier(E) THEN row[Max(DOMAIN row)]
  ELSE IF Attributed(E)
       THEN IF \A e \in E : IsReinstatement(e) => Linked(s, E, e) THEN Walk(row) ELSE Broken
       ELSE IF \E e \in E : IsReinstatement(e) THEN Broken ELSE row[Max(DOMAIN row)]

Project(s, E, row) ==
  LET selected == Selected(s, E, row)
  IN CASE Conflict(E) -> Unresolved({"CONFLICTING_EVENT_HISTORY"})
       [] ~Conflict(E) /\ selected = Broken -> Unresolved({"INVALID_REINSTATEMENT_HISTORY"})
       [] OTHER -> [status |-> IF IsCancellation(selected) THEN "CANCELLED" ELSE "BOOKED",
                    schedule |-> selected.schedule, reasons |-> {},
                    authority |-> IF Attributed(E) THEN selected.authority ELSE NoAuthority]

\* A booking with two lifetimes publishes nothing active and undoes no cancellation.
Constrain(p, family) ==
  IF Collide(family) /\ p.status # "CANCELLED"
  THEN Unresolved(p.reasons \cup {"BOOKING_LIFETIME_COLLISION"})
  ELSE p

\* What planning_readiness lets through for a traveler who is authorized.
PlanningReady(p) == p.reasons = {} /\ p.status = "BOOKED" /\ p.schedule \in Complete
=============================================================================
