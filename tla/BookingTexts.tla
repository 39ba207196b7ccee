----------------------------- MODULE BookingTexts -----------------------------
(***************************************************************************)
(* BookingRepository fed with texts: what a policy reads from a message is *)
(* what MailReading makes of its text.                                     *)
(***************************************************************************)
EXTENDS BookingRepository, MailReading

CONSTANT TextOf   \* of each message

ASSUME TextAssumption == \A m \in Messages : IsFiniteSet(TextOf[m].lines)
ASSUME ReadingIsOfTexts == Reading = [p \in Policies |-> [m \in Messages |-> EventOf(p, TextOf[m])]]
ASSUME CouponIsOfTexts ==
  \A m \in Messages : Identified(TextOf[m]) => SegmentOf[m] = Coupon(TextOf[m])

\* What a coupon shows, some retained mail says in so many words, and none of
\* its parts says otherwise: subject and body announce the same kind of event,
\* with that itinerary, for that coupon, at that place in the airline's order;
\* and it came from the sender of a template that some policy grants.
ShownIsWritten ==
  \A s \in Segments : current[s].status \in {"BOOKED", "CANCELLED"} =>
    \E m \in stored : \E template \in Registry :
      LET text == TextOf[m]
          authority == current[s].authority
      IN /\ text.subject \in DOMAIN template.subjects /\ text.sender = template.sender
         /\ \E p \in Policies : template.rule \in DOMAIN Grants[p]
         /\ Values(text, "Event") = {template.subjects[text.subject]}
         /\ current[s].status = "CANCELLED" <=> "CANCELLATION" \in Values(text, "Event")
         /\ Values(text, "Segment reference") = {s}
         /\ Values(text, "Itinerary") = {current[s].schedule}
         /\ authority # NoAuthority =>
              /\ Values(text, "Booking lifetime") = {authority.lifetime}
              /\ Values(text, "Airline sequence") = {authority.sequence}
=============================================================================
