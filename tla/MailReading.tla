----------------------------- MODULE MailReading -----------------------------
(***************************************************************************)
(* What a message says of a coupon: the registered template that its       *)
(* subject matches, the labelled lines of its parts, the permissions of a  *)
(* deployment's policy, and the order and the reinstatement that the       *)
(* airline states (travel_agent/live/extraction.py, template_registry.py,  *)
(* template_authority.py and template_events.py).                          *)
(*                                                                         *)
(* A text has a subject, a sender and the lines of all its parts; the      *)
(* parts may repeat one another or disagree.  The lines about carrier,     *)
(* flight, route and times are one, "Itinerary", and those with the        *)
(* references of booking, traveler and segment are another; a value that   *)
(* no pattern of the code accepts is one outside the sets below.           *)
(***************************************************************************)
EXTENDS Booking, Functions

CONSTANTS
  Registry,   \* templates: their rule, the sender they expect, the event each
              \* subject announces, and the events they are declared for
  Grants,     \* of each policy and rule, the events granted
  Ordering    \* the policies whose interpreter reads the order of documents

ExtractionLabels == {"Event", "Itinerary", "Segment reference"}
OrderLabels == {"Booking lifetime", "Airline sequence"}
TransitionLabels == {"Travel state", "Reinstates lifetime", "Reinstates cancellation sequence",
                     "Reinstates segment reference"}

Values(text, label) == {line[2] : line \in {line \in text.lines : line[1] = label}}
Mentioned(text, labels) == \E label \in labels : Values(text, label) # {}
Unanimous(text, label) == Cardinality(Values(text, label)) = 1
Stated(text, label) == CHOOSE value \in Values(text, label) : TRUE

-----------------------------------------------------------------------------
(* Extraction.                                                              *)

Matching(text) == {template \in Registry : text.subject \in DOMAIN template.subjects}

Announced(template, text) == template.subjects[text.subject]

\* Parts that disagree, or a line that is missing or malformed, leave a message unresolved.
Readable(template, text) ==
  /\ text.sender = template.sender
  /\ \A label \in ExtractionLabels : Cardinality(Values(text, label)) <= 1
  /\ \A label \in {"Event", "Itinerary"} : Unanimous(text, label)
  /\ Stated(text, "Event") = Announced(template, text)
  /\ Stated(text, "Itinerary") \in Schedules

\* The template that reads the text: the only one that matches, within the
\* events it is declared for.
Reads(text) ==
  {template \in Matching(text) :
     /\ Cardinality(Matching(text)) = 1
     /\ Readable(template, text)
     /\ Announced(template, text) \in template.events}

\* What cannot be tied to a coupon is not reconciled.
Identified(text) == Values(text, "Segment reference") \cap Segments # {}

Coupon(text) == Stated(text, "Segment reference")

-----------------------------------------------------------------------------
(* Events.                                                                  *)

ValidAuthority(authority) == authority.lifetime \in Lifetimes /\ authority.sequence \in 0..MaxSequence

Order(text) == [lifetime |-> Stated(text, "Booking lifetime"), sequence |-> Stated(text, "Airline sequence")]

\* Mutant: where parts disagree on the order, one of them is believed.
FirstOrder(text) ==
  /\ \A label \in OrderLabels : Values(text, label) # {}
  /\ ValidAuthority(Order(text))

OrderIsClear(text) ==
  /\ \A label \in OrderLabels : Unanimous(text, label)
  /\ ValidAuthority(Order(text))

AuthorityOf(text) == IF OrderIsClear(text) THEN Order(text) ELSE NoAuthority

Reinstates(text) ==
  [authority |-> [lifetime |-> Stated(text, "Reinstates lifetime"),
                  sequence |-> Stated(text, "Reinstates cancellation sequence")],
   segment |-> Stated(text, "Reinstates segment reference")]

\* The text reinstates its own coupon, after a cancellation of the same lifetime.
ReinstatementIsClear(text) ==
  /\ \A label \in TransitionLabels : Unanimous(text, label)
  /\ Stated(text, "Travel state") = "REINSTATED"
  /\ ValidAuthority(Reinstates(text).authority)
  /\ AuthorityOf(text) # NoAuthority
  /\ Older(Reinstates(text).authority, AuthorityOf(text))
  /\ Reinstates(text).segment = Coupon(text)
  /\ Stated(text, "Event") # "CANCELLATION"

\* An interpreter that adds nothing to what was extracted.
PlainEvent(text) ==
  [kind |-> Stated(text, "Event"), schedule |-> Stated(text, "Itinerary"), authority |-> NoAuthority,
   issues |-> FALSE, reinstatement |-> NoReinstatement]

\* northstar_event_v1: an order or a reinstatement that is not clear is an issue.
OrderedEvent(text) ==
  [PlainEvent(text) EXCEPT
     !.authority = AuthorityOf(text),
     !.reinstatement = IF ReinstatementIsClear(text) THEN Reinstates(text) ELSE NoReinstatement,
     !.issues = \/ Mentioned(text, OrderLabels) /\ ~OrderIsClear(text)
                \/ Mentioned(text, TransitionLabels) /\ ~ReinstatementIsClear(text)]

Granted(policy, text) ==
  \E template \in Reads(text) :
    /\ template.rule \in DOMAIN Grants[policy]
    /\ Announced(template, text) \in Grants[policy][template.rule]

\* construct: the event a policy makes of the text, if it grants the template one.
EventOf(policy, text) ==
  IF ~Granted(policy, text) \/ ~Identified(text) THEN NoEvent
  ELSE IF policy \in Ordering THEN OrderedEvent(text) ELSE PlainEvent(text)
=============================================================================
