------------------------- MODULE BookingRepository -------------------------
(***************************************************************************)
(* The travel projection that every mail synchronization rewrites, as      *)
(* travel_agent/live/booking_repository.py keeps it in its tables.         *)
(*                                                                         *)
(* A synchronization brings mail in any order and any batches, from any    *)
(* account, under the template policy of the deployment that runs it and   *)
(* the travelers its caller names; both may differ from the last time.     *)
(* Mail is immutable, is never deleted, and its extraction is fixed when   *)
(* it is stored.  A step is the part of commit_sync's transaction from     *)
(* _store_messages to the end of _project_all; a transaction that fails    *)
(* rolls all of it back and is no step.                                    *)
(***************************************************************************)
EXTENDS Booking

CONSTANTS
  Bookings, BookingOf,      \* bookings and the booking of each coupon
  Travelers, TravelerOf,    \* traveler references and the one of each booking
  Callers,                  \* the sets of travelers that callers authorize
  Messages, SegmentOf,      \* mail and the coupon its extraction names
  Policies,                 \* template event authority policies
  Reading,                  \* the event a policy constructs from a message, or NoEvent
                            \* where it grants none or the coupon's identity is incomplete
  Batches,                  \* what one synchronization may bring
  MaxMessages               \* bound: mail in all

ASSUME BookingAssumption == BookingOf \in [Segments -> Bookings]
ASSUME TravelerAssumption == TravelerOf \in [Bookings -> Travelers]
ASSUME MessageAssumption == SegmentOf \in [Messages -> Segments]
ASSUME BatchAssumption == Batches \subseteq SUBSET Messages
ASSUME CallerAssumption == Callers \subseteq SUBSET Travelers
ASSUME ReadingAssumption == Reading \in [Policies -> [Messages -> BookingEvent \cup {NoEvent}]]
\* construct() refuses a builder that rewrites the facts the extraction found.
ASSUME FactsAssumption ==
  \A p, q \in Policies, m \in Messages :
    Reading[p][m] # NoEvent /\ Reading[q][m] # NoEvent =>
      /\ Reading[p][m].kind = Reading[q][m].kind
      /\ Reading[p][m].schedule = Reading[q][m].schedule

VARIABLES
  stored,     \* mail_messages
  link,       \* booking_event_evidence: the event each message supports
  events,     \* booking_events, by canonical segment
  revisions,  \* canonical_segment_revisions with their revision_events
  current     \* canonical_current: the projection each segment shows

vars == <<stored, link, events, revisions, current>>

\* A segment that has no row yet shows nothing.
NoProjection == [status |-> "NONE", schedule |-> NoSchedule, reasons |-> {}, authority |-> NoAuthority]

Evidence == Segments \X BookingEvent
Revision == [segment : Segments, projection : CanonicalSegment, evidence : SUBSET Evidence]

Sibling(s, t) == BookingOf[s] = BookingOf[t]

\* Mutant: only the coupon's own documents can collide.
OwnEvents(known, s) == known[s]

\* The events of every coupon of the segment's booking, and of some coupons.
Family(known, s) == UNION {known[t] : t \in {t \in Segments : Sibling(s, t)}}

Supporting(known, T) == UNION {{<<t, e>> : e \in known[t]} : t \in T}

-----------------------------------------------------------------------------
(* One synchronization.                                                     *)

\* Mutant: only mail that is new to the store is read.
EligibleIfNew(mail, p, travelers) ==
  {m \in mail \ stored : Reading[p][m] # NoEvent /\ TravelerOf[BookingOf[SegmentOf[m]]] \in travelers}

\* Retained mail that the policy lets construct an event for a traveler named
\* by the caller: everything in mail_messages, not only the new batch.
Eligible(mail, p, travelers) ==
  {m \in mail : Reading[p][m] # NoEvent /\ TravelerOf[BookingOf[SegmentOf[m]]] \in travelers}

\* Mutant: mail that was read differently before is linked anew.
Relinked(eligible, p) == TRUE

\* "Event extraction changed; explicit reprocessing required"
Unchanged(eligible, p) == \A m \in eligible : link[m] \in {NoEvent, Reading[p][m]}

Learned(eligible, p) ==
  [s \in Segments |-> events[s] \cup {Reading[p][m] : m \in {m \in eligible : SegmentOf[m] = s}}]

\* Mutant: a synchronization refreshes the segments that its mail told it about.
ProjectedIfTouched(known) == {s \in Segments : known[s] # events[s]}

\* Every segment with events is projected again, with new evidence or without.
Projected(known) == {s \in Segments : known[s] # {}}

\* What the segment may come to show: rows of equal sequence have no fixed order.
Projections(known, s) ==
  {Constrain(Project(s, known[s], row), Family(known, s)) : row \in Rows(known[s])}

\* Mutant: a collision is recorded without the sibling that collides.
OwnEvidence(known, s) == Supporting(known, {s})

\* The rows a new revision is linked to.
RevisionEvidence(known, s) ==
  IF Collide(Family(known, s))
  THEN Supporting(known, {t \in Segments : Sibling(s, t)})
  ELSE Supporting(known, {s})

\* A revision is named by its content: one that was shown before is not written again.
Recorded(known, shown) ==
  revisions \cup
    {[segment |-> s, projection |-> shown[s], evidence |-> RevisionEvidence(known, s)] :
       s \in {s \in Projected(known) :
                ~\E r \in revisions : r.segment = s /\ r.projection = shown[s]}}

\* What the segments may show once the evidence is known.
Shown(known) ==
  LET choices == [s \in Segments |-> IF s \in Projected(known) THEN Projections(known, s) ELSE {current[s]}]
  IN {shown \in [Segments -> UNION {choices[s] : s \in Segments}] : \A s \in Segments : shown[s] \in choices[s]}

CommitSync(batch, p, travelers) ==
  LET mail == stored \cup batch
      eligible == Eligible(mail, p, travelers)
      known == Learned(eligible, p)
  IN /\ Unchanged(eligible, p)
     /\ stored' = mail
     /\ link' = [m \in Messages |-> IF m \in eligible THEN Reading[p][m] ELSE link[m]]
     /\ events' = known
     /\ \E shown \in Shown(known) :
          /\ current' = shown
          /\ revisions' = Recorded(known, shown)

\* A new database, or one upgraded from migration 1, whose mail was never projected.
Init ==
  /\ stored \in Batches \cup {{}}
  /\ link = [m \in Messages |-> NoEvent]
  /\ events = [s \in Segments |-> {}]
  /\ revisions = {}
  /\ current = [s \in Segments |-> NoProjection]

\* A batch may repeat stored mail, or be empty.
Next ==
  \E batch \in Batches, p \in Policies, travelers \in Callers :
    /\ Cardinality(stored \cup batch) <= MaxMessages
    /\ CommitSync(batch, p, travelers)

Spec == Init /\ [][Next]_vars

-----------------------------------------------------------------------------
(* Properties.                                                              *)

\* Provenance survives every later synchronization: an event has mail that is
\* linked to it, mail is linked to an event of its own coupon, and what a
\* segment shows is a revision whose evidence is among the events.
Traceable ==
  /\ \A m \in Messages : link[m] # NoEvent => m \in stored /\ link[m] \in events[SegmentOf[m]]
  /\ \A s \in Segments : \A e \in events[s] : \E m \in stored : SegmentOf[m] = s /\ link[m] = e
  /\ \A s \in Segments : events[s] # {} =>
       \E r \in revisions : r.segment = s /\ r.projection = current[s]
  /\ \A r \in revisions : \A x \in r.evidence : x[2] \in events[x[1]]

\* No segment is left behind: each shows the projection of all evidence about
\* its booking, also when the last synchronization brought nothing about it.
CurrentIsProjection ==
  \A s \in Segments :
    IF events[s] = {} THEN current[s] = NoProjection ELSE current[s] \in Projections(events, s)

\* The projection is independent of the order in which mail was processed and
\* rows are read: one history has one outcome.
OrderIrrelevant ==
  \A s \in Segments : events[s] # {} => Cardinality(Projections(events, s)) = 1

\* A revision can be audited: the evidence it was linked to when it was written
\* still yields the projection it holds.
RevisionsExplained ==
  \A r \in revisions :
    LET own == {x[2] : x \in {x \in r.evidence : x[1] = r.segment}}
        family == {x[2] : x \in r.evidence}
    IN \E row \in Rows(own) : r.projection = Constrain(Project(r.segment, own, row), family)

\* What the read path hands on: current_segments constrains once more.
Published(s) == Constrain(current[s], Family(events, s))

\* A segment ready for planning belongs to one lifetime, rests on no two claims
\* about one sequence number, and every cancellation it ever had was answered
\* by a reinstatement that names the last one.
ReadyIsSafe ==
  \A s \in Segments : PlanningReady(Published(s)) =>
    /\ \A t, u \in {t \in Segments : Sibling(s, t)} :
         \A d \in events[t], e \in events[u] : ~Collide({d, e})
    /\ \A d, e \in events[s] : d.authority.sequence = e.authority.sequence => Fact(d) = Fact(e)
    /\ \A c \in events[s] : IsCancellation(c) =>
         \E r, last \in events[s] :
           /\ IsCancellation(last) /\ r.reinstatement = [authority |-> last.authority, segment |-> s]
           /\ c.authority.sequence <= last.authority.sequence
           /\ last.authority.sequence < r.authority.sequence
           /\ r.authority.sequence <= Published(s).authority.sequence

\* A conflicting history stays conflicting, whatever arrives later.
ConflictPermanent ==
  [][\A s \in Segments : "CONFLICTING_EVENT_HISTORY" \in current[s].reasons =>
       "CONFLICTING_EVENT_HISTORY" \in current'[s].reasons]_vars

\* What a history says, without a walk through it: the newest event decides, but
\* the newest cancellation stands unless a reinstatement names it.
LastCancellation(E, c) ==
  c \in E /\ IsCancellation(c) /\ \A d \in E : IsCancellation(d) => d.authority.sequence <= c.authority.sequence

Names(r, c) == IsReinstatement(r) /\ r.reinstatement.authority = c.authority

\* The cancellation named is the state the reinstatement finds: nothing cancelled or
\* reinstated the coupon in between.
FindsCancelled(s, E, r) ==
  \E c \in E :
    /\ IsCancellation(c) /\ Names(r, c) /\ Older(c.authority, r.authority)
    /\ r.reinstatement.segment = s /\ ~IsCancellation(r)
    /\ \A x \in E : Older(c.authority, x.authority) /\ Older(x.authority, r.authority) =>
         ~IsCancellation(x) /\ ~IsReinstatement(x)

Verdict(s, E, e) ==
  LET ordered == Attributed(E)
  IN IF Conflict(E) \/ \E r \in E : IsReinstatement(r) /\ ~(ordered /\ FindsCancelled(s, E, r))
     THEN "UNRESOLVED"
     ELSE IF ordered /\ \E c \in E : LastCancellation(E, c) /\ ~\E r \in E : Names(r, c)
     THEN IF LastCancellation(E, e) THEN "CANCELLED" ELSE "PASSED OVER"
     ELSE IF \E x \in E : x.authority.sequence > e.authority.sequence THEN "PASSED OVER"
     ELSE IF IsCancellation(e) THEN "CANCELLED" ELSE "BOOKED"

\* The walk over the barrier is that reading: it shows the schedule of the event
\* that decides, and nothing when no event may.
CurrentIsVerdict ==
  \A s \in Segments : \A e \in events[s] :
    LET verdict == Verdict(s, events[s], e)
    IN IF Collide(Family(events, s)) THEN current[s].status \in {"CANCELLED", "UNRESOLVED"}
       ELSE CASE verdict = "UNRESOLVED" -> current[s].status = "UNRESOLVED"
              [] verdict = "PASSED OVER" -> TRUE
              [] OTHER -> current[s].status = verdict /\ current[s].schedule = e.schedule
=============================================================================
