---------------------------- MODULE MailBookings ----------------------------
(***************************************************************************)
(* MailSync and BookingRepository as one: the transaction of commit_sync   *)
(* that moves an account's checkpoint is the one that projects the         *)
(* bookings, so a run carries both forward or neither.                     *)
(*                                                                         *)
(* A run's deployment has a policy and authorizes travelers; nothing looks *)
(* at either before the commit, where they are chosen.                     *)
(***************************************************************************)
EXTENDS MailSync

CONSTANTS
  Segments, Lifetimes, MaxSequence, Schedules, Complete, NoSegment, NoLifetime, NoSchedule,
  Bookings, BookingOf, Travelers, TravelerOf, Callers, SegmentOf, Policies, Reading

ASSUME FiniteMessages == IsFiniteSet(Messages)
ASSUME CouponsAssumption == SegmentOf \in [Messages -> Segments]
ASSUME SequenceAssumption == MaxSequence \in Nat

VARIABLES link, events, revisions, current   \* as in BookingRepository

projection == <<link, events, revisions, current>>

Booked == INSTANCE BookingRepository WITH
            Batches <- SUBSET Messages, MaxMessages <- Cardinality(Messages)

ASSUME ReadingAssumption ==
  Reading \in [Policies -> [Messages -> Booked!BookingEvent \cup {Booked!NoEvent}]]

LiveInit == Init /\ Booked!Init

CommitBookings(r) ==
  /\ Commit(r)
  /\ \E p \in Policies, travelers \in Callers :
       Booked!CommitSync(answer[r].messages, p, travelers)

LiveNext ==
  \/ Other /\ UNCHANGED projection
  \/ \E r \in Runners : CommitBookings(r)

LiveSpec == LiveInit /\ [][LiveNext]_<<vars, projection>>

(***************************************************************************)
(* Properties.                                                             *)
(***************************************************************************)

\* Every deployment reads an event from the message and authorizes its traveler.
Granted(m) ==
  /\ \A p \in Policies : Reading[p][m] # Booked!NoEvent
  /\ \A travelers \in Callers : TravelerOf[BookingOf[SegmentOf[m]]] \in travelers

\* All mail that was ever retained, by a run or by migration 1, though it may have left
\* the mailbox or fallen behind the window since, and all that the mailbox showed at
\* the cursor's position.
Gathered == stored \cup (mailbox[sync.cursor.position] \cap InWindow(sync.cursor.lower))

\* A cursor never outruns the bookings.  Once a run has completed, all mail gathered
\* so far is linked to an event of its coupon and the coupon is shown - whether the
\* run was full or incremental, and whichever run or upgrade brought the message.
CursorCarriesBookings ==
  runs # {} =>
    \A m \in Gathered :
      Granted(m) =>
        /\ link[m] # Booked!NoEvent /\ link[m] \in events[SegmentOf[m]]
        /\ current[SegmentOf[m]] # Booked!NoProjection

\* Some deployment reads a reinstatement of the coupon from retained mail.
ReinstatedByMail(s) ==
  \E n \in stored, p \in Policies : SegmentOf[n] = s /\ Booked!IsReinstatement(Reading[p][n])

\* Once a run has completed, mail that every deployment reads as a cancellation keeps
\* its coupon from planning, however old it is, whatever followed it and whether or not
\* the mailbox still shows it, unless other mail reinstates the coupon.
CancellationsReachPlans ==
  runs # {} =>
    \A m \in Gathered :
      /\ Granted(m) /\ \A p \in Policies : Booked!IsCancellation(Reading[p][m])
      /\ ~ReinstatedByMail(SegmentOf[m])
      => ~Booked!PlanningReady(Booked!Published(SegmentOf[m]))

\* Whatever runs overlap, fail or die, the projection takes only the steps that
\* BookingRepository allows: a synchronization projects everything or nothing.
ImplementsBookings == Booked!Spec
=============================================================================
