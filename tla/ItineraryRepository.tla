------------------------ MODULE ItineraryRepository ------------------------
(***************************************************************************)
(* The SQLite store behind itinerary monitoring:                           *)
(* travel_agent/itinerary/repository.py.                                   *)
(*                                                                         *)
(* One variable per table.  Every operator below that primes variables is  *)
(* the body of one `with self.connection:` block, so it commits as a whole *)
(* or, when the process dies or SQLite raises inside it, not at all.       *)
(* refresh_runs and the text columns are audit data that no property tells *)
(* apart and are left out; planning_attempts is kept as one sequence per   *)
(* (segment, trigger), whose index is attempt_number.                      *)
(***************************************************************************)
EXTENDS Naturals, Sequences, FiniteSets

CONSTANTS
  Itineraries,   \* itinerary_id of the one configured source
  Segments,      \* segment_id
  ItineraryOf,   \* segment_id is derived from its itinerary_id and never moves
  Times,         \* local date-times, as numbers
  NoFacts        \* the schedule columns of a row that was never written

ASSUME ItineraryOfAssumption == ItineraryOf \in [Segments -> Itineraries]
ASSUME SegmentsAssumption == IsFiniteSet(Segments)
ASSUME TimesAssumption == Times \subseteq Nat

VARIABLES
  itineraries,   \* current_revision (0: no row) and presence_status
  revisions,     \* itinerary_revisions: normalized_snapshot_json by revision
  segments,      \* segments: schedule, presence_status, current_revision
  automatic,     \* automatic_planning_state, state "NONE" when there is no row
  attempts       \* planning_attempts by segment and trigger

repositoryVars == <<itineraries, revisions, segments, automatic, attempts>>

Triggers == {"AUTOMATIC_LEAD_TIME", "USER_REQUEST"}
ByLeadTime == "AUTOMATIC_LEAD_TIME"
BookingStatus == {"CONFIRMED", "CANCELLED"}
Presence == {"PRESENT", "MISSING_FROM_SOURCE"}
ExecutionState == {"NOT_ACTIVATED", "PLANNING", "COMPLETED", "FAILED"}

\* The fields of a BookedSegment that a decision reads.
Facts == [departure : Times, status : BookingStatus]

\* The normalized segments of one itinerary, by segment_id.
Snapshot == UNION {[S -> Facts] : S \in SUBSET Segments}

Attempt == [state : {"PLANNING", "COMPLETED", "FAILED"},
            revision : Nat, asOf : Times, facts : Facts]

\* Rows, and what stands for a row that was never written.
NoItinerary == [revision |-> 0, presence |-> "NONE"]
ItineraryRow == [revision : Nat \ {0}, presence : Presence]
NoRow == [facts |-> NoFacts, presence |-> "NONE", revision |-> 0]
SegmentRow == [facts : Facts, presence : Presence, revision : Nat \ {0}]

RepositoryTypeOK ==
  /\ itineraries \in [Itineraries -> ItineraryRow \cup {NoItinerary}]
  /\ revisions \in [Itineraries -> Seq(Snapshot)]
  /\ segments \in [Segments -> SegmentRow \cup {NoRow}]
  /\ automatic \in [Segments -> [state : ExecutionState \cup {"NONE"},
                                 last : Nat, completed : Nat]]
  /\ attempts \in [Segments -> [Triggers -> Seq(Attempt)]]

RepositoryInit ==
  /\ itineraries = [i \in Itineraries |-> NoItinerary]
  /\ revisions = [i \in Itineraries |-> <<>>]
  /\ segments = [s \in Segments |-> NoRow]
  /\ automatic = [s \in Segments |-> [state |-> "NONE", last |-> 0, completed |-> 0]]
  /\ attempts = [s \in Segments |-> [t \in Triggers |-> <<>>]]

(***************************************************************************)
(* Applying a validated snapshot.  `batch' maps the itineraries the source *)
(* returned to their normalized segments; a known itinerary it lacks goes  *)
(* missing with all its segments.                                          *)
(***************************************************************************)

Known(i) == itineraries[i].presence # "NONE"

Changed(batch, i) ==
  \/ ~Known(i)
  \/ revisions[i][itineraries[i].revision] # batch[i]

RevisionAfter(batch, i) ==
  itineraries[i].revision + (IF Changed(batch, i) THEN 1 ELSE 0)

ItineraryAfter(batch, i) ==
  IF i \in DOMAIN batch
  THEN [revision |-> RevisionAfter(batch, i), presence |-> "PRESENT"]
  ELSE IF Known(i)
       THEN [itineraries[i] EXCEPT !.presence = "MISSING_FROM_SOURCE"]
       ELSE NoItinerary

\* Mutant of MarkMissing: the reset before the upserts is left out.
KeepRow(row) == row

\* The row of a segment before the upserts: its itinerary was seen or is gone.
MarkMissing(row) ==
  IF row = NoRow THEN NoRow ELSE [row EXCEPT !.presence = "MISSING_FROM_SOURCE"]

SegmentAfter(batch, s) ==
  LET i == ItineraryOf[s]
  IN  IF i \in DOMAIN batch /\ s \in DOMAIN batch[i]
      THEN [facts |-> batch[i][s], presence |-> "PRESENT",
            revision |-> RevisionAfter(batch, i)]
      ELSE MarkMissing(segments[s])

\* Mutant of ApplySnapshot: a known itinerary's revision is replaced in place.
ApplyInPlace(batch) ==
  /\ itineraries' = [i \in Itineraries |->
       [ItineraryAfter(batch, i) EXCEPT !.revision = IF Known(i) THEN 1 ELSE @]]
  /\ revisions' = [i \in Itineraries |->
       IF i \in DOMAIN batch THEN <<batch[i]>> ELSE revisions[i]]
  /\ segments' = [s \in Segments |-> SegmentAfter(batch, s)]
  /\ UNCHANGED <<automatic, attempts>>

ApplySnapshot(batch) ==
  /\ itineraries' = [i \in Itineraries |-> ItineraryAfter(batch, i)]
  /\ revisions' = [i \in Itineraries |->
       IF i \in DOMAIN batch /\ Changed(batch, i)
       THEN Append(revisions[i], batch[i]) ELSE revisions[i]]
  /\ segments' = [s \in Segments |-> SegmentAfter(batch, s)]
  /\ UNCHANGED <<automatic, attempts>>

\* list_current_segments: what a monitor walks over, as read from the rows.
CurrentSegments ==
  [s \in {x \in Segments : /\ segments[x].presence = "PRESENT"
                           /\ itineraries[ItineraryOf[x]].presence = "PRESENT"}
     |-> segments[s].facts]

UpcomingSegments(asOf) ==
  [s \in {x \in DOMAIN CurrentSegments :
            /\ CurrentSegments[x].status = "CONFIRMED"
            /\ CurrentSegments[x].departure > asOf} |-> CurrentSegments[s]]

(***************************************************************************)
(* Automatic execution state and planning attempts.                        *)
(***************************************************************************)

AutomaticState(s) ==
  IF automatic[s].state = "NONE" THEN "NOT_ACTIVATED" ELSE automatic[s].state

\* INSERT OR IGNORE of the NOT_ACTIVATED row; the other tables are the caller's.
InitializeAutomaticState(s) ==
  automatic' = [automatic EXCEPT ![s].state = AutomaticState(s)]

\* Mutants of CanStart: a completed execution may be repeated; a failed one not.
CanRepeat(state) == state \in {"NOT_ACTIVATED", "FAILED", "COMPLETED"}
CanStartOnce(state) == state = "NOT_ACTIVATED"

CanStart(state) == state \in {"NOT_ACTIVATED", "FAILED"}

Running(s, trigger) ==
  {n \in DOMAIN attempts[s][trigger] : attempts[s][trigger][n].state = "PLANNING"}

\* start_attempt raises, or the index one_running_automatic refuses the row.
StartRefused(s, trigger) ==
  trigger = ByLeadTime /\ (~CanStart(AutomaticState(s)) \/ Running(s, trigger) # {})

\* Mutant of StartAttempt: the summary row is not moved to PLANNING.
StartUnrecorded(s, trigger, facts, asOf) ==
  LET row == [state |-> "PLANNING", revision |-> segments[s].revision,
              asOf |-> asOf, facts |-> facts]
  IN  /\ ~StartRefused(s, trigger)
      /\ attempts' = [attempts EXCEPT ![s][trigger] = Append(@, row)]
      /\ UNCHANGED <<itineraries, revisions, segments, automatic>>

StartAttempt(s, trigger, facts, asOf) ==
  LET row == [state |-> "PLANNING", revision |-> segments[s].revision,
              asOf |-> asOf, facts |-> facts]
  IN  /\ ~StartRefused(s, trigger)
      /\ attempts' = [attempts EXCEPT ![s][trigger] = Append(@, row)]
      /\ automatic' = IF trigger = ByLeadTime
           THEN [automatic EXCEPT ![s].state = "PLANNING",
                                  ![s].last = Len(attempts[s][trigger]) + 1]
           ELSE automatic
      /\ UNCHANGED <<itineraries, revisions, segments>>

\* Mutant of FinishAttempt: the summary row is written for any trigger.
FinishAnyAttempt(s, trigger, n, state) ==
  /\ attempts[s][trigger][n].state = "PLANNING"
  /\ attempts' = [attempts EXCEPT ![s][trigger][n].state = state]
  /\ automatic' = [automatic EXCEPT ![s].state = state]
  /\ UNCHANGED <<itineraries, revisions, segments>>

FinishAttempt(s, trigger, n, state) ==
  /\ attempts[s][trigger][n].state = "PLANNING"
  /\ attempts' = [attempts EXCEPT ![s][trigger][n].state = state]
  /\ automatic' = IF trigger = ByLeadTime
       THEN [automatic EXCEPT ![s].state = state,
                              ![s].completed = IF state = "COMPLETED" THEN n ELSE 0]
       ELSE automatic
  /\ UNCHANGED <<itineraries, revisions, segments>>

\* The rows recover_interrupted selects: automatic attempts still PLANNING.
Interrupted(s) == Running(s, ByLeadTime)
=============================================================================
