----------------------- MODULE CalendarConflictProofs -----------------------
(***************************************************************************)
(* For every calendar, query, window and policy: what the calendar agent   *)
(* answers holds in everything the calendar may be.  The argument has two  *)
(* halves: the rules of the evaluator are right about one event (the       *)
(* lemmas on Assess), and the filter of the provider hides no event that   *)
(* could matter (UnselectedIsClear); the invariant says that between the   *)
(* read and the judgement the snapshot is what the filter selects.         *)
(***************************************************************************)
EXTENDS CalendarConflict, TLAPS

SnapshotInv ==
    /\ stage # "idle" => call \in Calls /\ Covers(call.query.window, call.window)
    /\ stage = "judging" => /\ snapshot = Selected(calendar, call.query)
                            /\ Acceptable(calendar, snapshot, call.query)

IInv ==
    /\ calendar \in Calendars
    /\ stage \in {"idle", "reading", "judging"}
    /\ SnapshotInv
    /\ VerdictIsSound

-----------------------------------------------------------------------------

\* Explicit facts that settle an event leave no reading in which it takes time.
LEMMA SettledIsClear ==
    ASSUME NEW e \in NormalizedEvents, NEW w \in Intervals, NEW policy \in Policies,
           Settled(e, w)
    PROVE  ~Possibly(e, w, policy)
<1> SUFFICES ASSUME NEW t \in Possibilities(e, w)
             PROVE  ~TakesTime(t, policy)
  BY DEF Possibly
<1>1. /\ t.status \in TrueStatuses(e)
      /\ t.availability \in TrueAvailabilities(e)
      /\ t.attendance \in TrueAttendances(e)
      /\ e.status # "REMOVED" => t.overlaps \in TrueOverlaps(e, w)
  BY DEF Possibilities
<1>2. e.status # "REMOVED"
  BY DEF Settled
<1>3. CASE e.status = "CANCELLED"
  BY <1>1, <1>3 DEF TrueStatuses, TakesTime
<1>4. CASE e.interval # NoInterval /\ ~Overlap(e.interval, w)
  BY <1>1, <1>2, <1>4 DEF TrueOverlaps, TakesTime
<1>5. CASE e.availability = "FREE"
  BY <1>1, <1>5 DEF TrueAvailabilities, TakesTime
<1>6. CASE e.role = "NON_PARTICIPANT" \/ (e.role = "ATTENDEE" /\ e.participation = "DECLINED")
  <2>1. t.attendance = "ABSENT"
    BY <1>1, <1>6 DEF TrueAttendances
  <2> QED  BY <2>1 DEF TakesTime
<1> QED  BY <1>3, <1>4, <1>5, <1>6 DEF Settled

\* An event that is neither settled nor unresolved has one reading.
LEMMA ResolvedIsKnown ==
    ASSUME NEW e \in NormalizedEvents, NEW w \in Intervals, NEW policy \in Policies,
           ~Settled(e, w), ~Unresolved(e),
           NEW t \in Possibilities(e, w)
    PROVE  TakesTime(t, policy) <=> ~Disregarded(e, policy)
<1>1. /\ t.status \in TrueStatuses(e)
      /\ t.availability \in TrueAvailabilities(e)
      /\ t.attendance \in TrueAttendances(e)
      /\ e.status # "REMOVED" => t.overlaps \in TrueOverlaps(e, w)
      /\ t.allDay = e.allDay
  BY DEF Possibilities
<1>2. e.status \in {"CONFIRMED", "TENTATIVE"} /\ e.interval # NoInterval
      /\ e.availability \in {"BUSY", "TENTATIVE"} /\ ~UnknownParticipation(e)
      /\ e.role \in {"ORGANIZER", "ATTENDEE"}
  BY DEF Settled, Unresolved, UnknownParticipation, NormalizedEvents, Statuses, Availabilities, Roles
<1>3. t.status = e.status /\ t.availability = e.availability
  BY <1>1, <1>2 DEF TrueStatuses, TrueAvailabilities
<1>4. t.overlaps = TRUE
  BY <1>1, <1>2 DEF TrueOverlaps, Settled
<1>5. t.attendance = IF e.participation = "TENTATIVE" THEN "MAYBE" ELSE "COMING"
  <2>1. CASE e.role = "ATTENDEE"
    BY <1>1, <1>2, <2>1 DEF TrueAttendances, UnknownParticipation
  <2>2. CASE e.role = "ORGANIZER"
    BY <1>1, <1>2, <2>2 DEF TrueAttendances, UnknownParticipation
  <2> QED  BY <1>2, <2>1, <2>2
<1>6. Tentative(e) <=> (t.status = "TENTATIVE" \/ t.availability = "TENTATIVE" \/ t.attendance = "MAYBE")
  BY <1>3, <1>5 DEF Tentative
<1>7. e.allDay \in BOOLEAN /\ policy.allDayBlocks \in BOOLEAN /\ policy.tentativeBlocks \in BOOLEAN
  BY DEF NormalizedEvents, Policies
<1> QED  BY <1>1, <1>2, <1>3, <1>4, <1>5, <1>6, <1>7 DEF TakesTime, Disregarded

\* Every event has a reading, so what is sure is possible.
LEMMA SomePossibility ==
    ASSUME NEW e \in NormalizedEvents, NEW w \in Intervals
    PROVE  Possibilities(e, w) # {}
<1>1. TrueStatuses(e) # {} /\ TrueAvailabilities(e) # {} /\ TrueOverlaps(e, w) # {}
  BY DEF TrueStatuses, TrueAvailabilities, TrueOverlaps
<1>2. TrueAttendances(e) # {}
  <2>1. CASE e.role = "NON_PARTICIPANT"
    <3>1. "ABSENT" \in TrueAttendances(e)
      BY <2>1 DEF TrueAttendances
    <3> QED  BY <3>1
  <2>2. CASE e.role = "UNKNOWN"
    <3>1. "COMING" \in TrueAttendances(e)
      BY <2>2 DEF TrueAttendances
    <3> QED  BY <3>1
  <2>3. CASE e.role = "ATTENDEE"
    <3>1. \E a \in {"COMING", "MAYBE", "ABSENT"} : a \in TrueAttendances(e)
      BY <2>3 DEF TrueAttendances
    <3> QED  BY <3>1
  <2>4. CASE e.role = "ORGANIZER"
    <3>1. \E a \in {"COMING", "MAYBE", "ABSENT"} : a \in TrueAttendances(e)
      BY <2>4 DEF TrueAttendances
    <3> QED  BY <3>1
  <2> QED  BY <2>1, <2>2, <2>3, <2>4 DEF NormalizedEvents, Roles
<1>3. PICK s \in TrueStatuses(e), v \in TrueAvailabilities(e), a \in TrueAttendances(e),
           o \in TrueOverlaps(e, w) : TRUE
  BY <1>1, <1>2
<1>4. o \in IF e.status = "REMOVED" THEN BOOLEAN ELSE TrueOverlaps(e, w)
  BY <1>3 DEF TrueOverlaps, Overlap
<1>5. [status |-> s, availability |-> v, attendance |-> a, overlaps |-> o, allDay |-> e.allDay]
        \in Possibilities(e, w)
  BY <1>3, <1>4 DEF Possibilities
<1> QED  BY <1>5

\* What the evaluator says of one event is right in every reading of it.
LEMMA AssessIsSound ==
    ASSUME NEW e \in NormalizedEvents, NEW w \in Intervals, NEW policy \in Policies
    PROVE  /\ Assess(e, w, policy) \in {"IGNORED", "UNKNOWN", "BLOCKING"}
           /\ Assess(e, w, policy) = "IGNORED" => ~Possibly(e, w, policy)
           /\ Assess(e, w, policy) = "BLOCKING" => Surely(e, w, policy)
<1>1. CASE Settled(e, w)
  BY <1>1, SettledIsClear DEF Assess
<1>2. CASE ~Settled(e, w) /\ Unresolved(e)
  BY <1>2 DEF Assess
<1>3. CASE ~Settled(e, w) /\ ~Unresolved(e)
  <2>1. Assess(e, w, policy) = IF Disregarded(e, policy) THEN "IGNORED" ELSE "BLOCKING"
    BY <1>3 DEF Assess
  <2>2. \A t \in Possibilities(e, w) : TakesTime(t, policy) <=> ~Disregarded(e, policy)
    BY <1>3, ResolvedIsKnown
  <2>3. Possibilities(e, w) # {}
    BY SomePossibility
  <2> QED  BY <2>1, <2>2, <2>3 DEF Possibly, Surely
<1> QED  BY <1>1, <1>2, <1>3

\* An event that the provider leaves out is clear of every window in the query.
LEMMA UnselectedIsClear ==
    ASSUME NEW c \in Calendars, NEW q \in Queries, NEW w \in Intervals, NEW policy \in Policies,
           Covers(q.window, w), NEW k \in DOMAIN c, k \notin Selected(c, q)
    PROVE  ~Possibly(c[k], w, policy)
<1>1. c[k] \in NormalizedEvents /\ q.window \in Intervals
  BY CalendarAssumption
<1>2. c[k].interval # NoInterval /\ c[k].status # "REMOVED" /\ ~Overlap(c[k].interval, q.window)
  BY DEF Selected
<1>3. c[k].interval \in Intervals
  BY <1>1, <1>2 DEF NormalizedEvents
<1>4. ~Overlap(c[k].interval, w)
  BY <1>1, <1>2, <1>3 DEF Overlap, Covers, Intervals
<1>5. Settled(c[k], w)
  BY <1>2, <1>4 DEF Settled
<1> QED  BY <1>1, <1>5, SettledIsClear

\* The verdict on a snapshot holds in everything the calendar may be.
LEMMA EvaluationIsSound ==
    ASSUME NEW c \in Calendars, NEW a \in Calls, Covers(a.query.window, a.window)
    PROVE  LET v == Evaluation(c, Selected(c, a.query), a.window, a.asOf, a.policy)
           IN /\ v.state = "CONFLICT" =>
                   \E k \in DOMAIN c : Surely(c[k], a.window, a.policy)
              /\ v.state = "NO_CONFLICT" =>
                   \A k \in DOMAIN c : ~Possibly(c[k], a.window, a.policy)
<1> DEFINE keys == Selected(c, a.query)
           effects == {Assess(c[k], a.window, a.policy) : k \in keys}
           stamps == {RetrievedAt} \cup {c[k].observed : k \in keys}
           v == Evaluation(c, keys, a.window, a.asOf, a.policy)
<1>1. a.window \in Intervals /\ a.policy \in Policies /\ a.query \in Queries
  BY CalendarAssumption DEF Calls
<1>2. keys \subseteq DOMAIN c /\ \A k \in DOMAIN c : c[k] \in NormalizedEvents
  BY CalendarAssumption DEF Selected
<1>3. \A k \in keys :
        /\ Assess(c[k], a.window, a.policy) \in {"IGNORED", "UNKNOWN", "BLOCKING"}
        /\ Assess(c[k], a.window, a.policy) = "IGNORED" => ~Possibly(c[k], a.window, a.policy)
        /\ Assess(c[k], a.window, a.policy) = "BLOCKING" => Surely(c[k], a.window, a.policy)
  BY <1>1, <1>2, AssessIsSound
<1>4. \A k \in DOMAIN c \ keys : ~Possibly(c[k], a.window, a.policy)
  BY <1>1, UnselectedIsClear
<1>5. effects \subseteq {"IGNORED", "UNKNOWN", "BLOCKING"}
  BY <1>3
<1>6. v = IF \E stamp \in stamps : ~FreshAt(stamp, a.asOf)
            THEN Verdict("UNKNOWN", FALSE)
            ELSE Verdict(CASE "BLOCKING" \in effects -> "CONFLICT"
                           [] "BLOCKING" \notin effects /\ "UNKNOWN" \in effects -> "UNKNOWN"
                           [] effects \subseteq {"IGNORED"} -> "NO_CONFLICT",
                         "UNKNOWN" \notin effects)
  BY DEF Evaluation
<1> HIDE DEF v, effects, stamps, keys
<1>7. v.state = "CONFLICT" => "BLOCKING" \in effects
  BY <1>5, <1>6 DEF Verdict
<1>8. v.state = "NO_CONFLICT" => effects \subseteq {"IGNORED"}
  BY <1>5, <1>6 DEF Verdict
<1>9. "BLOCKING" \in effects => \E k \in keys : Surely(c[k], a.window, a.policy)
  BY <1>3 DEF effects
<1>10. effects \subseteq {"IGNORED"} => \A k \in keys : ~Possibly(c[k], a.window, a.policy)
  BY <1>3 DEF effects
<1> QED  BY <1>2, <1>4, <1>7, <1>8, <1>9, <1>10 DEF v, keys

-----------------------------------------------------------------------------

LEMMA InitIInv == Init => IInv
<1> SUFFICES ASSUME Init PROVE IInv
  OBVIOUS
<1>1. answer.state = "PENDING"
  BY DEF Init, Pending, Failure, Verdict
<1> QED  BY <1>1 DEF Init, IInv, SnapshotInv, VerdictIsSound, Judged, Verdicts

LEMMA NextIInv == IInv /\ [Next]_vars => IInv'
<1> SUFFICES ASSUME IInv, [Next]_vars PROVE IInv'
  OBVIOUS
<1> USE DEF IInv, SnapshotInv
<1>1. CASE Ask
  <2>1. PICK c \in Calls : Covers(c.query.window, c.window) /\ call' = c
    BY <1>1 DEF Ask
  <2>2. calendar' = calendar /\ stage' = "reading"
    BY <1>1 DEF Ask
  <2> QED  BY <2>1, <2>2 DEF VerdictIsSound, Judged
<1>2. CASE AskTooWide
  <2>1. answer'.state = "VALUE_ERROR" /\ stage' = "idle"
    BY <1>2 DEF AskTooWide, Failure, Verdict
  <2> QED  BY <1>2, <2>1 DEF AskTooWide, VerdictIsSound, Judged, Verdicts
<1>3. CASE ReadEvents
  <2>1. CASE Acceptable(calendar, Selected(calendar, call.query), call.query)
    BY <1>3, <2>1 DEF ReadEvents, VerdictIsSound, Judged
  <2>2. CASE ~Acceptable(calendar, Selected(calendar, call.query), call.query)
    <3>1. answer'.state = "INVALID_RESPONSE" /\ stage' = "idle" /\ calendar' = calendar
      BY <1>3, <2>2 DEF ReadEvents, Return, Failure, Verdict
    <3> QED  BY <3>1 DEF VerdictIsSound, Judged, Verdicts
  <2> QED  BY <2>1, <2>2
<1>4. CASE ProviderFails
  <2>1. answer'.state \in Errors /\ stage' = "idle" /\ calendar' = calendar
    BY <1>4 DEF ProviderFails, Return, Failure, Verdict
  <2> QED  BY <2>1 DEF VerdictIsSound, Judged, Verdicts, Errors
<1>5. CASE Evaluate
  <2>1. /\ answer' = Evaluation(calendar, Selected(calendar, call.query),
                               call.window, call.asOf, call.policy)
        /\ stage' = "idle" /\ calendar' = calendar /\ call' = call
        /\ call \in Calls /\ Covers(call.query.window, call.window)
    BY <1>5 DEF Evaluate, Return
  <2>2. VerdictIsSound'
    BY <2>1, EvaluationIsSound DEF VerdictIsSound
  <2> QED  BY <2>1, <2>2
<1>6. CASE UNCHANGED vars
  BY <1>6 DEF vars, VerdictIsSound, Judged
<1> QED  BY <1>1, <1>2, <1>3, <1>4, <1>5, <1>6 DEF Next

\* Whatever the calendar, the query, the window and the policy, and whichever
\* facts the provider could not establish, a CONFLICT is surely one and after
\* NO_CONFLICT nothing in the whole calendar possibly takes the traveller's time.
THEOREM VerdictsAreSound == Spec => []VerdictIsSound
<1>1. IInv => VerdictIsSound
  BY DEF IInv
<1> QED  BY <1>1, InitIInv, NextIInv, PTL DEF Spec

-----------------------------------------------------------------------------
(* A verdict is unreliable only with a reason.                               *)

\* A reading of every fact is a possibility.
LEMMA ReadingsArePossible ==
    ASSUME NEW e, NEW w, e.status # "REMOVED",
           NEW status \in TrueStatuses(e), NEW availability \in TrueAvailabilities(e),
           NEW attendance \in TrueAttendances(e), NEW overlaps \in TrueOverlaps(e, w)
    PROVE  [status |-> status, availability |-> availability, attendance |-> attendance,
            overlaps |-> overlaps, allDay |-> e.allDay] \in Possibilities(e, w)
BY DEF Possibilities

\* What nothing settles may be a commitment.
LEMMA UnsettledIsPossible ==
    ASSUME NEW e \in NormalizedEvents, NEW w \in Intervals, ~Settled(e, w), e.status # "REMOVED"
    PROVE  Possibly(e, w, Strictest)
<1>1. PICK status \in TrueStatuses(e) : status # "CANCELLED"
  BY DEF Settled, TrueStatuses
<1>2. PICK availability \in TrueAvailabilities(e) : availability # "FREE"
  BY DEF Settled, TrueAvailabilities
<1>3. PICK attendance \in TrueAttendances(e) : attendance # "ABSENT"
  <2>1. CASE e.role \in {"UNKNOWN", "ORGANIZER"}
    <3>1. "COMING" \in TrueAttendances(e) \/ "MAYBE" \in TrueAttendances(e)
      BY <2>1 DEF TrueAttendances
    <3> QED  BY <3>1
  <2>2. CASE e.role = "ATTENDEE"
    <3>1. e.participation # "DECLINED"
      BY <2>2 DEF Settled
    <3>2. "COMING" \in TrueAttendances(e) \/ "MAYBE" \in TrueAttendances(e)
      BY <2>2, <3>1 DEF TrueAttendances
    <3> QED  BY <3>2
  <2> QED  BY <2>1, <2>2 DEF Settled, NormalizedEvents, Roles
<1>4. TRUE \in TrueOverlaps(e, w)
  BY DEF Settled, TrueOverlaps, Overlap
<1> DEFINE t == [status |-> status, availability |-> availability, attendance |-> attendance,
                 overlaps |-> TRUE, allDay |-> e.allDay]
<1>5. t \in Possibilities(e, w)
  BY <1>4, ReadingsArePossible
<1>6. TakesTime(t, Strictest)
  BY <1>1, <1>2, <1>3 DEF TakesTime, Strictest
<1> QED  BY <1>5, <1>6 DEF Possibly

\* What lacks a fact may be none.
LEMMA UnresolvedIsUnsure ==
    ASSUME NEW e \in NormalizedEvents, NEW w \in Intervals,
           ~Settled(e, w), Unresolved(e), e.status # "REMOVED"
    PROVE  \E t \in Possibilities(e, w) : ~TakesTime(t, Strictest)
<1>1. PICK s \in Possibilities(e, w) : TakesTime(s, Strictest)
  BY UnsettledIsPossible DEF Possibly
<1>2. /\ s.status \in TrueStatuses(e) /\ s.availability \in TrueAvailabilities(e)
      /\ s.attendance \in TrueAttendances(e) /\ s.overlaps \in TrueOverlaps(e, w)
  BY DEF Possibilities
<1>3. CASE "CANCELLED" \in TrueStatuses(e)
  <2>1. [status |-> "CANCELLED", availability |-> s.availability, attendance |-> s.attendance,
         overlaps |-> s.overlaps, allDay |-> e.allDay] \in Possibilities(e, w)
    BY <1>2, <1>3, ReadingsArePossible
  <2> QED  BY <2>1 DEF TakesTime
<1>4. CASE "FREE" \in TrueAvailabilities(e)
  <2>1. [status |-> s.status, availability |-> "FREE", attendance |-> s.attendance,
         overlaps |-> s.overlaps, allDay |-> e.allDay] \in Possibilities(e, w)
    BY <1>2, <1>4, ReadingsArePossible
  <2> QED  BY <2>1 DEF TakesTime
<1>5. CASE "ABSENT" \in TrueAttendances(e)
  <2>1. [status |-> s.status, availability |-> s.availability, attendance |-> "ABSENT",
         overlaps |-> s.overlaps, allDay |-> e.allDay] \in Possibilities(e, w)
    BY <1>2, <1>5, ReadingsArePossible
  <2> QED  BY <2>1 DEF TakesTime
<1>6. CASE FALSE \in TrueOverlaps(e, w)
  <2>1. [status |-> s.status, availability |-> s.availability, attendance |-> s.attendance,
         overlaps |-> FALSE, allDay |-> e.allDay] \in Possibilities(e, w)
    BY <1>2, <1>6, ReadingsArePossible
  <2> QED  BY <2>1 DEF TakesTime
<1>7. CASE e.status = "UNKNOWN"
  BY <1>3, <1>7 DEF TrueStatuses
<1>8. CASE e.interval = NoInterval
  BY <1>6, <1>8 DEF TrueOverlaps
<1>9. CASE e.availability = "UNKNOWN"
  BY <1>4, <1>9 DEF TrueAvailabilities
<1>10. CASE UnknownParticipation(e)
  <2>1. \/ e.role = "UNKNOWN"
        \/ e.role = "ATTENDEE" /\ e.participation \notin {"ACCEPTED", "TENTATIVE", "DECLINED"}
        \/ e.role = "ORGANIZER" /\ e.participation \in {"DECLINED", "NEEDS_ACTION"}
    BY <1>10 DEF UnknownParticipation, Settled
  <2>2. TrueAttendances(e) = {"COMING", "MAYBE", "ABSENT"}
    BY <2>1 DEF TrueAttendances
  <2> QED  BY <1>5, <2>2
<1> QED  BY <1>7, <1>8, <1>9, <1>10 DEF Unresolved

\* An event that the evaluator cannot decide is open.
LEMMA UnknownIsDue ==
    ASSUME NEW e \in NormalizedEvents, NEW w \in Intervals, NEW policy \in Policies,
           Assess(e, w, policy) = "UNKNOWN"
    PROVE  LeftOpen(e, w)
<1>1. ~Settled(e, w) /\ Unresolved(e)
  BY DEF Assess
<1> QED  BY <1>1, UnsettledIsPossible, UnresolvedIsUnsure DEF LeftOpen, Surely

\* The reasons DoubtIsDue allows, for a calendar c and a call a.
Doubtful(c, a) ==
    \/ RetrievedAt > a.asOf \/ RetrievedAt + MaxAge < a.asOf
    \/ \E k \in DOMAIN c :
         \/ c[k].observed + MaxAge < a.asOf
         \/ LeftOpen(c[k], a.window)

\* Evidence is stale for its age or comes from after as_of; the provider answers
\* with nothing it observed later than the snapshot.
LEMMA EvaluationDoubts ==
    ASSUME NEW c \in Calendars, NEW a \in Calls, NEW keys \in SUBSET DOMAIN c,
           Acceptable(c, keys, a.query),
           Evaluation(c, keys, a.window, a.asOf, a.policy).reliable = FALSE
    PROVE  Doubtful(c, a)
<1> DEFINE effects == {Assess(c[k], a.window, a.policy) : k \in keys}
           stamps == {RetrievedAt} \cup {c[k].observed : k \in keys}
<1>1. a.window \in Intervals /\ a.policy \in Policies /\ a.asOf \in Nat
      /\ RetrievedAt \in Nat /\ MaxAge \in Nat
  BY CalendarAssumption DEF Calls
<1>2. \A k \in DOMAIN c : c[k] \in NormalizedEvents /\ c[k].observed \in Nat
  BY CalendarAssumption DEF NormalizedEvents
<1>3. (\E stamp \in stamps : ~FreshAt(stamp, a.asOf)) \/ "UNKNOWN" \in effects
  <2> SUFFICES ASSUME ~\E stamp \in stamps : ~FreshAt(stamp, a.asOf)
               PROVE  "UNKNOWN" \in effects
    OBVIOUS
  <2>1. Evaluation(c, keys, a.window, a.asOf, a.policy)
          = Verdict(CASE "BLOCKING" \in effects -> "CONFLICT"
                      [] "BLOCKING" \notin effects /\ "UNKNOWN" \in effects -> "UNKNOWN"
                      [] effects \subseteq {"IGNORED"} -> "NO_CONFLICT",
                    "UNKNOWN" \notin effects)
    BY DEF Evaluation
  <2> HIDE DEF effects, stamps
  <2>2. Evaluation(c, keys, a.window, a.asOf, a.policy).reliable = ("UNKNOWN" \notin effects)
    BY <2>1 DEF Verdict
  <2> QED  BY <2>2
<1>4. ASSUME NEW stamp \in stamps, ~FreshAt(stamp, a.asOf)
      PROVE  Doubtful(c, a)
  <2>1. CASE stamp = RetrievedAt
    <3>1. RetrievedAt > a.asOf \/ RetrievedAt + MaxAge < a.asOf
      BY <1>1, <1>4, <2>1 DEF FreshAt
    <3> QED  BY <3>1 DEF Doubtful
  <2>2. CASE \E k \in keys : stamp = c[k].observed
    <3>1. PICK k \in keys : stamp = c[k].observed
      BY <2>2
    <3>2. c[k].observed \in Nat /\ c[k].observed <= RetrievedAt /\ k \in DOMAIN c
      BY <1>2 DEF Acceptable
    <3>3. c[k].observed > a.asOf \/ c[k].observed + MaxAge < a.asOf
      BY <1>1, <1>4, <3>1, <3>2 DEF FreshAt
    <3>4. RetrievedAt > a.asOf \/ c[k].observed + MaxAge < a.asOf
      BY <1>1, <3>2, <3>3
    <3> QED  BY <3>2, <3>4 DEF Doubtful
  <2> QED  BY <2>1, <2>2
<1>5. ASSUME "UNKNOWN" \in effects
      PROVE  Doubtful(c, a)
  <2>1. PICK k \in keys : Assess(c[k], a.window, a.policy) = "UNKNOWN"
    BY <1>5
  <2>2. LeftOpen(c[k], a.window)
    BY <1>1, <1>2, <2>1, UnknownIsDue
  <2> QED  BY <2>2 DEF Doubtful
<1> QED  BY <1>3, <1>4, <1>5

LEMMA DoubtStep == IInv /\ DoubtIsDue /\ [Next]_vars => DoubtIsDue'
<1> SUFFICES ASSUME IInv, DoubtIsDue, [Next]_vars, Judged', ~answer'.reliable
             PROVE  Doubtful(calendar', call')
  BY DEF DoubtIsDue, Doubtful
<1>1. CASE UNCHANGED vars
  BY <1>1 DEF vars, DoubtIsDue, Doubtful, Judged
<1>2. CASE Evaluate
  <2>1. /\ answer' = Evaluation(calendar, snapshot, call.window, call.asOf, call.policy)
        /\ calendar' = calendar /\ call' = call
        /\ call \in Calls /\ calendar \in Calendars
        /\ snapshot \in SUBSET DOMAIN calendar /\ Acceptable(calendar, snapshot, call.query)
    BY <1>2 DEF Evaluate, Return, IInv, SnapshotInv, Selected
  <2>2. Evaluation(calendar, snapshot, call.window, call.asOf, call.policy).reliable \in BOOLEAN
    BY DEF Evaluation, Verdict
  <2>3. Doubtful(calendar, call)
    BY <2>1, <2>2, EvaluationDoubts
  <2> QED  BY <2>1, <2>3
<1>3. CASE Ask \/ AskTooWide \/ ReadEvents \/ ProviderFails
  <2>1. ~Judged'
    BY <1>3 DEF Ask, AskTooWide, ReadEvents, ProviderFails, Return, Failure, Verdict, Judged, Verdicts, Errors, Pending
  <2> QED  BY <2>1
<1> QED  BY <1>1, <1>2, <1>3 DEF Next

\* DoubtIsDue: the agent calls an answer unreliable only for evidence that is
\* too old or from after as_of, or for an event that may and may not be a
\* commitment in the window - whatever the provider's filter returns besides.
THEOREM DoubtsAreDue == Spec => []DoubtIsDue
<1>1. Init => DoubtIsDue
  <2>1. Init => answer.state = "PENDING"
    BY DEF Init, Pending, Failure, Verdict
  <2> QED  BY <2>1 DEF DoubtIsDue, Judged, Verdicts
<1>2. Spec => []IInv
  BY InitIInv, NextIInv, PTL DEF Spec
<1> QED  BY <1>1, <1>2, DoubtStep, PTL DEF Spec
=============================================================================
