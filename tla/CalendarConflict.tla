-------------------------- MODULE CalendarConflict --------------------------
(***************************************************************************)
(* CalendarReadAgent.evaluate_window: the traveller's calendar is read     *)
(* through a provider for a query window, and the snapshot is judged for a *)
(* travel window within it: CONFLICT, NO_CONFLICT or UNKNOWN.              *)
(*                                                                         *)
(* The provider is FixtureCalendarProvider, whose filter decides which     *)
(* events a snapshot holds, or any other that fails or answers for another *)
(* query.  An event carries the facts the provider could establish; a fact *)
(* that it could not is UNKNOWN or missing, and the module defines what    *)
(* the calendar may really be (Possibilities) apart from how the evaluator *)
(* reads it.                                                               *)
(*                                                                         *)
(* Left out: titles and identifiers, the checks of Python types, the       *)
(* reasons and tokens that explain a verdict, and time zones, which reach  *)
(* the evaluator as an interval or as none (a span of days in an unknown   *)
(* zone, or with a boundary that a clock change makes ambiguous).          *)
(***************************************************************************)
EXTENDS Naturals, FiniteSets

CONSTANTS
    Calendars,   \* what the account may hold: functions from keys to facts
    Queries,     \* [window, max]: the reads callers ask for
    Windows,     \* the travel windows callers ask about
    Instants,    \* the values of as_of
    RetrievedAt, \* when the provider observed the calendar
    MaxAge,      \* CalendarPolicy.max_age
    NoInterval,  \* a period that is missing or cannot be resolved
    NoCall       \* no call was accepted yet

Policies == [tentativeBlocks : BOOLEAN, allDayBlocks : BOOLEAN]

Kinds == {"SINGLE", "SERIES_MASTER"}
Statuses == {"CONFIRMED", "TENTATIVE", "CANCELLED", "REMOVED", "UNKNOWN"}
Availabilities == {"BUSY", "FREE", "TENTATIVE", "UNKNOWN"}
Roles == {"ORGANIZER", "ATTENDEE", "NON_PARTICIPANT", "UNKNOWN"}
Participations == {"ACCEPTED", "TENTATIVE", "DECLINED", "NEEDS_ACTION",
                   "NOT_APPLICABLE", "UNKNOWN"}

Intervals == {i \in Nat \X Nat : i[1] < i[2]}

\* A period is half-open: an event that ends when the window starts is no overlap.
Overlap(i, w) == i[1] < w[2] /\ w[1] < i[2]
Covers(q, w) == q[1] <= w[1] /\ w[2] <= q[2]

NormalizedEvents ==
    [kind : Kinds, interval : Intervals \cup {NoInterval}, allDay : BOOLEAN,
     status : Statuses, availability : Availabilities, role : Roles,
     participation : Participations, observed : Nat]

ASSUME CalendarAssumption ==
    /\ \A c \in Calendars : \A k \in DOMAIN c : c[k] \in NormalizedEvents
    /\ \A q \in Queries : q.window \in Intervals /\ q.max \in Nat \ {0}
    /\ Windows \subseteq Intervals
    /\ Instants \subseteq Nat /\ RetrievedAt \in Nat /\ MaxAge \in Nat \ {0}
    /\ NoInterval \notin Intervals
    /\ NoCall \notin [query : Queries, window : Windows, asOf : Instants, policy : Policies]

VARIABLES
    calendar, \* the events of the scope, by identity key
    stage,    \* where the call stands: "idle", "reading", "judging"
    call,     \* [query, window, asOf, policy] of the latest call that was accepted
    snapshot, \* the keys of the events that the provider returned
    answer    \* what the latest call returned

vars == <<calendar, stage, call, snapshot, answer>>

Verdicts == {"CONFLICT", "NO_CONFLICT", "UNKNOWN"}
Errors == {"VALUE_ERROR", "PROVIDER_ERROR", "TIMEOUT", "INVALID_RESPONSE"}
Verdict(state, reliable) == [state |-> state, reliable |-> reliable]
Failure(error) == Verdict(error, FALSE)
Pending == Failure("PENDING")

Calls == [query : Queries, window : Windows, asOf : Instants, policy : Policies]

-----------------------------------------------------------------------------
(* The provider *)

\* Mutant: an event without a time is filtered away.
TimedOnly(c, query) ==
    {k \in DOMAIN c : c[k].interval # NoInterval /\ Overlap(c[k].interval, query.window)}

\* What FixtureCalendarProvider.read_events does not filter away.
Selected(c, query) ==
    {k \in DOMAIN c : \/ c[k].kind = "SERIES_MASTER"
                      \/ c[k].interval = NoInterval
                      \/ c[k].status \in {"CANCELLED", "REMOVED"}
                      \/ Overlap(c[k].interval, query.window)}

\* What the constructor of CalendarSnapshot accepts.
Acceptable(c, keys, query) ==
    /\ Cardinality(keys) <= query.max
    /\ \A k \in keys : /\ c[k].kind # "SERIES_MASTER"
                       /\ c[k].observed <= RetrievedAt

-----------------------------------------------------------------------------
(* CalendarConflictEvaluator *)

\* Mutant: evidence exactly max_age old is too old.
YoungerOnly(stamp, asOf) == stamp <= asOf /\ asOf - stamp < MaxAge

FreshAt(stamp, asOf) == stamp <= asOf /\ asOf - stamp <= MaxAge

\* The facts of e that settle that it does not block window w.
Settled(e, w) ==
    /\ e.status # "REMOVED"
    /\ \/ e.status = "CANCELLED"
       \/ e.interval # NoInterval /\ ~Overlap(e.interval, w)
       \/ e.availability = "FREE"
       \/ e.role = "NON_PARTICIPANT"
       \/ e.role = "ATTENDEE" /\ e.participation = "DECLINED"

UnknownParticipation(e) ==
    \/ e.role = "UNKNOWN"
    \/ e.role = "ATTENDEE" /\ e.participation \notin {"ACCEPTED", "TENTATIVE"}
    \/ e.role = "ORGANIZER" /\ e.participation \in {"DECLINED", "NEEDS_ACTION"}

Unresolved(e) ==
    \/ e.status \in {"REMOVED", "UNKNOWN"}
    \/ e.interval = NoInterval
    \/ UnknownParticipation(e)
    \/ e.availability = "UNKNOWN"

Tentative(e) == "TENTATIVE" \in {e.status, e.availability, e.participation}

Disregarded(e, policy) ==
    \/ e.allDay /\ ~policy.allDayBlocks
    \/ Tentative(e) /\ ~policy.tentativeBlocks

\* Mutant: a missing fact is noticed before what settles the event.
AssessDoubtsFirst(e, w, policy) ==
    IF Unresolved(e) /\ e.status # "CANCELLED" THEN "UNKNOWN"
    ELSE IF Settled(e, w) \/ Disregarded(e, policy) THEN "IGNORED" ELSE "BLOCKING"

Assess(e, w, policy) ==
    CASE Settled(e, w)          -> "IGNORED"
      [] ~Settled(e, w) /\ Unresolved(e) -> "UNKNOWN"
      [] ~Settled(e, w) /\ ~Unresolved(e) ->
            IF Disregarded(e, policy) THEN "IGNORED" ELSE "BLOCKING"

Evaluation(c, keys, w, asOf, policy) ==
    LET effects == {Assess(c[k], w, policy) : k \in keys}
        stamps  == {RetrievedAt} \cup {c[k].observed : k \in keys}
    IN IF \E stamp \in stamps : ~FreshAt(stamp, asOf)
         THEN Verdict("UNKNOWN", FALSE)
         ELSE Verdict(CASE "BLOCKING" \in effects -> "CONFLICT"
                        [] "BLOCKING" \notin effects /\ "UNKNOWN" \in effects -> "UNKNOWN"
                        [] effects \subseteq {"IGNORED"} -> "NO_CONFLICT",
                      "UNKNOWN" \notin effects)

-----------------------------------------------------------------------------
(* CalendarReadAgent.evaluate_window *)

Init ==
    /\ calendar \in Calendars
    /\ stage = "idle"
    /\ call = NoCall
    /\ snapshot = {}
    /\ answer = Pending

Ask ==
    /\ stage = "idle"
    /\ \E c \in Calls :
         /\ Covers(c.query.window, c.window)
         /\ call' = c
    /\ stage' = "reading"
    /\ snapshot' = {}
    /\ answer' = Pending
    /\ UNCHANGED calendar

\* A caller's mistake fails before the provider is asked.
AskTooWide ==
    /\ stage = "idle"
    /\ \E c \in Calls : ~Covers(c.query.window, c.window)
    /\ answer' = Failure("VALUE_ERROR")
    /\ UNCHANGED <<calendar, stage, call, snapshot>>

\* The call ends.
Return(value) ==
    /\ stage' = "idle"
    /\ answer' = value
    /\ UNCHANGED <<calendar, call>>

ReadEvents ==
    /\ stage = "reading"
    /\ LET keys == Selected(calendar, call.query)
       IN IF Acceptable(calendar, keys, call.query)
            THEN /\ snapshot' = keys
                 /\ stage' = "judging"
                 /\ UNCHANGED <<calendar, call, answer>>
            ELSE Return(Failure("INVALID_RESPONSE")) /\ UNCHANGED snapshot

\* A provider that reports an error, raises, or answers for another query.
ProviderFails ==
    /\ stage = "reading"
    /\ \E error \in Errors \ {"VALUE_ERROR"} : Return(Failure(error))
    /\ UNCHANGED snapshot

Evaluate ==
    /\ stage = "judging"
    /\ Return(Evaluation(calendar, snapshot, call.window, call.asOf, call.policy))
    /\ UNCHANGED snapshot

Next == Ask \/ AskTooWide \/ ReadEvents \/ ProviderFails \/ Evaluate

Spec == Init /\ [][Next]_vars

-----------------------------------------------------------------------------
(* What the calendar may really be.                                        *)

\* The readings of one fact, given what the provider established.
TrueStatuses(e) ==
    IF e.status \in {"REMOVED", "UNKNOWN"} THEN {"CONFIRMED", "TENTATIVE", "CANCELLED"}
                                           ELSE {e.status}
TrueAvailabilities(e) ==
    IF e.availability = "UNKNOWN" THEN {"BUSY", "FREE", "TENTATIVE"} ELSE {e.availability}
\* The traveller is an organizer or an attendee, or has nothing to do with
\* the event.  An organizer who declined is not a reading of anything: one of
\* the two facts is wrong.
TrueAttendances(e) ==
    {a \in {"COMING", "MAYBE", "ABSENT"} :
        CASE e.role = "NON_PARTICIPANT" -> a = "ABSENT"
          [] e.role = "UNKNOWN" -> TRUE
          [] e.role = "ATTENDEE" ->
               CASE e.participation = "ACCEPTED"  -> a = "COMING"
                 [] e.participation = "TENTATIVE" -> a = "MAYBE"
                 [] e.participation = "DECLINED"  -> a = "ABSENT"
                 [] OTHER -> TRUE
          [] e.role = "ORGANIZER" ->
               CASE e.participation = "TENTATIVE" -> a = "MAYBE"
                 [] e.participation \in {"DECLINED", "NEEDS_ACTION"} -> TRUE
                 [] OTHER -> a = "COMING"}
TrueOverlaps(e, w) == IF e.interval = NoInterval THEN BOOLEAN ELSE {Overlap(e.interval, w)}

\* A removed event may be gone or moved out of sight, at any time.
Possibilities(e, w) ==
    [status : TrueStatuses(e), availability : TrueAvailabilities(e),
     attendance : TrueAttendances(e),
     overlaps : IF e.status = "REMOVED" THEN BOOLEAN ELSE TrueOverlaps(e, w),
     allDay : {e.allDay}]

\* An event that is really so takes the traveller's time in the window.
TakesTime(t, policy) ==
    /\ t.overlaps
    /\ t.status # "CANCELLED" /\ t.availability # "FREE" /\ t.attendance # "ABSENT"
    /\ t.allDay => policy.allDayBlocks
    /\ (t.status = "TENTATIVE" \/ t.availability = "TENTATIVE" \/ t.attendance = "MAYBE")
         => policy.tentativeBlocks

Possibly(e, w, policy) == \E t \in Possibilities(e, w) : TakesTime(t, policy)
Surely(e, w, policy) == /\ Possibly(e, w, policy)
                        /\ \A t \in Possibilities(e, w) : TakesTime(t, policy)

\* A policy under which every commitment blocks.
Strictest == [tentativeBlocks |-> TRUE, allDayBlocks |-> TRUE]

\* What is established of e does not tell whether it is a commitment in w.  Nothing
\* is told of a removed event, whatever it was.
LeftOpen(e, w) ==
    \/ e.status = "REMOVED"
    \/ Possibly(e, w, Strictest) /\ ~Surely(e, w, Strictest)

-----------------------------------------------------------------------------
(* Properties *)

Judged == stage = "idle" /\ answer.state \in Verdicts

\* A verdict holds in everything the whole calendar may be, not only in the
\* snapshot: in a CONFLICT some event surely takes the traveller's time in the
\* window, and after NO_CONFLICT none possibly does.  This is about the filter
\* of the provider, the bound on the number of events and the order of the
\* rules of the evaluator together.
VerdictIsSound ==
    Judged =>
      /\ answer.state = "CONFLICT" =>
           \E k \in DOMAIN calendar : Surely(calendar[k], call.window, call.policy)
      /\ answer.state = "NO_CONFLICT" =>
           \A k \in DOMAIN calendar : ~Possibly(calendar[k], call.window, call.policy)

\* A verdict that is unreliable has a reason in the calendar: evidence older
\* than max_age (not exactly so old) or from after as_of, or an event that may
\* and may not be a commitment in the window.  A missing fact is no reason when
\* the others settle that the event cannot matter: no rule that ignores an event
\* comes after one that doubts it.
DoubtIsDue ==
    Judged /\ ~answer.reliable =>
      \/ RetrievedAt > call.asOf \/ RetrievedAt + MaxAge < call.asOf
      \/ \E k \in DOMAIN calendar :
           \/ calendar[k].observed + MaxAge < call.asOf
           \/ LeftOpen(calendar[k], call.window)
=============================================================================
