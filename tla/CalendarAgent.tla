---------------------------- MODULE CalendarAgent ----------------------------
(***************************************************************************)
(* The first CalendarAgent, over local times without a zone: get_events    *)
(* fetches the meetings of a day from the calendar tool, free_windows goes *)
(* through them by their start and collects the gaps, one meeting a step,  *)
(* and departure_conflicts names the meetings a departure would cut.       *)
(*                                                                         *)
(* Times are integers, DayLength of them to a day; a list of meetings is   *)
(* the set of its entries, their periods and priorities: no title decides  *)
(* anything, equal starts come in the order of the list, which is any      *)
(* order, and entry numbers tell apart meetings that are alike.            *)
(***************************************************************************)
EXTENDS Integers

CONSTANTS
    Answers,   \* what the calendar tool may hold: sets of meetings, some malformed
    Limits,    \* the <<start, end>> that callers of free_windows pass
    Days,      \* the days that callers of get_events ask for
    DayLength

\* The agent passes on any priority.
Priorities == {"low", "normal", "high"}
Meetings == [start : Int, end : Int, priority : Priorities, entry : Nat]

ASSUME AgentAssumption ==
    /\ Answers \subseteq SUBSET Meetings
    /\ Limits \subseteq Int \X Int
    /\ Days \subseteq Int
    /\ DayLength \in Nat \ {0}

VARIABLES
    tool,    \* the meetings that the calendar tool knows
    stage,   \* "idle", "fetched", "visiting", "done", or the error raised
    day,     \* the day that was asked for
    events,  \* what get_events returned
    limits,  \* window_start and window_end
    pending, \* the meetings the loop of free_windows has not visited
    cursor,  \* the end of what it has accounted for
    windows  \* the free windows found

agentVars == <<tool, stage, day, events, limits, pending, cursor, windows>>

Failures == {"ToolFailureError", "DataUnavailableError", "InvalidDataError", "InvalidInputError"}

Later(a, b) == IF a < b THEN b ELSE a
Earlier(a, b) == IF a < b THEN a ELSE b

DayStart(d) == d * DayLength
DayEnd(d) == d * DayLength + DayLength

\* Mutant: only the meetings that start on the day.
StartsOn(m, d) == DayStart(d) <= m.start /\ m.start < DayEnd(d)

\* Meetings that overlap the day, those from the night before included.
OnDay(m, d) == m.start < DayEnd(d) /\ m.end > DayStart(d)

At(m, t) == m.start <= t /\ t < m.end

DepartureConflicts(t) == {m \in events : At(m, t)}

-----------------------------------------------------------------------------

AgentInit ==
    /\ tool \in Answers
    /\ stage = "idle"
    /\ day \in Days
    /\ limits = <<0, 0>>
    /\ events = {} /\ pending = {} /\ cursor = 0 /\ windows = {}

Quiet == UNCHANGED <<tool, day, limits, pending, cursor, windows>>

GetEvents ==
    /\ stage = "idle"
    /\ \/ /\ \A m \in tool : m.start < m.end
          /\ stage' = "fetched"
          /\ events' = {m \in tool : OnDay(m, day)}
       \/ /\ \E m \in tool : m.end <= m.start
          /\ stage' = "InvalidDataError"
          /\ UNCHANGED events
    /\ Quiet

\* The date is malformed; or the tool raises, knows nothing, or answers texts
\* that are empty.
ToolFails ==
    /\ stage = "idle"
    /\ stage' \in Failures
    /\ UNCHANGED events /\ Quiet

FreeWindows ==
    /\ stage = "fetched"
    /\ \E asked \in Limits :
         IF asked[2] <= asked[1]
         THEN stage' = "InvalidInputError" /\ UNCHANGED <<limits, pending, cursor, windows>>
         ELSE /\ stage' = "visiting"
              /\ limits' = asked
              /\ pending' = events
              /\ cursor' = asked[1]
              /\ windows' = {}
    /\ UNCHANGED <<tool, day, events>>

\* Mutant: the cursor follows the last meeting, not the latest end.
LastEnd(from, to) == to

Furthest(from, to) == Later(from, to)

Gap(from, to) == {<<from, to>>}

\* The part of the window that a meeting takes.
BusyStart(m) == Later(limits[1], m.start)
BusyEnd(m) == Earlier(limits[2], m.end)

\* One turn of the loop.
Visit(m) ==
    /\ pending' = pending \ {m}
    /\ IF BusyStart(m) >= BusyEnd(m)
         THEN UNCHANGED <<cursor, windows>>
         ELSE /\ windows' = windows \cup
                              (IF BusyStart(m) > cursor THEN Gap(cursor, BusyStart(m)) ELSE {})
              /\ cursor' = Furthest(cursor, BusyEnd(m))

VisitNext ==
    /\ stage = "visiting"
    /\ \E m \in pending :
         /\ \A other \in pending : m.start <= other.start
         /\ Visit(m)
    /\ UNCHANGED <<tool, stage, day, events, limits>>

Finish ==
    /\ stage = "visiting" /\ pending = {}
    /\ stage' = "done"
    /\ windows' = windows \cup (IF cursor < limits[2] THEN Gap(cursor, limits[2]) ELSE {})
    /\ UNCHANGED <<tool, day, events, limits, pending, cursor>>

AgentNext == GetEvents \/ ToolFails \/ FreeWindows \/ VisitNext \/ Finish

AgentSpec == AgentInit /\ [][AgentNext]_agentVars

-----------------------------------------------------------------------------
(* Properties *)

AgentTypeOK ==
    /\ tool \in SUBSET Meetings
    /\ stage \in {"idle", "fetched", "visiting", "done"} \cup Failures
    /\ day \in Int
    /\ limits \in Int \X Int
    /\ events \subseteq tool /\ pending \subseteq events
    /\ cursor \in Int
    /\ windows \subseteq Int \X Int
    /\ stage \in {"visiting", "done"} => limits[1] <= cursor /\ cursor <= limits[2]

Within(t, w) == w[1] <= t /\ t < w[2]
Free(t) == \E w \in windows : Within(t, w)

\* When free_windows returns, an instant of the window is free exactly if
\* departure_conflicts finds nothing at it; and if it is on the day that was
\* fetched, exactly if no meeting of the whole calendar takes it.  So neither
\* overlapping meetings, nor one inside another, nor one that began the day
\* before costs or gives away an instant.
FreeIsExact ==
    stage = "done" =>
      \A t \in limits[1] .. (limits[2] - 1) :
         /\ Free(t) <=> DepartureConflicts(t) = {}
         /\ Within(t, <<DayStart(day), DayEnd(day)>>) =>
              (Free(t) <=> \A m \in tool : ~At(m, t))

\* The windows returned are gaps: each is long enough to hold an instant, and
\* between two of them lies a meeting, so no window is a part of a longer one.
WindowsApart ==
    stage = "done" =>
      \A v \in windows :
         /\ v[1] < v[2] /\ limits[1] <= v[1] /\ v[2] <= limits[2]
         /\ \A w \in windows : v = w \/ v[2] < w[1] \/ w[2] < v[1]
=============================================================================
