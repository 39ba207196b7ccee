------------------------- MODULE MCCalendarConflict -------------------------
(***************************************************************************)
(* Calendars for TLC.  An event that is alone has every combination of     *)
(* facts; an event with fewer of them stands beside one of six others that *)
(* change what a snapshot or a verdict may say.                            *)
(***************************************************************************)
EXTENDS CalendarConflict, TLC

\* Travel from 2 to 4, asked about within 1 to 5: the periods touch the
\* window and the query on either side, cross them, or lie beyond both.
MCPeriods == {<<1, 2>>, <<4, 5>>, <<3, 4>>, <<0, 1>>, NoInterval}
MCObserved == 2

Fact(kind, interval, allDay, status, availability, role, participation, observed) ==
    [kind |-> kind, interval |-> interval, allDay |-> allDay, status |-> status,
     availability |-> availability, role |-> role, participation |-> participation,
     observed |-> observed]

MCFirst ==
    {Fact("SINGLE", i, d, s, a, r, p, MCObserved) :
        i \in MCPeriods, d \in {FALSE}, s \in Statuses, a \in Availabilities,
        r \in Roles, p \in Participations}
    \cup
    {Fact("SINGLE", i, d, s, a, r, p, MCObserved) :
        i \in {<<1, 3>>, NoInterval}, d \in {TRUE}, s \in {"CONFIRMED", "TENTATIVE", "REMOVED"},
        a \in Availabilities, r \in Roles, p \in {"ACCEPTED", "TENTATIVE", "DECLINED"}}

MCMeeting(kind, interval, observed) ==
    Fact(kind, interval, FALSE, "CONFIRMED", "BUSY", "ORGANIZER", "NOT_APPLICABLE", observed)

MCSecond ==
    {MCMeeting("SINGLE", <<2, 3>>, MCObserved), MCMeeting("SINGLE", <<0, 1>>, MCObserved),
     MCMeeting("SINGLE", <<2, 3>>, 0), MCMeeting("SINGLE", <<2, 3>>, 3),
     MCMeeting("SINGLE", NoInterval, MCObserved), MCMeeting("SERIES_MASTER", <<0, 1>>, MCObserved)}

MCOther ==
    {Fact("SINGLE", i, FALSE, s, a, r, p, MCObserved) :
        i \in {<<1, 3>>, <<4, 5>>, NoInterval}, s \in {"TENTATIVE", "CANCELLED", "REMOVED"},
        a \in {"BUSY", "UNKNOWN"}, r \in {"ATTENDEE"}, p \in {"ACCEPTED", "NEEDS_ACTION", "DECLINED"}}

MCCalendars ==
    {<<e>> : e \in MCFirst} \cup {<<e, f>> : e \in MCOther, f \in MCSecond} \cup {<<>>}

MCQueries == {[window |-> <<1, 5>>, max |-> 2], [window |-> <<1, 5>>, max |-> 1],
              [window |-> <<3, 5>>, max |-> 2]}
MCWindows == {<<2, 4>>}
MCInstants == {1, 2, 4, 5}
=============================================================================
