--------------------------- MODULE MCTripPlanning ---------------------------
(***************************************************************************)
(* Calendars and trips for TLC, with two ticks to a minute and midnight at *)
(* 0.  Around it lie up to three meetings, inside one another, touching,   *)
(* overlapping, across midnight, or malformed; other calendars, one with   *)
(* an entry twice, lie beside a flight at five in the morning, one at one, *)
(* and some that the flight agent refuses.                                 *)
(***************************************************************************)
EXTENDS TripPlanning, TLC

Entry(n, start, end, priority) ==
  [start |-> start, end |-> end, priority |-> priority, entry |-> n]
Meeting(start, end, priority) == Entry(1, start, end, priority)
Twice(start, end, priority) == {Entry(n, start, end, priority) : n \in {1, 2}}

MCMeetings == {Meeting(s, e, "normal") : s \in -3 .. 2, e \in -2 .. 3}
MCValid == {m \in MCMeetings : m.start < m.end}
MCNight ==
  {{m} : m \in MCMeetings} \cup {{m, n, o} : m \in MCValid, n \in MCValid, o \in MCValid}
    \cup {{Meeting(0, 0, "normal"), m} : m \in MCValid}

\* Calendars of the day on which the traveller flies.
MCTravel == {
  {},
  {Meeting(300, 360, "high")},
  {Meeting(270, 320, "normal"), Meeting(330, 390, "high")},
  {Meeting(-100, 330, "normal"), Meeting(340, 350, "normal")},
  {Meeting(-100, -20, "high")},
  {Meeting(280, 290, "low")},
  Twice(330, 390, "high")}

MCAnswers == MCNight \cup MCTravel

MCFlightsBeside ==
  [a \in MCAnswers |->
     IF a \notin MCTravel THEN {}
     ELSE {[departure |-> 600, boarding |-> 540], [departure |-> 120, boarding |-> 60],
           [departure |-> 600, boarding |-> 601], [departure |-> -600, boarding |-> -660]}]

MCDays == {-1, 0}
MCLimits == {<<0, 3>>, <<-1, 1>>, <<-2, 3>>, <<-3, 2>>, <<0, 0>>, <<1, -1>>}

\* A host's contexts: departure at minute 300, boarding half an hour before,
\* eighty minutes to the gate.
Trip(events_, buffer) ==
  [departure |-> 600, boarding |-> 540, travel |-> 80, gateBuffer |-> buffer,
   preferredBuffer |-> 45, events |-> events_]

MCTripsBeside ==
  [a \in MCAnswers |->
     IF a # {} THEN {}
     ELSE {Trip({}, 45), Trip({Meeting(270, 320, "normal"), Meeting(330, 390, "high")}, 15),
           Trip(Twice(270, 320, "normal"), 15)}]

MCDrives == {45, -1}
MCGateBuffers == {15}

\* From two hours before the last feasible minute to half an hour after it, and
\* the evening before an early flight.
LeaveOptions == {-110, -60, 170, 290, 310, 330, 371, 390, 410, 430, 431, 470}
MCProposals == UNION {[1 .. n -> LeaveOptions] : n \in 1 .. 2}
               \cup [1 .. 3 -> {290, 331, 371, 410, 431, 470}]
=============================================================================
