--------------------------- MODULE PlanningProofs ---------------------------
(***************************************************************************)
(* Planning is right for any calendar, trip and proposals, in four parts.  *)
(*                                                                         *)
(* free_windows of the calendar agent is exact.  Its loop keeps two facts: *)
(* before the cursor the windows found so far are exactly the instants     *)
(* that no meeting takes, and after it no visited meeting takes any.  The  *)
(* first survives a turn because the meetings are visited by their start:  *)
(* none that is still to come begins in the gap just closed.               *)
(*                                                                         *)
(* The beam search selects the best plan it evaluated, however narrow the  *)
(* beam.  To be no worse is transitive, a ranking puts one plan at every   *)
(* place and none before a better one, and the plan kept first is always   *)
(* in the pool that is ranked next.                                        *)
(*                                                                         *)
(* The coordinator asks for all meetings of the flight's day, so a plan    *)
(* without a penalty has nothing against it.                               *)
(*                                                                         *)
(* The replanning evaluator, which shares no state with the planner, keeps *)
(* a plan only while it still fits: an evaluation at hand is always one of *)
(* the plan, the snapshot and the travel state of its moment.              *)
(***************************************************************************)
EXTENDS TripPlanning, Replanning, FiniteSetTheorems, TLAPS

-----------------------------------------------------------------------------
(* The calendar agent.                                                      *)

Proper == \A m \in events : m.start < m.end

ExactBeforeCursor ==
    \A t \in Int : limits[1] <= t /\ t < cursor =>
        (Free(t) <=> \A m \in events : ~At(m, t))

ClearAfterCursor ==
    \A t \in Int : cursor <= t /\ t < limits[2] =>
        \A m \in events \ pending : ~At(m, t)

Apart(bound) ==
    \A v \in windows :
       /\ v[1] < v[2] /\ limits[1] <= v[1] /\ v[2] <= bound
       /\ \A w \in windows : v = w \/ v[2] < w[1] \/ w[2] < v[1]

LoopInv ==
    /\ limits[1] < limits[2]
    /\ ExactBeforeCursor
    /\ ClearAfterCursor
    /\ Apart(cursor - 1)

DoneInv ==
    /\ \A t \in Int : Within(t, limits) => (Free(t) <=> \A m \in events : ~At(m, t))
    /\ Apart(limits[2])

\* The meetings of the day asked for, all of them.
Fetched == events = {m \in tool : OnDay(m, day)}

AgentInv ==
    /\ AgentTypeOK
    /\ stage = "idle" => pending = {}
    /\ stage \in {"fetched", "visiting", "done"} => Proper /\ Fetched
    /\ stage = "visiting" => LoopInv
    /\ stage = "done" => DoneInv

-----------------------------------------------------------------------------

LEMMA InitAgent == AgentInit => AgentInv
<1> SUFFICES ASSUME AgentInit PROVE AgentInv
  OBVIOUS
<1>1. limits = <<0, 0>> /\ limits \in Int \X Int /\ tool \in SUBSET Meetings /\ day \in Int
  BY AgentAssumption DEF AgentInit
<1> QED  BY <1>1 DEF AgentInit, AgentInv, AgentTypeOK

\* A gap added to the windows makes its own instants free and no others.
LEMMA FreeWithGap ==
    ASSUME NEW a, NEW b, windows' = windows \cup {<<a, b>>}
    PROVE  \A t : Free(t)' <=> Free(t) \/ (a <= t /\ t < b)
<1> TAKE t
<1>1. Free(t)' <=> \E w \in windows \cup {<<a, b>>} : w[1] <= t /\ t < w[2]
  BY DEF Free, Within
<1>2. Free(t) <=> \E w \in windows : w[1] <= t /\ t < w[2]
  BY DEF Free, Within
<1> DEFINE gap == <<a, b>>
<1>3. gap[1] = a /\ gap[2] = b
  OBVIOUS
<1> HIDE DEF gap
<1>4. (\E w \in windows \cup {gap} : w[1] <= t /\ t < w[2])
        <=> (\E w \in windows : w[1] <= t /\ t < w[2]) \/ (gap[1] <= t /\ t < gap[2])
  OBVIOUS
<1> QED  BY <1>1, <1>2, <1>3, <1>4 DEF gap

\* One turn of the loop, for the meeting with the earliest start.
LEMMA VisitKeepsLoop ==
    ASSUME AgentTypeOK, Proper, LoopInv, stage = "visiting",
           NEW m \in pending, \A other \in pending : m.start <= other.start, Visit(m),
           UNCHANGED <<tool, stage, day, events, limits>>
    PROVE  AgentTypeOK' /\ LoopInv'
<1> DEFINE from == BusyStart(m)
           to == BusyEnd(m)
<1>1. /\ limits[1] \in Int /\ limits[2] \in Int /\ cursor \in Int
      /\ limits[1] <= cursor /\ cursor <= limits[2] /\ limits[1] < limits[2]
      /\ windows \subseteq Int \X Int /\ pending \subseteq events
      /\ \A e \in events : e.start \in Int /\ e.end \in Int /\ e.start < e.end
  BY DEF AgentTypeOK, LoopInv, Proper, Meetings
<1>2. m \in events /\ m.start \in Int /\ m.end \in Int /\ m.start < m.end
  BY <1>1
<1>3. /\ from \in Int /\ to \in Int
      /\ from >= limits[1] /\ from >= m.start /\ from \in {limits[1], m.start}
      /\ to <= limits[2] /\ to <= m.end /\ to \in {limits[2], m.end}
  BY <1>1, <1>2 DEF BusyStart, BusyEnd, Later, Earlier
<1>4. pending' = pending \ {m} /\ events' = events /\ limits' = limits
  BY DEF Visit
<1> HIDE DEF from, to
<1>5. CASE from >= to
  <2>1. cursor' = cursor /\ windows' = windows
    BY <1>5 DEF Visit, from, to
  <2>2. \A t \in Int : cursor <= t /\ t < limits[2] => ~At(m, t)
    BY <1>1, <1>2, <1>3, <1>5 DEF At
  <2>3. ClearAfterCursor'
    BY <1>4, <2>1, <2>2 DEF ClearAfterCursor, LoopInv, At
  <2>4. ExactBeforeCursor' /\ Apart(cursor - 1)'
    BY <1>4, <2>1 DEF ExactBeforeCursor, Apart, LoopInv, Free, At
  <2>5. AgentTypeOK'
    BY <1>4, <2>1 DEF AgentTypeOK
  <2> QED  BY <1>1, <1>4, <2>3, <2>4, <2>5 DEF LoopInv
<1>6. CASE from < to
  <2>1. cursor' = Later(cursor, to)
    BY <1>3, <1>6 DEF Visit, from, to, Furthest
  <2>2. cursor' \in Int /\ cursor' >= cursor /\ cursor' >= to /\ cursor' \in {cursor, to}
    BY <1>1, <1>3, <2>1 DEF Later
  <2>3. windows' = windows \cup (IF from > cursor THEN {<<cursor, from>>} ELSE {})
    BY <1>3, <1>6 DEF Visit, from, to, Gap
  <2>4. \A t \in Int : cursor' <= t /\ t < limits[2] => ~At(m, t)
    BY <1>1, <1>2, <1>3, <2>2 DEF At
  <2>5. ClearAfterCursor'
    <3>1. ASSUME NEW t \in Int, cursor' <= t, t < limits[2], NEW e \in events \ pending, At(e, t)
          PROVE  FALSE
      BY <1>1, <2>2, <3>1 DEF ClearAfterCursor, LoopInv
    <3> QED  BY <1>4, <2>4, <3>1 DEF ClearAfterCursor, At
  <2>6. \A t \in Int : Free(t)' <=> Free(t) \/ (from > cursor /\ cursor <= t /\ t < from)
    <3>1. CASE from > cursor
      BY <2>3, <3>1, FreeWithGap
    <3>2. CASE ~(from > cursor)
      BY <2>3, <3>2 DEF Free, Within
    <3> QED  BY <3>1, <3>2
  <2>7. \A t \in Int : Free(t) => t < cursor
    BY <1>1 DEF Free, Within, LoopInv, Apart
  <2>8. ASSUME NEW t \in Int, limits[1] <= t, t < cursor'
        PROVE  Free(t)' <=> \A e \in events : ~At(e, t)
    <3>1. CASE t < cursor
      BY <1>1, <2>6, <2>8, <3>1 DEF LoopInv, ExactBeforeCursor
    <3>2. CASE cursor <= t /\ t < from
      <4>1. Free(t)'
        BY <1>1, <1>3, <2>6, <3>2
      <4>2. from = m.start
        BY <1>1, <1>3, <3>2
      <4>3. \A e \in pending : ~At(e, t)
        BY <1>1, <1>2, <3>2, <4>2 DEF At
      <4>4. t < limits[2]
        BY <1>1, <1>3, <2>2, <2>8
      <4>5. \A e \in events \ pending : ~At(e, t)
        BY <3>2, <4>4 DEF LoopInv, ClearAfterCursor
      <4> QED  BY <4>1, <4>3, <4>5
    <3>3. CASE cursor <= t /\ from <= t
      <4>1. At(m, t)
        BY <1>1, <1>2, <1>3, <2>2, <2>8, <3>3 DEF At
      <4>2. ~Free(t)'
        BY <1>1, <1>3, <2>6, <2>7, <3>3
      <4> QED  BY <1>2, <4>1, <4>2
    <3> QED  BY <1>1, <1>3, <3>1, <3>2, <3>3
  <2>9. ExactBeforeCursor'
    BY <1>4, <2>8 DEF ExactBeforeCursor, At
  <2>10. Apart(cursor - 1)'
    <3>1. \A v \in windows : v[1] \in Int /\ v[2] \in Int /\ limits[1] <= v[1] /\ v[1] < v[2]
                             /\ v[2] < cursor
      BY <1>1 DEF LoopInv, Apart
    <3>2. \A v, w \in windows : v = w \/ v[2] < w[1] \/ w[2] < v[1]
      BY DEF LoopInv, Apart
    <3>3. CASE from <= cursor
      <4>1. windows' = windows
        BY <1>1, <1>3, <2>3, <3>3
      <4> QED  BY <1>1, <1>4, <2>2, <3>1, <3>2, <4>1 DEF Apart
    <3>4. CASE from > cursor
      <4>1. windows' = windows \cup {<<cursor, from>>} /\ cursor' = to
        BY <1>1, <1>3, <1>6, <2>2, <2>3, <3>4
      <4>2. ASSUME NEW v \in windows'
            PROVE  /\ v[1] < v[2] /\ limits[1] <= v[1] /\ v[2] <= cursor' - 1
                   /\ \A w \in windows' : v = w \/ v[2] < w[1] \/ w[2] < v[1]
        BY <1>1, <1>3, <1>6, <3>1, <3>2, <3>4, <4>1
      <4> QED  BY <1>4, <4>2 DEF Apart
    <3> QED  BY <1>1, <1>3, <3>3, <3>4
  <2>11. AgentTypeOK'
    <3>1. windows' \subseteq Int \X Int
      BY <1>1, <1>3, <2>3
    <3>2. limits[1] <= cursor' /\ cursor' <= limits[2]
      BY <1>1, <1>3, <2>2
    <3> QED  BY <1>4, <2>2, <3>1, <3>2 DEF AgentTypeOK
  <2> QED  BY <1>1, <1>4, <2>5, <2>9, <2>10, <2>11 DEF LoopInv
<1> QED  BY <1>3, <1>5, <1>6

\* The gap after the last meeting completes the windows.
LEMMA FinishIsExact ==
    ASSUME AgentTypeOK, LoopInv, Finish
    PROVE  AgentTypeOK' /\ DoneInv'
<1>1. /\ limits[1] \in Int /\ limits[2] \in Int /\ cursor \in Int
      /\ limits[1] <= cursor /\ cursor <= limits[2] /\ limits[1] < limits[2]
      /\ windows \subseteq Int \X Int /\ pending = {}
      /\ limits' = limits /\ events' = events /\ stage' = "done"
      /\ windows' = windows \cup (IF cursor < limits[2] THEN {<<cursor, limits[2]>>} ELSE {})
  BY DEF AgentTypeOK, LoopInv, Finish, Gap
<1>2. \A v \in windows : v[1] \in Int /\ v[2] \in Int /\ limits[1] <= v[1] /\ v[1] < v[2]
                         /\ v[2] < cursor
  BY <1>1 DEF LoopInv, Apart
<1>3. \A v, w \in windows : v = w \/ v[2] < w[1] \/ w[2] < v[1]
  BY DEF LoopInv, Apart
<1>4. ASSUME NEW t \in Int, limits[1] <= t, t < limits[2]
      PROVE  Free(t)' <=> \A m \in events : ~At(m, t)
  <2>1. Free(t)' <=> Free(t) \/ (cursor <= t /\ t < limits[2])
    <3>1. CASE cursor < limits[2]
      BY <1>1, <3>1, FreeWithGap
    <3>2. CASE ~(cursor < limits[2])
      BY <1>1, <1>4, <3>2 DEF Free, Within
    <3> QED  BY <3>1, <3>2
  <2>2. CASE t < cursor
    BY <1>1, <1>4, <2>1, <2>2 DEF LoopInv, ExactBeforeCursor
  <2>3. CASE cursor <= t
    BY <1>1, <1>4, <2>1, <2>3 DEF LoopInv, ClearAfterCursor
  <2> QED  BY <1>1, <2>2, <2>3
<1>5. Apart(limits[2])'
  <2>1. ASSUME NEW v \in windows'
        PROVE  /\ v[1] < v[2] /\ limits[1] <= v[1] /\ v[2] <= limits[2]
               /\ \A w \in windows' : v = w \/ v[2] < w[1] \/ w[2] < v[1]
    BY <1>1, <1>2, <1>3
  <2> QED  BY <1>1, <2>1 DEF Apart
<1>6. AgentTypeOK'
  <2>1. windows' \subseteq Int \X Int
    BY <1>1
  <2> QED  BY <1>1, <2>1 DEF AgentTypeOK, Finish
<1> QED  BY <1>1, <1>4, <1>5, <1>6 DEF DoneInv, Within, At

LEMMA NextAgent == AgentInv /\ [AgentNext]_agentVars => AgentInv'
<1> SUFFICES ASSUME AgentInv, [AgentNext]_agentVars PROVE AgentInv'
  OBVIOUS
<1>0. AgentTypeOK
  BY DEF AgentInv
<1>1. CASE GetEvents
  <2>1. CASE stage' = "fetched" /\ (\A m \in tool : m.start < m.end)
             /\ events' = {m \in tool : OnDay(m, day)}
    <3>1. UNCHANGED <<tool, day, limits, pending, cursor, windows>> /\ pending = {}
      BY <1>1 DEF GetEvents, Quiet, AgentInv
    <3>2. Proper' /\ Fetched'
      BY <2>1, <3>1 DEF Proper, Fetched, OnDay
    <3>3. AgentTypeOK'
      BY <1>0, <2>1, <3>1 DEF AgentTypeOK
    <3> QED  BY <2>1, <3>2, <3>3 DEF AgentInv
  <2>2. CASE stage' = "InvalidDataError" /\ UNCHANGED events
    BY <1>0, <1>1, <2>2 DEF GetEvents, Quiet, AgentInv, AgentTypeOK, Failures
  <2> QED  BY <1>1, <2>1, <2>2 DEF GetEvents
<1>2. CASE ToolFails
  <2>1. stage' \in Failures /\ UNCHANGED <<tool, day, limits, pending, cursor, windows, events>>
    BY <1>2 DEF ToolFails, Quiet, Failures
  <2> QED  BY <1>0, <2>1 DEF AgentInv, AgentTypeOK, Failures
<1>3. CASE FreeWindows
  <2> PICK asked \in Limits :
         IF asked[2] <= asked[1]
         THEN stage' = "InvalidInputError" /\ UNCHANGED <<limits, pending, cursor, windows>>
         ELSE /\ stage' = "visiting" /\ limits' = asked /\ pending' = events
              /\ cursor' = asked[1] /\ windows' = {}
    BY <1>3 DEF FreeWindows
  <2>0. asked \in Int \X Int /\ asked[1] \in Int /\ asked[2] \in Int
    BY AgentAssumption
  <2>1. UNCHANGED <<tool, day, events>> /\ stage = "fetched"
    BY <1>3 DEF FreeWindows
  <2>2. Proper' /\ Fetched'
    BY <2>1 DEF AgentInv, Proper, Fetched, OnDay
  <2>3. CASE asked[2] <= asked[1]
    BY <1>0, <2>1, <2>3 DEF AgentInv, AgentTypeOK, Failures
  <2>4. CASE ~(asked[2] <= asked[1])
    <3>1. /\ stage' = "visiting" /\ pending' = events /\ cursor' = limits'[1] /\ windows' = {}
          /\ limits' = asked
      BY <2>4
    <3>2. limits'[1] \in Int /\ limits'[2] \in Int /\ limits'[1] < limits'[2]
      BY <2>0, <2>4, <3>1
    <3>3. AgentTypeOK'
      BY <1>0, <2>0, <2>1, <3>1, <3>2 DEF AgentTypeOK
    <3>4. LoopInv'
      BY <2>1, <3>1, <3>2 DEF LoopInv, ExactBeforeCursor, ClearAfterCursor, Apart
    <3> QED  BY <2>2, <3>1, <3>3, <3>4 DEF AgentInv
  <2> QED  BY <2>3, <2>4
<1>4. CASE VisitNext
  <2>1. stage = "visiting" /\ UNCHANGED <<tool, stage, day, events, limits>>
    BY <1>4 DEF VisitNext
  <2>2. AgentTypeOK' /\ LoopInv'
    BY <1>0, <1>4, <2>1, VisitKeepsLoop DEF VisitNext, AgentInv
  <2>3. Proper' /\ Fetched'
    BY <2>1 DEF AgentInv, Proper, Fetched, OnDay
  <2> QED  BY <2>1, <2>2, <2>3 DEF AgentInv
<1>5. CASE Finish
  <2>1. stage = "visiting" /\ stage' = "done" /\ UNCHANGED <<tool, day, events, limits>>
    BY <1>5 DEF Finish
  <2>2. AgentTypeOK' /\ DoneInv'
    BY <1>0, <1>5, <2>1, FinishIsExact DEF AgentInv
  <2>3. Proper' /\ Fetched'
    BY <2>1 DEF AgentInv, Proper, Fetched, OnDay
  <2> QED  BY <2>1, <2>2, <2>3 DEF AgentInv
<1>6. CASE UNCHANGED agentVars
  BY <1>0, <1>6 DEF agentVars, AgentInv, AgentTypeOK, Proper, Fetched, OnDay, LoopInv, ExactBeforeCursor,
     ClearAfterCursor, Apart, DoneInv, Free, Within, At
<1> QED  BY <1>1, <1>2, <1>3, <1>4, <1>5, <1>6 DEF AgentNext

\* free_windows returns exactly the instants that no meeting takes, of those
\* passed to it and, within the day that was fetched, of the whole calendar.
THEOREM WindowsExact == AgentSpec => []FreeIsExact
<1>1. AgentInv => FreeIsExact
  <2> SUFFICES ASSUME AgentInv, stage = "done", NEW t \in limits[1] .. (limits[2] - 1)
               PROVE  /\ Free(t) <=> DepartureConflicts(t) = {}
                      /\ Within(t, <<DayStart(day), DayEnd(day)>>) =>
                           (Free(t) <=> \A m \in tool : ~At(m, t))
    BY DEF FreeIsExact
  <2>1. limits[1] \in Int /\ limits[2] \in Int /\ t \in Int /\ Within(t, limits)
    BY DEF AgentInv, AgentTypeOK, Within
  <2>2. Free(t) <=> \A m \in events : ~At(m, t)
    BY <2>1 DEF AgentInv, DoneInv
  <2>3. ASSUME Within(t, <<DayStart(day), DayEnd(day)>>), NEW m \in tool, At(m, t)
        PROVE  m \in events
    <3>1. m.start \in Int /\ m.end \in Int /\ DayStart(day) \in Int /\ DayEnd(day) \in Int
      BY AgentAssumption DEF AgentInv, AgentTypeOK, Meetings, DayStart, DayEnd
    <3>2. m.start < DayEnd(day) /\ m.end > DayStart(day)
      BY <2>1, <2>3, <3>1 DEF Within, At
    <3> QED  BY <3>2 DEF AgentInv, Fetched, OnDay
  <2>4. events \subseteq tool
    BY DEF AgentInv, AgentTypeOK
  <2> QED  BY <2>2, <2>3, <2>4 DEF DepartureConflicts
<1> QED  BY <1>1, InitAgent, NextAgent, PTL DEF AgentSpec

\* The windows are maximal: two of them never touch.
THEOREM WindowsNeverTouch == AgentSpec => []WindowsApart
<1>1. AgentInv => WindowsApart
  BY DEF AgentInv, DoneInv, Apart, WindowsApart
<1> QED  BY <1>1, InitAgent, NextAgent, PTL DEF AgentSpec

-----------------------------------------------------------------------------
(* The critic: what the events of a context cost a leave time.              *)

LEMMA LeastNumber ==
  ASSUME NEW T \in SUBSET Nat, T # {}
  PROVE  \E m \in T : \A n \in T : m <= n
<1> DEFINE R == OpToRel(<, Nat)
<1>1. IsWellFoundedOn(R, Nat)
  BY NatLessThanWellFounded
<1>2. \A x, y \in Nat : x < y => <<x, y>> \in R
  BY DEF OpToRel
<1> HIDE DEF R
<1>3. PICK m \in T : \A n \in T : ~(<<n, m>> \in R)
  BY <1>1, WFMin
<1>4. \A n \in T : ~(n < m)
  BY <1>2, <1>3
<1> QED BY <1>4

LEMMA Induct ==
  ASSUME NEW T, 0 \in T, \A n \in Nat : n \in T => n + 1 \in T
  PROVE  Nat \subseteq T
<1> SUFFICES ASSUME Nat \ T # {} PROVE FALSE
  OBVIOUS
<1>1. PICK m \in Nat \ T : \A n \in Nat \ T : m <= n
  BY LeastNumber
<1>2. m # 0 /\ m - 1 \in Nat /\ m - 1 \in T
  BY <1>1
<1> QED BY <1>2, <1>1

\* What a set of events costs, given what each smaller set does.
Added(leave, s, cost) ==
  IF s = {} THEN 0
  ELSE LET e == CHOOSE x \in s : TRUE
       IN EventPenalty(e, leave) + cost[s \ {e}]

\* cost is the sum for every set of at most n of the events.
Costs(leave, n, cost) ==
  \A s \in SUBSET context.events : Cardinality(s) <= n => cost[s] = Added(leave, s, cost)

\* The event chosen from a set leaves a smaller one.
LEMMA OneLess ==
  ASSUME IsFiniteSet(context.events), NEW s \in SUBSET context.events, s # {}
  PROVE  /\ (CHOOSE x \in s : TRUE) \in s
         /\ s \ {CHOOSE x \in s : TRUE} \in SUBSET context.events
         /\ Cardinality(s) \in Nat
         /\ Cardinality(s \ {CHOOSE x \in s : TRUE}) = Cardinality(s) - 1
<1>1. (CHOOSE x \in s : TRUE) \in s
  OBVIOUS
<1>2. IsFiniteSet(s)
  BY FS_Subset
<1> QED BY <1>1, <1>2, FS_RemoveElement, FS_CardinalityType

LEMMA CostsExist ==
  ASSUME NEW leave, IsFiniteSet(context.events), NEW n \in Nat
  PROVE  \E cost : Costs(leave, n, cost)
<1> DEFINE T == {k \in Nat : \E cost : Costs(leave, k, cost)}
<1>1. 0 \in T
  <2> DEFINE none == [s \in SUBSET context.events |-> 0]
  <2>1. ASSUME NEW s \in SUBSET context.events, Cardinality(s) <= 0 PROVE s = {}
    BY <2>1, OneLess, FS_Subset, FS_CardinalityType, FS_EmptySet
  <2>2. Costs(leave, 0, none)
    BY <2>1 DEF Costs, Added
  <2> QED BY <2>2
<1>2. ASSUME NEW k \in Nat, k \in T PROVE k + 1 \in T
  <2>1. PICK cost : Costs(leave, k, cost)
    BY <1>2
  <2> DEFINE more == [s \in SUBSET context.events |-> IF Cardinality(s) <= k THEN cost[s] ELSE Added(leave, s, cost)]
  <2>2. ASSUME NEW s \in SUBSET context.events, Cardinality(s) <= k + 1
        PROVE  more[s] = Added(leave, s, more)
    <3>1. more[s] = Added(leave, s, cost)
      BY <2>1 DEF Costs
    <3>2. CASE s = {}
      BY <3>1, <3>2 DEF Added
    <3>3. CASE s # {}
      <4> DEFINE rest == s \ {CHOOSE x \in s : TRUE}
      <4>1. rest \in SUBSET context.events /\ Cardinality(rest) <= k
        BY <2>2, <3>3, OneLess
      <4>2. more[rest] = cost[rest]
        BY <4>1
      <4> HIDE DEF more
      <4> QED BY <3>1, <3>3, <4>2 DEF Added
    <3> QED BY <3>2, <3>3
  <2>3. Costs(leave, k + 1, more)
    BY <2>2 DEF Costs
  <2> QED BY <2>3
<1> HIDE DEF T
<1>3. n \in T
  BY <1>1, <1>2, Induct
<1> QED BY <1>3 DEF T

\* The penalties of all events are those sums.
LEMMA PenaltiesAdd ==
  ASSUME NEW leave, IsFiniteSet(context.events)
  PROVE  \E cost : /\ \A s \in SUBSET context.events : cost[s] = Added(leave, s, cost)
                   /\ EventPenalties(leave) = cost[context.events]
<1> DEFINE Equation(g) == g = [s \in SUBSET context.events |->
                               IF s = {} THEN 0
                               ELSE LET x == CHOOSE x \in s : TRUE
                                    IN EventPenalty(x, leave) + g[s \ {x}]]
<1>1. PICK cost : Costs(leave, Cardinality(context.events), cost)
  BY CostsExist, FS_CardinalityType
<1>2. \A s \in SUBSET context.events : Cardinality(s) <= Cardinality(context.events)
  BY FS_Subset
<1> DEFINE g == [s \in SUBSET context.events |-> cost[s]]
<1>3. ASSUME NEW s \in SUBSET context.events
      PROVE  g[s] = IF s = {} THEN 0
                    ELSE LET x == CHOOSE x \in s : TRUE
                         IN EventPenalty(x, leave) + g[s \ {x}]
  BY <1>1, <1>2, OneLess DEF Costs, Added
<1>4. Equation(g)
  BY <1>3
<1> DEFINE h == CHOOSE f : Equation(f)
<1>5. Equation(h)
  BY <1>4, Zenon
<1>6. EventPenalties(leave) = h[context.events]
  BY Zenon DEF EventPenalties, MapThenSumSet, MapThenFoldSet
<1> HIDE DEF h
<1>7. ASSUME NEW s \in SUBSET context.events PROVE h[s] = Added(leave, s, h)
  BY <1>5 DEF Added
<1> QED BY <1>6, <1>7

\* A penalty is never negative, and the total is nothing only if each is.
LEMMA PenaltiesCount ==
  ASSUME context \in Contexts, NEW leave \in Int
  PROVE  /\ EventPenalties(leave) \in Nat
         /\ EventPenalties(leave) = 0 => \A e \in context.events : EventPenalty(e, leave) = 0
<1> USE DEF Contexts
<1>1. IsFiniteSet(context.events) /\ context.events \subseteq Meetings
  OBVIOUS
<1>2. PICK cost : /\ \A s \in SUBSET context.events : cost[s] = Added(leave, s, cost)
                  /\ EventPenalties(leave) = cost[context.events]
  BY <1>1, PenaltiesAdd
<1>3. \A e \in context.events : EventPenalty(e, leave) \in Nat
  BY <1>1 DEF EventPenalty, Meetings
<1> DEFINE Counts(s) == cost[s] \in Nat /\ (cost[s] = 0 => \A e \in s : EventPenalty(e, leave) = 0)
           T == {k \in Nat : \A s \in SUBSET context.events : Cardinality(s) <= k => Counts(s)}
<1>4. Counts({})
  <2>1. cost[{}] = Added(leave, {}, cost)
    BY <1>2
  <2> QED BY <2>1 DEF Added
<1>5. 0 \in T
  <2>1. ASSUME NEW s \in SUBSET context.events, Cardinality(s) <= 0 PROVE s = {}
    BY <1>1, <2>1, FS_Subset, FS_CardinalityType, FS_EmptySet
  <2> QED BY <1>4, <2>1
<1>6. ASSUME NEW k \in Nat, k \in T PROVE k + 1 \in T
  <2>1. ASSUME NEW s \in SUBSET context.events, Cardinality(s) <= k + 1, s # {} PROVE Counts(s)
    <3> DEFINE e == CHOOSE x \in s : TRUE
               rest == s \ {e}
    <3>1. e \in s /\ rest \in SUBSET context.events /\ Cardinality(rest) <= k
      BY <1>1, <2>1, OneLess
    <3>2. Counts(rest)
      BY <1>6, <3>1
    <3>3. cost[s] = EventPenalty(e, leave) + cost[rest]
      BY <1>2, <2>1 DEF Added
    <3> HIDE DEF e
    <3>4. EventPenalty(e, leave) \in Nat
      BY <1>3, <3>1
    <3>5. cost[s] \in Nat /\ (cost[s] = 0 => EventPenalty(e, leave) = 0 /\ cost[rest] = 0)
      BY <3>2, <3>3, <3>4
    <3>6. \A x \in s : x = e \/ x \in rest
      OBVIOUS
    <3> QED BY <3>2, <3>5, <3>6
  <2> HIDE DEF Counts
  <2>2. \A s \in SUBSET context.events : Cardinality(s) <= k + 1 => Counts(s)
    BY <1>4, <2>1
  <2> QED BY <2>2
<1> HIDE DEF T, Counts
<1>7. Cardinality(context.events) \in T
  BY <1>1, <1>5, <1>6, Induct, FS_CardinalityType
<1>8. Counts(context.events)
  BY <1>1, <1>7, FS_CardinalityType DEF T
<1> QED BY <1>2, <1>8 DEF Counts

LEMMA ScoreType ==
  ASSUME context \in Contexts, NEW leave \in Int
  PROVE  Score(leave) \in Int /\ TicksLate(leave) \in Int
<1> USE MinuteAssumption
<1>1. context.departure \in Int /\ context.boarding \in Int /\ context.travel \in Int
      /\ context.gateBuffer \in Int /\ context.preferredBuffer \in Int
  BY DEF Contexts
<1>2. GateArrival(leave) \in Int /\ GateDeadline \in Int
  BY <1>1 DEF GateArrival, GateDeadline
<1>3. TicksLate(leave) \in Int
  BY <1>2 DEF TicksLate
<1>4. \A margin : BoardingPenalty(margin) \in Int
  BY DEF BoardingPenalty
<1>5. EarlyPenalty(leave) \in Int
  <2>1. context.departure - leave - 120 * Minute \in Int
    BY <1>1
  <2>2. ASSUME NEW x \in Int PROVE Max({0, x}) \in Int
    <3>1. \E m \in {0, x} : \A n \in {0, x} : m >= n
      OBVIOUS
    <3>2. Max({0, x}) \in {0, x}
      BY <3>1 DEF Max
    <3> QED BY <3>2
  <2>3. \A x \in Int : (x \div Minute) \in Int
    OBVIOUS
  <2>4. Minute \div 2 \in Int
    OBVIOUS
  <2> DEFINE early == Max({0, context.departure - leave - 120 * Minute})
  <2>5. early \in Int
    BY <2>1, <2>2
  <2> HIDE DEF early
  <2>6. 8 * early + Minute \div 2 \in Int
    BY <2>4, <2>5
  <2> QED BY <2>3, <2>6 DEF EarlyPenalty, early
<1>6. EventPenalties(leave) \in Int
  BY PenaltiesCount
<1> QED BY <1>3, <1>4, <1>5, <1>6 DEF Score

\* Lateness is the leave time up to what the whole trip has in common.
LEMMA LateByLeave ==
  ASSUME context \in Contexts
  PROVE  \E base \in Int : \A leave \in Int : TicksLate(leave) = leave - base
<1> DEFINE drive == context.travel * Minute
<1>1. drive \in Int
  BY MinuteAssumption DEF Contexts
<1>2. GateDeadline \in Int
  BY MinuteAssumption DEF Contexts, GateDeadline
<1>3. \A leave \in Int : TicksLate(leave) = (leave + drive) - GateDeadline
  BY DEF TicksLate, GateArrival
<1> HIDE DEF drive
<1>4. \A leave \in Int : TicksLate(leave) = leave - (GateDeadline - drive)
  BY <1>1, <1>2, <1>3
<1>5. GateDeadline - drive \in Int
  BY <1>1, <1>2
<1> QED BY <1>4, <1>5, Zenon

LEMMA LateDiffers ==
  ASSUME context \in Contexts, NEW a \in Int, NEW b \in Int, a # b
  PROVE  TicksLate(a) # TicksLate(b)
BY LateByLeave

-----------------------------------------------------------------------------
(* One ranking.                                                             *)

\* Plan a is preferred to b, wherever they stand in a pool.
Better(a, b) ==
  \/ Feasible(a) /\ ~Feasible(b)
  \/ Feasible(a) /\ Feasible(b) /\ Score(a) > Score(b)
  \/ ~Feasible(a) /\ ~Feasible(b) /\ TicksLate(a) < TicksLate(b)

\* To be no worse is transitive.
LEMMA NoWorse ==
  ASSUME context \in Contexts, NEW a \in Int, NEW b \in Int, NEW c \in Int,
         ~Better(b, a), ~Better(c, b)
  PROVE  ~Better(c, a)
<1>1. Score(a) \in Int /\ Score(b) \in Int /\ Score(c) \in Int
  BY ScoreType
<1>2. TicksLate(a) \in Int /\ TicksLate(b) \in Int /\ TicksLate(c) \in Int
  BY ScoreType
<1> QED BY <1>1, <1>2 DEF Better

\* A pool ranks its distinct plans strictly.
LEMMA StrictRanking ==
  ASSUME context \in Contexts, NEW pool \in Seq(Int)
  PROVE  /\ \A i \in Distinct(pool) : i \in 1..Len(pool) /\ pool[i] \in Int /\ ~Precedes(pool, i, i)
         /\ \A i, j \in Distinct(pool) : i # j => Precedes(pool, i, j) \/ Precedes(pool, j, i)
         /\ \A i, j, k \in Distinct(pool) : Precedes(pool, i, j) /\ Precedes(pool, j, k) => Precedes(pool, i, k)
         /\ \A i, j \in Distinct(pool) : ~Precedes(pool, j, i) => ~Better(pool[j], pool[i])
<1>1. \A i \in Distinct(pool) : i \in 1..Len(pool) /\ pool[i] \in Int
  BY DEF Distinct
<1>2. \A i, j \in Distinct(pool) : i # j => pool[i] # pool[j]
  BY DEF Distinct
<1>3. \A i \in Distinct(pool) : Score(pool[i]) \in Int /\ TicksLate(pool[i]) \in Int
  BY <1>1, ScoreType
<1>4. \A i, j \in Distinct(pool) : i # j => TicksLate(pool[i]) # TicksLate(pool[j])
  <2> SUFFICES ASSUME NEW i \in Distinct(pool), NEW j \in Distinct(pool), i # j
               PROVE  TicksLate(pool[i]) # TicksLate(pool[j])
    OBVIOUS
  <2>1. PICK a \in Int, b \in Int : a = pool[i] /\ b = pool[j] /\ a # b
    BY <1>1, <1>2
  <2>2. TicksLate(a) # TicksLate(b)
    BY <2>1, LateDiffers
  <2> QED BY <2>1, <2>2
<1>5. \A i \in Distinct(pool) : ~Precedes(pool, i, i)
  BY <1>1, <1>3 DEF Precedes
<1>6. \A i, j \in Distinct(pool) : i # j => Precedes(pool, i, j) \/ Precedes(pool, j, i)
  BY <1>1, <1>3, <1>4 DEF Precedes
<1>7. \A i, j, k \in Distinct(pool) : Precedes(pool, i, j) /\ Precedes(pool, j, k) => Precedes(pool, i, k)
  BY <1>1, <1>3 DEF Precedes
<1>8. \A i, j \in Distinct(pool) : ~Precedes(pool, j, i) => ~Better(pool[j], pool[i])
  BY <1>1, <1>3 DEF Precedes, Better
<1> QED BY <1>1, <1>5, <1>6, <1>7, <1>8

Ahead(pool, i) == {j \in Distinct(pool) : Precedes(pool, j, i)}

\* Each place below the number of distinct plans is taken by one of them.
LEMMA PlacesTaken ==
  ASSUME context \in Contexts, NEW pool \in Seq(Int), pool # <<>>
  PROVE  /\ IsFiniteSet(Distinct(pool)) /\ Cardinality(Distinct(pool)) \in Nat \ {0}
         /\ \A n \in 0..(Cardinality(Distinct(pool)) - 1) :
              \E i \in Distinct(pool) : Cardinality(Ahead(pool, i)) = n
<1> DEFINE places == Distinct(pool)
           top == Cardinality(places) - 1
           f == [i \in places |-> Cardinality(Ahead(pool, i))]
<1>1. IsFiniteSet(places)
  <2>1. places \in SUBSET (1..Len(pool)) /\ Len(pool) \in Nat
    BY DEF Distinct
  <2>2. IsFiniteSet(1..Len(pool))
    BY <2>1, FS_Interval
  <2> HIDE DEF places
  <2> QED BY <2>1, <2>2, FS_Subset
<1>2. 1 \in places
  BY DEF Distinct
<1>3. Cardinality(places) \in Nat \ {0}
  BY <1>1, <1>2, FS_CardinalityType, FS_EmptySet
<1>4. ASSUME NEW i \in places
      PROVE  IsFiniteSet(Ahead(pool, i)) /\ f[i] \in 0..top
  <2>1. Ahead(pool, i) \in SUBSET (places \ {i})
    BY StrictRanking DEF Ahead
  <2>2. IsFiniteSet(places \ {i}) /\ Cardinality(places \ {i}) = Cardinality(places) - 1
    BY <1>1, FS_RemoveElement
  <2>3. IsFiniteSet(Ahead(pool, i)) /\ Cardinality(Ahead(pool, i)) <= Cardinality(places) - 1
    BY <2>1, <2>2, FS_Subset
  <2> QED BY <1>3, <2>3, FS_CardinalityType
<1>5. ASSUME NEW i \in places, NEW j \in places, Precedes(pool, i, j)
      PROVE  f[i] # f[j]
  <2>1. Ahead(pool, i) \in SUBSET Ahead(pool, j)
    BY <1>5, StrictRanking DEF Ahead
  <2>2. i \in Ahead(pool, j) /\ i \notin Ahead(pool, i)
    BY <1>5, StrictRanking DEF Ahead
  <2>3. Cardinality(Ahead(pool, j)) = Cardinality(Ahead(pool, i)) => Ahead(pool, j) = Ahead(pool, i)
    BY <1>4, <2>1, FS_Subset
  <2> QED BY <2>2, <2>3
<1>6. \A i, j \in places : f[i] = f[j] => i = j
  BY <1>5, StrictRanking
<1>7. f \in Injection(places, 0..top)
  <2>1. f \in [places -> 0..top]
    BY <1>4
  <2> HIDE DEF f
  <2> QED BY <1>6, <2>1 DEF Injection, IsInjective
<1>8. IsFiniteSet(0..top) /\ Cardinality(0..top) = Cardinality(places)
  <2> DEFINE n == Cardinality(places)
  <2> HIDE DEF n
  <2>1. n \in Nat \ {0}
    BY <1>3 DEF n
  <2>2. IsFiniteSet(0..(n - 1)) /\ Cardinality(0..(n - 1)) = n
    BY <2>1, FS_Interval
  <2> QED BY <2>2 DEF n
<1>9. f \in Surjection(places, 0..top)
  BY <1>7, <1>8, FS_Injection
<1>10. \A n \in 0..top : \E i \in places : f[i] = n
  BY <1>9 DEF Surjection
<1> QED BY <1>1, <1>3, <1>10

\* The order of two numbers, by which the beam is cut off.
LEMMA MinOfTwo ==
  ASSUME NEW m \in Nat \ {0}, NEW n \in Nat \ {0}
  PROVE  Min({m, n}) \in 1..n
<1>1. \E x \in {m, n} : \A y \in {m, n} : x <= y
  OBVIOUS
<1>2. Min({m, n}) \in {m, n} /\ \A y \in {m, n} : Min({m, n}) <= y
  BY <1>1 DEF Min
<1> QED BY <1>2

\* What a ranking keeps are plans of the pool, and none of the pool is better than
\* the first it keeps.
LEMMA RankKeepsBest ==
  ASSUME context \in Contexts, NEW pool \in Seq(Int), pool # <<>>
  PROVE  /\ Rank(pool) \in Seq(Int) /\ Rank(pool) # <<>>
         /\ \A n \in DOMAIN Rank(pool) : Rank(pool)[n] \in Range(pool)
         /\ \A leave \in Range(pool) : ~Better(leave, Rank(pool)[1])
<1> DEFINE places == Distinct(pool)
           size == Min({BeamWidth, Cardinality(places)})
           taker(n) == CHOOSE i \in places : Cardinality(Ahead(pool, i)) = n - 1
<1>1. /\ IsFiniteSet(places) /\ Cardinality(places) \in Nat \ {0}
      /\ \A n \in 0..(Cardinality(places) - 1) : \E i \in places : Cardinality(Ahead(pool, i)) = n
  BY PlacesTaken
<1>2. Rank(pool) = [n \in 1..size |-> pool[taker(n)]]
  BY DEF Rank, Ahead
<1>3. size \in 1..Cardinality(places)
  BY <1>1, MinOfTwo, SearchAssumption
<1> HIDE DEF size
<1>4. ASSUME NEW n \in 1..size
      PROVE  taker(n) \in places /\ Cardinality(Ahead(pool, taker(n))) = n - 1
  <2>1. n - 1 \in 0..(Cardinality(places) - 1)
    BY <1>1, <1>3
  <2>2. \E i \in places : Cardinality(Ahead(pool, i)) = n - 1
    BY <1>1, <2>1
  <2> QED BY <2>2
<1>5. \A i \in places : i \in 1..Len(pool) /\ pool[i] \in Int
  BY StrictRanking
<1> HIDE DEF taker
<1>6. Rank(pool) \in Seq(Int) /\ Rank(pool) # <<>> /\ DOMAIN Rank(pool) = 1..size
  <2>1. Rank(pool) \in [1..size -> Int]
    BY <1>2, <1>4, <1>5
  <2>2. size \in Nat \ {0}
    BY <1>1, <1>3
  <2> QED BY <2>1, <2>2
<1>7. \A n \in DOMAIN Rank(pool) : Rank(pool)[n] \in Range(pool)
  BY <1>2, <1>4, <1>5, <1>6 DEF Range
<1>8. 1 \in 1..size /\ Rank(pool)[1] = pool[taker(1)]
  BY <1>1, <1>2, <1>3
<1>9. Ahead(pool, taker(1)) = {}
  <2>1. Ahead(pool, taker(1)) \in SUBSET places
    BY DEF Ahead
  <2>2. IsFiniteSet(Ahead(pool, taker(1)))
    BY <1>1, <2>1, FS_Subset
  <2> QED BY <1>4, <1>8, <2>2, FS_EmptySet
<1>10. ASSUME NEW leave \in Range(pool)
       PROVE  ~Better(leave, Rank(pool)[1])
  <2>1. PICK j \in 1..Len(pool) : pool[j] = leave
    BY DEF Range
  <2> DEFINE same == {i \in 1..Len(pool) : pool[i] = leave}
  <2>2. PICK i \in same : \A k \in same : i <= k
    <3>1. same \in SUBSET Nat /\ same # {}
      BY <2>1
    <3> HIDE DEF same
    <3> QED BY <3>1, LeastNumber
  <2>3. i \in places
    BY <2>2 DEF Distinct
  <2>4. ~Precedes(pool, i, taker(1))
    BY <1>9, <2>3 DEF Ahead
  <2>5. ~Better(pool[i], pool[taker(1)])
    BY <1>4, <1>8, <2>3, <2>4, StrictRanking
  <2> QED BY <1>8, <2>2, <2>5
<1> QED BY <1>6, <1>7, <1>10

\* The pool of a refinement holds the first plan kept, and that plan ten minutes
\* earlier, or more.
LEMMA PoolOfRefinement ==
  ASSUME beam \in Seq(Int), beam # <<>>
  PROVE  /\ Expanded \in Seq(Int) /\ Expanded # <<>>
         /\ beam[1] \in Range(Expanded)
         /\ \E leave \in Range(Expanded) : leave <= beam[1] - 10 * Minute
<1> USE MinuteAssumption
<1> DEFINE n == Len(beam)
<1>1. n \in Nat \ {0} /\ \A i \in 1..n : beam[i] \in Int
  OBVIOUS
<1>2. \A leave \in Int : leave % Minute \in Int /\ 0 <= leave % Minute
  OBVIOUS
<1>3. \A plan \in Int, minutes \in Int :
        Shifted(plan, minutes) \in Int /\ Shifted(plan, minutes) <= plan + minutes * Minute
  <2> SUFFICES ASSUME NEW plan \in Int, NEW minutes \in Int
               PROVE  Shifted(plan, minutes) \in Int /\ Shifted(plan, minutes) <= plan + minutes * Minute
    OBVIOUS
  <2> DEFINE moved == plan + minutes * Minute
  <2>1. moved \in Int
    OBVIOUS
  <2>2. Shifted(plan, minutes) = moved - (moved % Minute)
    BY DEF Shifted, ToTheMinute
  <2> HIDE DEF moved
  <2>3. moved % Minute \in Int /\ 0 <= moved % Minute
    BY <1>2, <2>1
  <2>4. moved - (moved % Minute) \in Int /\ moved - (moved % Minute) <= moved
    BY <2>1, <2>3
  <2> QED BY <2>2, <2>4 DEF moved
<1>3a. \A plan \in Int : Shifted(plan, -10) \in Int /\ Shifted(plan, 10) \in Int /\ Shifted(plan, -10) <= plan - 10 * Minute
  <2> SUFFICES ASSUME NEW plan \in Int
               PROVE  Shifted(plan, -10) \in Int /\ Shifted(plan, 10) \in Int /\ Shifted(plan, -10) <= plan - 10 * Minute
    OBVIOUS
  <2>1. -10 \in Int /\ 10 \in Int
    OBVIOUS
  <2>2. Shifted(plan, -10) \in Int /\ Shifted(plan, 10) \in Int /\ Shifted(plan, -10) <= plan + (-10) * Minute
    BY <1>3, <2>1, Zenon
  <2>3. plan + (-10) * Minute = plan - 10 * Minute
    OBVIOUS
  <2> QED BY <2>2, <2>3
<1> HIDE DEF n
<1>4. ASSUME NEW i \in (n + 1)..(3 * n)
      PROVE  (i - n + 1) \div 2 \in 1..n
  BY <1>1
<1>5. ASSUME NEW i \in 1..(3 * n)
      PROVE  (IF i <= n THEN beam[i]
              ELSE LET k == i - n + 1
                   IN Shifted(beam[k \div 2], IF k % 2 = 0 THEN -10 ELSE 10)) \in Int
  <2>1. CASE i <= n
    BY <1>1, <2>1
  <2>2. CASE ~(i <= n)
    <3>1. beam[(i - n + 1) \div 2] \in Int
      BY <1>1, <1>4, <2>2
    <3>2. PICK plan \in Int : plan = beam[(i - n + 1) \div 2]
      BY <3>1
    <3>3. Shifted(plan, -10) \in Int /\ Shifted(plan, 10) \in Int
      BY <1>3a
    <3> QED BY <2>2, <3>2, <3>3
  <2> QED BY <2>1, <2>2
<1>6. Expanded = [i \in 1..(3 * n) |->
                    IF i <= n THEN beam[i]
                    ELSE LET k == i - n + 1
                         IN Shifted(beam[k \div 2], IF k % 2 = 0 THEN -10 ELSE 10)]
  BY DEF Expanded, n
<1>7. 3 * n \in Nat \ {0} /\ 1 \in 1..(3 * n) /\ n + 1 \in 1..(3 * n) /\ 1 <= n /\ ~(n + 1 <= n)
  BY <1>1
<1>8. Expanded \in Seq(Int) /\ Expanded # <<>> /\ DOMAIN Expanded = 1..(3 * n)
  <2>1. Expanded \in [1..(3 * n) -> Int]
    BY <1>5, <1>6
  <2> QED BY <1>7, <2>1
<1>9. Expanded[1] = beam[1]
  BY <1>6, <1>7
<1>10. Expanded[n + 1] = Shifted(beam[1], -10)
  <2>1. (n + 1) - n + 1 = 2 /\ 2 \div 2 = 1 /\ 2 % 2 = 0
    BY <1>1
  <2>2. Expanded[n + 1] = LET k == (n + 1) - n + 1
                          IN Shifted(beam[k \div 2], IF k % 2 = 0 THEN -10 ELSE 10)
    BY <1>6, <1>7
  <2>3. Expanded[n + 1] = Shifted(beam[2 \div 2], IF 2 % 2 = 0 THEN -10 ELSE 10)
    BY <2>1, <2>2, Zenon
  <2> QED BY <2>1, <2>3
<1>11. Shifted(beam[1], -10) <= beam[1] - 10 * Minute
  <2>1. beam[1] \in Int
    BY <1>1
  <2> QED BY <1>3a, <2>1, Zenon
<1> QED BY <1>7, <1>8, <1>9, <1>10, <1>11 DEF Range

\* kept holds the feasible plans among the first n of the beam, for n up to m.
Keeps(m, kept) ==
  /\ kept[0] = <<>>
  /\ \A i \in 1..m : kept[i] = IF Feasible(beam[i]) THEN Append(kept[i - 1], beam[i]) ELSE kept[i - 1]

LEMMA KeepsExist ==
  ASSUME NEW m \in Nat
  PROVE  \E kept : Keeps(m, kept)
<1> DEFINE T == {k \in Nat : \E kept : Keeps(k, kept)}
<1>1. 0 \in T
  <2> DEFINE none == [i \in {0} |-> <<>>]
  <2>1. Keeps(0, none)
    BY DEF Keeps
  <2> QED BY <2>1
<1>2. ASSUME NEW k \in Nat, k \in T PROVE k + 1 \in T
  <2>1. PICK kept : Keeps(k, kept)
    BY <1>2
  <2> DEFINE last == IF Feasible(beam[k + 1]) THEN Append(kept[k], beam[k + 1]) ELSE kept[k]
             more == [i \in 0..(k + 1) |-> IF i <= k THEN kept[i] ELSE last]
  <2>2. more[0] = <<>>
    BY <2>1 DEF Keeps
  <2>3. ASSUME NEW i \in 1..(k + 1)
        PROVE  more[i] = IF Feasible(beam[i]) THEN Append(more[i - 1], beam[i]) ELSE more[i - 1]
    <3>1. CASE i <= k
      <4>1. more[i] = kept[i] /\ more[i - 1] = kept[i - 1]
        BY <3>1
      <4> QED BY <2>1, <3>1, <4>1 DEF Keeps
    <3>2. CASE i = k + 1
      <4>1. more[i] = last /\ more[i - 1] = kept[k] /\ beam[i] = beam[k + 1]
        BY <3>2
      <4> QED BY <4>1
    <3> QED BY <3>1, <3>2
  <2>4. Keeps(k + 1, more)
    BY <2>2, <2>3 DEF Keeps
  <2> QED BY <2>4
<1> HIDE DEF T
<1>3. m \in T
  BY <1>1, <1>2, Induct
<1> QED BY <1>3 DEF T

LEMMA FinalistsKept ==
  ASSUME beam \in Seq(Int)
  PROVE  \E kept : Keeps(Len(beam), kept) /\ Finalists = kept[Len(beam)]
<1> DEFINE Equation(f) == f = [i \in 0..Len(beam) |->
                               IF i = 0 THEN <<>>
                               ELSE IF Feasible(beam[i]) THEN Append(f[i - 1], beam[i])
                               ELSE f[i - 1]]
<1>1. Len(beam) \in Nat
  OBVIOUS
<1>2. PICK kept : Keeps(Len(beam), kept)
  BY <1>1, KeepsExist
<1> DEFINE f == [i \in 0..Len(beam) |-> kept[i]]
<1>3. ASSUME NEW i \in 0..Len(beam)
      PROVE  f[i] = IF i = 0 THEN <<>>
                    ELSE IF Feasible(beam[i]) THEN Append(f[i - 1], beam[i])
                    ELSE f[i - 1]
  <2>1. CASE i = 0
    BY <1>2, <2>1 DEF Keeps
  <2>2. CASE i \in 1..Len(beam)
    <3>1. f[i] = kept[i] /\ f[i - 1] = kept[i - 1]
      BY <1>1, <2>2
    <3> QED BY <1>2, <2>2, <3>1 DEF Keeps
  <2> QED BY <2>1, <2>2
<1>4. Equation(f)
  BY <1>3
<1> DEFINE h == CHOOSE g : Equation(g)
<1>5. Equation(h)
  BY <1>4, Zenon
<1>6. Finalists = h[Len(beam)]
  BY Zenon DEF Finalists
<1> HIDE DEF h
<1>7. Keeps(Len(beam), h)
  <2>1. h[0] = <<>>
    BY <1>1, <1>5
  <2>2. ASSUME NEW i \in 1..Len(beam)
        PROVE  h[i] = IF Feasible(beam[i]) THEN Append(h[i - 1], beam[i]) ELSE h[i - 1]
    <3>1. i \in 0..Len(beam) /\ i # 0
      BY <1>1
    <3>2. h[i] = IF i = 0 THEN <<>>
                 ELSE IF Feasible(beam[i]) THEN Append(h[i - 1], beam[i])
                 ELSE h[i - 1]
      BY <1>5, <3>1, Zenon
    <3> QED BY <3>1, <3>2, Zenon
  <2> QED BY <2>1, <2>2 DEF Keeps
<1> QED BY <1>6, <1>7

\* The finalists are feasible plans of the beam, and the first of the beam is the
\* first of them if it is one of them.
LEMMA FinalistsAreFeasible ==
  ASSUME beam \in Seq(Int), beam # <<>>
  PROVE  /\ Finalists \in Seq(Int)
         /\ \A i \in DOMAIN Finalists : Feasible(Finalists[i]) /\ Finalists[i] \in Range(beam)
         /\ Feasible(beam[1]) => Finalists # <<>> /\ Finalists[1] = beam[1]
<1> DEFINE n == Len(beam)
           Good(s, i) == /\ s \in Seq(Int)
                         /\ \A j \in DOMAIN s : Feasible(s[j]) /\ s[j] \in Range(beam)
                         /\ i > 0 /\ Feasible(beam[1]) => s # <<>> /\ s[1] = beam[1]
<1>1. n \in Nat /\ n > 0 /\ \A i \in 1..n : beam[i] \in Int /\ beam[i] \in Range(beam)
  BY DEF Range
<1>2. PICK kept : Keeps(n, kept) /\ Finalists = kept[n]
  BY FinalistsKept
<1> DEFINE T == {i \in Nat : i <= n => Good(kept[i], i)}
<1> HIDE DEF n
<1>3. 0 \in T
  <2>1. kept[0] = <<>>
    BY <1>2 DEF Keeps
  <2>2. Good(<<>>, 0)
    OBVIOUS
  <2> QED BY <2>1, <2>2
<1>4. ASSUME NEW i \in Nat, i \in T PROVE i + 1 \in T
  <2> SUFFICES ASSUME i + 1 <= n PROVE Good(kept[i + 1], i + 1)
    OBVIOUS
  <2>1. Good(kept[i], i) /\ i + 1 \in 1..n
    BY <1>1, <1>4
  <2> DEFINE old == kept[i]
             plan == beam[i + 1]
  <2>2. kept[i + 1] = IF Feasible(plan) THEN Append(old, plan) ELSE old
    <3>1. (i + 1) - 1 = i
      OBVIOUS
    <3> QED BY <1>2, <2>1, <3>1 DEF Keeps
  <2>3. plan \in Int /\ plan \in Range(beam)
    BY <1>1, <2>1
  <2>4. i = 0 => old = <<>> /\ plan = beam[1]
    BY <1>2 DEF Keeps
  <2> HIDE DEF old, plan
  <2>5. Good(old, i)
    BY <2>1 DEF old
  <2>6. CASE Feasible(plan)
    <3>1. Append(old, plan) \in Seq(Int) /\ Append(old, plan) # <<>>
      BY <2>3, <2>5
    <3>2. ASSUME NEW j \in DOMAIN Append(old, plan)
          PROVE  Feasible(Append(old, plan)[j]) /\ Append(old, plan)[j] \in Range(beam)
      <4>1. Append(old, plan)[j] = plan \/ (j \in DOMAIN old /\ Append(old, plan)[j] = old[j])
        BY <2>5
      <4> QED BY <2>3, <2>5, <2>6, <4>1
    <3>3. Feasible(beam[1]) => Append(old, plan)[1] = beam[1]
      <4>1. CASE i = 0
        BY <2>3, <2>4, <4>1
      <4>2. CASE i > 0
        BY <2>3, <2>5, <4>2
      <4> QED BY <4>1, <4>2
    <3>4. Good(Append(old, plan), i + 1)
      BY <3>1, <3>2, <3>3
    <3> HIDE DEF Good
    <3> QED BY <2>2, <2>6, <3>4
  <2>7. CASE ~Feasible(plan)
    <3>1. Good(old, i + 1)
      BY <2>4, <2>5, <2>7
    <3> HIDE DEF Good
    <3> QED BY <2>2, <2>7, <3>1
  <2> QED BY <2>6, <2>7
<1> HIDE DEF T, Good
<1>5. n \in T
  BY <1>1, <1>3, <1>4, Induct
<1>6. Good(Finalists, n)
  BY <1>1, <1>2, <1>5 DEF T
<1> QED BY <1>1, <1>6 DEF Good

-----------------------------------------------------------------------------
(* The search.                                                              *)

\* The best plan of the beam is the best of all evaluated.
Chosen ==
  /\ beam # <<>> /\ beam[1] \in evaluated /\ Range(beam) \subseteq evaluated
  /\ \A leave \in evaluated : ~Better(leave, beam[1])

\* While the best plan is late, every refinement made it ten minutes less late
\* than the best proposal.
Gained ==
  ~Feasible(beam[1]) =>
    \A i \in DOMAIN proposal :
      TicksLate(proposal[i]) >= TicksLate(beam[1]) + 10 * (round - 1) * Minute

SearchTypeOK ==
  /\ context \in Contexts
  /\ proposal \in Seq(Int) /\ beam \in Seq(Int)
  /\ evaluated \subseteq Int
  /\ round \in 0..Depth

SearchInv ==
  /\ SearchTypeOK
  /\ round = 0 => evaluated = {}
  /\ round > 0 => proposal # <<>> /\ Chosen /\ Gained
  /\ outcome = Pending \/ (round = Depth /\ outcome = Outcome)

\* What a set of events costs.
Cost(leave, happening) ==
  (CHOOSE f : f = [s \in SUBSET happening |->
                     IF s = {} THEN 0
                     ELSE LET x == CHOOSE x \in s : TRUE
                          IN EventPenalty(x, leave) + f[s \ {x}]])[happening]

CostsKnown == \A plan : EventPenalties(plan) = Cost(plan, context.events)

LEMMA PenaltiesCost == CostsKnown
BY Zenon DEF CostsKnown, EventPenalties, MapThenSumSet, MapThenFoldSet, Cost

\* What is said of a plan depends on the trip alone.
LEMMA SameTrip ==
  ASSUME context' = context
  PROVE  \A leave : /\ TicksLate(leave)' = TicksLate(leave)
                    /\ Feasible(leave)' <=> Feasible(leave)
                    /\ Score(leave)' = Score(leave)
<1> SUFFICES ASSUME NEW leave
             PROVE  /\ TicksLate(leave)' = TicksLate(leave)
                    /\ Feasible(leave)' <=> Feasible(leave)
                    /\ Score(leave)' = Score(leave)
  OBVIOUS
<1>1. GateArrival(leave)' = GateArrival(leave) /\ GateDeadline' = GateDeadline
  BY DEF GateArrival, GateDeadline
<1>2. TicksLate(leave)' = TicksLate(leave)
  BY <1>1 DEF TicksLate
<1>3. EventPenalties(leave)' = EventPenalties(leave)
  <2>1. CostsKnown'
    BY PenaltiesCost, PTL
  <2>2. EventPenalties(leave)' = Cost(leave, context'.events)
    BY <2>1 DEF CostsKnown
  <2> QED BY <2>2, PenaltiesCost DEF CostsKnown
<1>4. \A margin : BoardingPenalty(margin)' = BoardingPenalty(margin)
  BY DEF BoardingPenalty
<1>5. EarlyPenalty(leave)' = EarlyPenalty(leave)
  BY DEF EarlyPenalty
<1>6. Score(leave)' = Score(leave)
  BY <1>1, <1>3, <1>4, <1>5 DEF Score
<1> QED BY <1>2, <1>6 DEF Feasible

\* A ranking keeps the best of all evaluated so far, if the pool holds the best
\* of those before.
LEMMA KeepFindsBest ==
  ASSUME SearchTypeOK, NEW pool \in Seq(Int), pool # <<>>, Keep(pool),
         evaluated = {} \/ (Chosen /\ beam[1] \in Range(pool))
  PROVE  /\ beam' \in Seq(Int) /\ beam' # <<>> /\ beam'[1] \in Int
         /\ beam'[1] \in Range(pool) /\ Range(pool) \subseteq Int
         /\ Range(beam') \subseteq evaluated'
         /\ evaluated' \subseteq Int /\ beam'[1] \in evaluated'
         /\ \A leave \in evaluated' : ~Better(leave, beam'[1])
<1>1. beam' = Rank(pool) /\ evaluated' = evaluated \cup Range(pool) /\ context' = context
  BY DEF Keep
<1>2. Range(pool) \subseteq Int
  BY DEF Range
<1>3. /\ beam' \in Seq(Int) /\ beam' # <<>>
      /\ \A n \in DOMAIN beam' : beam'[n] \in Range(pool)
      /\ \A leave \in Range(pool) : ~Better(leave, beam'[1])
  BY <1>1, RankKeepsBest DEF SearchTypeOK
<1>4. beam'[1] \in Range(pool) /\ beam'[1] \in Int
  <2>1. 1 \in DOMAIN beam'
    BY <1>3
  <2> QED BY <1>2, <1>3, <2>1
<1>5. ASSUME NEW leave \in evaluated PROVE ~Better(leave, beam'[1])
  <2>1. Chosen /\ beam[1] \in Range(pool)
    BY <1>5
  <2>2. ~Better(leave, beam[1]) /\ ~Better(beam[1], beam'[1])
    BY <1>3, <2>1 DEF Chosen
  <2>3. PICK a \in Int, b \in Int, c \in Int : a = beam'[1] /\ b = beam[1] /\ c = leave
    BY <1>2, <1>4, <2>1 DEF SearchTypeOK
  <2>4. ~Better(c, a)
    BY <2>2, <2>3, NoWorse DEF SearchTypeOK
  <2> QED BY <2>3, <2>4
<1>6. evaluated' \subseteq Int
  BY <1>1, <1>2 DEF SearchTypeOK
<1>7. Range(beam') \subseteq evaluated'
  BY <1>1, <1>3 DEF Range
<1> QED BY <1>1, <1>2, <1>3, <1>4, <1>5, <1>6, <1>7

LEMMA BaselineType ==
  ASSUME NEW trip \in Contexts
  PROVE  Baseline(trip) \in Seq(Int) \ {<<>>}
<1>1. trip.departure \in Int
  BY DEF Contexts
<1>2. \A i \in 1..4 : <<195, 165, 135, 105>>[i] * Minute \in Int
  BY MinuteAssumption
<1>3. \A x \in Int : ToTheMinute(x) \in Int
  BY MinuteAssumption DEF ToTheMinute
<1>4. \A i \in 1..4 : ToTheMinute(trip.departure - <<195, 165, 135, 105>>[i] * Minute) \in Int
  BY <1>1, <1>2, <1>3
<1> QED BY <1>4 DEF Baseline

LEMMA AskKeepsSearch ==
  ASSUME SearchInv, NEW trip \in Contexts, Ask(trip)
  PROVE  SearchInv' /\ context' = trip
<1>1. /\ proposal = <<>> /\ context' = trip
      /\ proposal' \in Proposals \cup {Baseline(trip)}
      /\ UNCHANGED <<round, beam, evaluated, outcome>>
  BY DEF Ask
<1>2. round = 0 /\ evaluated = {}
  BY <1>1 DEF SearchInv, SearchTypeOK
<1>3. outcome = Pending
  BY <1>2, SearchAssumption DEF SearchInv
<1>4. proposal' \in Seq(Int)
  BY <1>1, BaselineType, ProposalAssumption
<1>5. SearchTypeOK'
  BY <1>1, <1>4 DEF SearchInv, SearchTypeOK
<1> QED BY <1>1, <1>2, <1>3, <1>5, SearchAssumption DEF SearchInv, Pending

LEMMA StartKeepsSearch ==
  ASSUME SearchInv, Start
  PROVE  SearchInv'
<1>1. /\ round = 0 /\ proposal # <<>> /\ Keep(proposal)
      /\ round' = 1 /\ UNCHANGED <<context, proposal, outcome>>
  BY DEF Start, Keep
<1>2. SearchTypeOK /\ evaluated = {} /\ proposal \in Seq(Int)
  BY <1>1 DEF SearchInv, SearchTypeOK
<1>3. /\ beam' \in Seq(Int) /\ beam' # <<>> /\ beam'[1] \in Int
      /\ evaluated' \subseteq Int /\ beam'[1] \in evaluated' /\ Range(beam') \subseteq evaluated'
      /\ \A leave \in evaluated' : ~Better(leave, beam'[1])
  BY <1>1, <1>2, KeepFindsBest
<1>4. \A leave : /\ TicksLate(leave)' = TicksLate(leave)
                 /\ Feasible(leave)' <=> Feasible(leave)
                 /\ Score(leave)' = Score(leave)
  BY <1>1, SameTrip
<1>5. SearchTypeOK'
  BY <1>1, <1>2, <1>3, SearchAssumption DEF SearchTypeOK
<1>6. Chosen'
  BY <1>3, <1>4 DEF Chosen, Better, Range
<1>7. Gained'
  <2> SUFFICES ASSUME ~Feasible(beam'[1]), NEW i \in DOMAIN proposal
               PROVE  TicksLate(proposal[i]) >= TicksLate(beam'[1]) + 10 * (round' - 1) * Minute
    BY <1>1, <1>4 DEF Gained
  <2>1. proposal[i] \in Int /\ proposal[i] \in evaluated'
    BY <1>1, <1>2 DEF Keep, Range
  <2>2. TicksLate(proposal[i]) \in Int /\ TicksLate(beam'[1]) \in Int
    BY <1>2, <1>3, <2>1, ScoreType DEF SearchTypeOK
  <2>3. ~(TicksLate(proposal[i]) < TicksLate(beam'[1]))
    <3>1. ~Better(proposal[i], beam'[1])
      BY <1>3, <2>1
    <3> QED BY <3>1 DEF Better
  <2>4. 10 * (round' - 1) * Minute = 0
    BY <1>1, MinuteAssumption
  <2> QED BY <2>2, <2>3, <2>4
<1>8. outcome' = Pending
  BY <1>1, SearchAssumption DEF SearchInv
<1> QED BY <1>1, <1>5, <1>6, <1>7, <1>8 DEF SearchInv, Pending

LEMMA RefineKeepsSearch ==
  ASSUME SearchInv, Refine
  PROVE  SearchInv'
<1>1. /\ round \in 1..(Depth - 1) /\ Keep(Expanded)
      /\ round' = round + 1 /\ UNCHANGED <<context, proposal, outcome>>
  BY DEF Refine, Keep
<1>2. /\ SearchTypeOK /\ Chosen /\ Gained /\ proposal # <<>>
      /\ beam \in Seq(Int) /\ beam # <<>>
  BY <1>1 DEF SearchInv, SearchTypeOK, Chosen
<1>3. /\ Expanded \in Seq(Int) /\ Expanded # <<>> /\ beam[1] \in Range(Expanded)
      /\ \E leave \in Range(Expanded) : leave <= beam[1] - 10 * Minute
  BY <1>2, PoolOfRefinement
<1>4. /\ beam' \in Seq(Int) /\ beam' # <<>> /\ beam'[1] \in Int
      /\ Range(Expanded) \subseteq Int
      /\ evaluated' \subseteq Int /\ beam'[1] \in evaluated' /\ Range(beam') \subseteq evaluated'
      /\ \A leave \in evaluated' : ~Better(leave, beam'[1])
  BY <1>1, <1>2, <1>3, KeepFindsBest
<1>5. \A leave : /\ TicksLate(leave)' = TicksLate(leave)
                 /\ Feasible(leave)' <=> Feasible(leave)
                 /\ Score(leave)' = Score(leave)
  BY <1>1, SameTrip
<1>6. SearchTypeOK'
  BY <1>1, <1>2, <1>4, SearchAssumption DEF SearchTypeOK
<1>7. Chosen'
  BY <1>4, <1>5 DEF Chosen, Better, Range
<1>8. Gained'
  <2> SUFFICES ASSUME ~Feasible(beam'[1]), NEW i \in DOMAIN proposal
               PROVE  TicksLate(proposal[i]) >= TicksLate(beam'[1]) + 10 * (round' - 1) * Minute
    BY <1>1, <1>5 DEF Gained
  <2> DEFINE late == TicksLate(proposal[i])
             before == TicksLate(beam[1])
             after == TicksLate(beam'[1])
  <2>1. PICK earlier \in Range(Expanded) : earlier <= beam[1] - 10 * Minute
    BY <1>3
  <2>2. earlier \in evaluated' /\ beam[1] \in evaluated'
    BY <1>1, <1>3 DEF Keep
  <2>3. ~Better(earlier, beam'[1]) /\ ~Better(beam[1], beam'[1])
    BY <1>4, <2>2
  <2>4. ~Feasible(beam[1]) /\ ~Feasible(earlier) /\ ~(TicksLate(earlier) < after)
    BY <2>3 DEF Better
  <2>5. earlier \in Int /\ beam[1] \in Int /\ proposal[i] \in Int
    BY <1>2, <1>4 DEF SearchTypeOK
  <2>6. late \in Int /\ before \in Int /\ after \in Int /\ TicksLate(earlier) \in Int
    BY <1>2, <1>4, <2>5, ScoreType DEF SearchTypeOK
  <2>7. TicksLate(earlier) <= before - 10 * Minute
    <3>1. PICK base \in Int : \A leave \in Int : TicksLate(leave) = leave - base
      BY <1>2, LateByLeave DEF SearchTypeOK
    <3>2. TicksLate(earlier) = earlier - base /\ TicksLate(beam[1]) = beam[1] - base
      BY <2>5, <3>1
    <3> QED BY <2>1, <2>5, <3>2, MinuteAssumption
  <2>8. late >= before + 10 * (round - 1) * Minute
    BY <1>2, <2>4 DEF Gained
  <2>9. 10 * (round' - 1) * Minute = 10 * (round - 1) * Minute + 10 * Minute
    BY <1>1, MinuteAssumption
  <2>10. 10 * (round - 1) * Minute \in Int /\ 10 * Minute \in Int
    BY <1>1, MinuteAssumption
  <2>11. ASSUME NEW x \in Int, NEW y \in Int, NEW l \in Int, NEW b \in Int, NEW a \in Int, NEW e \in Int,
                l >= b + x, e <= b - y, ~(e < a)
         PROVE  l >= a + (x + y)
    BY <2>11
  <2> HIDE DEF late, before, after
  <2>12. late >= after + (10 * (round - 1) * Minute + 10 * Minute)
    BY <2>4, <2>6, <2>7, <2>8, <2>10, <2>11
  <2> QED BY <2>9, <2>12 DEF late, after
<1>9. outcome' = Pending
  BY <1>1, SearchAssumption DEF SearchInv
<1> QED BY <1>1, <1>2, <1>6, <1>7, <1>8, <1>9 DEF SearchInv, SearchTypeOK, Pending

\* Everything the search's part of a state says survives if that part does.
LEMMA QuietSearch ==
  ASSUME SearchInv, UNCHANGED searchVars
  PROVE  SearchInv'
<1>1. context' = context /\ UNCHANGED <<proposal, round, beam, evaluated, outcome>>
  BY DEF searchVars
<1>2. \A leave : /\ TicksLate(leave)' = TicksLate(leave)
                 /\ Feasible(leave)' <=> Feasible(leave)
                 /\ Score(leave)' = Score(leave)
  BY <1>1, SameTrip
<1>3. SearchTypeOK'
  BY <1>1 DEF SearchInv, SearchTypeOK
<1>4. Chosen => Chosen'
  BY <1>1, <1>2 DEF Chosen, Better, Range
<1>5. Gained => Gained'
  BY <1>1, <1>2 DEF Gained
<1>6. Outcome' = Outcome /\ Pending' = Pending
  <2>1. Finalists' = Finalists
    BY <1>1, <1>2 DEF Finalists, Feasible, TicksLate, GateArrival, GateDeadline
  <2> QED BY <1>1, <1>2, <2>1 DEF Outcome, Pending
<1> QED BY <1>1, <1>3, <1>4, <1>5, <1>6 DEF SearchInv

LEMMA ReportKeepsSearch ==
  ASSUME SearchInv, Report
  PROVE  SearchInv'
<1>1. /\ round = Depth /\ outcome' = Outcome
      /\ context' = context /\ UNCHANGED <<proposal, round, beam, evaluated>>
  BY DEF Report
<1>2. \A leave : /\ TicksLate(leave)' = TicksLate(leave)
                 /\ Feasible(leave)' <=> Feasible(leave)
                 /\ Score(leave)' = Score(leave)
  BY <1>1, SameTrip
<1>3. SearchTypeOK'
  BY <1>1 DEF SearchInv, SearchTypeOK
<1>4. Chosen => Chosen'
  BY <1>1, <1>2 DEF Chosen, Better, Range
<1>5. Gained => Gained'
  BY <1>1, <1>2 DEF Gained
<1>6. Outcome' = Outcome
  <2>1. Finalists' = Finalists
    BY <1>1, <1>2 DEF Finalists, Feasible, TicksLate, GateArrival, GateDeadline
  <2> QED BY <1>1, <1>2, <2>1 DEF Outcome
<1> QED BY <1>1, <1>3, <1>4, <1>5, <1>6 DEF SearchInv

-----------------------------------------------------------------------------
(* The call.                                                                *)

CallInv ==
  /\ tool \in Answers /\ day \in Int /\ events \subseteq tool
  /\ flight \in [departure : Int, boarding : Int] /\ flight.boarding <= flight.departure
  /\ step \in {"idle", "agent"} => flight = NoFlight
  /\ step \in {"mapping", "transport"} => Fetched /\ \A e \in events : e.start < e.end
  /\ step = "transport" => \A e \in events : e.priority \in {"normal", "high"}
  /\ step # "search" => proposal = <<>>
  /\ step = "search" /\ flight # NoFlight => context.events = events /\ Fetched

PlanningInv == SearchInv /\ CallInv

LEMMA InitPlanning == Init => PlanningInv
<1> SUFFICES ASSUME Init PROVE PlanningInv
  OBVIOUS
<1>1. NoTrip \in Contexts
  BY FS_EmptySet DEF NoTrip, Contexts
<1>2. SearchInv
  BY <1>1, SearchAssumption DEF Init, SearchInit, SearchInv, SearchTypeOK
<1>3. CallInv
  BY AgentAssumption DEF Init, SearchInit, AgentInit, CallInv, NoFlight
<1> QED BY <1>2, <1>3 DEF PlanningInv

\* A context that was gathered is one a host might bring.
LEMMA GatheredIsContext ==
  ASSUME CallInv, step = "transport", NEW drive \in Drives, drive >= 0, NEW buffer \in GateBuffers
  PROVE  TripBy(drive, buffer) \in Contexts /\ TripBy(drive, buffer).events = events
<1>1. IsFiniteSet(events) /\ events \in SUBSET Meetings
  BY ListAssumption, AgentAssumption, FS_Subset DEF CallInv
<1>2. flight.departure \in Int /\ flight.boarding \in Int /\ flight.boarding <= flight.departure
  BY DEF CallInv
<1>3. drive + 20 + 15 \in Nat /\ buffer \in Nat
  BY DrivesAssumption
<1>4. \A e \in events : e.start < e.end /\ e.priority \in {"normal", "high"}
  BY DEF CallInv
<1> QED BY <1>1, <1>2, <1>3, <1>4 DEF TripBy, Contexts

LEMMA NextPlanning == PlanningInv /\ [Next]_vars => PlanningInv'
<1> SUFFICES ASSUME SearchInv, CallInv, [Next]_vars PROVE SearchInv' /\ CallInv'
  BY DEF PlanningInv
<1>1. CASE GetFlight
  <2>1. SearchInv'
    BY <1>1, QuietSearch DEF GetFlight
  <2>2. /\ step = "idle" /\ step' \in {"events", "InvalidDataError"}
        /\ UNCHANGED <<tool, day, events, proposal>>
    BY <1>1 DEF GetFlight, agentVars, searchVars
  <2>3. flight' \in [departure : Int, boarding : Int] /\ flight'.boarding <= flight'.departure
    BY <1>1, FlightsAssumption DEF GetFlight, CallInv
  <2> QED BY <2>1, <2>2, <2>3 DEF CallInv
<1>2. CASE FlightFails
  <2>1. SearchInv'
    BY <1>2, QuietSearch DEF FlightFails
  <2> QED BY <1>2, <2>1 DEF FlightFails, CallInv, Failures, agentVars, searchVars
<1>3. CASE CollectEvents
  <2>1. SearchInv'
    BY <1>3, QuietSearch DEF CollectEvents
  <2>2. step = "events" /\ UNCHANGED <<tool, day, flight, proposal>>
    BY <1>3 DEF CollectEvents, GetEvents, ToolFails, Quiet, searchVars
  <2>3. \/ /\ step' = "mapping" /\ events' = {m \in tool : OnDay(m, day)}
           /\ \A e \in tool : e.start < e.end
        \/ step' \in Failures /\ events' = events
    BY <1>3 DEF CollectEvents, GetEvents, ToolFails, Failures
  <2> QED BY <2>1, <2>2, <2>3 DEF CallInv, Fetched, OnDay, DayStart, DayEnd, Failures
<1>4. CASE MapPriorities
  <2>1. SearchInv'
    BY <1>4, QuietSearch DEF MapPriorities
  <2>2. /\ step = "mapping" /\ step' \in {"transport", "InvalidDataError"}
        /\ step' = "transport" => \A e \in events : e.priority \in {"normal", "high"}
        /\ UNCHANGED <<tool, day, events, flight, proposal>>
    BY <1>4 DEF MapPriorities, agentVars, searchVars
  <2> QED BY <2>1, <2>2 DEF CallInv, Fetched, OnDay, DayStart, DayEnd
<1>5. CASE GetEstimate
  <2>0. step = "transport" /\ UNCHANGED <<tool, day, events, flight>> /\ Fetched /\ Fetched'
    BY <1>5 DEF GetEstimate, agentVars, CallInv, Fetched, OnDay, DayStart, DayEnd
  <2>1. PICK drive \in Drives, buffer \in GateBuffers :
          \/ drive >= 0 /\ Ask(TripBy(drive, buffer)) /\ step' = "search"
          \/ drive < 0 /\ step' = "InvalidDataError" /\ UNCHANGED searchVars
    BY <1>5 DEF GetEstimate
  <2>2. CASE drive >= 0 /\ Ask(TripBy(drive, buffer)) /\ step' = "search"
    <3>1. TripBy(drive, buffer) \in Contexts /\ TripBy(drive, buffer).events = events
      BY <2>0, <2>2, GatheredIsContext
    <3>2. SearchInv' /\ context' = TripBy(drive, buffer)
      BY <2>2, <3>1, AskKeepsSearch
    <3> QED BY <2>0, <2>2, <3>1, <3>2 DEF CallInv
  <2>3. CASE step' = "InvalidDataError" /\ UNCHANGED searchVars
    <3>1. SearchInv' /\ proposal' = proposal
      BY <2>3, QuietSearch DEF searchVars
    <3> QED BY <2>0, <2>3, <3>1 DEF CallInv
  <2> QED BY <2>1, <2>2, <2>3
<1>6. CASE TransportFails
  <2>1. SearchInv'
    BY <1>6, QuietSearch DEF TransportFails
  <2> QED BY <1>6, <2>1 DEF TransportFails, CallInv, Failures, agentVars, searchVars
<1>7. CASE HostAsks
  <2>1. PICK trip \in TripsBeside[tool] : Ask(trip)
    BY <1>7 DEF HostAsks
  <2>2. trip \in Contexts
    BY HostAssumption DEF CallInv
  <2>3. SearchInv'
    BY <2>1, <2>2, AskKeepsSearch
  <2>4. step = "idle" /\ step' = "search" /\ UNCHANGED <<tool, day, events, flight>>
    BY <1>7 DEF HostAsks, agentVars
  <2> QED BY <2>3, <2>4 DEF CallInv
<1>8. CASE SearchOn
  <2>1. SearchInv'
    BY <1>8, StartKeepsSearch, RefineKeepsSearch, ReportKeepsSearch DEF SearchOn, Search
  <2>2. step = "search" /\ UNCHANGED <<step, flight, tool, day, events>> /\ context' = context
    BY <1>8 DEF SearchOn, Search, Start, Refine, Report, Keep, agentVars
  <2> QED BY <2>1, <2>2 DEF CallInv, Fetched, OnDay, DayStart, DayEnd
<1>9. CASE AskAgent
  <2>1. SearchInv'
    BY <1>9, QuietSearch DEF AskAgent
  <2>2. step = "idle" /\ step' = "agent" /\ UNCHANGED <<tool, day, flight, proposal>>
    BY <1>9 DEF AskAgent, GetEvents, ToolFails, Quiet, searchVars
  <2>3. events' \subseteq tool
    BY <1>9 DEF AskAgent, GetEvents, ToolFails, CallInv
  <2> QED BY <2>1, <2>2, <2>3 DEF CallInv
<1>10. CASE AgentOn
  <2>1. SearchInv'
    BY <1>10, QuietSearch DEF AgentOn
  <2>2. step = "agent" /\ UNCHANGED <<step, tool, day, events, flight, proposal>>
    BY <1>10 DEF AgentOn, FreeWindows, VisitNext, Finish, searchVars
  <2> QED BY <2>1, <2>2 DEF CallInv
<1>11. CASE UNCHANGED vars
  <2>1. SearchInv'
    BY <1>11, QuietSearch DEF vars
  <2> QED BY <1>11, <2>1 DEF vars, agentVars, searchVars, CallInv, Fetched, OnDay, DayStart, DayEnd
<1> QED BY <1>1, <1>2, <1>3, <1>4, <1>5, <1>6, <1>7, <1>8, <1>9, <1>10, <1>11 DEF Next

LEMMA PlanningAlways == Spec => []PlanningInv
BY InitPlanning, NextPlanning, PTL DEF Spec

-----------------------------------------------------------------------------

\* An outcome tells whether the best plan of the beam is in time.
LEMMA OutcomeIsVerdict ==
  ASSUME SearchInv
  PROVE  /\ outcome.status = "PLAN_FOUND" => Chosen /\ Feasible(beam[1]) /\ outcome.plans[1] = beam[1]
         /\ outcome.status = "NO_FEASIBLE_PLAN" =>
              /\ round = Depth /\ Chosen /\ Gained /\ ~Feasible(beam[1])
              /\ outcome.leastLate = Min({TicksLate(leave) : leave \in evaluated})
         /\ outcome.plans # <<>> => Chosen /\ outcome.plans = Finalists
<1>1. CASE outcome = Pending
  BY <1>1 DEF Pending
<1>2. CASE round = Depth /\ outcome = Outcome
  <2>1. Chosen /\ Gained /\ beam \in Seq(Int) /\ beam # <<>>
    BY <1>2, SearchAssumption DEF SearchInv, SearchTypeOK, Chosen
  <2>2. /\ \A i \in DOMAIN Finalists : Feasible(Finalists[i]) /\ Finalists[i] \in Range(beam)
        /\ Finalists \in Seq(Int)
        /\ Feasible(beam[1]) => Finalists # <<>> /\ Finalists[1] = beam[1]
    BY <2>1, FinalistsAreFeasible
  <2>3. Range(beam) \subseteq Int
    BY <2>1 DEF Range
  <2>4. Finalists # <<>> => Feasible(beam[1])
    <3> SUFFICES ASSUME Finalists # <<>>, ~Feasible(beam[1]) PROVE FALSE
      OBVIOUS
    <3>1. Feasible(Finalists[1]) /\ Finalists[1] \in Range(beam)
      BY <2>2
    <3>2. Better(Finalists[1], beam[1]) /\ Finalists[1] \in evaluated
      BY <2>1, <3>1 DEF Better, Chosen
    <3> QED BY <2>1, <3>2 DEF Chosen
  <2> QED BY <1>2, <2>1, <2>2, <2>4 DEF Outcome
<1> QED BY <1>1, <1>2 DEF SearchInv

\* For any calendar, trip, proposal, beam width and depth: the plan selected is
\* the best of all that were evaluated, and a refusal means none was in time.
THEOREM SearchFindsBest == Spec => []SelectedIsBest
<1>1. SearchInv => SelectedIsBest
  <2> SUFFICES ASSUME SearchInv PROVE SelectedIsBest
    OBVIOUS
  <2>0. context \in Contexts /\ evaluated \subseteq Int
    BY DEF SearchInv, SearchTypeOK
  <2>1. ASSUME outcome.status = "PLAN_FOUND", NEW leave \in evaluated, Feasible(leave)
        PROVE  Score(leave) <= Score(outcome.plans[1])
    <3>1. Chosen /\ Feasible(beam[1]) /\ outcome.plans[1] = beam[1]
      BY <2>1, OutcomeIsVerdict
    <3>2. ~Better(leave, beam[1]) /\ beam[1] \in Int
      BY <2>0, <3>1 DEF Chosen
    <3>3. Score(leave) \in Int /\ Score(beam[1]) \in Int
      BY <2>0, <3>2, ScoreType
    <3> QED BY <2>1, <3>1, <3>2, <3>3 DEF Better
  <2>2. ASSUME outcome.status = "NO_FEASIBLE_PLAN"
        PROVE  /\ \A leave \in evaluated : ~Feasible(leave)
               /\ outcome.leastLate = TicksLate(beam[1])
    <3>1. /\ Chosen /\ ~Feasible(beam[1])
          /\ outcome.leastLate = Min({TicksLate(leave) : leave \in evaluated})
      BY <2>2, OutcomeIsVerdict
    <3>2. \A leave \in evaluated : ~Feasible(leave)
      BY <3>1 DEF Chosen, Better
    <3>3. \A leave \in evaluated : ~(TicksLate(leave) < TicksLate(beam[1]))
      BY <3>1, <3>2 DEF Chosen, Better
    <3>4. \A leave \in evaluated : TicksLate(leave) \in Int
      BY <2>0, ScoreType
    <3> DEFINE lates == {TicksLate(leave) : leave \in evaluated}
               least == TicksLate(beam[1])
    <3>5. least \in lates /\ \A x \in lates : x \in Int /\ least <= x
      BY <3>1, <3>3, <3>4 DEF Chosen
    <3> HIDE DEF lates, least
    <3>6. Min(lates) \in lates /\ \A x \in lates : Min(lates) <= x
      BY <3>5 DEF Min
    <3>7. Min(lates) = least
      BY <3>5, <3>6
    <3> QED BY <3>1, <3>2, <3>7 DEF lates, least
  <2> QED BY <2>1, <2>2 DEF SelectedIsBest
<1> QED BY <1>1, PlanningAlways, PTL DEF PlanningInv

\* Nor does a narrow beam lose the way: whoever is refused could not have made
\* it from any proposal by leaving ten minutes earlier in every refinement.
THEOREM RefusedInEarnest == Spec => []RefusalIsDue
<1>1. SearchInv => RefusalIsDue
  <2> SUFFICES ASSUME SearchInv, outcome.status = "NO_FEASIBLE_PLAN", NEW i \in DOMAIN proposal
               PROVE  TicksLate(proposal[i]) > 10 * (Depth - 1) * Minute
    BY DEF RefusalIsDue
  <2>1. round = Depth /\ Chosen /\ Gained /\ ~Feasible(beam[1])
    BY OutcomeIsVerdict
  <2>2. TicksLate(proposal[i]) >= TicksLate(beam[1]) + 10 * (Depth - 1) * Minute
    BY <2>1 DEF Gained
  <2>3. context \in Contexts /\ beam[1] \in Int /\ proposal[i] \in Int
    BY <2>1 DEF SearchInv, SearchTypeOK, Chosen
  <2>4. TicksLate(beam[1]) \in Int /\ TicksLate(proposal[i]) \in Int
    BY <2>3, ScoreType
  <2>5. TicksLate(beam[1]) > 0
    BY <2>1, <2>4 DEF Feasible
  <2>6. 10 * (Depth - 1) * Minute \in Int
    BY SearchAssumption, MinuteAssumption
  <2> QED BY <2>2, <2>4, <2>5, <2>6
<1> QED BY <1>1, PlanningAlways, PTL DEF PlanningInv

\* A plan without a penalty for a meeting has nothing against it in the whole
\* calendar, if it leaves on the day of the flight.
THEOREM UnpenalizedPlansFit == Spec => []UnpenalizedIsFree
<1>1. PlanningInv => UnpenalizedIsFree
  <2> SUFFICES ASSUME SearchInv, CallInv, flight # NoFlight, NEW i \in DOMAIN outcome.plans,
                      Within(outcome.plans[i], <<DayStart(day), DayEnd(day)>>),
                      EventPenalties(outcome.plans[i]) = 0,
                      NEW m \in tool, At(m, outcome.plans[i])
               PROVE  FALSE
    BY DEF UnpenalizedIsFree, PlanningInv
  <2>1. outcome.plans # <<>>
    <3>1. outcome = Pending \/ outcome = Outcome
      BY DEF SearchInv
    <3> QED BY <3>1
  <2>2. Chosen /\ outcome.plans = Finalists /\ beam \in Seq(Int) /\ beam # <<>>
    BY <2>1, OutcomeIsVerdict DEF SearchInv, SearchTypeOK, Chosen
  <2>3. PICK leave \in Int : leave = outcome.plans[i]
    BY <2>2, FinalistsAreFeasible
  <2>4. step = "search" /\ context.events = events /\ Fetched
    <3>1. round > 0
      BY <2>2 DEF Chosen, SearchInv, SearchTypeOK
    <3> QED BY <3>1 DEF CallInv, SearchInv
  <2>5. m \in Meetings
    BY AgentAssumption DEF CallInv
  <2>6. m \in context.events
    <3>1. DayStart(day) \in Int /\ DayEnd(day) \in Int
      BY AgentAssumption DEF CallInv, DayStart, DayEnd
    <3>2. m.start < DayEnd(day) /\ m.end > DayStart(day)
      BY <2>3, <2>5, <3>1 DEF Within, At, Meetings
    <3> QED BY <2>4, <3>2 DEF Fetched, OnDay
  <2>7. EventPenalty(m, leave) = 0
    BY <2>3, <2>6, PenaltiesCount DEF SearchInv, SearchTypeOK
  <2>8. EventPenalty(m, leave) > 0
    BY <2>3, <2>5 DEF EventPenalty, At, Meetings
  <2> QED BY <2>7, <2>8
<1> QED BY <1>1, PlanningAlways, PTL

\* The coordinator's steps are steps of the calendar agent or leave it alone.
THEOREM AgentImplemented == Spec => AgentSpec
<1>1. Init => AgentInit
  BY DEF Init
<1>2. [Next]_vars => [AgentNext]_agentVars
  BY DEF Next, vars, AgentNext, GetFlight, FlightFails, CollectEvents, MapPriorities, GetEstimate,
     TransportFails, HostAsks, SearchOn, AskAgent, AgentOn
<1> QED BY <1>1, <1>2, PTL DEF Spec, AgentSpec

\* So what is free is exact for whoever asks the agent, the coordinator beside.
THEOREM CoordinatorWindowsExact == Spec => []FreeIsExact
BY AgentImplemented, WindowsExact, PTL

-----------------------------------------------------------------------------
(* The replanning evaluator.                                                *)

\* The invariant: plan and snapshot are typed, and an evaluation that is at hand is
\* one of the plan, the snapshot and the travel state of this moment.
EvaluationInv ==
  /\ active \in PlanSnapshots
  /\ current \in PlanSnapshots
  /\ result = NotYet \/ \E before : result = Evaluation(active, current, travel, before)

LEMMA EvaluationStep ==
  /\ EvaluatorInit => EvaluationInv
  /\ EvaluationInv /\ [EvaluatorNext]_evaluatorVars => EvaluationInv'
<1>1. EvaluatorInit => EvaluationInv
  BY ReplanningAssumption DEF EvaluatorInit, EvaluationInv
<1>2. ASSUME EvaluationInv, Observe PROVE EvaluationInv'
  BY <1>2, ReplanningAssumption DEF Observe, EvaluationInv
<1>3. ASSUME EvaluationInv, Advance PROVE EvaluationInv'
  BY <1>3 DEF Advance, EvaluationInv
<1>4. ASSUME EvaluationInv, Evaluate PROVE EvaluationInv'
  <2>1. UNCHANGED <<active, current, travel>>
    BY <1>4 DEF Evaluate
  <2>2. result' = Evaluation(active, current, travel, unavailable)
    BY <1>4 DEF Evaluate
  <2>3. Evaluation(active, current, travel, unavailable) = Evaluation(active', current', travel', unavailable)
    BY <2>1
  <2> QED BY <1>4, <2>1, <2>2, <2>3 DEF EvaluationInv
<1>5. ASSUME EvaluationInv, Adopt PROVE EvaluationInv'
  BY <1>5 DEF Adopt, EvaluationInv
<1>6. ASSUME EvaluationInv, UNCHANGED evaluatorVars PROVE EvaluationInv'
  BY <1>6 DEF evaluatorVars, EvaluationInv
<1> QED BY <1>1, <1>2, <1>3, <1>4, <1>5, <1>6 DEF EvaluatorNext

LEMMA EvaluationInvAlways == EvaluatorSpec => []EvaluationInv
BY EvaluationStep, PTL DEF EvaluatorSpec

\* The reasons of Material and what each says.
Holding(a, c, state) ==
  LET enRouteDelay == state = "EN_ROUTE_TO_AIRPORT" /\ Shift(a, c) > 0
  IN [TRAFFIC_DETERIORATED |->
        RoadActive(state) /\ Deteriorated(a.road_minutes, c.road_minutes, Policy.traffic),
      RIDESHARE_DETERIORATED |->
        RoadActive(state)
          /\ Deteriorated(RideMinutes(a), RideMinutes(c), Policy.rideshare),
      SECURITY_INCREASED |-> Deteriorated(a.security_minutes, c.security_minutes, Policy.security),
      FLIGHT_SCHEDULE_CHANGED |-> Rescheduled(a, c) /\ ~enRouteDelay,
      FLIGHT_CANCELLED |-> c.cancelled /\ ~a.cancelled,
      TERMINAL_CHANGED |-> BothKnown(a, c, "terminal") /\ a.terminal # c.terminal,
      CALENDAR_CONFLICT |-> NewConflicts(a, c) # {},
      PARKING_UNAVAILABLE |->
        RoadActive(state) /\ a.selected_parking_available = TRUE
                                    /\ c.selected_parking_available = FALSE]

LEMMA MaterialHolds ==
  ASSUME NEW a, NEW c, NEW state
  PROVE  /\ Material(a, c, state) = {reason \in DOMAIN Holding(a, c, state) : Holding(a, c, state)[reason]}
         /\ DOMAIN Holding(a, c, state) =
              {"TRAFFIC_DETERIORATED", "RIDESHARE_DETERIORATED", "SECURITY_INCREASED", "FLIGHT_SCHEDULE_CHANGED",
               "FLIGHT_CANCELLED", "TERMINAL_CHANGED", "CALENDAR_CONFLICT", "PARKING_UNAVAILABLE"}
<1>1. Material(a, c, state) = {reason \in DOMAIN Holding(a, c, state) : Holding(a, c, state)[reason]}
  BY DEF Material, Holding
<1>2. DOMAIN Holding(a, c, state) =
        {"TRAFFIC_DETERIORATED", "RIDESHARE_DETERIORATED", "SECURITY_INCREASED", "FLIGHT_SCHEDULE_CHANGED",
         "FLIGHT_CANCELLED", "TERMINAL_CHANGED", "CALENDAR_CONFLICT", "PARKING_UNAVAILABLE"}
  BY DEF Holding
<1> QED BY <1>1, <1>2

\* When an evaluation gives no material reason, nothing that costs slack went past
\* its threshold.
LEMMA NothingMaterial ==
  ASSUME NEW a, NEW c, NEW state, Material(a, c, state) = {}
  PROVE  /\ RoadActive(state) =>
              /\ ~Deteriorated(a.road_minutes, c.road_minutes, Policy.traffic)
              /\ ~Deteriorated(RideMinutes(a), RideMinutes(c), Policy.rideshare)
         /\ ~Deteriorated(a.security_minutes, c.security_minutes, Policy.security)
         /\ Rescheduled(a, c) => Shift(a, c) > 0
<1> DEFINE holding == Holding(a, c, state)
<1>1. /\ holding["TRAFFIC_DETERIORATED"] =
           (RoadActive(state) /\ Deteriorated(a.road_minutes, c.road_minutes, Policy.traffic))
      /\ holding["RIDESHARE_DETERIORATED"] =
           (RoadActive(state)
              /\ Deteriorated(RideMinutes(a), RideMinutes(c), Policy.rideshare))
      /\ holding["SECURITY_INCREASED"] = Deteriorated(a.security_minutes, c.security_minutes, Policy.security)
      /\ holding["FLIGHT_SCHEDULE_CHANGED"] =
           (Rescheduled(a, c) /\ ~(state = "EN_ROUTE_TO_AIRPORT" /\ Shift(a, c) > 0))
  BY DEF Holding
<1> HIDE DEF holding
<1>2. /\ ~holding["TRAFFIC_DETERIORATED"] /\ ~holding["RIDESHARE_DETERIORATED"]
      /\ ~holding["SECURITY_INCREASED"] /\ ~holding["FLIGHT_SCHEDULE_CHANGED"]
  BY MaterialHolds DEF holding
<1>3. ~(RoadActive(state) /\ Deteriorated(a.road_minutes, c.road_minutes, Policy.traffic))
  BY <1>1, <1>2, Zenon
<1>4. ~(RoadActive(state)
          /\ Deteriorated(RideMinutes(a), RideMinutes(c), Policy.rideshare))
  BY <1>1, <1>2, Zenon
<1>5. ~Deteriorated(a.security_minutes, c.security_minutes, Policy.security)
  BY <1>1, <1>2, Zenon
<1>6. ~(Rescheduled(a, c) /\ ~(state = "EN_ROUTE_TO_AIRPORT" /\ Shift(a, c) > 0))
  BY <1>1, <1>2, Zenon
<1> QED BY <1>3, <1>4, <1>5, <1>6, Zenon

\* A snapshot of the plan itself holds nothing material.
LEMMA SameIsImmaterial ==
  ASSUME NEW a \in PlanSnapshots, NEW state
  PROVE  Material(a, a, state) = {}
<1>1. a.road_minutes \in Minutes /\ a.security_minutes \in Minutes /\ a.departure \in Int
  BY DEF PlanSnapshots
<1>2. \A x \in Minutes : \A threshold : ~Deteriorated(x, x, threshold)
  BY DEF Deteriorated, Minutes, Known
<1>3. RideMinutes(a) \in Minutes
  BY DEF RideMinutes, PlanSnapshots, Minutes, Known
<1>4. ~Rescheduled(a, a)
  BY <1>1 DEF Rescheduled, Shift
<1>5. NewConflicts(a, a) = {}
  BY DEF NewConflicts
<1>6. ~(a.cancelled /\ ~a.cancelled)
  OBVIOUS
<1>7. ~(a.selected_parking_available = TRUE /\ a.selected_parking_available = FALSE)
  OBVIOUS
<1> DEFINE holding == Holding(a, a, state)
<1>8. /\ holding["TRAFFIC_DETERIORATED"] =
           (RoadActive(state) /\ Deteriorated(a.road_minutes, a.road_minutes, Policy.traffic))
      /\ holding["RIDESHARE_DETERIORATED"] =
           (RoadActive(state)
              /\ Deteriorated(RideMinutes(a), RideMinutes(a), Policy.rideshare))
      /\ holding["SECURITY_INCREASED"] = Deteriorated(a.security_minutes, a.security_minutes, Policy.security)
      /\ holding["FLIGHT_SCHEDULE_CHANGED"] =
           (Rescheduled(a, a) /\ ~(state = "EN_ROUTE_TO_AIRPORT" /\ Shift(a, a) > 0))
      /\ holding["FLIGHT_CANCELLED"] = (a.cancelled /\ ~a.cancelled)
      /\ holding["TERMINAL_CHANGED"] = (BothKnown(a, a, "terminal") /\ a.terminal # a.terminal)
      /\ holding["CALENDAR_CONFLICT"] = (NewConflicts(a, a) # {})
      /\ holding["PARKING_UNAVAILABLE"] =
           (RoadActive(state) /\ a.selected_parking_available = TRUE
                                        /\ a.selected_parking_available = FALSE)
  BY DEF Holding
<1> HIDE DEF holding
<1>9. ~holding["TRAFFIC_DETERIORATED"] /\ ~holding["RIDESHARE_DETERIORATED"] /\ ~holding["SECURITY_INCREASED"]
  BY <1>1, <1>2, <1>3, <1>8, Zenon
<1>10. ~holding["FLIGHT_SCHEDULE_CHANGED"] /\ ~holding["FLIGHT_CANCELLED"] /\ ~holding["TERMINAL_CHANGED"]
  BY <1>4, <1>6, <1>8, Zenon
<1>11. ~holding["CALENDAR_CONFLICT"] /\ ~holding["PARKING_UNAVAILABLE"]
  BY <1>5, <1>7, <1>8, Zenon
<1>12. \A reason \in DOMAIN holding : ~holding[reason]
  BY <1>9, <1>10, <1>11, MaterialHolds DEF holding
<1> QED BY <1>12, MaterialHolds DEF holding

\* What an evaluation decides, of the input that is missing and the reasons found.
LEMMA Decides ==
  ASSUME NEW a, NEW c, NEW state, NEW before
  PROVE  LET e == Evaluation(a, c, state, before)
             missing == Missing(a, c, state)
             material == Material(a, c, state)
         IN /\ e.decision \in {"NO_CHANGE", "INFORMATIONAL"} /\ state # "FLIGHT_DEPARTED" => missing = {} /\ material = {}
            /\ e.replan_required => material # {} \/ (missing = {} /\ Recovered(a, before))
            /\ e.reliable_plan_allowed => missing = {} /\ ~c.cancelled
<1> DEFINE missing == Missing(a, c, state)
           material == Material(a, c, state)
           e == Evaluation(a, c, state, before)
<1>1. CASE state = "FLIGHT_DEPARTED"
  <2>1. e = Result("NO_CHANGE", FALSE, FALSE, {}, {}, FALSE)
    BY <1>1 DEF Evaluation
  <2> HIDE DEF e
  <2> QED BY <1>1, <2>1 DEF Result, e
<1>2. CASE state # "FLIGHT_DEPARTED" /\ missing # {}
  <2>1. e.decision = "DATA_UNAVAILABLE" /\ e.replan_required = (material # {}) /\ e.reliable_plan_allowed = FALSE
    BY <1>2 DEF Evaluation, Result
  <2> QED BY <1>2, <2>1
<1>3. CASE state # "FLIGHT_DEPARTED" /\ missing = {}
  <2> DEFINE recovery == IF Recovered(a, before) THEN {"REQUIRED_DATA_RECOVERED"} ELSE {}
  <2>1. /\ e.decision = IF material \cup recovery # {} THEN "REPLAN"
                        ELSE IF material \cup Informative(a, c, state) # {} THEN "INFORMATIONAL" ELSE "NO_CHANGE"
        /\ e.replan_required = (material \cup recovery # {})
        /\ e.reliable_plan_allowed = ~c.cancelled
    BY <1>3 DEF Evaluation, Result
  <2> HIDE DEF e, material, missing
  <2>2. e.decision \in {"NO_CHANGE", "INFORMATIONAL"} => material \cup recovery = {}
    BY <2>1
  <2> QED BY <1>3, <2>1, <2>2 DEF e, material, missing
<1> QED BY <1>1, <1>2, <1>3

\* Where nothing is missing, what the plan knew and the rest of the trip needs is known.
LEMMA KnownStays ==
  ASSUME NEW a, NEW c, NEW state, Missing(a, c, state) = {}
  PROVE  /\ \A f \in Fields :
              (RoadActive(state) \/ f = "security_minutes") /\ Known(a[f]) => Known(c[f])
         /\ c.missing_required = {}
BY DEF Missing, Applicable, Fields

\* An amount that did not deteriorate grew less than its threshold.
LEMMA GrewLittle ==
  ASSUME NEW x \in Nat, NEW y \in Nat, NEW threshold \in Nat,
         ~Deteriorated(x, y, threshold)
  PROVE  y - x <= Tolerated(threshold)
<1>1. Known(x) /\ Known(y)
  BY ReplanningAssumption DEF Known
<1> QED BY <1>1 DEF Deteriorated, Tolerated

\* KeptPlanStillFits: a plan that is kept has lost less slack than its thresholds
\* tolerate together, for any thresholds and however the inputs drifted.
THEOREM KeptPlansFit == EvaluatorSpec => []KeptPlanStillFits
<1>1. EvaluationInv => KeptPlanStillFits
  <2> SUFFICES ASSUME EvaluationInv, Kept, RoadActive(travel), Known(active.security_minutes)
               PROVE  /\ Known(active.road_minutes) =>
                           Slack(active, active.road_minutes) - Slack(current, current.road_minutes)
                             <= Tolerated(Policy.traffic) + Tolerated(Policy.security)
                                  + Tolerated(Policy.schedule)
                      /\ Known(RideMinutes(active)) =>
                           Slack(active, RideMinutes(active))
                               - Slack(current, RideMinutes(current))
                             <= Tolerated(Policy.rideshare) + Tolerated(Policy.security)
                                  + Tolerated(Policy.schedule)
    BY DEF KeptPlanStillFits
  <2>1. PICK before : result = Evaluation(active, current, travel, before)
    BY DEF EvaluationInv, Kept, NotYet, Result
  <2>2. Missing(active, current, travel) = {} /\ Material(active, current, travel) = {}
    BY <2>1, Decides DEF Kept
  <2>3. /\ ~Deteriorated(active.road_minutes, current.road_minutes, Policy.traffic)
        /\ ~Deteriorated(RideMinutes(active), RideMinutes(current), Policy.rideshare)
        /\ ~Deteriorated(active.security_minutes, current.security_minutes, Policy.security)
        /\ Rescheduled(active, current) => Shift(active, current) > 0
    BY <2>2, NothingMaterial
  <2>4. \A f \in Fields : Known(active[f]) => Known(current[f])
    BY <2>2, KnownStays
  <2>5. /\ Policy.traffic \in Nat /\ Policy.rideshare \in Nat /\ Policy.security \in Nat /\ Policy.schedule \in Nat
        /\ active.departure \in Int /\ current.departure \in Int
    BY ReplanningAssumption DEF EvaluationInv, PlanSnapshots
  <2>6. \A p \in {active, current} :
          /\ Known(p.road_minutes) => p.road_minutes \in Nat
          /\ Known(p.rideshare_pickup_minutes) => p.rideshare_pickup_minutes \in Nat
          /\ Known(p.rideshare_travel_minutes) => p.rideshare_travel_minutes \in Nat
          /\ Known(p.security_minutes) => p.security_minutes \in Nat
    BY DEF EvaluationInv, PlanSnapshots, Minutes, Known
  <2>7. active.departure - current.departure <= Tolerated(Policy.schedule)
    BY <2>3, <2>5 DEF Rescheduled, Shift, Tolerated
  <2>8. active.security_minutes \in Nat /\ current.security_minutes \in Nat
    BY <2>4, <2>6 DEF Fields
  <2>9. current.security_minutes - active.security_minutes <= Tolerated(Policy.security)
    BY <2>3, <2>5, <2>8, GrewLittle
  <2>10. \A n \in Nat : Tolerated(n) \in Nat
    BY DEF Tolerated
  <2>11. ASSUME NEW x \in Nat, NEW y \in Nat, NEW threshold \in Nat, ~Deteriorated(x, y, threshold)
         PROVE  Slack(active, x) - Slack(current, y)
                  <= Tolerated(threshold) + Tolerated(Policy.security)
                       + Tolerated(Policy.schedule)
    <3>1. y - x <= Tolerated(threshold)
      BY <2>11, GrewLittle
    <3> QED BY <2>5, <2>7, <2>8, <2>9, <2>10, <2>11, <3>1 DEF Slack
  <2>12. ASSUME Known(active.road_minutes)
         PROVE  active.road_minutes \in Nat /\ current.road_minutes \in Nat
    BY <2>4, <2>6, <2>12 DEF Fields
  <2>13. ASSUME Known(RideMinutes(active))
         PROVE  RideMinutes(active) \in Nat /\ RideMinutes(current) \in Nat
    <3>1. Known(active.rideshare_pickup_minutes) /\ Known(active.rideshare_travel_minutes)
      BY <2>13 DEF RideMinutes, Known
    <3>2. Known(current.rideshare_pickup_minutes) /\ Known(current.rideshare_travel_minutes)
      BY <2>4, <3>1 DEF Fields
    <3> QED BY <2>6, <3>1, <3>2 DEF RideMinutes
  <2>14. Known(active.road_minutes) =>
           Slack(active, active.road_minutes) - Slack(current, current.road_minutes)
             <= Tolerated(Policy.traffic) + Tolerated(Policy.security)
                  + Tolerated(Policy.schedule)
    BY <2>3, <2>5, <2>11, <2>12
  <2>15. Known(RideMinutes(active)) =>
           Slack(active, RideMinutes(active)) - Slack(current, RideMinutes(current))
             <= Tolerated(Policy.rideshare) + Tolerated(Policy.security)
                  + Tolerated(Policy.schedule)
    BY <2>3, <2>5, <2>11, <2>13
  <2> QED BY <2>14, <2>15
<1> QED BY <1>1, EvaluationInvAlways, PTL

\* NoEndlessReplanning: the snapshot a plan was made from asks for no revision of it,
\* unless required input has just come back.
THEOREM ReplanningEnds == EvaluatorSpec => NoEndlessReplanning
<1>1. ASSUME EvaluationInv, Evaluate, active = current, unavailable = {}
      PROVE  ~result'.replan_required
  <2>1. result' = Evaluation(active, active, travel, {})
    BY <1>1 DEF Evaluate
  <2>2. Material(active, active, travel) = {}
    BY <1>1, SameIsImmaterial DEF EvaluationInv
  <2>3. Missing(active, active, travel) = {} => ~Recovered(active, {})
    BY DEF Missing, Recovered
  <2> QED BY <2>1, <2>2, <2>3, Decides
<1>2. EvaluationInv /\ [EvaluatorNext]_evaluatorVars
        => [Evaluate /\ active = current /\ unavailable = {} => ~result'.replan_required]_evaluatorVars
  BY <1>1
<1> QED BY <1>2, EvaluationInvAlways, PTL DEF EvaluatorSpec, NoEndlessReplanning

\* RevisionsKeepInputs: whatever replaces the active plan knows what that plan knew
\* and the rest of the trip needs, and is for a flight that is not cancelled.
THEOREM RevisionsKeep == EvaluatorSpec => RevisionsKeepInputs
<1>1. ASSUME EvaluationInv, EvaluatorNext, active' # active
      PROVE  /\ \A f \in Fields :
                   (RoadActive(travel) \/ f = "security_minutes") /\ Known(active[f])
                     => Known(active'[f])
             /\ active'.missing_required = {} /\ ~active'.cancelled
  <2>1. Adopt
    BY <1>1 DEF EvaluatorNext, Observe, Advance, Evaluate
  <2>2. result.replan_required /\ result.reliable_plan_allowed /\ active' = current
    BY <2>1 DEF Adopt
  <2>3. PICK before : result = Evaluation(active, current, travel, before)
    BY <1>1, <2>2 DEF EvaluationInv, NotYet, Result
  <2>4. Missing(active, current, travel) = {} /\ ~current.cancelled
    BY <2>2, <2>3, Decides
  <2> QED BY <2>2, <2>4, KnownStays
<1>2. EvaluationInv /\ [EvaluatorNext]_evaluatorVars =>
        [active' # active =>
           /\ \A f \in Fields :
                (RoadActive(travel) \/ f = "security_minutes") /\ Known(active[f])
                  => Known(active'[f])
           /\ active'.missing_required = {} /\ ~active'.cancelled]_evaluatorVars
  BY <1>1
<1> QED BY <1>2, EvaluationInvAlways, PTL DEF EvaluatorSpec, RevisionsKeepInputs
=============================================================================
