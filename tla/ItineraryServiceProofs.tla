----------------------- MODULE ItineraryServiceProofs -----------------------
(***************************************************************************)
(* What holds of ItineraryService for every set of callers, itineraries,   *)
(* segments and snapshots, and for any number of invocations and aborts.   *)
(***************************************************************************)
EXTENDS ItineraryService, FiniteSetTheorems, TLAPS

States == {"PLANNING", "COMPLETED", "FAILED"}

(***************************************************************************)
(* The repository's transactions preserve the row types.                   *)
(***************************************************************************)

\* Settling one attempt leaves a sequence of attempts of the same length.
LEMMA SettledRows ==
  ASSUME NEW q \in Seq(Attempt), NEW n, NEW state \in States
  PROVE  /\ [q EXCEPT ![n].state = state] \in Seq(Attempt)
         /\ Len([q EXCEPT ![n].state = state]) = Len(q)
         /\ \A k \in 1..Len(q) : [q EXCEPT ![n].state = state][k] =
              IF k = n THEN [q[k] EXCEPT !.state = state] ELSE q[k]
  <1> DEFINE r == [q EXCEPT ![n].state = state]
  <1>1. q \in [1..Len(q) -> Attempt] /\ Len(q) \in Nat
    OBVIOUS
  <1>2. \A a \in Attempt : [a EXCEPT !.state = state] \in Attempt
    BY DEF Attempt, States
  <1>3. r \in [1..Len(q) -> Attempt]
    BY <1>1, <1>2
  <1>4. r \in Seq(Attempt) /\ Len(r) = Len(q)
    BY <1>1, <1>3
  <1>5. \A k \in 1..Len(q) : r[k] = IF k = n THEN [q[k] EXCEPT !.state = state] ELSE q[k]
    BY <1>1
  <1> QED
    BY <1>4, <1>5

\* A snapshot is a function from some segments to facts.
LEMMA SnapshotIntro ==
  ASSUME NEW D \in SUBSET Segments, NEW f \in [D -> Facts]
  PROVE  f \in Snapshot
  BY DEF Snapshot

LEMMA SnapshotElim ==
  ASSUME NEW f \in Snapshot
  PROVE  DOMAIN f \subseteq Segments /\ f \in [DOMAIN f -> Facts]
  <1>1. PICK D \in SUBSET Segments : f \in [D -> Facts]
    BY DEF Snapshot
  <1> QED
    BY <1>1

\* The row of a segment that is listed was written.
LEMMA CurrentSegmentsType ==
  ASSUME RepositoryTypeOK
  PROVE  CurrentSegments \in Snapshot /\ \A t : UpcomingSegments(t) \in Snapshot
  <1>1. \A s \in Segments : segments[s].presence = "PRESENT" => segments[s].facts \in Facts
    BY DEF RepositoryTypeOK, SegmentRow, NoRow
  <1>2. CurrentSegments \in [DOMAIN CurrentSegments -> Facts] /\ DOMAIN CurrentSegments \subseteq Segments
    BY <1>1 DEF CurrentSegments
  <1>3. ASSUME NEW t PROVE UpcomingSegments(t) \in Snapshot
    <2> DEFINE U == UpcomingSegments(t)
    <2>1. U \in [DOMAIN U -> Facts] /\ DOMAIN U \subseteq Segments
      BY <1>2 DEF UpcomingSegments
    <2> QED
      BY <2>1, SnapshotIntro
  <1> QED
    BY <1>2, <1>3, SnapshotIntro

LEMMA ApplySnapshotType ==
  ASSUME RepositoryTypeOK, NEW b \in Batches, ApplySnapshot(b)
  PROVE  RepositoryTypeOK'
  <1> USE DEF RepositoryTypeOK
  <1>1. \A i \in DOMAIN b : i \in Itineraries /\ b[i] \in Snapshot
    BY BatchesAssumption
  <1>2. \A i \in Itineraries : RevisionAfter(b, i) \in Nat \ {0}
    BY DEF RevisionAfter, Changed, Known, ItineraryRow, NoItinerary
  <1>3. \A i \in Itineraries : ItineraryAfter(b, i) \in ItineraryRow \cup {NoItinerary}
    BY <1>2 DEF ItineraryAfter, Known, ItineraryRow, NoItinerary, Presence
  <1>4. itineraries' \in [Itineraries -> ItineraryRow \cup {NoItinerary}]
    BY <1>3 DEF ApplySnapshot
  <1>5. revisions' \in [Itineraries -> Seq(Snapshot)]
    <2>1. \A i \in Itineraries : revisions[i] \in Seq(Snapshot)
      OBVIOUS
    <2>2. \A i \in DOMAIN b : Append(revisions[i], b[i]) \in Seq(Snapshot)
      BY <1>1, <2>1
    <2> QED
      BY <2>1, <2>2 DEF ApplySnapshot
  <1>6. ASSUME NEW s \in Segments
        PROVE  SegmentAfter(b, s) \in SegmentRow \cup {NoRow}
    <2> DEFINE i == ItineraryOf[s]
    <2>1. i \in Itineraries
      BY ItineraryOfAssumption
    <2>2. CASE i \in DOMAIN b /\ s \in DOMAIN b[i]
      <3>1. b[i][s] \in Facts
        BY <1>1, <2>2, SnapshotElim
      <3> QED
        BY <1>2, <2>1, <2>2, <3>1 DEF SegmentAfter, SegmentRow, Presence
    <2>3. CASE ~(i \in DOMAIN b /\ s \in DOMAIN b[i])
      <3>1. segments[s] \in SegmentRow \cup {NoRow}
        OBVIOUS
      <3> QED
        BY <2>3, <3>1 DEF SegmentAfter, MarkMissing, SegmentRow, Presence
    <2> QED
      BY <2>2, <2>3
  <1>7. segments' \in [Segments -> SegmentRow \cup {NoRow}]
    BY <1>6 DEF ApplySnapshot
  <1> QED
    BY <1>4, <1>5, <1>7 DEF ApplySnapshot

LEMMA StartAttemptType ==
  ASSUME RepositoryTypeOK, NEW s \in Segments, NEW t \in Triggers,
         NEW f \in Facts, NEW at \in Times, StartAttempt(s, t, f, at)
  PROVE  RepositoryTypeOK'
  <1> DEFINE row == [state |-> "PLANNING", revision |-> segments[s].revision,
                     asOf |-> at, facts |-> f]
  <1>1. row \in Attempt
    BY DEF RepositoryTypeOK, SegmentRow, NoRow, Attempt
  <1>2. attempts[s][t] \in Seq(Attempt)
    BY DEF RepositoryTypeOK
  <1>3. Append(attempts[s][t], row) \in Seq(Attempt) /\ Len(attempts[s][t]) + 1 \in Nat
    BY <1>1, <1>2
  <1>4. attempts' \in [Segments -> [Triggers -> Seq(Attempt)]]
    BY <1>3 DEF RepositoryTypeOK, StartAttempt
  <1>5. automatic' \in [Segments -> [state : ExecutionState \cup {"NONE"},
                                     last : Nat, completed : Nat]]
    BY <1>3 DEF RepositoryTypeOK, StartAttempt, ExecutionState
  <1> QED
    BY <1>4, <1>5 DEF RepositoryTypeOK, StartAttempt

LEMMA FinishAttemptType ==
  ASSUME RepositoryTypeOK, NEW s \in Segments, NEW t \in Triggers, NEW n \in Nat,
         NEW state \in {"COMPLETED", "FAILED"}, FinishAttempt(s, t, n, state)
  PROVE  RepositoryTypeOK'
  <1>1. [attempts[s][t] EXCEPT ![n].state = state] \in Seq(Attempt)
    <2>1. attempts[s][t] \in Seq(Attempt) /\ state \in States
      BY DEF RepositoryTypeOK, States
    <2> QED
      BY <2>1, SettledRows
  <1>2. attempts' \in [Segments -> [Triggers -> Seq(Attempt)]]
    BY <1>1 DEF RepositoryTypeOK, FinishAttempt
  <1>3. automatic' \in [Segments -> [state : ExecutionState \cup {"NONE"},
                                     last : Nat, completed : Nat]]
    BY DEF RepositoryTypeOK, FinishAttempt, ExecutionState
  <1> QED
    BY <1>2, <1>3 DEF RepositoryTypeOK, FinishAttempt

(***************************************************************************)
(* Type correctness.                                                       *)
(***************************************************************************)

\* Leaving the lock drops the locals of the caller.
LEMMA LeaveType ==
  ASSUME ServiceTypeOK, NEW c \in Callers, Leave(c),
         UNCHANGED <<now, asOf, started>>, aborted' \in Nat
  PROVE  ServiceTypeOK'
  <1>1. NoSegments \in Snapshot
    <2>1. NoSegments \in [{} -> Facts]
      BY DEF NoSegments
    <2> QED
      BY <2>1, SnapshotIntro
  <1> QED
    BY <1>1 DEF ServiceTypeOK, Leave, Locked, Modes

LEMMA InitType == Init => TypeOK
  <1> SUFFICES ASSUME Init PROVE TypeOK
    OBVIOUS
  <1>1. RepositoryTypeOK
    BY DEF Init, RepositoryInit, RepositoryTypeOK
  <1>2. NoSegments \in Snapshot
    <2>1. NoSegments \in [{} -> Facts]
      BY DEF NoSegments
    <2> QED
      BY <2>1, SnapshotIntro
  <1>3. ServiceTypeOK
    BY <1>2 DEF Init, ServiceTypeOK, Locked, Modes
  <1> QED
    BY <1>1, <1>3 DEF TypeOK

LEMMA TypeStep == TypeOK /\ [Next]_vars => TypeOK'
  <1> SUFFICES ASSUME TypeOK, [Next]_vars PROVE TypeOK'
    OBVIOUS
  <1>0. RepositoryTypeOK /\ ServiceTypeOK
    BY DEF TypeOK
  <1>s. ASSUME UNCHANGED repositoryVars PROVE RepositoryTypeOK'
    BY <1>0, <1>s DEF repositoryVars, RepositoryTypeOK
  <1>1. ASSUME NEW c \in Callers, NEW m \in Modes, Invoke(c, m) PROVE TypeOK'
    BY <1>0, <1>1, <1>s DEF Invoke, Goto, TypeOK, ServiceTypeOK, Locked
  <1>2. ASSUME NEW c \in Callers, EnterLock(c) PROVE TypeOK'
    BY <1>0, <1>2, <1>s DEF EnterLock, Goto, TypeOK, ServiceTypeOK, Locked
  <1>3. ASSUME NEW c \in Callers, Busy(c) PROVE TypeOK'
    BY <1>0, <1>3, <1>s, LeaveType DEF Busy, TypeOK, ServiceTypeOK
  <1>4. ASSUME NEW c \in Callers, RecoverOne(c) PROVE TypeOK'
    <2>1. PICK s \in Segments : \E n \in Interrupted(s) : FinishAttempt(s, ByLeadTime, n, "FAILED")
      BY <1>4 DEF RecoverOne
    <2>2. ByLeadTime \in Triggers /\ attempts[s][ByLeadTime] \in Seq(Attempt)
      BY <1>0 DEF RepositoryTypeOK, Triggers, ByLeadTime
    <2>a. PICK n \in Nat : FinishAttempt(s, ByLeadTime, n, "FAILED")
      BY <2>1, <2>2 DEF Interrupted, Running
    <2>3. RepositoryTypeOK'
      BY <1>0, <2>2, <2>a, FinishAttemptType
    <2> QED
      BY <1>0, <1>4, <2>3 DEF RecoverOne, serviceVars, localVars, TypeOK, ServiceTypeOK
  <1>5. ASSUME NEW c \in Callers, RecoverDone(c) PROVE TypeOK'
    BY <1>0, <1>5, <1>s DEF RecoverDone, Goto, TypeOK, ServiceTypeOK, Locked
  <1>6. ASSUME NEW c \in Callers, Refresh(c) PROVE TypeOK'
    BY <1>0, <1>6, <1>s DEF Refresh, Goto, TypeOK, ServiceTypeOK, Locked
  <1>7. ASSUME NEW c \in Callers, Apply(c) PROVE TypeOK'
    <2>1. batch[c] \in Batches
      BY <1>0, <1>7 DEF Apply, ServiceTypeOK
    <2>2. RepositoryTypeOK'
      BY <1>0, <1>7, <2>1, ApplySnapshotType DEF Apply
    <2> QED
      BY <1>0, <1>7, <2>2 DEF Apply, Goto, TypeOK, ServiceTypeOK, Locked
  <1>8. ASSUME NEW c \in Callers, RefreshBlocked(c) PROVE TypeOK'
    BY <1>0, <1>8, <1>s, LeaveType DEF RefreshBlocked, TypeOK, ServiceTypeOK
  <1>9. ASSUME NEW c \in Callers, ListSegments(c) PROVE TypeOK'
    BY <1>0, <1>9, <1>s, CurrentSegmentsType DEF ListSegments, Goto, TypeOK, ServiceTypeOK, Locked
  <1>10. ASSUME NEW c \in Callers, Dispatch(c) PROVE TypeOK'
    <2>1. PICK s \in Earliest(c) :
            /\ InitializeAutomaticState(s)
            /\ todo' = [todo EXCEPT ![c] = Without(@, s)]
            /\ \/ pc' = [pc EXCEPT ![c] = "start"]
                  /\ job' = [job EXCEPT ![c] = [segment |-> s, facts |-> todo[c][s]]]
               \/ pc' \in {[pc EXCEPT ![c] = "unexpected"], [pc EXCEPT ![c] = "dispatch"]}
                  /\ job' = [job EXCEPT ![c] = NoJob]
      BY <1>10 DEF Dispatch, Goto
    <2>2. /\ todo[c] \in Snapshot
          /\ DOMAIN todo[c] \subseteq Segments
          /\ todo[c] \in [DOMAIN todo[c] -> Facts]
      BY <1>0, SnapshotElim DEF ServiceTypeOK
    <2>3. s \in DOMAIN todo[c] /\ s \in Segments /\ todo[c][s] \in Facts
      BY <2>2 DEF Earliest
    <2>4. Without(todo[c], s) \in Snapshot
      <3>1. Without(todo[c], s) \in [DOMAIN todo[c] \ {s} -> Facts]
        BY <2>2 DEF Without
      <3> QED
        BY <2>2, <3>1, SnapshotIntro
    <2>5. automatic' \in [Segments -> [state : ExecutionState \cup {"NONE"},
                                       last : Nat, completed : Nat]]
      <3>1. AutomaticState(s) \in ExecutionState
        BY <1>0, <2>3 DEF AutomaticState, RepositoryTypeOK, ExecutionState
      <3> QED
        BY <1>0, <2>1, <2>3, <3>1 DEF InitializeAutomaticState, RepositoryTypeOK
    <2>6. RepositoryTypeOK'
      BY <1>0, <1>10, <2>5 DEF Dispatch, RepositoryTypeOK
    <2>7. ServiceTypeOK'
      BY <1>0, <1>10, <2>1, <2>3, <2>4 DEF Dispatch, ServiceTypeOK, Locked, Job
    <2> QED
      BY <2>6, <2>7 DEF TypeOK
  <1>11. ASSUME NEW c \in Callers, MonitorDone(c) PROVE TypeOK'
    BY <1>0, <1>11, <1>s, LeaveType DEF MonitorDone, TypeOK, ServiceTypeOK
  <1>12. ASSUME NEW c \in Callers, Resolve(c) PROVE TypeOK'
    <2>1. CASE /\ UNCHANGED <<lock, mode, batch, todo>>
               /\ Goto(c, "start")
               /\ \E s \in DOMAIN UpcomingSegments(asOf[c]) :
                    job' = [job EXCEPT ![c] = [segment |-> s,
                                              facts |-> UpcomingSegments(asOf[c])[s]]]
      <3>1. PICK s \in DOMAIN UpcomingSegments(asOf[c]) :
              job' = [job EXCEPT ![c] = [segment |-> s,
                                        facts |-> UpcomingSegments(asOf[c])[s]]]
        BY <2>1
      <3>2. s \in Segments /\ UpcomingSegments(asOf[c])[s] \in Facts
        BY <1>0, CurrentSegmentsType, SnapshotElim
      <3> QED
        BY <1>0, <1>12, <1>s, <2>1, <3>1, <3>2 DEF Resolve, Goto, TypeOK, ServiceTypeOK, Locked, Job
    <2>2. CASE Leave(c)
      BY <1>0, <1>12, <1>s, <2>2, LeaveType DEF Resolve, TypeOK, ServiceTypeOK
    <2> QED
      BY <1>12, <2>1, <2>2 DEF Resolve
  <1>13. ASSUME NEW c \in Callers, Start(c) PROVE TypeOK'
    <2>0. pc[c] = "start"
      BY <1>13 DEF Start
    <2>1. job[c] \in Job /\ TriggerOf(mode[c]) \in Triggers /\ asOf[c] \in Times
      BY <1>0, <2>0 DEF ServiceTypeOK, TriggerOf, Triggers, ByLeadTime
    <2>2. CASE UNCHANGED repositoryVars /\ Goto(c, "unexpected")
      BY <1>0, <1>13, <1>s, <2>2 DEF Start, Goto, TypeOK, ServiceTypeOK, Locked
    <2>3. CASE /\ StartAttempt(job[c].segment, TriggerOf(mode[c]), job[c].facts, asOf[c])
               /\ Goto(c, "plan")
      <3>1. RepositoryTypeOK'
        BY <1>0, <2>1, <2>3, StartAttemptType DEF Job
      <3> QED
        BY <1>0, <1>13, <2>1, <2>3, <3>1 DEF Start, Goto, TypeOK, ServiceTypeOK, Locked
    <2> QED
      BY <1>13, <2>2, <2>3 DEF Start
  <1>14. ASSUME NEW c \in Callers, Finish(c) PROVE TypeOK'
    <2> DEFINE s == job[c].segment
               t == TriggerOf(mode[c])
    <2>0. pc[c] = "plan"
      BY <1>14 DEF Finish
    <2>1. s \in Segments /\ t \in Triggers
      BY <1>0, <2>0 DEF ServiceTypeOK, TriggerOf, Triggers, ByLeadTime, Job
    <2>2. Len(attempts[s][t]) \in Nat
      BY <1>0, <2>1 DEF RepositoryTypeOK
    <2>3. RepositoryTypeOK'
      <3>1. PICK outcome \in {"COMPLETED", "FAILED"} :
              FinishAttempt(s, t, Len(attempts[s][t]), outcome)
        BY <1>14 DEF Finish
      <3> QED
        BY <1>0, <2>1, <2>2, <3>1, FinishAttemptType
    <2>4. CASE /\ Goto(c, "dispatch")
               /\ job' = [job EXCEPT ![c] = NoJob]
               /\ UNCHANGED <<lock, mode, batch, todo>>
      BY <1>0, <1>14, <2>3, <2>4 DEF Finish, Goto, TypeOK, ServiceTypeOK, Locked
    <2>5. CASE Leave(c)
      BY <1>0, <1>14, <2>3, <2>5, LeaveType DEF Finish, TypeOK, ServiceTypeOK
    <2> QED
      BY <1>14, <2>4, <2>5 DEF Finish
  <1>15. ASSUME NEW c \in Callers, Abort(c) PROVE TypeOK'
    <2>1. aborted' \in Nat
      BY <1>0, <1>15 DEF Abort, ServiceTypeOK
    <2> QED
      BY <1>0, <1>15, <1>s, <2>1, LeaveType DEF Abort, TypeOK
  <1>16. ASSUME Tick PROVE TypeOK'
    BY <1>0, <1>16, <1>s DEF Tick, localVars, TypeOK, ServiceTypeOK
  <1>17. ASSUME UNCHANGED vars PROVE TypeOK'
    BY <1>0, <1>17, <1>s DEF vars, serviceVars, localVars, TypeOK, ServiceTypeOK
  <1> QED
    BY <1>1, <1>2, <1>3, <1>4, <1>5, <1>6, <1>7, <1>8, <1>9, <1>10, <1>11, <1>12,
       <1>13, <1>14, <1>15, <1>16, <1>17 DEF Next, Step

\* Every reachable state satisfies the schema's constraints and the types of
\* the locals, for all values of the constants.
THEOREM TypeCorrect == Spec => []TypeOK
  BY InitType, TypeStep, PTL DEF Spec

(***************************************************************************)
(* Automatic execution.  The invariant that is inductive adds to what the  *)
(* runs check: who holds the lock, and what the summary row says of the    *)
(* segment that its holder is about to plan, or planning.                  *)
(***************************************************************************)

LockHeld == \A c \in Callers : pc[c] \in Locked => lock = c

JobReady ==
  \A c \in Callers : mode[c] = "AUTOMATIC" =>
    /\ pc[c] = "start" => CanStart(AutomaticState(job[c].segment))
    /\ pc[c] = "plan" => AutomaticState(job[c].segment) = "PLANNING"

\* The two entry points share the code up to apply_snapshot only.
ModeMatches ==
  \A c \in Callers :
    /\ pc[c] \in {"list", "dispatch"} => mode[c] = "AUTOMATIC"
    /\ pc[c] = "resolve" => mode[c] = "USER_INITIATED"

AutomaticInv ==
  /\ TypeOK
  /\ LockHeld
  /\ ModeMatches
  /\ JobReady
  /\ AutomaticStateMatchesHistory
  /\ NoUnexpectedExecution

\* What start_attempt does to the story a segment's rows tell.
LEMMA HistoryStart ==
  ASSUME RepositoryTypeOK, AutomaticStateMatchesHistory,
         NEW s \in Segments, NEW t \in Triggers, NEW f \in Facts, NEW at \in Times,
         StartAttempt(s, t, f, at)
  PROVE  /\ AutomaticStateMatchesHistory'
         /\ t = ByLeadTime => AutomaticState(s)' = "PLANNING"
         /\ \A x \in Segments : x # s \/ t # ByLeadTime =>
              Running(x, ByLeadTime)' = Running(x, ByLeadTime)
         /\ t # ByLeadTime => automatic' = automatic
  <1> DEFINE rows == attempts[s][ByLeadTime]
             row == [state |-> "PLANNING", revision |-> segments[s].revision,
                     asOf |-> at, facts |-> f]
  <1>0. ByLeadTime \in Triggers
    BY DEF Triggers, ByLeadTime
  <1>1. \A x \in Segments : attempts[x][ByLeadTime] \in Seq(Attempt)
    BY <1>0 DEF RepositoryTypeOK
  <1>2. \A x \in Segments : x # s \/ t # ByLeadTime =>
          attempts'[x][ByLeadTime] = attempts[x][ByLeadTime] /\ automatic'[x] = automatic[x]
    BY <1>0 DEF StartAttempt, RepositoryTypeOK
  <1>3. ASSUME t = ByLeadTime
        PROVE  /\ attempts'[s][ByLeadTime] = Append(rows, row)
               /\ automatic'[s] = [automatic[s] EXCEPT !.state = "PLANNING", !.last = Len(rows) + 1]
               /\ Running(s, ByLeadTime) = {}
               /\ CanStart(AutomaticState(s))
    BY <1>0, <1>3 DEF StartAttempt, RepositoryTypeOK, StartRefused
  <1>4. ASSUME t = ByLeadTime PROVE AutomaticHistory(s)'
    <2>1. /\ \A k \in 1..Len(rows) : rows[k].state = "FAILED"
          /\ automatic[s].completed = 0
      <3>1. AutomaticHistory(s) /\ Len(rows) \in Nat
        BY <1>1 DEF AutomaticStateMatchesHistory
      <3>2. CASE Len(rows) = 0
        BY <3>1, <3>2 DEF AutomaticHistory, AutomaticState
      <3>3. CASE Len(rows) > 0
        <4>1. automatic[s].state = rows[Len(rows)].state
          BY <3>1, <3>3 DEF AutomaticHistory
        <4>2. rows[Len(rows)] \in Attempt
          BY <1>1, <3>3
        <4>3. automatic[s].state = "FAILED"
          BY <1>3, <1>4, <4>1, <4>2 DEF CanStart, AutomaticState, Attempt
        <4>4. automatic[s].completed = 0
          BY <3>1, <4>3 DEF AutomaticHistory
        <4>5. \A k \in 1..(Len(rows) - 1) : rows[k].state = "FAILED"
          BY <3>1 DEF AutomaticHistory
        <4>6. \A k \in 1..Len(rows) : k = Len(rows) \/ k \in 1..(Len(rows) - 1)
          BY <3>1, <3>3
        <4>7. \A k \in 1..Len(rows) : rows[k].state = "FAILED"
          BY <4>1, <4>3, <4>5, <4>6, Zenon
        <4> QED
          BY <4>4, <4>7, Zenon
      <3> QED
        BY <3>1, <3>2, <3>3
    <2>2. /\ Len(Append(rows, row)) = Len(rows) + 1
          /\ \A k \in 1..Len(rows) : Append(rows, row)[k] = rows[k]
          /\ Append(rows, row)[Len(rows) + 1] = row
          /\ Len(rows) \in Nat
      BY <1>1
    <2>3. /\ automatic'[s].state = "PLANNING" /\ automatic'[s].last = Len(rows) + 1
          /\ automatic'[s].completed = 0
      BY <1>3, <1>4, <2>1 DEF RepositoryTypeOK
    <2> QED
      <3> DEFINE new == Append(rows, row)
      <3>1. attempts'[s][ByLeadTime] = new /\ Len(new) > 0
        BY <1>3, <1>4, <2>2
      <3>2. \A k \in 1..(Len(new) - 1) : new[k].state = "FAILED"
        BY <2>1, <2>2
      <3>3. new[Len(new)].state = "PLANNING"
        BY <2>2
      <3>4. Len(new) = Len(rows) + 1
        BY <2>2
      <3> HIDE DEF new
      <3> QED
        BY <2>3, <3>1, <3>2, <3>3, <3>4 DEF AutomaticHistory
  <1>5. AutomaticStateMatchesHistory'
    <2>1. ASSUME NEW x \in Segments, x # s \/ t # ByLeadTime PROVE AutomaticHistory(x)'
      <3>1. attempts'[x][ByLeadTime] = attempts[x][ByLeadTime] /\ automatic'[x] = automatic[x]
        BY <1>2, <2>1
      <3>2. AutomaticHistory(x)
        BY DEF AutomaticStateMatchesHistory
      <3> QED
        BY <3>1, <3>2 DEF AutomaticHistory, AutomaticState
    <2> QED
      BY <1>4, <2>1 DEF AutomaticStateMatchesHistory
  <1>6. t = ByLeadTime => AutomaticState(s)' = "PLANNING"
    BY <1>3 DEF AutomaticState, RepositoryTypeOK
  <1>7. \A x \in Segments : x # s \/ t # ByLeadTime =>
          Running(x, ByLeadTime)' = Running(x, ByLeadTime)
    BY <1>2 DEF Running
  <1>8. t # ByLeadTime => automatic' = automatic
    BY DEF StartAttempt
  <1> QED
    BY <1>5, <1>6, <1>7, <1>8

\* What finish_attempt does to it: a running automatic attempt is the last one.
LEMMA HistoryFinish ==
  ASSUME RepositoryTypeOK, AutomaticStateMatchesHistory,
         NEW s \in Segments, NEW t \in Triggers, NEW n \in Nat,
         NEW state \in {"COMPLETED", "FAILED"}, FinishAttempt(s, t, n, state),
         t = ByLeadTime => n \in DOMAIN attempts[s][t]
  PROVE  /\ AutomaticStateMatchesHistory'
         /\ t = ByLeadTime => n = Len(attempts[s][t]) /\ Running(s, ByLeadTime)' = {}
         /\ \A x \in Segments : x # s \/ t # ByLeadTime =>
              Running(x, ByLeadTime)' = Running(x, ByLeadTime)
         /\ t # ByLeadTime => automatic' = automatic
  <1> DEFINE rows == attempts[s][ByLeadTime]
             settled == [rows EXCEPT ![n].state = state]
  <1>0. ByLeadTime \in Triggers
    BY DEF Triggers, ByLeadTime
  <1>1. \A x \in Segments : attempts[x][ByLeadTime] \in Seq(Attempt)
    BY <1>0 DEF RepositoryTypeOK
  <1>2. \A x \in Segments : x # s \/ t # ByLeadTime =>
          attempts'[x][ByLeadTime] = attempts[x][ByLeadTime] /\ automatic'[x] = automatic[x]
    BY <1>0 DEF FinishAttempt, RepositoryTypeOK
  <1>3. ASSUME t = ByLeadTime
        PROVE  /\ n = Len(rows)
               /\ AutomaticHistory(s)'
               /\ Running(s, ByLeadTime)' = {}
    <2>1. rows[n].state = "PLANNING" /\ n \in 1..Len(rows)
      BY <1>1, <1>3 DEF FinishAttempt
    <2>2. n = Len(rows) /\ \A k \in 1..(n - 1) : rows[k].state = "FAILED"
      BY <1>1, <2>1 DEF AutomaticStateMatchesHistory, AutomaticHistory
    <2>3. attempts'[s][ByLeadTime] = settled
      BY <1>0, <1>3 DEF FinishAttempt, RepositoryTypeOK
    <2>4. /\ Len(settled) = n
          /\ \A k \in 1..(n - 1) : settled[k] = rows[k]
          /\ settled[n] = [rows[n] EXCEPT !.state = state]
          /\ settled \in Seq(Attempt)
      <3>1. rows \in Seq(Attempt) /\ state \in States
        BY <1>1 DEF States
      <3> QED
        BY <2>1, <2>2, <3>1, SettledRows
    <2>5. settled[n].state = state
      <3>1. rows[n] \in Attempt
        BY <1>1, <2>1
      <3> QED
        BY <2>4, <3>1 DEF Attempt
    <2>6. /\ automatic'[s].state = state /\ automatic'[s].last = n
          /\ automatic'[s].completed = IF state = "COMPLETED" THEN n ELSE 0
      BY <1>3, <2>2 DEF FinishAttempt, RepositoryTypeOK, AutomaticStateMatchesHistory, AutomaticHistory
    <2>7. AutomaticHistory(s)'
      BY <2>1, <2>2, <2>3, <2>4, <2>5, <2>6 DEF AutomaticHistory
    <2>8. \A k \in 1..n : settled[k].state # "PLANNING"
      BY <2>2, <2>4, <2>5
    <2>9. DOMAIN settled = 1..n
      BY <2>4
    <2>10. Running(s, ByLeadTime)' = {}
      BY <2>3, <2>8, <2>9 DEF Running
    <2> QED
      BY <2>2, <2>7, <2>10
  <1>4. AutomaticStateMatchesHistory'
    <2>1. ASSUME NEW x \in Segments, x # s \/ t # ByLeadTime PROVE AutomaticHistory(x)'
      <3>1. attempts'[x][ByLeadTime] = attempts[x][ByLeadTime] /\ automatic'[x] = automatic[x]
        BY <1>2, <2>1
      <3>2. AutomaticHistory(x)
        BY DEF AutomaticStateMatchesHistory
      <3> QED
        BY <3>1, <3>2 DEF AutomaticHistory, AutomaticState
    <2> QED
      BY <1>3, <2>1 DEF AutomaticStateMatchesHistory
  <1>5. \A x \in Segments : x # s \/ t # ByLeadTime =>
          Running(x, ByLeadTime)' = Running(x, ByLeadTime)
    BY <1>2 DEF Running
  <1>6. t # ByLeadTime => automatic' = automatic
    BY DEF FinishAttempt
  <1> QED
    BY <1>3, <1>4, <1>5, <1>6

\* Only a caller at "lock" enters, and only when nobody holds the lock.
LEMMA LockStep == TypeOK /\ LockHeld /\ [Next]_vars => LockHeld'
  <1> SUFFICES ASSUME TypeOK, LockHeld, [Next]_vars PROVE LockHeld'
    OBVIOUS
  <1> USE DEF TypeOK, ServiceTypeOK, LockHeld, Locked
  <1>1. ASSUME NEW c \in Callers, Leave(c) PROVE LockHeld'
    BY <1>1, CallersAssumption DEF Leave
  <1>2. ASSUME NEW c \in Callers, NEW label \in Locked, pc[c] \in Locked,
               UNCHANGED lock, Goto(c, label)
        PROVE  LockHeld'
    BY <1>2 DEF Goto
  <1>3. ASSUME UNCHANGED <<lock, pc>> PROVE LockHeld'
    BY <1>3
  <1>4. ASSUME NEW c \in Callers, NEW m \in Modes, Invoke(c, m) PROVE LockHeld'
    BY <1>4 DEF Invoke, Goto
  <1>5. ASSUME NEW c \in Callers, EnterLock(c) PROVE LockHeld'
    BY <1>5, CallersAssumption DEF EnterLock, LockAvailable, Goto
  <1>6. ASSUME NEW c \in Callers, Step(c) PROVE LockHeld'
    <2>1. CASE Busy(c) \/ RefreshBlocked(c) \/ MonitorDone(c)
      BY <1>1, <2>1 DEF Busy, RefreshBlocked, MonitorDone
    <2>2. CASE RecoverOne(c)
      BY <1>3, <2>2 DEF RecoverOne, serviceVars, localVars
    <2>3. CASE RecoverDone(c) \/ Refresh(c) \/ Apply(c) \/ ListSegments(c)
      BY <1>2, <2>3 DEF RecoverDone, Refresh, Apply, ListSegments
    <2>4. CASE Dispatch(c)
      BY <1>2, <2>4 DEF Dispatch
    <2>5. CASE Resolve(c)
      BY <1>1, <1>2, <2>5 DEF Resolve
    <2>6. CASE Start(c)
      BY <1>2, <2>6 DEF Start
    <2>7. CASE Finish(c)
      BY <1>1, <1>2, <2>7 DEF Finish
    <2> QED
      BY <1>5, <1>6, <2>1, <2>2, <2>3, <2>4, <2>5, <2>6, <2>7 DEF Step
  <1>7. ASSUME NEW c \in Callers, Abort(c) PROVE LockHeld'
    BY <1>1, <1>7 DEF Abort
  <1>8. ASSUME Tick PROVE LockHeld'
    BY <1>3, <1>8 DEF Tick, localVars
  <1>9. ASSUME UNCHANGED vars PROVE LockHeld'
    BY <1>3, <1>9 DEF vars, serviceVars, localVars
  <1> QED
    BY <1>4, <1>6, <1>7, <1>8, <1>9 DEF Next

LEMMA ModeStep == TypeOK /\ ModeMatches /\ [Next]_vars => ModeMatches'
  <1> SUFFICES ASSUME TypeOK, ModeMatches, [Next]_vars PROVE ModeMatches'
    OBVIOUS
  <1> USE DEF TypeOK, ServiceTypeOK, ModeMatches, Modes
  <1>1. ASSUME NEW c \in Callers, Leave(c) PROVE ModeMatches'
    BY <1>1 DEF Leave
  <1>2. ASSUME NEW c \in Callers,
               NEW label \in {"lock", "recover", "fetch", "apply", "start", "plan", "unexpected"},
               \A d \in Callers : d # c => mode'[d] = mode[d], Goto(c, label)
        PROVE  ModeMatches'
    BY <1>2 DEF Goto
  <1>3. ASSUME UNCHANGED <<mode, pc>> PROVE ModeMatches'
    BY <1>3
  <1>4. ASSUME NEW c \in Callers, NEW m \in Modes, Invoke(c, m) PROVE ModeMatches'
    BY <1>2, <1>4 DEF Invoke
  <1>5. ASSUME NEW c \in Callers, Step(c) PROVE ModeMatches'
    <2>1. CASE Busy(c) \/ RefreshBlocked(c) \/ MonitorDone(c)
      BY <1>1, <2>1 DEF Busy, RefreshBlocked, MonitorDone
    <2>2. CASE EnterLock(c) \/ RecoverDone(c) \/ Refresh(c)
      BY <1>2, <2>2 DEF EnterLock, RecoverDone, Refresh
    <2>3. CASE RecoverOne(c)
      BY <1>3, <2>3 DEF RecoverOne, serviceVars, localVars
    <2>4. CASE Apply(c) \/ ListSegments(c) \/ Dispatch(c)
      BY <2>4 DEF Apply, ListSegments, Dispatch, Goto
    <2>5. CASE Resolve(c)
      BY <1>1, <1>2, <2>5 DEF Resolve
    <2>6. CASE Start(c)
      BY <1>2, <2>6 DEF Start
    <2>7. CASE Finish(c)
      BY <1>1, <2>7 DEF Finish, Goto
    <2> QED
      BY <1>5, <2>1, <2>2, <2>3, <2>4, <2>5, <2>6, <2>7 DEF Step
  <1>6. ASSUME NEW c \in Callers, Abort(c) PROVE ModeMatches'
    BY <1>1, <1>6 DEF Abort
  <1>7. ASSUME Tick \/ UNCHANGED vars PROVE ModeMatches'
    BY <1>3, <1>7 DEF Tick, vars, serviceVars, localVars
  <1> QED
    BY <1>4, <1>5, <1>6, <1>7 DEF Next

\* While a caller is inside the lock the other callers cannot disturb what the
\* invariant says, so a step of its body only has to restore it for itself.
LEMMA HolderStep ==
  ASSUME TypeOK, LockHeld, NEW c \in Callers, pc[c] \in Locked,
         \A d \in Callers : d # c => pc'[d] = pc[d],
         pc'[c] # "unexpected",
         mode'[c] = "AUTOMATIC" =>
           /\ pc'[c] = "start" => CanStart(AutomaticState(job[c].segment))'
           /\ pc'[c] = "plan" => (AutomaticState(job[c].segment))' = "PLANNING",
         PastRecovery(c)' => \A s \in Segments : Running(s, ByLeadTime)' # {} =>
           pc'[c] = "plan" /\ job'[c].segment = s
  PROVE  JobReady' /\ NoUnexpectedExecution'
  <1>1. \A d \in Callers : d # c => pc'[d] \notin Locked
    BY DEF LockHeld
  <1>2. \A d \in Callers : d # c => ~PastRecovery(d)' /\ pc'[d] \notin {"start", "plan", "unexpected"}
    BY <1>1 DEF PastRecovery, Locked
  <1>3. JobReady'
    BY <1>2 DEF JobReady
  <1>4. NoUnexpectedExecution'
    BY <1>2 DEF NoUnexpectedExecution
  <1> QED
    BY <1>3, <1>4

LEMMA AutomaticStep ==
  ASSUME AutomaticInv, [Next]_vars
  PROVE  (JobReady /\ AutomaticStateMatchesHistory /\ NoUnexpectedExecution)'
  <1> DEFINE Rest == JobReady /\ AutomaticStateMatchesHistory /\ NoUnexpectedExecution
  <1>0. TypeOK /\ RepositoryTypeOK /\ ServiceTypeOK /\ LockHeld /\ ModeMatches /\ Rest
    BY DEF AutomaticInv, TypeOK
  <1>t. ByLeadTime \in Triggers
    BY DEF Triggers, ByLeadTime
  \* Steps that write neither table.
  <1>u. ASSUME UNCHANGED <<automatic, attempts>>
        PROVE  /\ AutomaticStateMatchesHistory'
               /\ \A s \in Segments : AutomaticState(s)' = AutomaticState(s)
               /\ \A s \in Segments : Running(s, ByLeadTime)' = Running(s, ByLeadTime)
    BY <1>0, <1>u DEF AutomaticStateMatchesHistory, AutomaticHistory, AutomaticState, Running
  <1>l. ASSUME NEW c \in Callers, Leave(c), UNCHANGED <<automatic, attempts>> PROVE Rest'
    <2>1. /\ pc'[c] = "idle"
          /\ \A d \in Callers : d # c =>
               pc'[d] = pc[d] /\ mode'[d] = mode[d] /\ job'[d] = job[d]
      BY <1>0, <1>l DEF Leave, ServiceTypeOK
    <2>2. JobReady'
      BY <1>0, <1>l, <2>1 DEF JobReady, AutomaticState
    <2>3. NoUnexpectedExecution'
      BY <1>0, <1>l, <1>u, <2>1 DEF NoUnexpectedExecution, PastRecovery
    <2> QED
      BY <1>l, <1>u, <2>2, <2>3
  <1>n. ASSUME UNCHANGED <<automatic, attempts, pc, mode, job>> PROVE Rest'
    <2>1. JobReady'
      BY <1>0, <1>n DEF JobReady, AutomaticState
    <2>2. NoUnexpectedExecution'
      BY <1>0, <1>n, <1>u DEF NoUnexpectedExecution, PastRecovery
    <2> QED
      BY <1>n, <1>u, <2>1, <2>2
  \* Steps of the body that move pc but write neither table.
  <1>b. ASSUME NEW c \in Callers, NEW label \in {"fetch", "apply", "list", "resolve", "dispatch"},
               pc[c] \in {"fetch", "apply", "list"} \/ (pc[c] = "recover" /\
                 \A s \in Segments : Running(s, ByLeadTime) = {}),
               Goto(c, label), UNCHANGED <<automatic, attempts, mode, job>>
        PROVE  Rest'
    <2>1. PastRecovery(c)' => \A s \in Segments : Running(s, ByLeadTime)' = {}
      <3>1. CASE pc[c] \in {"fetch", "apply", "list"}
        BY <1>0, <1>b, <1>u, <3>1 DEF NoUnexpectedExecution, PastRecovery
      <3>2. CASE \A s \in Segments : Running(s, ByLeadTime) = {}
        BY <1>b, <1>u, <3>2
      <3> QED
        BY <1>b, <3>1, <3>2
    <2>2. pc'[c] = label /\ \A d \in Callers : d # c => pc'[d] = pc[d]
      BY <1>0, <1>b DEF Goto, ServiceTypeOK
    <2>3. pc[c] \in Locked
      BY <1>b DEF Locked
    <2>4. JobReady' /\ NoUnexpectedExecution'
      BY <1>0, <1>b, <2>1, <2>2, <2>3, HolderStep
    <2> QED
      BY <1>b, <1>u, <2>4
  <1>e. ASSUME NEW c \in Callers, NEW label \in {"lock", "recover", "fetch"}, Goto(c, label),
               mode'[c] = "AUTOMATIC" => label # "fetch",
               \A d \in Callers : d # c => mode'[d] = mode[d],
               UNCHANGED <<automatic, attempts, job>>
        PROVE  Rest'
    <2>1. pc'[c] = label /\ \A d \in Callers : d # c => pc'[d] = pc[d]
      BY <1>0, <1>e DEF Goto, ServiceTypeOK
    <2>2. JobReady'
      BY <1>0, <1>e, <2>1 DEF JobReady, AutomaticState
    <2>3. NoUnexpectedExecution'
      BY <1>0, <1>e, <1>u, <2>1 DEF NoUnexpectedExecution, PastRecovery
    <2> QED
      BY <1>e, <1>u, <2>2, <2>3
  <1>1. ASSUME NEW c \in Callers, NEW m \in Modes, Invoke(c, m) PROVE Rest'
    BY <1>0, <1>1, <1>e DEF Invoke, repositoryVars, ServiceTypeOK
  <1>2. ASSUME NEW c \in Callers, EnterLock(c) PROVE Rest'
    BY <1>0, <1>2, <1>e DEF EnterLock, repositoryVars, ServiceTypeOK
  <1>3. ASSUME NEW c \in Callers, Busy(c) \/ RefreshBlocked(c) \/ MonitorDone(c) \/ Abort(c) PROVE Rest'
    BY <1>3, <1>l DEF Busy, RefreshBlocked, MonitorDone, Abort, repositoryVars
  <1>4. ASSUME NEW c \in Callers, RecoverOne(c) PROVE Rest'
    <2>1. PICK s \in Segments : \E n \in Running(s, ByLeadTime) :
            FinishAttempt(s, ByLeadTime, n, "FAILED")
      BY <1>4 DEF RecoverOne, Interrupted
    <2>2. attempts[s][ByLeadTime] \in Seq(Attempt)
      BY <1>0, <1>t DEF RepositoryTypeOK
    <2>3. PICK n \in Nat : /\ FinishAttempt(s, ByLeadTime, n, "FAILED")
                          /\ n \in DOMAIN attempts[s][ByLeadTime]
      BY <2>1, <2>2 DEF Running
    <2>4. AutomaticStateMatchesHistory'
      BY <1>0, <1>t, <2>3, HistoryFinish
    <2>5. pc[c] = "recover" /\ UNCHANGED <<pc, mode, job>>
      BY <1>4 DEF RecoverOne, serviceVars, localVars
    <2>6. JobReady' /\ NoUnexpectedExecution'
      BY <1>0, <2>5, HolderStep DEF Locked, PastRecovery
    <2> QED
      BY <2>4, <2>6
  <1>5. ASSUME NEW c \in Callers, RecoverDone(c) \/ Refresh(c) \/ Apply(c) \/ ListSegments(c) PROVE Rest'
    BY <1>5, <1>b DEF RecoverDone, Refresh, Apply, ListSegments, Interrupted, ApplySnapshot, repositoryVars
  <1>6. ASSUME NEW c \in Callers, Dispatch(c) PROVE Rest'
    <2>1. PICK s \in Earliest(c) :
            LET facts == todo[c][s]
                before == AutomaticState(s)
                plan == Eligible(facts, asOf[c]) /\ CanStart(before)
                broken == Eligible(facts, asOf[c]) /\ before = "PLANNING"
            IN  /\ InitializeAutomaticState(s)
                /\ job' = [job EXCEPT ![c] =
                             IF plan THEN [segment |-> s, facts |-> facts] ELSE NoJob]
                /\ pc' = [pc EXCEPT ![c] = IF plan THEN "start"
                             ELSE IF broken THEN "unexpected" ELSE "dispatch"]
      BY <1>6 DEF Dispatch, Goto
    <2>2. pc[c] = "dispatch" /\ mode' = mode /\ attempts' = attempts /\ mode[c] = "AUTOMATIC"
      BY <1>0, <1>6 DEF Dispatch, ModeMatches
    <2>3. s \in Segments
      BY <1>0, SnapshotElim DEF Earliest, ServiceTypeOK
    <2>4. \A x \in Segments : Running(x, ByLeadTime) = {}
      BY <1>0, <2>2 DEF NoUnexpectedExecution, PastRecovery
    <2>5. \A x \in Segments : Running(x, ByLeadTime)' = {}
      BY <2>2, <2>4 DEF Running
    <2>6. AutomaticState(s) # "PLANNING"
      <3>1. AutomaticHistory(s) /\ attempts[s][ByLeadTime] \in Seq(Attempt)
        BY <1>0, <1>t, <2>3 DEF AutomaticStateMatchesHistory, RepositoryTypeOK
      <3>2. ~\E n \in DOMAIN attempts[s][ByLeadTime] : attempts[s][ByLeadTime][n].state = "PLANNING"
        BY <2>3, <2>4 DEF Running
      <3> QED
        BY <3>1, <3>2 DEF AutomaticHistory, AutomaticState
    <2>7. \A x \in Segments :
            \/ automatic'[x] = automatic[x]
            \/ /\ automatic[x].state = "NONE"
               /\ automatic'[x].state = "NOT_ACTIVATED"
               /\ automatic'[x].last = automatic[x].last
               /\ automatic'[x].completed = automatic[x].completed
      BY <1>0, <2>1, <2>3 DEF InitializeAutomaticState, AutomaticState, RepositoryTypeOK
    <2>8. AutomaticStateMatchesHistory'
      <3>1. ASSUME NEW x \in Segments PROVE AutomaticHistory(x)'
        <4>1. AutomaticHistory(x) /\ attempts[x][ByLeadTime] \in Seq(Attempt)
          BY <1>0, <1>t DEF AutomaticStateMatchesHistory, RepositoryTypeOK
        <4>2. CASE automatic'[x] = automatic[x]
          BY <2>2, <4>1, <4>2 DEF AutomaticHistory, AutomaticState
        <4>3. CASE automatic[x].state = "NONE" /\ automatic'[x] # automatic[x]
          <5>1. Len(attempts[x][ByLeadTime]) = 0
            <6>1. Len(attempts[x][ByLeadTime]) > 0 =>
                    attempts[x][ByLeadTime][Len(attempts[x][ByLeadTime])] \in Attempt
              BY <4>1
            <6> QED
              BY <4>1, <4>3, <6>1 DEF AutomaticHistory, Attempt
          <5>2. /\ automatic'[x].state = "NOT_ACTIVATED"
                /\ automatic'[x].last = automatic[x].last
                /\ automatic'[x].completed = automatic[x].completed
            BY <2>7, <4>3
          <5> QED
            BY <2>2, <4>1, <4>3, <5>1, <5>2 DEF AutomaticHistory, AutomaticState
        <4> QED
          BY <2>7, <4>2, <4>3
      <3> QED
        BY <3>1 DEF AutomaticStateMatchesHistory
    <2>9. /\ \A d \in Callers : d # c => pc'[d] = pc[d]
          /\ pc'[c] \notin {"plan", "unexpected"}
          /\ pc'[c] = "start" => job'[c].segment = s /\ CanStart(AutomaticState(s))
      BY <1>0, <2>1, <2>6 DEF ServiceTypeOK
    <2>10. pc'[c] = "start" => CanStart(AutomaticState(job[c].segment))'
      <3>1. pc'[c] = "start" => CanStart(AutomaticState(s)')
        BY <2>3, <2>7, <2>9 DEF CanStart, AutomaticState
      <3>2. pc'[c] = "start" => (AutomaticState(job[c].segment))' = AutomaticState(s)'
        BY <2>9 DEF AutomaticState
      <3> QED
        BY <3>1, <3>2 DEF CanStart
    <2>11. JobReady' /\ NoUnexpectedExecution'
      BY <1>0, <2>2, <2>5, <2>9, <2>10, HolderStep DEF Locked
    <2> QED
      BY <2>8, <2>11
  <1>7. ASSUME NEW c \in Callers, Resolve(c) PROVE Rest'
    <2>1. /\ pc[c] = "resolve" /\ mode[c] = "USER_INITIATED"
          /\ UNCHANGED <<automatic, attempts>>
      BY <1>0, <1>7 DEF Resolve, ModeMatches, repositoryVars
    <2>2. CASE Goto(c, "start") /\ UNCHANGED mode
      <3>1. /\ pc'[c] = "start" /\ mode'[c] # "AUTOMATIC"
            /\ \A d \in Callers : d # c => pc'[d] = pc[d]
        BY <1>0, <2>1, <2>2 DEF Goto, ServiceTypeOK
      <3>2. JobReady' /\ NoUnexpectedExecution'
        BY <1>0, <2>1, <3>1, HolderStep DEF Locked, PastRecovery
      <3> QED
        BY <1>u, <2>1, <3>2
    <2> QED
      BY <1>7, <1>l, <2>1, <2>2 DEF Resolve
  <1>8. ASSUME NEW c \in Callers, Start(c) PROVE Rest'
    <2>0. /\ pc[c] = "start" /\ UNCHANGED <<mode, job>> /\ pc[c] \in Locked
          /\ mode[c] \in Modes
      BY <1>0, <1>8 DEF Start, Locked, ServiceTypeOK
    <2>1. PICK s \in Segments, t \in Triggers, f \in Facts, at \in Times :
            /\ s = job[c].segment /\ t = TriggerOf(mode[c])
            /\ f = job[c].facts /\ at = asOf[c]
            /\ t = ByLeadTime <=> mode[c] = "AUTOMATIC"
      BY <1>0, <2>0 DEF ServiceTypeOK, TriggerOf, Triggers, ByLeadTime, Job, Modes
    <2>2. ~StartRefused(s, t)
      <3>1. CASE mode[c] = "AUTOMATIC"
        <4>1. CanStart(AutomaticState(s))
          BY <1>0, <2>0, <2>1, <3>1 DEF JobReady
        <4>2. Running(s, ByLeadTime) = {}
          BY <1>0, <2>0, <2>1, <3>1 DEF NoUnexpectedExecution, PastRecovery
        <4> QED
          BY <2>1, <3>1, <4>1, <4>2 DEF StartRefused
      <3>2. CASE mode[c] # "AUTOMATIC"
        BY <2>1, <3>2 DEF StartRefused
      <3> QED
        BY <3>1, <3>2
    <2>3. /\ StartAttempt(s, t, f, at)
          /\ pc'[c] = "plan"
          /\ \A d \in Callers : d # c => pc'[d] = pc[d]
      BY <1>0, <1>8, <2>1, <2>2 DEF Start, Goto, ServiceTypeOK
    <2>4. /\ AutomaticStateMatchesHistory'
          /\ t = ByLeadTime => AutomaticState(s)' = "PLANNING"
          /\ \A x \in Segments : x # s \/ t # ByLeadTime =>
               Running(x, ByLeadTime)' = Running(x, ByLeadTime)
      BY <1>0, <2>3, HistoryStart
    <2>5. mode'[c] = "AUTOMATIC" => (AutomaticState(job[c].segment))' = "PLANNING"
      <3>1. (AutomaticState(job[c].segment))' = AutomaticState(s)'
        BY <2>0, <2>1 DEF AutomaticState
      <3> QED
        BY <2>0, <2>1, <2>4, <3>1
    <2>6. PastRecovery(c)' => \A x \in Segments : Running(x, ByLeadTime)' # {} => job'[c].segment = x
      BY <1>0, <2>0, <2>1, <2>4 DEF NoUnexpectedExecution, PastRecovery
    <2>7. JobReady' /\ NoUnexpectedExecution'
      BY <1>0, <2>0, <2>3, <2>5, <2>6, HolderStep
    <2> QED
      BY <2>4, <2>7
  <1>9. ASSUME NEW c \in Callers, Finish(c) PROVE Rest'
    <2>0. pc[c] = "plan" /\ pc[c] \in Locked /\ mode[c] \in Modes
      BY <1>0, <1>9 DEF Finish, Locked, ServiceTypeOK
    <2>1. PICK s \in Segments, t \in Triggers :
            /\ s = job[c].segment /\ t = TriggerOf(mode[c])
            /\ t = ByLeadTime <=> mode[c] = "AUTOMATIC"
      BY <1>0, <2>0 DEF ServiceTypeOK, TriggerOf, Triggers, ByLeadTime, Job, Modes
    <2>2. attempts[s][t] \in Seq(Attempt) /\ \E n \in Nat : n = Len(attempts[s][t])
      BY <1>0 DEF RepositoryTypeOK
    <2>n. PICK n \in Nat : n = Len(attempts[s][t])
      BY <2>2
    <2>3. t = ByLeadTime => n \in DOMAIN attempts[s][t]
      <3>1. ASSUME t = ByLeadTime PROVE n # 0
        <4>1. AutomaticState(s) = "PLANNING" /\ AutomaticHistory(s)
          BY <1>0, <2>0, <2>1, <3>1 DEF JobReady, AutomaticStateMatchesHistory
        <4> QED
          BY <2>n, <3>1, <4>1 DEF AutomaticHistory
      <3> QED
        BY <2>2, <2>n, <3>1
    <2>4. PICK outcome \in {"COMPLETED", "FAILED"} : FinishAttempt(s, t, n, outcome)
      BY <1>9, <2>1, <2>n DEF Finish
    <2>5. /\ AutomaticStateMatchesHistory'
          /\ t = ByLeadTime => Running(s, ByLeadTime)' = {}
          /\ \A x \in Segments : x # s \/ t # ByLeadTime =>
               Running(x, ByLeadTime)' = Running(x, ByLeadTime)
      BY <1>0, <2>3, <2>4, HistoryFinish
    <2>6. \A d \in Callers : d # c => pc'[d] = pc[d]
      BY <1>0, <1>9 DEF Finish, Leave, Goto, ServiceTypeOK
    <2>7. CASE mode[c] = "AUTOMATIC"
      <3>1. pc'[c] = "dispatch" /\ UNCHANGED mode
        BY <1>0, <1>9, <2>7 DEF Finish, Goto, ServiceTypeOK
      <3>2. \A x \in Segments : x # s => Running(x, ByLeadTime) = {}
        BY <1>0, <2>0, <2>1, <2>7 DEF NoUnexpectedExecution, PastRecovery
      <3>3. \A x \in Segments : Running(x, ByLeadTime)' = {}
        BY <2>1, <2>5, <2>7, <3>2
      <3>4. JobReady' /\ NoUnexpectedExecution'
        BY <1>0, <2>0, <2>6, <3>1, <3>3, HolderStep
      <3> QED
        BY <2>5, <3>4
    <2>8. CASE mode[c] # "AUTOMATIC"
      <3>1. pc'[c] = "idle"
        BY <1>0, <1>9, <2>8 DEF Finish, Leave, ServiceTypeOK
      <3>2. JobReady' /\ NoUnexpectedExecution'
        BY <1>0, <2>0, <2>6, <3>1, HolderStep DEF PastRecovery
      <3> QED
        BY <2>5, <3>2
    <2> QED
      BY <2>7, <2>8
  <1>10. ASSUME Tick \/ UNCHANGED vars PROVE Rest'
    BY <1>10, <1>n DEF Tick, vars, repositoryVars, serviceVars, localVars
  <1> QED
    BY <1>1, <1>2, <1>3, <1>4, <1>5, <1>6, <1>7, <1>8, <1>9, <1>10 DEF Next, Step

LEMMA AutomaticInit == Init => AutomaticInv
  <1> SUFFICES ASSUME Init PROVE AutomaticInv
    OBVIOUS
  <1>1. TypeOK
    BY InitType
  <1>2. \A c \in Callers : pc[c] = "idle"
    BY DEF Init
  <1>3. LockHeld /\ ModeMatches /\ JobReady /\ NoUnexpectedExecution
    BY <1>2 DEF LockHeld, ModeMatches, JobReady, NoUnexpectedExecution, PastRecovery, Locked
  <1>4. ASSUME NEW s \in Segments PROVE AutomaticHistory(s)
    <2>1. ByLeadTime \in Triggers
      BY DEF Triggers, ByLeadTime
    <2>2. /\ attempts[s][ByLeadTime] = <<>>
          /\ automatic[s] = [state |-> "NONE", last |-> 0, completed |-> 0]
      BY <2>1 DEF Init, RepositoryInit
    <2> QED
      BY <2>2 DEF AutomaticHistory, AutomaticState
  <1>5. AutomaticStateMatchesHistory
    BY <1>4 DEF AutomaticStateMatchesHistory
  <1> QED
    BY <1>1, <1>3, <1>5 DEF AutomaticInv

LEMMA AutomaticInvariant == Spec => []AutomaticInv
  <1>1. AutomaticInv /\ [Next]_vars => AutomaticInv'
    <2> SUFFICES ASSUME AutomaticInv, [Next]_vars PROVE AutomaticInv'
      OBVIOUS
    <2>1. TypeOK' /\ LockHeld' /\ ModeMatches'
      BY TypeStep, LockStep, ModeStep DEF AutomaticInv
    <2>2. JobReady' /\ AutomaticStateMatchesHistory' /\ NoUnexpectedExecution'
      BY AutomaticStep
    <2> QED
      BY <2>1, <2>2 DEF AutomaticInv
  <1> QED
    BY AutomaticInit, <1>1, PTL DEF Spec

\* The summary row of every segment agrees with its attempt rows, of which at
\* most the last is not FAILED: no segment is ever planned automatically again
\* once an attempt completed, whatever aborts and whoever runs.
THEOREM AutomaticHistoryHolds == Spec => []AutomaticStateMatchesHistory
  <1>1. AutomaticInv => AutomaticStateMatchesHistory
    BY DEF AutomaticInv
  <1> QED
    BY AutomaticInvariant, <1>1, PTL

\* The RuntimeErrors of monitor_trips and start_attempt are unreachable: a
\* monitor past recovery owns every running automatic attempt.
THEOREM NeverUnexpected == Spec => []NoUnexpectedExecution
  <1>1. AutomaticInv => NoUnexpectedExecution
    BY DEF AutomaticInv
  <1> QED
    BY AutomaticInvariant, <1>1, PTL

(***************************************************************************)
(* Refinement: a step of the service is a step of the lifecycle of one     *)
(* segment, or changes no lifecycle.                                       *)
(***************************************************************************)

\* The abstract history of a segment.
Outcomes(s) == [n \in DOMAIN attempts[s][ByLeadTime] |-> attempts[s][ByLeadTime][n].state]

LEMMA AppendIs ==
  ASSUME NEW S, NEW q \in Seq(S), NEW e \in S
  PROVE  Append(q, e) = [n \in 1..(Len(q) + 1) |-> IF n <= Len(q) THEN q[n] ELSE e]
  <1> DEFINE r == [n \in 1..(Len(q) + 1) |-> IF n <= Len(q) THEN q[n] ELSE e]
  <1>1. Len(q) \in Nat /\ \A n \in 1..Len(q) : q[n] \in S
    OBVIOUS
  <1>2. r \in [1..(Len(q) + 1) -> S]
    BY <1>1
  <1>3. Append(q, e) \in [1..(Len(q) + 1) -> S]
    <2>1. Append(q, e) \in Seq(S) /\ Len(Append(q, e)) = Len(q) + 1
      OBVIOUS
    <2>2. ASSUME NEW z \in Seq(S) PROVE z \in [1..Len(z) -> S]
      OBVIOUS
    <2> QED
      BY <2>1, <2>2
  <1>4. \A n \in 1..(Len(q) + 1) : Append(q, e)[n] = r[n]
    BY <1>1
  <1> QED
    BY <1>2, <1>3, <1>4

LEMMA LifecycleStart ==
  ASSUME AutomaticInv, AutomaticInv',
         NEW s \in Segments, NEW t \in Triggers, NEW f \in Facts, NEW at \in Times,
         StartAttempt(s, t, f, at)
  PROVE  Lifecycle!Begin(s) \/ UNCHANGED Lifecycle!lifecycleVars
  <1>0. ByLeadTime \in Triggers /\ RepositoryTypeOK /\ RepositoryTypeOK'
    BY DEF Triggers, ByLeadTime, AutomaticInv, TypeOK
  <1>1. CASE t # ByLeadTime
    <2>1. automatic' = automatic
      BY <1>1 DEF StartAttempt
    <2>2. \A x \in Segments : attempts'[x][ByLeadTime] = attempts[x][ByLeadTime]
      BY <1>0, <1>1 DEF StartAttempt, RepositoryTypeOK
    <2> QED
      BY <2>1, <2>2 DEF Lifecycle!lifecycleVars, AutomaticState
  <1>2. CASE t = ByLeadTime
    <2> DEFINE rows == attempts[s][ByLeadTime]
               row == [state |-> "PLANNING", revision |-> segments[s].revision,
                       asOf |-> at, facts |-> f]
    <2>1. /\ CanStart(AutomaticState(s))
          /\ attempts'[s][ByLeadTime] = Append(rows, row)
          /\ automatic'[s].state = "PLANNING"
          /\ \A x \in Segments : x # s =>
               /\ attempts'[x][ByLeadTime] = attempts[x][ByLeadTime]
               /\ automatic'[x] = automatic[x]
      BY <1>0, <1>2 DEF StartAttempt, RepositoryTypeOK, StartRefused
    <2>2. Outcomes(s)' = Append(Outcomes(s), "PLANNING")
      <3>1. rows \in Seq(Attempt) /\ row.state = "PLANNING"
        BY <1>0 DEF RepositoryTypeOK
      <3>2. \A a \in Attempt : a.state \in States
        BY DEF Attempt, States
      <3>3. Outcomes(s) \in Seq(States) /\ Len(Outcomes(s)) = Len(rows)
            /\ \A n \in 1..Len(rows) : Outcomes(s)[n] = rows[n].state
        BY <3>1, <3>2 DEF Outcomes
      <3>4. Append(Outcomes(s), "PLANNING") =
              [n \in 1..(Len(rows) + 1) |-> IF n <= Len(rows) THEN rows[n].state ELSE "PLANNING"]
        <4>1. Append(Outcomes(s), "PLANNING") =
                [n \in 1..(Len(Outcomes(s)) + 1) |->
                   IF n <= Len(Outcomes(s)) THEN Outcomes(s)[n] ELSE "PLANNING"]
          BY <3>3, AppendIs DEF States
        <4>2. Len(rows) \in Nat /\ \A n \in 1..(Len(rows) + 1) : n <= Len(rows) => n \in 1..Len(rows)
          BY <3>1
        <4> QED
          BY <3>3, <4>1, <4>2
      <3>5. /\ DOMAIN Append(rows, row) = 1..(Len(rows) + 1)
            /\ \A n \in 1..(Len(rows) + 1) : Append(rows, row)[n] = IF n <= Len(rows) THEN rows[n] ELSE row
        BY <3>1
      <3>6. Outcomes(s)' = [n \in DOMAIN Append(rows, row) |-> Append(rows, row)[n].state]
        BY <2>1 DEF Outcomes
      <3>7. Outcomes(s)' =
              [n \in 1..(Len(rows) + 1) |-> IF n <= Len(rows) THEN rows[n].state ELSE "PLANNING"]
        BY <3>1, <3>5, <3>6
      <3> QED
        BY <3>4, <3>7
    <2>3. Lifecycle!Begin(s)
      BY <2>1, <2>2 DEF Lifecycle!Begin, Outcomes, CanStart, AutomaticState
    <2> QED
      BY <2>3
  <1> QED
    BY <1>1, <1>2

LEMMA LifecycleFinish ==
  ASSUME AutomaticInv, AutomaticInv',
         NEW s \in Segments, NEW t \in Triggers, NEW n \in Nat,
         NEW outcome \in {"COMPLETED", "FAILED"}, FinishAttempt(s, t, n, outcome),
         t = ByLeadTime => n \in DOMAIN attempts[s][t]
  PROVE  Lifecycle!Settle(s, outcome) \/ UNCHANGED Lifecycle!lifecycleVars
  <1>0. /\ ByLeadTime \in Triggers /\ RepositoryTypeOK /\ RepositoryTypeOK'
        /\ AutomaticStateMatchesHistory
    BY DEF Triggers, ByLeadTime, AutomaticInv, TypeOK
  <1>1. CASE t # ByLeadTime
    <2>1. automatic' = automatic
      BY <1>1 DEF FinishAttempt
    <2>2. \A x \in Segments : attempts'[x][ByLeadTime] = attempts[x][ByLeadTime]
      BY <1>0, <1>1 DEF FinishAttempt, RepositoryTypeOK
    <2> QED
      BY <2>1, <2>2 DEF Lifecycle!lifecycleVars, AutomaticState
  <1>2. CASE t = ByLeadTime
    <2> DEFINE rows == attempts[s][ByLeadTime]
               settled == [rows EXCEPT ![n].state = outcome]
    <2>1. n = Len(rows)
      BY <1>0, <1>2, HistoryFinish
    <2>2. rows \in Seq(Attempt) /\ n \in DOMAIN rows /\ rows[n].state = "PLANNING"
      BY <1>0, <1>2 DEF RepositoryTypeOK, FinishAttempt
    <2>3. /\ attempts'[s][ByLeadTime] = settled
          /\ automatic'[s].state = outcome
          /\ \A x \in Segments : x # s =>
               /\ attempts'[x][ByLeadTime] = attempts[x][ByLeadTime]
               /\ automatic'[x] = automatic[x]
      BY <1>0, <1>2 DEF FinishAttempt, RepositoryTypeOK
    <2>4. automatic[s].state = "PLANNING"
      <3>1. AutomaticHistory(s) /\ Len(rows) > 0
        BY <1>0, <2>2 DEF AutomaticStateMatchesHistory
      <3> QED
        BY <2>1, <2>2, <3>1 DEF AutomaticHistory
    <2>5. /\ Outcomes(s)' = [Outcomes(s) EXCEPT ![n] = outcome]
          /\ Len(Outcomes(s)) = n
      <3>1. /\ DOMAIN settled = DOMAIN rows
            /\ \A k \in DOMAIN rows : settled[k].state = IF k = n THEN outcome ELSE rows[k].state
        <4>1. \A k \in DOMAIN rows : rows[k] \in Attempt
          BY <2>2
        <4> QED
          BY <2>2, <4>1 DEF Attempt
      <3>2. Outcomes(s)' = [k \in DOMAIN settled |-> settled[k].state]
        BY <2>3 DEF Outcomes
      <3>3. [Outcomes(s) EXCEPT ![n] = outcome] =
              [k \in DOMAIN rows |-> IF k = n THEN outcome ELSE rows[k].state]
        BY <2>2 DEF Outcomes
      <3>4. Outcomes(s)' = [k \in DOMAIN rows |-> IF k = n THEN outcome ELSE rows[k].state]
        BY <3>1, <3>2
      <3>5. Len(Outcomes(s)) = n
        BY <2>1, <2>2 DEF Outcomes
      <3> QED
        BY <3>3, <3>4, <3>5
    <2>6. Lifecycle!Settle(s, outcome)
      <3> DEFINE phase == [x \in Segments |-> AutomaticState(x)]
                 history == [x \in Segments |-> Outcomes(x)]
      <3>1. phase[s] = "PLANNING" /\ phase' = [phase EXCEPT ![s] = outcome]
        BY <2>3, <2>4 DEF AutomaticState
      <3>2. \A x \in Segments : x # s => Outcomes(x)' = Outcomes(x)
        BY <2>3 DEF Outcomes
      <3>3. history' = [history EXCEPT ![s] = [Outcomes(s) EXCEPT ![n] = outcome]]
        <4>1. history' = [x \in Segments |-> Outcomes(x)']
          OBVIOUS
        <4>2. ASSUME NEW x \in Segments
              PROVE  Outcomes(x)' = IF x = s THEN [Outcomes(s) EXCEPT ![n] = outcome] ELSE Outcomes(x)
          BY <2>5, <3>2
        <4> QED
          BY <4>1, <4>2
      <3>4. history[s] = Outcomes(s) /\ Len(history[s]) = n
        BY <2>5
      <3>5. history' = [history EXCEPT ![s][Len(history[s])] = outcome]
        BY <3>3, <3>4
      <3> QED
        BY <3>1, <3>5 DEF Lifecycle!Settle, Outcomes
    <2> QED
      BY <2>6
  <1> QED
    BY <1>1, <1>2

LEMMA LifecycleStep ==
  ASSUME AutomaticInv, AutomaticInv', [Next]_vars
  PROVE  [Lifecycle!Next]_(Lifecycle!lifecycleVars)
  <1> DEFINE Goal == [Lifecycle!Next]_(Lifecycle!lifecycleVars)
  <1>0. TypeOK /\ RepositoryTypeOK /\ ServiceTypeOK /\ ByLeadTime \in Triggers
    BY DEF AutomaticInv, TypeOK, Triggers, ByLeadTime
  <1>u. ASSUME UNCHANGED <<automatic, attempts>> PROVE Goal
    BY <1>u DEF Lifecycle!lifecycleVars, AutomaticState
  <1>1. ASSUME NEW c \in Callers, RecoverOne(c) PROVE Goal
    <2>1. PICK s \in Segments : \E n \in Running(s, ByLeadTime) :
            FinishAttempt(s, ByLeadTime, n, "FAILED")
      BY <1>1 DEF RecoverOne, Interrupted
    <2>2. attempts[s][ByLeadTime] \in Seq(Attempt)
      BY <1>0 DEF RepositoryTypeOK
    <2>3. PICK n \in Nat : /\ FinishAttempt(s, ByLeadTime, n, "FAILED")
                          /\ n \in DOMAIN attempts[s][ByLeadTime]
      BY <2>1, <2>2 DEF Running
    <2>4. Lifecycle!Settle(s, "FAILED") \/ UNCHANGED Lifecycle!lifecycleVars
      BY <1>0, <2>3, LifecycleFinish
    <2> QED
      BY <2>4 DEF Lifecycle!Next
  <1>2. ASSUME NEW c \in Callers, Dispatch(c) PROVE Goal
    <2>1. PICK s \in Segments : InitializeAutomaticState(s)
      BY <1>0, <1>2, SnapshotElim DEF Dispatch, Earliest, ServiceTypeOK
    <2>2. attempts' = attempts
      BY <1>2 DEF Dispatch
    <2>3. \A x \in Segments : AutomaticState(x)' = AutomaticState(x)
      BY <1>0, <2>1 DEF InitializeAutomaticState, AutomaticState, RepositoryTypeOK
    <2> QED
      BY <2>2, <2>3 DEF Lifecycle!lifecycleVars
  <1>3. ASSUME NEW c \in Callers, Start(c) PROVE Goal
    <2>0. pc[c] = "start"
      BY <1>3 DEF Start
    <2>1. PICK s \in Segments, t \in Triggers, f \in Facts, at \in Times :
            /\ s = job[c].segment /\ t = TriggerOf(mode[c])
            /\ f = job[c].facts /\ at = asOf[c]
      BY <1>0, <2>0 DEF ServiceTypeOK, TriggerOf, Triggers, ByLeadTime, Job, Modes
    <2>2. CASE UNCHANGED repositoryVars
      BY <1>u, <2>2 DEF repositoryVars
    <2>3. CASE StartAttempt(s, t, f, at)
      <3>1. Lifecycle!Begin(s) \/ UNCHANGED Lifecycle!lifecycleVars
        BY <2>3, LifecycleStart
      <3> QED
        BY <3>1 DEF Lifecycle!Next
    <2> QED
      BY <1>3, <2>1, <2>2, <2>3 DEF Start
  <1>4. ASSUME NEW c \in Callers, Finish(c) PROVE Goal
    <2>0. pc[c] = "plan"
      BY <1>4 DEF Finish
    <2>1. PICK s \in Segments, t \in Triggers :
            /\ s = job[c].segment /\ t = TriggerOf(mode[c])
            /\ t = ByLeadTime <=> mode[c] = "AUTOMATIC"
      BY <1>0, <2>0 DEF ServiceTypeOK, TriggerOf, Triggers, ByLeadTime, Job, Modes
    <2>2. attempts[s][t] \in Seq(Attempt) /\ \E n \in Nat : n = Len(attempts[s][t])
      BY <1>0 DEF RepositoryTypeOK
    <2>3. PICK n \in Nat : n = Len(attempts[s][t])
      BY <2>2
    <2>4. t = ByLeadTime => n \in DOMAIN attempts[s][t]
      <3>1. ASSUME t = ByLeadTime PROVE n # 0
        <4>1. AutomaticState(s) = "PLANNING" /\ AutomaticHistory(s)
          BY <2>0, <2>1, <3>1 DEF AutomaticInv, JobReady, AutomaticStateMatchesHistory
        <4> QED
          BY <2>3, <3>1, <4>1 DEF AutomaticHistory
      <3> QED
        BY <2>2, <2>3, <3>1
    <2>5. PICK outcome \in {"COMPLETED", "FAILED"} : FinishAttempt(s, t, n, outcome)
      BY <1>4, <2>1, <2>3 DEF Finish
    <2>6. Lifecycle!Settle(s, outcome) \/ UNCHANGED Lifecycle!lifecycleVars
      BY <2>4, <2>5, LifecycleFinish
    <2> QED
      BY <2>6 DEF Lifecycle!Next
  <1>5. ASSUME NEW c \in Callers, \/ \E m \in Modes : Invoke(c, m)
                                \/ EnterLock(c) \/ Busy(c) \/ RecoverDone(c) \/ Refresh(c)
                                \/ Apply(c) \/ RefreshBlocked(c) \/ ListSegments(c)
                                \/ MonitorDone(c) \/ Resolve(c) \/ Abort(c)
        PROVE  Goal
    BY <1>5, <1>u DEF Invoke, EnterLock, Busy, RecoverDone, Refresh, Apply, ApplySnapshot,
       RefreshBlocked, ListSegments, MonitorDone, Resolve, Abort, repositoryVars
  <1>6. ASSUME Tick \/ UNCHANGED vars PROVE Goal
    BY <1>6, <1>u DEF Tick, vars, repositoryVars
  <1> QED
    BY <1>1, <1>2, <1>3, <1>4, <1>5, <1>6 DEF Next, Step

\* The tables, with two processes writing them under the lock, crashes and
\* recovery, implement the lifecycle each segment was promised.
THEOREM ServiceImplementsLifecycle == Spec => ImplementsLifecycle
  <1>1. Init => Lifecycle!Init
    <2> SUFFICES ASSUME Init PROVE Lifecycle!Init
      OBVIOUS
    <2>1. ByLeadTime \in Triggers
      BY DEF Triggers, ByLeadTime
    <2>2. \A s \in Segments : attempts[s][ByLeadTime] = <<>> /\ automatic[s].state = "NONE"
      BY <2>1 DEF Init, RepositoryInit
    <2> QED
      BY <2>2 DEF Lifecycle!Init, AutomaticState
  <1>2. AutomaticInv /\ AutomaticInv' /\ [Next]_vars => [Lifecycle!Next]_(Lifecycle!lifecycleVars)
    BY LifecycleStep
  <1> QED
    BY <1>1, <1>2, AutomaticInvariant, PTL DEF Spec, ImplementsLifecycle, Lifecycle!Spec

(***************************************************************************)
(* Manual execution.                                                       *)
(***************************************************************************)

\* A step of a caller writes automatic records only under mode AUTOMATIC.
LEMMA ManualStep ==
  ASSUME AutomaticInv, [Next]_vars, NEW c \in Callers,
         mode[c] = "USER_INITIATED", pc'[c] # pc[c]
  PROVE  /\ automatic' = automatic
         /\ \A s \in Segments : attempts'[s][ByLeadTime] = attempts[s][ByLeadTime]
  <1> DEFINE Goal == /\ automatic' = automatic
                     /\ \A s \in Segments : attempts'[s][ByLeadTime] = attempts[s][ByLeadTime]
  <1>0. /\ RepositoryTypeOK /\ ServiceTypeOK /\ ModeMatches /\ ByLeadTime \in Triggers
        /\ "USER_REQUEST" \in Triggers /\ ByLeadTime # "USER_REQUEST"
    BY DEF AutomaticInv, TypeOK, Triggers, ByLeadTime
  \* The caller whose pc moves is the one that steps.
  <1>1. ASSUME NEW d \in Callers, \/ \E m \in Modes : Invoke(d, m)
                                 \/ EnterLock(d) \/ Busy(d) \/ RecoverDone(d) \/ Refresh(d)
                                 \/ Apply(d) \/ RefreshBlocked(d) \/ ListSegments(d)
                                 \/ MonitorDone(d) \/ Resolve(d) \/ Abort(d)
        PROVE  Goal
    BY <1>1 DEF Invoke, EnterLock, Busy, RecoverDone, Refresh, Apply, ApplySnapshot,
       RefreshBlocked, ListSegments, MonitorDone, Resolve, Abort, repositoryVars
  <1>2. ASSUME NEW d \in Callers, RecoverOne(d) PROVE FALSE
    BY <1>2 DEF RecoverOne, serviceVars, localVars
  <1>3. ASSUME NEW d \in Callers, Dispatch(d) PROVE FALSE
    <2>1. d = c
      BY <1>0, <1>3 DEF Dispatch, Goto, ServiceTypeOK
    <2> QED
      BY <1>0, <1>3, <2>1 DEF Dispatch, ModeMatches
  <1>4. ASSUME NEW d \in Callers, Start(d) PROVE Goal
    <2>1. d = c
      BY <1>0, <1>4 DEF Start, Goto, ServiceTypeOK
    <2>2. CASE UNCHANGED repositoryVars
      BY <2>2 DEF repositoryVars
    <2>3. CASE StartAttempt(job[c].segment, "USER_REQUEST", job[c].facts, asOf[c])
      BY <1>0, <2>3 DEF StartAttempt, RepositoryTypeOK
    <2> QED
      BY <1>4, <2>1, <2>2, <2>3 DEF Start, TriggerOf
  <1>5. ASSUME NEW d \in Callers, Finish(d) PROVE Goal
    <2>1. d = c
      BY <1>0, <1>5 DEF Finish, Leave, Goto, ServiceTypeOK
    <2>2. PICK outcome, n : FinishAttempt(job[c].segment, "USER_REQUEST", n, outcome)
      BY <1>5, <2>1 DEF Finish, TriggerOf
    <2> QED
      BY <1>0, <2>2 DEF FinishAttempt, RepositoryTypeOK
  <1>6. CASE Tick \/ UNCHANGED vars
    BY <1>6 DEF Tick, vars, repositoryVars, serviceVars, localVars
  <1> QED
    BY <1>1, <1>2, <1>3, <1>4, <1>5, <1>6 DEF Next, Step

\* No step of plan_booked_trip moves any automatic record, whatever a monitor
\* that died has left running.
THEOREM ManualIsIndependent == Spec => ManualIndependent
  <1>1. AutomaticInv /\ [Next]_vars =>
          [\A c \in Callers : mode[c] = "USER_INITIATED" /\ pc'[c] # pc[c] =>
             /\ automatic' = automatic
             /\ \A s \in Segments : attempts'[s][ByLeadTime] = attempts[s][ByLeadTime]]_vars
    BY ManualStep
  <1> QED
    BY <1>1, AutomaticInvariant, PTL DEF Spec, ManualIndependent

(***************************************************************************)
(* What is recorded stays recorded.                                        *)
(***************************************************************************)

RevisionsKept ==
  \A i \in Itineraries : \A r \in DOMAIN revisions[i] :
    r \in DOMAIN revisions'[i] /\ revisions'[i][r] = revisions[i][r]

AttemptKept(s, t, n) ==
  LET old == attempts[s][t][n]
      new == attempts'[s][t][n]
  IN  /\ n \in DOMAIN attempts'[s][t]
      /\ new = [old EXCEPT !.state = new.state]
      /\ old.state # "PLANNING" => new = old

AttemptsKept ==
  \A s \in Segments, t \in Triggers : \A n \in DOMAIN attempts[s][t] : AttemptKept(s, t, n)

\* Only apply_snapshot writes the tables of the itineraries.
LEMMA OnlyApplyRefreshes ==
  ASSUME [Next]_vars, \A c \in Callers : ~Apply(c)
  PROVE  UNCHANGED <<itineraries, revisions, segments>>
  <1>1. ASSUME NEW c \in Callers, Step(c) \/ Abort(c) \/ \E m \in Modes : Invoke(c, m)
        PROVE  UNCHANGED <<itineraries, revisions, segments>>
    BY <1>1 DEF Step, Abort, Invoke, EnterLock, Busy, RecoverOne, FinishAttempt, RecoverDone,
       Refresh, RefreshBlocked, ListSegments, Dispatch, MonitorDone, Resolve, Start,
       StartAttempt, Finish, repositoryVars
  <1> QED
    BY <1>1 DEF Next, Tick, vars, repositoryVars

\* Every other step leaves the attempts, starts one, or settles one.
LEMMA AttemptsChange ==
  ASSUME TypeOK, [Next]_vars
  PROVE  \/ UNCHANGED attempts
         \/ \E c \in Callers, s \in Segments, t \in Triggers, f \in Facts, at \in Times :
              /\ StartAttempt(s, t, f, at)
              /\ pc[c] = "start" /\ s = job[c].segment /\ f = job[c].facts
              /\ t = TriggerOf(mode[c]) /\ at = asOf[c]
         \/ \E s \in Segments, t \in Triggers, n \in Nat, outcome \in {"COMPLETED", "FAILED"} :
              FinishAttempt(s, t, n, outcome)
  <1>0. RepositoryTypeOK /\ ServiceTypeOK /\ ByLeadTime \in Triggers
    BY DEF TypeOK, Triggers, ByLeadTime
  <1>1. ASSUME NEW c \in Callers, Start(c), attempts' # attempts
        PROVE  \E s \in Segments, t \in Triggers, f \in Facts, at \in Times :
                 /\ StartAttempt(s, t, f, at)
                 /\ pc[c] = "start" /\ s = job[c].segment /\ f = job[c].facts
                 /\ t = TriggerOf(mode[c]) /\ at = asOf[c]
    <2>1. pc[c] = "start" /\ StartAttempt(job[c].segment, TriggerOf(mode[c]), job[c].facts, asOf[c])
      BY <1>1 DEF Start, repositoryVars
    <2>2. /\ job[c].segment \in Segments /\ job[c].facts \in Facts
          /\ TriggerOf(mode[c]) \in Triggers /\ asOf[c] \in Times
      BY <1>0, <2>1 DEF ServiceTypeOK, Job, TriggerOf, Triggers, ByLeadTime
    <2> QED
      BY <2>1, <2>2
  <1>2. ASSUME NEW c \in Callers, Finish(c)
        PROVE  \E s \in Segments, t \in Triggers, n \in Nat, outcome \in {"COMPLETED", "FAILED"} :
                 FinishAttempt(s, t, n, outcome)
    <2>1. /\ job[c].segment \in Segments /\ TriggerOf(mode[c]) \in Triggers
      BY <1>0, <1>2 DEF Finish, ServiceTypeOK, Job, TriggerOf, Triggers, ByLeadTime
    <2>2. Len(attempts[job[c].segment][TriggerOf(mode[c])]) \in Nat
      BY <1>0, <2>1 DEF RepositoryTypeOK
    <2> QED
      BY <1>2, <2>1, <2>2 DEF Finish
  <1>3. ASSUME NEW c \in Callers, RecoverOne(c)
        PROVE  \E s \in Segments, t \in Triggers, n \in Nat, outcome \in {"COMPLETED", "FAILED"} :
                 FinishAttempt(s, t, n, outcome)
    <2>1. PICK s \in Segments : \E n \in Running(s, ByLeadTime) :
            FinishAttempt(s, ByLeadTime, n, "FAILED")
      BY <1>3 DEF RecoverOne, Interrupted
    <2>2. attempts[s][ByLeadTime] \in Seq(Attempt)
      BY <1>0 DEF RepositoryTypeOK
    <2> QED
      BY <1>0, <2>1, <2>2 DEF Running
  <1>4. ASSUME NEW c \in Callers,
               \/ \E m \in Modes : Invoke(c, m)
               \/ EnterLock(c) \/ Busy(c) \/ RecoverDone(c) \/ Refresh(c) \/ Apply(c)
               \/ RefreshBlocked(c) \/ ListSegments(c) \/ Dispatch(c)
               \/ MonitorDone(c) \/ Resolve(c) \/ Abort(c)
        PROVE  UNCHANGED attempts
    BY <1>4 DEF Invoke, EnterLock, Busy, RecoverDone, Refresh, Apply, ApplySnapshot,
       RefreshBlocked, ListSegments, Dispatch, MonitorDone, Resolve, Abort, repositoryVars
  <1>5. CASE Tick \/ UNCHANGED vars
    BY <1>5 DEF Tick, vars, repositoryVars
  <1> QED
    BY <1>1, <1>2, <1>3, <1>4, <1>5 DEF Next, Step

\* start_attempt appends a row to one history and leaves the others.
LEMMA StartAppends ==
  ASSUME RepositoryTypeOK, NEW s \in Segments, NEW t \in Triggers, NEW f \in Facts,
         NEW at \in Times, StartAttempt(s, t, f, at)
  PROVE  LET rows == attempts[s][t]
             row == [state |-> "PLANNING", revision |-> segments[s].revision,
                     asOf |-> at, facts |-> f]
         IN  /\ rows \in Seq(Attempt)
             /\ attempts'[s][t] = Append(rows, row)
             /\ DOMAIN attempts'[s][t] = 1..(Len(rows) + 1)
             /\ \A n \in DOMAIN rows : attempts'[s][t][n] = rows[n]
             /\ attempts'[s][t][Len(rows) + 1] = row
             /\ \A x \in Segments, u \in Triggers :
                  x # s \/ u # t => attempts'[x][u] = attempts[x][u]
  <1> DEFINE rows == attempts[s][t]
             row == [state |-> "PLANNING", revision |-> segments[s].revision,
                     asOf |-> at, facts |-> f]
  <1>1. rows \in Seq(Attempt)
    BY DEF RepositoryTypeOK
  <1>2. /\ attempts'[s][t] = Append(rows, row)
        /\ \A x \in Segments, u \in Triggers : x # s \/ u # t => attempts'[x][u] = attempts[x][u]
    BY DEF StartAttempt, RepositoryTypeOK
  <1> QED
    BY <1>1, <1>2

\* A row as finish_attempt leaves it.
SettledRow(row, outcome) == [row EXCEPT !.state = outcome]

\* finish_attempt settles one row and leaves the others.
LEMMA FinishSettles ==
  ASSUME RepositoryTypeOK, NEW s \in Segments, NEW t \in Triggers, NEW n \in Nat,
         NEW outcome \in {"COMPLETED", "FAILED"}, FinishAttempt(s, t, n, outcome)
  PROVE  /\ attempts[s][t] \in Seq(Attempt)
         /\ attempts'[s][t] \in Seq(Attempt)
         /\ Len(attempts'[s][t]) = Len(attempts[s][t])
         /\ DOMAIN attempts'[s][t] = DOMAIN attempts[s][t]
         /\ attempts[s][t][n].state = "PLANNING"
         /\ \A k \in DOMAIN attempts[s][t] :
              \/ k # n /\ attempts'[s][t][k] = attempts[s][t][k]
              \/ k = n /\ attempts'[s][t][k] = SettledRow(attempts[s][t][k], outcome)
         /\ \A x \in Segments, u \in Triggers :
              x # s \/ u # t => attempts'[x][u] = attempts[x][u]
  <1> DEFINE rows == attempts[s][t]
  <1>1. rows \in Seq(Attempt) /\ outcome \in States
    BY DEF RepositoryTypeOK, States
  <1>2. /\ attempts'[s][t] = [rows EXCEPT ![n].state = outcome]
        /\ \A x \in Segments, u \in Triggers : x # s \/ u # t => attempts'[x][u] = attempts[x][u]
        /\ rows[n].state = "PLANNING"
    BY DEF FinishAttempt, RepositoryTypeOK
  <1>3. /\ attempts'[s][t] \in Seq(Attempt)
        /\ Len(attempts'[s][t]) = Len(rows)
        /\ \A k \in 1..Len(rows) : attempts'[s][t][k] =
             IF k = n THEN SettledRow(rows[k], outcome) ELSE rows[k]
    <2> DEFINE settled == [rows EXCEPT ![n].state = outcome]
    <2>1. settled \in Seq(Attempt) /\ Len(settled) = Len(rows)
      BY <1>1, SettledRows
    <2>3. DOMAIN rows = 1..Len(rows)
      BY <1>1
    <2>4. \A k \in 1..Len(rows) : settled[k] =
            IF k = n THEN SettledRow(rows[k], outcome) ELSE rows[k]
      BY <2>3 DEF SettledRow
    <2>2. attempts'[s][t] = settled
      BY <1>2
    <2> HIDE DEF settled
    <2> QED
      BY <2>1, <2>2, <2>4
  <1> QED
    BY <1>1, <1>2, <1>3

LEMMA RecordsKept ==
  ASSUME TypeOK, [Next]_vars
  PROVE  RevisionsKept /\ AttemptsKept
  <1>0. RepositoryTypeOK /\ ServiceTypeOK
    BY DEF TypeOK
  <1>t. \A s \in Segments, t \in Triggers : \A n \in DOMAIN attempts[s][t] : attempts[s][t][n] \in Attempt
    BY <1>0 DEF RepositoryTypeOK
  <1>1. RevisionsKept
    <2>1. ASSUME NEW c \in Callers, Apply(c) PROVE RevisionsKept
      <3>1. \A i \in Itineraries : \/ revisions'[i] = revisions[i]
                                  \/ revisions'[i] = Append(revisions[i], batch[c][i])
        BY <2>1 DEF Apply, ApplySnapshot
      <3>2. \A i \in Itineraries : revisions[i] \in Seq(Snapshot)
        BY <1>0 DEF RepositoryTypeOK
      <3> QED
        BY <3>1, <3>2 DEF RevisionsKept
    <2>2. CASE UNCHANGED <<itineraries, revisions, segments>>
      BY <2>2 DEF RevisionsKept
    <2> QED
      BY <2>1, <2>2, OnlyApplyRefreshes
  <1>2. AttemptsKept
    <2>u. ASSUME NEW s \in Segments, NEW t \in Triggers, attempts'[s][t] = attempts[s][t]
          PROVE  \A n \in DOMAIN attempts[s][t] : AttemptKept(s, t, n)
      BY <1>t, <2>u DEF AttemptKept, Attempt
    <2>1. CASE UNCHANGED attempts
      BY <2>1, <2>u DEF AttemptsKept
    <2>2. ASSUME NEW s \in Segments, NEW t \in Triggers, NEW f \in Facts, NEW at \in Times,
                 StartAttempt(s, t, f, at)
          PROVE  AttemptsKept
      <3>1. ASSUME NEW n \in DOMAIN attempts[s][t] PROVE AttemptKept(s, t, n)
        <4>1. /\ attempts[s][t] \in Seq(Attempt)
              /\ DOMAIN attempts'[s][t] = 1..(Len(attempts[s][t]) + 1)
              /\ \A k \in DOMAIN attempts[s][t] : attempts'[s][t][k] = attempts[s][t][k]
          BY <1>0, <2>2, StartAppends
        <4>2. n \in DOMAIN attempts'[s][t] /\ attempts'[s][t][n] = attempts[s][t][n]
          BY <4>1
        <4> QED
          BY <1>t, <4>2 DEF AttemptKept, Attempt
      <3>2. \A x \in Segments, u \in Triggers : x # s \/ u # t => attempts'[x][u] = attempts[x][u]
        BY <1>0, <2>2, StartAppends
      <3> QED
        BY <2>u, <3>1, <3>2 DEF AttemptsKept
    <2>3. ASSUME NEW s \in Segments, NEW t \in Triggers, NEW n \in Nat,
                 NEW outcome \in {"COMPLETED", "FAILED"}, FinishAttempt(s, t, n, outcome)
          PROVE  AttemptsKept
      <3>1. ASSUME NEW k \in DOMAIN attempts[s][t] PROVE AttemptKept(s, t, k)
        <4>1. k \in DOMAIN attempts'[s][t] /\ attempts[s][t][n].state = "PLANNING"
          BY <1>0, <2>3, FinishSettles
        <4>2. \/ attempts'[s][t][k] = attempts[s][t][k]
              \/ k = n /\ attempts'[s][t][k] = SettledRow(attempts[s][t][k], outcome)
          BY <1>0, <2>3, FinishSettles
        <4>3. attempts[s][t][k] \in Attempt
          BY <1>t
        <4> QED
          BY <4>1, <4>2, <4>3 DEF AttemptKept, Attempt, SettledRow
      <3>2. \A x \in Segments, u \in Triggers : x # s \/ u # t => attempts'[x][u] = attempts[x][u]
        BY <1>0, <2>3, FinishSettles
      <3> QED
        BY <2>u, <3>1, <3>2 DEF AttemptsKept
    <2> QED
      BY <2>1, <2>2, <2>3, AttemptsChange
  <1> QED
    BY <1>1, <1>2

\* Revisions and attempts are only appended; an attempt keeps the decision it was
\* made on, and a settled one its outcome.
THEOREM RecordsAreDurable == Spec => RecordsDurable
  <1>1. TypeOK /\ [Next]_vars =>
          [/\ \A i \in Itineraries : \A r \in DOMAIN revisions[i] :
                r \in DOMAIN revisions'[i] /\ revisions'[i][r] = revisions[i][r]
           /\ \A s \in Segments, t \in Triggers : \A n \in DOMAIN attempts[s][t] :
                LET old == attempts[s][t][n]
                    new == attempts'[s][t][n]
                IN  /\ n \in DOMAIN attempts'[s][t]
                    /\ new = [old EXCEPT !.state = new.state]
                    /\ old.state # "PLANNING" => new = old]_vars
    BY RecordsKept DEF RevisionsKept, AttemptsKept, AttemptKept
  <1> QED
    BY <1>1, TypeCorrect, PTL DEF Spec, RecordsDurable

(***************************************************************************)
(* The current tables and the revisions.                                   *)
(***************************************************************************)

\* Revisions are numbered without gaps and hold only their own segments.
RevisionsInOrder ==
  \A i \in Itineraries :
    /\ itineraries[i].revision = Len(revisions[i])
    /\ Known(i) <=> itineraries[i].revision > 0
    /\ \A r \in DOMAIN revisions[i] : \A s \in DOMAIN revisions[i][r] : ItineraryOf[s] = i

\* A row of a segment repeats a revision that had it: the current one as long as
\* it and its itinerary are present, and exactly the current one's are.
RowFromRevision(s, i) ==
  /\ segments[s].presence # "NONE" =>
       /\ segments[s].revision \in DOMAIN revisions[i]
       /\ s \in DOMAIN revisions[i][segments[s].revision]
       /\ revisions[i][segments[s].revision][s] = segments[s].facts
  /\ itineraries[i].presence = "PRESENT" =>
       /\ segments[s].presence = "PRESENT" <=> s \in DOMAIN revisions[i][itineraries[i].revision]
       /\ segments[s].presence = "PRESENT" => segments[s].revision = itineraries[i].revision
RowsFromRevisions == \A s \in Segments : RowFromRevision(s, ItineraryOf[s])

ProjectionInv == RevisionsInOrder /\ RowsFromRevisions

\* The listing, row by row.
LEMMA Listing ==
  /\ \A s : s \in DOMAIN CurrentSegments <=>
       /\ s \in Segments
       /\ segments[s].presence = "PRESENT"
       /\ itineraries[ItineraryOf[s]].presence = "PRESENT"
  /\ \A s \in DOMAIN CurrentSegments : CurrentSegments[s] = segments[s].facts
  BY DEF CurrentSegments

LEMMA ApplyOrders ==
  ASSUME RepositoryTypeOK, RevisionsInOrder, NEW b \in Batches, ApplySnapshot(b)
  PROVE  /\ RevisionsInOrder'
         /\ \A i \in Itineraries : \A r \in DOMAIN revisions[i] :
              r \in DOMAIN revisions'[i] /\ revisions'[i][r] = revisions[i][r]
         /\ \A i \in DOMAIN b :
              /\ i \in Itineraries
              /\ itineraries'[i].revision = RevisionAfter(b, i)
              /\ RevisionAfter(b, i) \in DOMAIN revisions'[i]
              /\ revisions'[i][RevisionAfter(b, i)] = b[i]
         /\ \A i \in Itineraries \ DOMAIN b : itineraries'[i].presence # "PRESENT"
  <1>1. \A i \in DOMAIN b : i \in Itineraries /\ b[i] \in Snapshot /\ \A s \in DOMAIN b[i] : ItineraryOf[s] = i
    BY BatchesAssumption
  <1>2. \A i \in Itineraries : /\ itineraries[i] \in ItineraryRow \cup {NoItinerary}
                               /\ revisions[i] \in Seq(Snapshot)
    BY DEF RepositoryTypeOK
  <1> DEFINE Good(i) ==
        /\ itineraries'[i].revision = Len(revisions'[i])
        /\ itineraries'[i].presence # "NONE" <=> itineraries'[i].revision > 0
        /\ \A r \in DOMAIN revisions'[i] : \A s \in DOMAIN revisions'[i][r] : ItineraryOf[s] = i
        /\ \A r \in DOMAIN revisions[i] : r \in DOMAIN revisions'[i] /\ revisions'[i][r] = revisions[i][r]
  <1>3. ASSUME NEW i \in DOMAIN b
        PROVE  /\ Good(i)
               /\ itineraries'[i].revision = RevisionAfter(b, i)
               /\ RevisionAfter(b, i) \in DOMAIN revisions'[i]
               /\ revisions'[i][RevisionAfter(b, i)] = b[i]
    <2>0. i \in Itineraries
      BY <1>1
    <2>1. itineraries'[i] = [revision |-> RevisionAfter(b, i), presence |-> "PRESENT"]
      BY <2>0 DEF ApplySnapshot, ItineraryAfter
    <2>2. /\ itineraries[i].revision = Len(revisions[i]) /\ Len(revisions[i]) \in Nat
          /\ Known(i) <=> itineraries[i].revision > 0
      BY <1>2, <2>0 DEF RevisionsInOrder
    <2>3. CASE Changed(b, i)
      <3>1. revisions'[i] = Append(revisions[i], b[i])
        BY <2>0, <2>3 DEF ApplySnapshot
      <3>2. RevisionAfter(b, i) = Len(revisions[i]) + 1
        BY <2>2, <2>3 DEF RevisionAfter
      <3>3. /\ Len(revisions'[i]) = Len(revisions[i]) + 1
            /\ \A r \in DOMAIN revisions[i] : r \in DOMAIN revisions'[i] /\ revisions'[i][r] = revisions[i][r]
            /\ revisions'[i][Len(revisions[i]) + 1] = b[i]
            /\ DOMAIN revisions'[i] = DOMAIN revisions[i] \cup {Len(revisions[i]) + 1}
        BY <1>2, <2>0, <3>1
      <3> QED
        BY <1>1, <2>0, <2>1, <2>2, <3>2, <3>3 DEF RevisionsInOrder
    <2>4. CASE ~Changed(b, i)
      <3>1. revisions'[i] = revisions[i] /\ RevisionAfter(b, i) = itineraries[i].revision
        BY <1>2, <2>0, <2>2, <2>4 DEF ApplySnapshot, RevisionAfter
      <3>2. Known(i) /\ revisions[i][itineraries[i].revision] = b[i]
        BY <2>4 DEF Changed
      <3>3. itineraries[i].revision \in DOMAIN revisions[i]
        BY <1>2, <2>0, <2>2, <3>2
      <3> QED
        BY <2>0, <2>1, <2>2, <3>1, <3>2, <3>3 DEF RevisionsInOrder
    <2> QED
      BY <2>3, <2>4
  <1>4. ASSUME NEW i \in Itineraries \ DOMAIN b
        PROVE  Good(i) /\ itineraries'[i].presence # "PRESENT"
    <2>1. /\ revisions'[i] = revisions[i]
          /\ itineraries'[i] = IF Known(i) THEN [itineraries[i] EXCEPT !.presence = "MISSING_FROM_SOURCE"]
                               ELSE NoItinerary
      BY DEF ApplySnapshot, ItineraryAfter
    <2>2. /\ itineraries[i].revision = Len(revisions[i]) /\ Len(revisions[i]) \in Nat
          /\ Known(i) <=> itineraries[i].revision > 0
          /\ ~Known(i) => itineraries[i] = NoItinerary
      BY <1>2 DEF RevisionsInOrder, Known, ItineraryRow, Presence
    <2>3. CASE Known(i)
      <3>1. /\ itineraries'[i].revision = itineraries[i].revision
            /\ itineraries'[i].presence = "MISSING_FROM_SOURCE"
        BY <1>2, <2>1, <2>3 DEF ItineraryRow, NoItinerary, Known
      <3> QED
        BY <2>1, <2>2, <2>3, <3>1 DEF RevisionsInOrder
    <2>4. CASE ~Known(i)
      BY <2>1, <2>2, <2>4 DEF RevisionsInOrder, NoItinerary
    <2> QED
      BY <2>3, <2>4
  <1>5. \A i \in Itineraries : Good(i)
    BY <1>3, <1>4
  <1>6. RevisionsInOrder'
    BY <1>5 DEF RevisionsInOrder, Known
  <1>7. \A i \in Itineraries : \A r \in DOMAIN revisions[i] :
          r \in DOMAIN revisions'[i] /\ revisions'[i][r] = revisions[i][r]
    BY <1>5
  <1> HIDE DEF Good
  <1> QED
    BY <1>1, <1>3, <1>4, <1>6, <1>7, Zenon

LEMMA ApplyProjects ==
  ASSUME RepositoryTypeOK, ProjectionInv, NEW b \in Batches, ApplySnapshot(b)
  PROVE  ProjectionInv'
  <1>1. RevisionsInOrder'
    BY ApplyOrders DEF ProjectionInv
  <1>2. /\ \A i \in Itineraries : \A r \in DOMAIN revisions[i] :
             r \in DOMAIN revisions'[i] /\ revisions'[i][r] = revisions[i][r]
        /\ \A i \in DOMAIN b :
             /\ i \in Itineraries
             /\ itineraries'[i].revision = RevisionAfter(b, i)
             /\ RevisionAfter(b, i) \in DOMAIN revisions'[i]
             /\ revisions'[i][RevisionAfter(b, i)] = b[i]
        /\ \A i \in Itineraries \ DOMAIN b : itineraries'[i].presence # "PRESENT"
    BY ApplyOrders DEF ProjectionInv
  <1>3. ASSUME NEW s \in Segments
        PROVE  RowFromRevision(s, ItineraryOf[s])'
    <2>i. PICK i \in Itineraries : i = ItineraryOf[s]
      BY ItineraryOfAssumption
    <2>0. i = ItineraryOf[s] /\ segments[s] \in SegmentRow \cup {NoRow}
      BY <2>i DEF RepositoryTypeOK
    <2>s. SUFFICES RowFromRevision(s, i)'
      BY <2>0
    <2>1. segments'[s] = SegmentAfter(b, s)
      BY DEF ApplySnapshot
    <2>2. CASE i \in DOMAIN b /\ s \in DOMAIN b[i]
      <3>1. segments'[s] = [facts |-> b[i][s], presence |-> "PRESENT", revision |-> RevisionAfter(b, i)]
        BY <2>0, <2>1, <2>2 DEF SegmentAfter
      <3>2. /\ itineraries'[i].revision = RevisionAfter(b, i)
            /\ RevisionAfter(b, i) \in DOMAIN revisions'[i]
            /\ revisions'[i][RevisionAfter(b, i)] = b[i]
        BY <1>2, <2>2
      <3> QED
        BY <2>2, <3>1, <3>2 DEF RowFromRevision
    <2>3. CASE ~(i \in DOMAIN b /\ s \in DOMAIN b[i])
      <3>1. segments'[s] = MarkMissing(segments[s])
        BY <2>0, <2>1, <2>3 DEF SegmentAfter
      <3>p. /\ itineraries'[i].presence = "PRESENT" => i \in DOMAIN b
            /\ i \in DOMAIN b => /\ itineraries'[i].revision = RevisionAfter(b, i)
                                 /\ revisions'[i][RevisionAfter(b, i)] = b[i]
        BY <1>2
      <3>2. CASE segments[s] = NoRow
        <4>1. segments'[s].presence = "NONE"
          BY <3>1, <3>2 DEF MarkMissing, NoRow
        <4> QED
          BY <2>3, <3>p, <4>1 DEF RowFromRevision
      <3>3. CASE segments[s] # NoRow
        <4>1. /\ segments'[s].presence = "MISSING_FROM_SOURCE"
              /\ segments'[s].revision = segments[s].revision
              /\ segments'[s].facts = segments[s].facts
              /\ segments[s].presence # "NONE"
          BY <2>0, <3>1, <3>3 DEF MarkMissing, SegmentRow, Presence
        <4>2. /\ segments[s].revision \in DOMAIN revisions[i]
              /\ s \in DOMAIN revisions[i][segments[s].revision]
              /\ revisions[i][segments[s].revision][s] = segments[s].facts
          BY <2>0, <4>1 DEF ProjectionInv, RowsFromRevisions, RowFromRevision
        <4>3. /\ segments[s].revision \in DOMAIN revisions'[i]
              /\ revisions'[i][segments[s].revision] = revisions[i][segments[s].revision]
          BY <1>2, <4>2
        <4> QED
          BY <2>3, <3>p, <4>1, <4>2, <4>3 DEF RowFromRevision
      <3> QED
        BY <3>2, <3>3
    <2> QED
      BY <2>2, <2>3
  <1> QED
    BY <1>1, <1>3 DEF ProjectionInv, RowsFromRevisions

LEMMA ProjectionStep == TypeOK /\ ProjectionInv /\ [Next]_vars => ProjectionInv'
  <1> SUFFICES ASSUME TypeOK, ProjectionInv, [Next]_vars PROVE ProjectionInv'
    OBVIOUS
  <1>1. ASSUME NEW c \in Callers, Apply(c) PROVE ProjectionInv'
    <2>1. batch[c] \in Batches /\ RepositoryTypeOK /\ ApplySnapshot(batch[c])
      BY <1>1 DEF Apply, TypeOK, ServiceTypeOK
    <2> QED
      BY <2>1, ApplyProjects
  <1>2. CASE UNCHANGED <<itineraries, revisions, segments>>
    BY <1>2 DEF ProjectionInv, RevisionsInOrder, RowsFromRevisions, RowFromRevision, Known
  <1> QED
    BY <1>1, <1>2, OnlyApplyRefreshes

LEMMA ProjectionInvariant == Spec => []ProjectionInv
  <1>1. Init => ProjectionInv
    <2> SUFFICES ASSUME Init PROVE ProjectionInv
      OBVIOUS
    <2>1. \A i \in Itineraries : itineraries[i] = NoItinerary /\ revisions[i] = <<>>
      BY DEF Init, RepositoryInit
    <2>2. \A s \in Segments : ItineraryOf[s] \in Itineraries /\ segments[s] = NoRow
      BY ItineraryOfAssumption DEF Init, RepositoryInit
    <2> QED
      BY <2>1, <2>2 DEF ProjectionInv, RevisionsInOrder, RowsFromRevisions, RowFromRevision, Known, NoItinerary, NoRow
  <1> QED
    BY <1>1, ProjectionStep, TypeCorrect, PTL DEF Spec

\* The current tables are a projection of the immutable revisions, through any
\* sequence of snapshots in which legs and itineraries leave and return.
THEOREM ProjectionHolds == Spec => []ProjectionMatchesRevision
  <1>1. ProjectionInv => ProjectionMatchesRevision
    <2> SUFFICES ASSUME ProjectionInv PROVE ProjectionMatchesRevision
      OBVIOUS
    <2>1. \A s \in Segments : ItineraryOf[s] \in Itineraries
      BY ItineraryOfAssumption
    <2> QED
      BY <2>1, Listing DEF ProjectionInv, RevisionsInOrder, RowsFromRevisions, RowFromRevision, ProjectionMatchesRevision
  <1> QED
    BY <1>1, ProjectionInvariant, PTL

(***************************************************************************)
(* The walk of a monitor over its listing.  Under the lock nobody else     *)
(* writes the tables, so what ListSegments read stays current and what was *)
(* taken off the list stays planned, or tried, until the walk ends.        *)
(***************************************************************************)

Walking(c) == mode[c] = "AUTOMATIC" /\ pc[c] \in {"dispatch", "start", "plan"}

ListedNow(s, facts) == s \in DOMAIN CurrentSegments /\ CurrentSegments[s] = facts

\* Planned, or tried at t and failed.
Settled(s, t) ==
  LET rows == attempts[s][ByLeadTime]
  IN  /\ rows # <<>>
      /\ \/ rows[Len(rows)].state = "COMPLETED"
         \/ rows[Len(rows)].state = "FAILED" /\ rows[Len(rows)].asOf = t

JobDue(c) ==
  pc[c] = "start" =>
    /\ ListedNow(job[c].segment, job[c].facts)
    /\ job[c].facts.status = "CONFIRMED"
    /\ job[c].facts.departure > asOf[c]
    /\ mode[c] = "AUTOMATIC" => Eligible(job[c].facts, asOf[c])

TodoListed(c) == \A s \in DOMAIN todo[c] : ListedNow(s, todo[c][s])

Accounted(c, s) ==
  \/ s \in DOMAIN todo[c]
  \/ pc[c] # "dispatch" /\ s = job[c].segment
  \/ Settled(s, asOf[c])

NothingSkipped(c) ==
  \A s \in DOMAIN CurrentSegments : Eligible(CurrentSegments[s], asOf[c]) => Accounted(c, s)

PlannedNow(c) ==
  pc[c] = "plan" =>
    LET rows == attempts[job[c].segment][ByLeadTime]
    IN  rows # <<>> /\ rows[Len(rows)].asOf = asOf[c]

Walk(c) ==
  /\ JobDue(c)
  /\ Walking(c) => TodoListed(c) /\ NothingSkipped(c) /\ PlannedNow(c)

WalkInv == \A c \in Callers : Walk(c)

\* Outside the walk, or with its locals and the tables as they were, a caller
\* keeps what is said of it.
LEMMA WalkElsewhere ==
  ASSUME WalkInv, UNCHANGED <<itineraries, segments, attempts>>,
         \A d \in Callers :
           \/ pc'[d] \notin {"dispatch", "start", "plan"}
           \/ /\ pc'[d] = pc[d] /\ mode'[d] = mode[d] /\ asOf'[d] = asOf[d]
              /\ todo'[d] = todo[d] /\ job'[d] = job[d]
  PROVE  WalkInv'
  <1>1. CurrentSegments' = CurrentSegments
    BY DEF CurrentSegments
  <1>2. \A s, t : Settled(s, t)' = Settled(s, t)
    BY DEF Settled
  <1>3. ASSUME NEW d \in Callers PROVE Walk(d)'
    <2>0. Walk(d)
      BY DEF WalkInv
    <2>1. CASE pc'[d] \notin {"dispatch", "start", "plan"}
      BY <2>1 DEF Walk, JobDue, Walking
    <2>2. CASE /\ pc'[d] = pc[d] /\ mode'[d] = mode[d] /\ asOf'[d] = asOf[d]
               /\ todo'[d] = todo[d] /\ job'[d] = job[d]
      <3>1. JobDue(d)'
        BY <1>1, <2>0, <2>2 DEF Walk, JobDue, ListedNow
      <3>2. Walking(d)' => TodoListed(d)'
        BY <1>1, <2>0, <2>2 DEF Walk, Walking, TodoListed, ListedNow
      <3>3. Walking(d)' => NothingSkipped(d)'
        <4>1. \A s : Accounted(d, s) => Accounted(d, s)'
          <5>1. ASSUME NEW s PROVE Settled(s, asOf[d]) => Settled(s, asOf[d])'
            BY <2>2 DEF Settled
          <5> QED
            BY <2>2, <5>1 DEF Accounted
        <4> QED
          BY <1>1, <2>0, <2>2, <4>1 DEF Walk, Walking, NothingSkipped
      <3>4. Walking(d)' => PlannedNow(d)'
        BY <2>0, <2>2 DEF Walk, Walking, PlannedNow
      <3> QED
        BY <3>1, <3>2, <3>3, <3>4 DEF Walk
    <2> QED
      BY <2>1, <2>2
  <1> QED
    BY <1>3 DEF WalkInv

\* A step inside the lock only has to restore what is said of its own caller.
LEMMA WalkHolder ==
  ASSUME LockHeld, NEW c \in Callers, pc[c] \in Locked,
         \A d \in Callers : d # c => pc'[d] = pc[d], Walk(c)'
  PROVE  WalkInv'
  <1>1. \A d \in Callers : d # c => pc'[d] \notin Locked
    BY DEF LockHeld
  <1>2. ASSUME NEW d \in Callers PROVE Walk(d)'
    <2>1. CASE d # c
      BY <1>1, <2>1 DEF Walk, JobDue, Walking, Locked
    <2> QED
      BY <2>1
  <1> QED
    BY <1>2 DEF WalkInv

LEMMA EligibleIsDue ==
  ASSUME NEW facts \in Facts, NEW t \in Times, Eligible(facts, t)
  PROVE  facts.status = "CONFIRMED" /\ facts.departure > t
  <1>1. /\ facts.status \in {"CONFIRMED", "CANCELLED"}
        /\ facts.departure \in Nat /\ t \in Nat
    BY TimesAssumption DEF Facts, BookingStatus
  <1>2. facts.status # "CANCELLED"
    BY DEF Eligible, Evaluate
  <1>3. ~(t >= facts.departure)
    BY <1>2 DEF Eligible, Evaluate
  <1> QED
    BY <1>1, <1>2, <1>3

LEMMA DispatchWalks ==
  ASSUME AutomaticInv, WalkInv, NEW c \in Callers, Dispatch(c)
  PROVE  Walk(c)'
  <1>0. RepositoryTypeOK /\ ServiceTypeOK
    BY DEF AutomaticInv, TypeOK
  <1>1. /\ pc[c] = "dispatch" /\ mode[c] = "AUTOMATIC"
        /\ UNCHANGED <<itineraries, segments, attempts, asOf, mode>>
    BY DEF Dispatch, AutomaticInv, ModeMatches
  <1>2. TodoListed(c) /\ NothingSkipped(c)
    BY <1>1 DEF WalkInv, Walk, Walking
  <1>3. PICK s \in Earliest(c) :
          /\ todo' = [todo EXCEPT ![c] = Without(@, s)]
          /\ \/ /\ Eligible(todo[c][s], asOf[c]) /\ CanStart(AutomaticState(s))
                /\ pc' = [pc EXCEPT ![c] = "start"]
                /\ job' = [job EXCEPT ![c] = [segment |-> s, facts |-> todo[c][s]]]
             \/ /\ ~(Eligible(todo[c][s], asOf[c]) /\ CanStart(AutomaticState(s)))
                /\ Eligible(todo[c][s], asOf[c]) /\ AutomaticState(s) = "PLANNING"
                /\ pc' = [pc EXCEPT ![c] = "unexpected"]
             \/ /\ ~(Eligible(todo[c][s], asOf[c]) /\ CanStart(AutomaticState(s)))
                /\ ~(Eligible(todo[c][s], asOf[c]) /\ AutomaticState(s) = "PLANNING")
                /\ pc' = [pc EXCEPT ![c] = "dispatch"]
    BY DEF Dispatch, Goto
  <1>4. /\ DOMAIN todo[c] \subseteq Segments /\ s \in DOMAIN todo[c]
        /\ \A x \in DOMAIN todo[c] : todo[c][x] \in Facts
        /\ asOf[c] \in Times
    BY <1>0, SnapshotElim DEF ServiceTypeOK, Earliest
  <1>5. /\ DOMAIN todo'[c] = DOMAIN todo[c] \ {s}
        /\ \A x \in DOMAIN todo'[c] : todo'[c][x] = todo[c][x]
    BY <1>0, <1>3 DEF ServiceTypeOK, Without
  <1>6. CurrentSegments' = CurrentSegments
    BY <1>1 DEF CurrentSegments
  <1>7. /\ pc'[c] \in {"start", "dispatch", "unexpected"}
        /\ pc'[c] = "start" => /\ Eligible(todo[c][s], asOf[c])
                               /\ job'[c] = [segment |-> s, facts |-> todo[c][s]]
        /\ pc'[c] = "dispatch" /\ Eligible(todo[c][s], asOf[c]) =>
             ~CanStart(AutomaticState(s)) /\ AutomaticState(s) # "PLANNING"
    BY <1>0, <1>3 DEF ServiceTypeOK
  <1>8. s \in DOMAIN CurrentSegments /\ CurrentSegments[s] = todo[c][s]
    BY <1>2, <1>4 DEF TodoListed, ListedNow
  <1>9. JobDue(c)'
    <2> SUFFICES ASSUME pc'[c] = "start" PROVE JobDue(c)'
      BY DEF JobDue
    <2>1. /\ Eligible(todo[c][s], asOf[c])
          /\ job'[c].segment = s /\ job'[c].facts = todo[c][s]
      BY <1>7
    <2>2. todo[c][s].status = "CONFIRMED" /\ todo[c][s].departure > asOf[c]
      BY <1>4, <2>1, EligibleIsDue
    <2>3. ListedNow(job[c].segment, job[c].facts)'
      BY <1>6, <1>8, <2>1 DEF ListedNow
    <2>4. Eligible(job[c].facts, asOf[c])'
      BY <1>1, <2>1 DEF Eligible, Evaluate
    <2> QED
      BY <1>1, <2>1, <2>2, <2>3, <2>4 DEF JobDue
  <1>10. TodoListed(c)'
    BY <1>2, <1>5, <1>6 DEF TodoListed, ListedNow
  <1>11. ASSUME pc'[c] # "unexpected" PROVE NothingSkipped(c)'
    <2>1. ASSUME NEW x \in DOMAIN CurrentSegments, Eligible(CurrentSegments[x], asOf[c])
          PROVE  Accounted(c, x)'
      <3>1. x \in DOMAIN todo[c] \/ Settled(x, asOf[c])
        BY <1>1, <1>2, <2>1 DEF NothingSkipped, Accounted
      <3>2. CASE Settled(x, asOf[c])
        <4>1. Settled(x, asOf[c])'
          BY <1>1, <3>2 DEF Settled
        <4> QED
          BY <4>1 DEF Accounted
      <3>3. CASE x \in DOMAIN todo[c] /\ x # s
        BY <1>5, <3>3 DEF Accounted
      <3>4. CASE x = s /\ pc'[c] = "start"
        BY <1>7, <3>4 DEF Accounted
      <3>5. CASE x = s /\ pc'[c] = "dispatch"
        <4>1. AutomaticState(s) = "COMPLETED"
          BY <1>0, <1>4, <1>7, <1>8, <2>1, <3>5
             DEF RepositoryTypeOK, CanStart, AutomaticState, ExecutionState
        <4>2. AutomaticHistory(s)
          BY <1>4 DEF AutomaticInv, AutomaticStateMatchesHistory
        <4>3. attempts[s][ByLeadTime] \in Seq(Attempt)
          BY <1>0, <1>4 DEF RepositoryTypeOK, Triggers, ByLeadTime
        <4>4. Settled(s, asOf[c])
          BY <4>1, <4>2, <4>3 DEF AutomaticHistory, AutomaticState, Settled
        <4>5. Settled(s, asOf[c])'
          BY <1>1, <4>4 DEF Settled
        <4> QED
          BY <3>5, <4>5 DEF Accounted
      <3> QED
        BY <1>7, <1>11, <3>1, <3>2, <3>3, <3>4, <3>5
    <2>2. \A x : Eligible(CurrentSegments[x], asOf[c])' => Eligible(CurrentSegments[x], asOf[c])
      BY <1>1, <1>6 DEF Eligible, Evaluate
    <2> QED
      BY <1>6, <2>1, <2>2 DEF NothingSkipped
  <1>12. PlannedNow(c)'
    BY <1>7 DEF PlannedNow
  <1> QED
    BY <1>9, <1>10, <1>11, <1>12 DEF Walk, Walking

LEMMA ListWalks ==
  ASSUME AutomaticInv, NEW c \in Callers, ListSegments(c)
  PROVE  Walk(c)'
  <1>1. /\ todo'[c] = CurrentSegments /\ pc'[c] = "dispatch"
        /\ UNCHANGED <<itineraries, segments, asOf>>
    BY DEF ListSegments, Goto, repositoryVars, AutomaticInv, TypeOK, ServiceTypeOK
  <1>2. CurrentSegments' = CurrentSegments
    BY <1>1 DEF CurrentSegments
  <1> QED
    BY <1>1, <1>2 DEF Walk, JobDue, TodoListed, ListedNow, NothingSkipped, Accounted, PlannedNow

LEMMA ResolveWalks ==
  ASSUME AutomaticInv, NEW c \in Callers, Resolve(c)
  PROVE  Walk(c)'
  <1>0. ServiceTypeOK /\ pc[c] = "resolve" /\ mode[c] = "USER_INITIATED"
    BY DEF AutomaticInv, TypeOK, Resolve, ModeMatches
  <1>1. CASE Leave(c)
    BY <1>0, <1>1 DEF Leave, ServiceTypeOK, Walk, JobDue, Walking
  <1>2. CASE /\ Goto(c, "start") /\ UNCHANGED mode
             /\ \E s \in DOMAIN UpcomingSegments(asOf[c]) :
                  job' = [job EXCEPT ![c] = [segment |-> s, facts |-> UpcomingSegments(asOf[c])[s]]]
    <2>1. PICK s \in DOMAIN UpcomingSegments(asOf[c]) :
            job' = [job EXCEPT ![c] = [segment |-> s, facts |-> UpcomingSegments(asOf[c])[s]]]
      BY <1>2
    <2>2. /\ s \in DOMAIN CurrentSegments
          /\ UpcomingSegments(asOf[c])[s] = CurrentSegments[s]
          /\ CurrentSegments[s].status = "CONFIRMED"
          /\ CurrentSegments[s].departure > asOf[c]
      BY <2>1 DEF UpcomingSegments
    <2>3. UNCHANGED <<itineraries, segments, asOf>>
      BY DEF Resolve, repositoryVars
    <2>4. CurrentSegments' = CurrentSegments
      BY <2>3 DEF CurrentSegments
    <2>5. job'[c].segment = s /\ job'[c].facts = CurrentSegments[s]
      BY <1>0, <2>1, <2>2 DEF ServiceTypeOK
    <2>6. mode'[c] = "USER_INITIATED"
      BY <1>0, <1>2
    <2>7. JobDue(c)'
      BY <2>2, <2>3, <2>4, <2>5, <2>6 DEF JobDue, ListedNow
    <2> QED
      BY <2>6, <2>7 DEF Walk, Walking
  <1> QED
    BY <1>1, <1>2 DEF Resolve

LEMMA StartWalks ==
  ASSUME AutomaticInv, WalkInv, NEW c \in Callers, Start(c)
  PROVE  Walk(c)'
  <1>0. RepositoryTypeOK /\ ServiceTypeOK /\ pc[c] = "start"
    BY DEF AutomaticInv, TypeOK, Start
  <1>1. CASE Goto(c, "unexpected")
    BY <1>0, <1>1 DEF Goto, ServiceTypeOK, Walk, JobDue, Walking
  <1>2. CASE mode[c] # "AUTOMATIC" /\ Goto(c, "plan")
    <2>1. mode'[c] # "AUTOMATIC" /\ pc'[c] = "plan"
      BY <1>0, <1>2 DEF Start, Goto, ServiceTypeOK
    <2> QED
      BY <2>1 DEF Walk, JobDue, Walking
  <1>3. CASE /\ mode[c] = "AUTOMATIC" /\ Goto(c, "plan")
             /\ StartAttempt(job[c].segment, TriggerOf(mode[c]), job[c].facts, asOf[c])
    <2>1. PICK s \in Segments, f \in Facts, at \in Times :
            s = job[c].segment /\ f = job[c].facts /\ at = asOf[c]
      BY <1>0 DEF ServiceTypeOK, Job
    <2>2. StartAttempt(s, ByLeadTime, f, at) /\ ByLeadTime \in Triggers
      BY <1>3, <2>1 DEF TriggerOf, Triggers, ByLeadTime
    <2>3. /\ attempts[s][ByLeadTime] \in Seq(Attempt)
          /\ attempts'[s][ByLeadTime] = Append(attempts[s][ByLeadTime],
               [state |-> "PLANNING", revision |-> segments[s].revision, asOf |-> at, facts |-> f])
          /\ \A x \in Segments : x # s => attempts'[x][ByLeadTime] = attempts[x][ByLeadTime]
      BY <1>0, <2>2, StartAppends
    <2>4. /\ UNCHANGED <<itineraries, segments, asOf, todo, job, mode>>
          /\ pc'[c] = "plan"
      BY <1>0, <1>3, <2>2 DEF Start, StartAttempt, Goto, ServiceTypeOK
    <2>5. CurrentSegments' = CurrentSegments /\ DOMAIN CurrentSegments \subseteq Segments
      BY <2>4, Listing DEF CurrentSegments
    <2>6. TodoListed(c) /\ NothingSkipped(c)
      BY <1>0, <1>3 DEF WalkInv, Walk, Walking
    <2>7. JobDue(c)' /\ TodoListed(c)'
      BY <2>4, <2>5, <2>6 DEF JobDue, TodoListed, ListedNow
    <2>8. PlannedNow(c)'
      <3>1. LET rows == attempts'[s][ByLeadTime]
            IN  rows # <<>> /\ rows[Len(rows)].asOf = at
        BY <2>3
      <3> QED
        BY <2>1, <2>4, <3>1 DEF PlannedNow
    <2>9. NothingSkipped(c)'
      <3>1. ASSUME NEW x \in DOMAIN CurrentSegments, Accounted(c, x) PROVE Accounted(c, x)'
        <4>1. CASE x = s
          BY <2>1, <2>4, <4>1 DEF Accounted
        <4>2. CASE x # s
          <5>1. Settled(x, asOf[c]) => Settled(x, asOf[c])'
            BY <2>3, <2>4, <2>5, <4>2 DEF Settled
          <5> QED
            BY <2>1, <2>4, <3>1, <4>2, <5>1 DEF Accounted
        <4> QED
          BY <4>1, <4>2
      <3>2. \A x : Eligible(CurrentSegments[x], asOf[c])' => Eligible(CurrentSegments[x], asOf[c])
        BY <2>4, <2>5 DEF Eligible, Evaluate
      <3> QED
        BY <2>5, <2>6, <3>1, <3>2 DEF NothingSkipped
    <2> QED
      BY <2>7, <2>8, <2>9 DEF Walk
  <1> QED
    BY <1>1, <1>2, <1>3 DEF Start

LEMMA FinishWalks ==
  ASSUME AutomaticInv, WalkInv, NEW c \in Callers, Finish(c)
  PROVE  Walk(c)'
  <1>0. RepositoryTypeOK /\ ServiceTypeOK /\ pc[c] = "plan"
    BY DEF AutomaticInv, TypeOK, Finish
  <1>1. CASE Leave(c)
    BY <1>0, <1>1 DEF Leave, ServiceTypeOK, Walk, JobDue, Walking
  <1>2. CASE mode[c] = "AUTOMATIC" /\ Goto(c, "dispatch") /\ UNCHANGED <<mode, todo>>
    <2>1. PICK s \in Segments : s = job[c].segment
      BY <1>0 DEF ServiceTypeOK, Job
    <2>2. attempts[s][ByLeadTime] \in Seq(Attempt) /\ ByLeadTime \in Triggers
      BY <1>0 DEF RepositoryTypeOK, Triggers, ByLeadTime
    <2>3. PICK n \in Nat, outcome \in {"COMPLETED", "FAILED"} :
            n = Len(attempts[s][ByLeadTime]) /\ FinishAttempt(s, ByLeadTime, n, outcome)
      BY <1>2, <2>1, <2>2 DEF Finish, TriggerOf
    <2>4. TodoListed(c) /\ NothingSkipped(c) /\ PlannedNow(c)
      BY <1>0, <1>2 DEF WalkInv, Walk, Walking
    <2>5. /\ attempts'[s][ByLeadTime] \in Seq(Attempt)
          /\ Len(attempts'[s][ByLeadTime]) = Len(attempts[s][ByLeadTime])
          /\ \A x \in Segments : x # s => attempts'[x][ByLeadTime] = attempts[x][ByLeadTime]
          /\ \A k \in DOMAIN attempts[s][ByLeadTime] :
               k = n => attempts'[s][ByLeadTime][k] = SettledRow(attempts[s][ByLeadTime][k], outcome)
      BY <2>2, <2>3, <1>0, FinishSettles
    <2>6. n \in DOMAIN attempts[s][ByLeadTime] /\ attempts[s][ByLeadTime][n] \in Attempt
          /\ attempts[s][ByLeadTime][n].asOf = asOf[c]
      BY <1>0, <2>1, <2>2, <2>3, <2>4 DEF PlannedNow
    <2>7. /\ attempts'[s][ByLeadTime][n].state = outcome
          /\ attempts'[s][ByLeadTime][n].asOf = asOf[c]
      BY <2>5, <2>6 DEF SettledRow, Attempt
    <2>8. /\ UNCHANGED <<itineraries, segments, asOf, todo, mode>>
          /\ pc'[c] = "dispatch"
      BY <1>0, <1>2, <2>3 DEF Finish, FinishAttempt, Goto, ServiceTypeOK
    <2>9. Settled(s, asOf[c])'
      BY <2>2, <2>3, <2>5, <2>6, <2>7, <2>8 DEF Settled
    <2>10. CurrentSegments' = CurrentSegments /\ DOMAIN CurrentSegments \subseteq Segments
      BY <2>8, Listing DEF CurrentSegments
    <2>11. JobDue(c)' /\ TodoListed(c)' /\ PlannedNow(c)'
      BY <2>4, <2>8, <2>10 DEF JobDue, TodoListed, ListedNow, PlannedNow
    <2>12. NothingSkipped(c)'
      <3>1. ASSUME NEW x \in DOMAIN CurrentSegments, Accounted(c, x) PROVE Accounted(c, x)'
        <4>1. CASE x = s
          BY <2>9, <4>1 DEF Accounted
        <4>2. CASE x # s
          <5>1. Settled(x, asOf[c]) => Settled(x, asOf[c])'
            BY <2>5, <2>8, <2>10, <4>2 DEF Settled
          <5> QED
            BY <2>1, <2>8, <3>1, <4>2, <5>1 DEF Accounted
        <4> QED
          BY <4>1, <4>2
      <3>2. \A x : Eligible(CurrentSegments[x], asOf[c])' => Eligible(CurrentSegments[x], asOf[c])
        BY <2>8, <2>10 DEF Eligible, Evaluate
      <3> QED
        BY <2>4, <2>10, <3>1, <3>2 DEF NothingSkipped
    <2> QED
      BY <2>11, <2>12 DEF Walk
  <1> QED
    BY <1>1, <1>2 DEF Finish

LEMMA WalkStep == AutomaticInv /\ WalkInv /\ [Next]_vars => WalkInv'
  <1> SUFFICES ASSUME AutomaticInv, WalkInv, [Next]_vars PROVE WalkInv'
    OBVIOUS
  <1>0. ServiceTypeOK /\ LockHeld
    BY DEF AutomaticInv, TypeOK
  \* Steps that leave the tables and take their caller nowhere near the walk.
  <1>1. ASSUME NEW c \in Callers, \/ \E m \in Modes : Invoke(c, m)
                                 \/ EnterLock(c) \/ RecoverDone(c) \/ Refresh(c)
        PROVE  WalkInv'
    <2>1. /\ UNCHANGED <<itineraries, segments, attempts>>
          /\ pc'[c] \notin {"dispatch", "start", "plan"}
          /\ \A d \in Callers : d # c =>
               /\ pc'[d] = pc[d] /\ mode'[d] = mode[d] /\ asOf'[d] = asOf[d]
               /\ todo'[d] = todo[d] /\ job'[d] = job[d]
      BY <1>0, <1>1 DEF Invoke, EnterLock, RecoverDone, Refresh, Goto, repositoryVars, ServiceTypeOK
    <2> QED
      BY <2>1, WalkElsewhere
  <1>2. ASSUME NEW c \in Callers, Busy(c) \/ RefreshBlocked(c) \/ MonitorDone(c) \/ Abort(c)
        PROVE  WalkInv'
    <2>1. /\ UNCHANGED <<itineraries, segments, attempts, asOf>> /\ Leave(c)
      BY <1>2 DEF Busy, RefreshBlocked, MonitorDone, Abort, repositoryVars
    <2>2. /\ pc'[c] \notin {"dispatch", "start", "plan"}
          /\ \A d \in Callers : d # c =>
               /\ pc'[d] = pc[d] /\ mode'[d] = mode[d] /\ asOf'[d] = asOf[d]
               /\ todo'[d] = todo[d] /\ job'[d] = job[d]
      BY <1>0, <2>1 DEF Leave, ServiceTypeOK
    <2> QED
      BY <2>1, <2>2, WalkElsewhere
  <1>3. CASE Tick \/ UNCHANGED vars
    BY <1>3, WalkElsewhere DEF Tick, vars, serviceVars, repositoryVars, localVars
  \* Steps inside the lock.
  <1>4. ASSUME NEW c \in Callers, RecoverOne(c) \/ Apply(c) PROVE WalkInv'
    <2>1. /\ pc[c] \in Locked /\ pc'[c] \notin {"dispatch", "start", "plan"}
          /\ \A d \in Callers : d # c => pc'[d] = pc[d]
      BY <1>0, <1>4 DEF RecoverOne, Apply, Goto, ServiceTypeOK, serviceVars, localVars, Locked
    <2>2. Walk(c)'
      BY <2>1 DEF Walk, JobDue, Walking
    <2> QED
      BY <1>0, <2>1, <2>2, WalkHolder
  <1>5. ASSUME NEW c \in Callers,
               ListSegments(c) \/ Dispatch(c) \/ Resolve(c) \/ Start(c) \/ Finish(c)
        PROVE  WalkInv'
    <2>1. pc[c] \in Locked /\ \A d \in Callers : d # c => pc'[d] = pc[d]
      BY <1>0, <1>5 DEF ListSegments, Dispatch, Resolve, Start, Finish, Leave, Goto, ServiceTypeOK, Locked
    <2>2. Walk(c)'
      BY <1>5, ListWalks, DispatchWalks, ResolveWalks, StartWalks, FinishWalks
    <2> QED
      BY <1>0, <2>1, <2>2, WalkHolder
  <1> QED
    BY <1>1, <1>2, <1>3, <1>4, <1>5 DEF Next, Step

LEMMA WalkInvariant == Spec => []WalkInv
  <1>1. Init => WalkInv
    BY DEF Init, WalkInv, Walk, JobDue, Walking
  <1> QED
    BY <1>1, WalkStep, AutomaticInvariant, PTL DEF Spec

\* A monitor that reaches the end of its loop has planned, or tried at its own
\* clock, every listed segment inside the planning window: what it walks is the
\* listing as it stands, whoever else invokes the service or dies meanwhile.
THEOREM MonitorIsThorough == Spec => []MonitorLeavesNothingPending
  <1>1. AutomaticInv /\ WalkInv => MonitorLeavesNothingPending
    BY DEF AutomaticInv, ModeMatches, WalkInv, Walk, Walking, NothingSkipped, Accounted,
           Settled, MonitorLeavesNothingPending
  <1> QED
    BY <1>1, AutomaticInvariant, WalkInvariant, PTL

(***************************************************************************)
(* What an attempt was made for.                                           *)
(***************************************************************************)

Justified(s, t, a) ==
  LET history == revisions[ItineraryOf[s]]
  IN  /\ a.revision \in DOMAIN history
      /\ s \in DOMAIN history[a.revision]
      /\ history[a.revision][s] = a.facts
      /\ a.facts.status = "CONFIRMED"
      /\ a.facts.departure > a.asOf
      /\ t = ByLeadTime => Eligible(a.facts, a.asOf)

\* A row whose decision is kept stays justified: revisions are only appended.
LEMMA JustifiedKept ==
  ASSUME RevisionsKept, NEW s \in Segments, NEW t, NEW a, NEW b, Justified(s, t, a),
         b.revision = a.revision, b.facts = a.facts, b.asOf = a.asOf
  PROVE  Justified(s, t, b)'
  <1>1. ItineraryOf[s] \in Itineraries
    BY ItineraryOfAssumption
  <1>2. Eligible(a.facts, a.asOf) => Eligible(b.facts, b.asOf)
    BY DEF Eligible, Evaluate
  <1> QED
    BY <1>1, <1>2 DEF Justified, RevisionsKept, Eligible, Evaluate

LEMMA JustifiedStep ==
  ASSUME AutomaticInv, WalkInv, ProjectionInv, AttemptsJustified, [Next]_vars
  PROVE  AttemptsJustified'
  <1>0. TypeOK /\ RepositoryTypeOK /\ ServiceTypeOK
    BY DEF AutomaticInv, TypeOK
  <1>1. RevisionsKept /\ AttemptsKept
    BY <1>0, RecordsKept
  <1>2. \A s \in Segments, t \in Triggers : \A n \in DOMAIN attempts[s][t] :
          Justified(s, t, attempts[s][t][n])
    BY DEF AttemptsJustified, Justified
  <1>3. ASSUME NEW s \in Segments, NEW t \in Triggers, NEW n \in DOMAIN attempts[s][t]
        PROVE  Justified(s, t, attempts[s][t][n])'
    <2>1. PICK a \in Attempt : a = attempts[s][t][n]
      BY <1>0 DEF RepositoryTypeOK
    <2>2. PICK b : b = attempts'[s][t][n]
      OBVIOUS
    <2>3. AttemptKept(s, t, n)
      BY <1>1 DEF AttemptsKept
    <2>4. b = SettledRow(a, b.state)
      BY <2>1, <2>2, <2>3 DEF AttemptKept, SettledRow
    <2>5. b.revision = a.revision /\ b.facts = a.facts /\ b.asOf = a.asOf
      BY <2>4 DEF SettledRow, Attempt
    <2>6. Justified(s, t, a)
      BY <1>2, <2>1
    <2>7. Justified(s, t, b)'
      BY <1>1, <2>5, <2>6, JustifiedKept
    <2> QED
      BY <2>2, <2>7 DEF Justified
  <1>4. ASSUME NEW s \in Segments, NEW t \in Triggers, NEW n \in DOMAIN attempts'[s][t]
        PROVE  Justified(s, t, attempts[s][t][n])'
    <2>1. CASE n \in DOMAIN attempts[s][t]
      BY <1>3, <2>1
    <2>2. CASE n \notin DOMAIN attempts[s][t]
      <3>1. attempts' # attempts
        BY <2>2
      <3>2. CASE \E x \in Segments, u \in Triggers, k \in Nat, outcome \in {"COMPLETED", "FAILED"} :
                   FinishAttempt(x, u, k, outcome)
        <4>1. DOMAIN attempts'[s][t] = DOMAIN attempts[s][t]
          BY <1>0, <3>2, FinishSettles
        <4> QED
          BY <2>2, <4>1
      <3>3. CASE \E c \in Callers, x \in Segments, u \in Triggers, f \in Facts, at \in Times :
                   /\ StartAttempt(x, u, f, at)
                   /\ pc[c] = "start" /\ x = job[c].segment /\ f = job[c].facts
                   /\ u = TriggerOf(mode[c]) /\ at = asOf[c]
        <4>1. PICK c \in Callers, x \in Segments, u \in Triggers, f \in Facts, at \in Times :
                   /\ StartAttempt(x, u, f, at)
                   /\ pc[c] = "start" /\ x = job[c].segment /\ f = job[c].facts
                   /\ u = TriggerOf(mode[c]) /\ at = asOf[c]
          BY <3>3
        <4> DEFINE row == [state |-> "PLANNING", revision |-> segments[x].revision,
                           asOf |-> at, facts |-> f]
        <4>2. /\ attempts[x][u] \in Seq(Attempt)
              /\ DOMAIN attempts'[x][u] = 1..(Len(attempts[x][u]) + 1)
              /\ attempts'[x][u][Len(attempts[x][u]) + 1] = row
              /\ \A y \in Segments, v \in Triggers : y # x \/ v # u => attempts'[y][v] = attempts[y][v]
          BY <1>0, <4>1, StartAppends
        <4>3. s = x /\ t = u
          BY <2>2, <4>2
        <4>4. n = Len(attempts[x][u]) + 1
          BY <2>2, <4>2, <4>3
        <4>5. attempts'[s][t][n] = row
          BY <4>2, <4>3, <4>4
        <4>6. /\ ListedNow(x, f) /\ f.status = "CONFIRMED" /\ f.departure > at
              /\ mode[c] = "AUTOMATIC" => Eligible(f, at)
          BY <4>1 DEF WalkInv, Walk, JobDue
        <4>7. segments[x].presence = "PRESENT" /\ segments[x].facts = f
          BY <4>6, Listing DEF ListedNow
        <4>8. /\ segments[x].revision \in DOMAIN revisions[ItineraryOf[x]]
              /\ x \in DOMAIN revisions[ItineraryOf[x]][segments[x].revision]
              /\ revisions[ItineraryOf[x]][segments[x].revision][x] = f
          BY <4>7 DEF ProjectionInv, RowsFromRevisions, RowFromRevision
        <4>9. t = ByLeadTime => mode[c] = "AUTOMATIC"
          BY <1>0, <4>1, <4>3 DEF TriggerOf, ByLeadTime, Modes, ServiceTypeOK
        <4>10. Justified(x, t, row)
          BY <4>6, <4>8, <4>9 DEF Justified
        <4>11. PICK b : b = row
          OBVIOUS
        <4>12. Justified(s, t, b)
          BY <4>3, <4>10, <4>11
        <4>13. Justified(s, t, b)'
          BY <1>1, <4>12, JustifiedKept
        <4> QED
          BY <4>5, <4>11, <4>13 DEF Justified
      <3> QED
        BY <1>0, <3>1, <3>2, <3>3, AttemptsChange
    <2> QED
      BY <2>1, <2>2
  <1> QED
    BY <1>4 DEF AttemptsJustified, Justified

\* Every attempt was made for a booking exactly as some revision of its itinerary
\* records it, still confirmed, ahead of the decision time and, when automatic,
\* inside the planning window.
THEOREM AttemptsAreJustified == Spec => []AttemptsJustified
  <1>1. Init => AttemptsJustified
    BY DEF Init, RepositoryInit, AttemptsJustified
  <1>2. AutomaticInv /\ WalkInv /\ ProjectionInv /\ AttemptsJustified /\ [Next]_vars
          => AttemptsJustified'
    BY JustifiedStep
  <1> QED
    BY <1>1, <1>2, AutomaticInvariant, WalkInvariant, ProjectionInvariant, PTL DEF Spec

(***************************************************************************)
(* Every invocation is short, whatever the others do.  That it returns, as *)
(* InvocationTerminates says, needs in addition only that a process that   *)
(* can take a step takes one.                                              *)
(***************************************************************************)

SegmentCount == Cardinality(Segments)

\* The segments that recovery has still to settle.
Unsettled == {s \in Segments : Interrupted(s) # {}}

\* How many steps remain at a place, with so many segments listed or unsettled.
StepsFrom(place, listed, unsettled) ==
  CASE place = "lock"                -> 8 + 4 * SegmentCount
    [] place = "recover"             -> 7 + 3 * SegmentCount + unsettled
    [] place = "fetch"               -> 6 + 3 * SegmentCount
    [] place = "apply"               -> 5 + 3 * SegmentCount
    [] place \in {"list", "resolve"} -> 4 + 3 * SegmentCount
    [] place = "start"               -> 3 + 3 * listed
    [] place = "plan"                -> 2 + 3 * listed
    [] place = "dispatch"            -> 1 + 3 * listed
    [] OTHER                         -> 0

StepsLeft(c) == StepsFrom(pc[c], Cardinality(DOMAIN todo[c]), Cardinality(Unsettled))

\* An invocation makes at most 8 + 4 n steps of its own, for n segments: each step
\* leaves fewer, and nothing that another process does, nor a death, adds one.
InvocationsAreShort ==
  [][\A c \in Callers :
       /\ StepsLeft(c) \in 0..(8 + 4 * SegmentCount)
       /\ Step(c) => StepsLeft(c)' < StepsLeft(c)
       /\ pc[c] # "idle" => StepsLeft(c)' <= StepsLeft(c)]_vars

\* No place is without a way on: no branch that raises is reached, the loop over a
\* nonempty list finds an earliest segment, and whoever plans finds its attempt as
\* it was started.
NothingBlocks ==
  \A c \in Callers :
    /\ pc[c] # "unexpected"
    /\ pc[c] = "dispatch" => todo[c] = NoSegments \/ Earliest(c) # {}
    /\ pc[c] = "plan" =>
         LET rows == attempts[job[c].segment][TriggerOf(mode[c])]
         IN  rows # <<>> /\ rows[Len(rows)].state = "PLANNING"

LEMMA Counts ==
  /\ SegmentCount \in Nat
  /\ \A S \in SUBSET Segments : Cardinality(S) \in 0..SegmentCount
  /\ \A S \in SUBSET Segments : \A s \in S : Cardinality(S \ {s}) = Cardinality(S) - 1
  <1>1. SegmentCount \in Nat
    BY SegmentsAssumption, FS_CardinalityType DEF SegmentCount
  <1>2. ASSUME NEW S \in SUBSET Segments PROVE IsFiniteSet(S) /\ Cardinality(S) \in 0..SegmentCount
    <2>1. IsFiniteSet(S) /\ Cardinality(S) <= SegmentCount
      BY SegmentsAssumption, FS_Subset DEF SegmentCount
    <2>2. Cardinality(S) \in Nat
      BY <2>1, FS_CardinalityType
    <2> QED
      BY <1>1, <2>1, <2>2
  <1>3. ASSUME NEW S \in SUBSET Segments, NEW s \in S PROVE Cardinality(S \ {s}) = Cardinality(S) - 1
    BY <1>2, FS_RemoveElement
  <1> QED
    BY <1>1, <1>2, <1>3

\* The fewer steps, the later the place.
LEMMA StepsByPlace ==
  ASSUME NEW place, NEW listed \in 0..SegmentCount, NEW unsettled \in 0..SegmentCount
  PROVE  /\ StepsFrom(place, listed, unsettled) \in 0..(8 + 4 * SegmentCount)
         /\ place = "lock" => StepsFrom(place, listed, unsettled) = 8 + 4 * SegmentCount
         /\ place = "recover" => StepsFrom(place, listed, unsettled) = 7 + 3 * SegmentCount + unsettled
         /\ place = "fetch" => StepsFrom(place, listed, unsettled) = 6 + 3 * SegmentCount
         /\ place = "apply" => StepsFrom(place, listed, unsettled) = 5 + 3 * SegmentCount
         /\ place \in {"list", "resolve"} => StepsFrom(place, listed, unsettled) = 4 + 3 * SegmentCount
         /\ place = "start" => StepsFrom(place, listed, unsettled) = 3 + 3 * listed
         /\ place = "plan" => StepsFrom(place, listed, unsettled) = 2 + 3 * listed
         /\ place = "dispatch" => StepsFrom(place, listed, unsettled) = 1 + 3 * listed
         /\ place \in {"idle", "unexpected"} => StepsFrom(place, listed, unsettled) = 0
  <1>1. SegmentCount \in Nat
    BY Counts
  <1> QED
    BY <1>1 DEF StepsFrom

\* What is listed and what is unsettled are segments, and no more than there are.
WithinSegments ==
  /\ Cardinality(Unsettled) \in 0..SegmentCount
  /\ \A c \in Callers : DOMAIN todo[c] \subseteq Segments /\ Cardinality(DOMAIN todo[c]) \in 0..SegmentCount

LEMMA StepCounts == TypeOK => WithinSegments
  <1> SUFFICES ASSUME TypeOK PROVE WithinSegments
    OBVIOUS
  <1>1. \A c \in Callers : DOMAIN todo[c] \subseteq Segments
    BY SnapshotElim DEF TypeOK, ServiceTypeOK
  <1>2. Unsettled \subseteq Segments
    BY DEF Unsettled
  <1> QED
    BY <1>1, <1>2, Counts DEF WithinSegments

\* One transaction of recovery settles one segment.
LEMMA RecoverSettles ==
  ASSUME AutomaticInv, NEW c \in Callers, RecoverOne(c)
  PROVE  Cardinality(Unsettled)' = Cardinality(Unsettled) - 1
  <1>0. RepositoryTypeOK /\ AutomaticStateMatchesHistory /\ ByLeadTime \in Triggers
    BY DEF AutomaticInv, TypeOK, Triggers, ByLeadTime
  <1>1. PICK s \in Segments : \E n \in Interrupted(s) : FinishAttempt(s, ByLeadTime, n, "FAILED")
    BY DEF RecoverOne
  <1>2. PICK n \in Interrupted(s) : FinishAttempt(s, ByLeadTime, n, "FAILED")
    BY <1>1
  <1>3. attempts[s][ByLeadTime] \in Seq(Attempt)
    BY <1>0 DEF RepositoryTypeOK
  <1>4. n \in DOMAIN attempts[s][ByLeadTime] /\ n \in Nat
    BY <1>2, <1>3 DEF Interrupted, Running
  <1>5. /\ Running(s, ByLeadTime)' = {}
        /\ \A x \in Segments : x # s => Running(x, ByLeadTime)' = Running(x, ByLeadTime)
    BY <1>0, <1>2, <1>4, HistoryFinish
  <1>6. Unsettled' = Unsettled \ {s} /\ s \in Unsettled
    BY <1>2, <1>5 DEF Unsettled, Interrupted
  <1>7. Unsettled \in SUBSET Segments
    BY DEF Unsettled
  <1> QED
    BY <1>6, <1>7, Counts

\* A step of the invocation itself.
LEMMA OwnStep ==
  ASSUME AutomaticInv, TypeOK', NEW c \in Callers, pc'[c] # "unexpected", Step(c)
  PROVE  StepsLeft(c)' < StepsLeft(c)
  <1> DEFINE listed == Cardinality(DOMAIN todo[c])
             unsettled == Cardinality(Unsettled)
             N == SegmentCount
             from == StepsFrom(pc[c], listed, unsettled)
             to == StepsFrom(pc'[c], listed', unsettled')
  <1>0. TypeOK /\ ServiceTypeOK
    BY DEF AutomaticInv, TypeOK
  <1>1. N \in Nat /\ listed \in 0..N /\ unsettled \in 0..N
    BY <1>0, Counts, StepCounts DEF WithinSegments
  <1>2. listed' \in 0..N /\ unsettled' \in 0..N
    <2>1. (TypeOK => WithinSegments)'
      BY StepCounts, PTL
    <2> QED
      BY <2>1 DEF WithinSegments, SegmentCount
  <1>3. SUFFICES to < from
    BY DEF StepsLeft, StepsFrom, SegmentCount
  <1>4. /\ from \in 0..(8 + 4 * N)
        /\ pc[c] = "lock" => from = 8 + 4 * N
        /\ pc[c] = "recover" => from = 7 + 3 * N + unsettled
        /\ pc[c] = "fetch" => from = 6 + 3 * N
        /\ pc[c] = "apply" => from = 5 + 3 * N
        /\ pc[c] \in {"list", "resolve"} => from = 4 + 3 * N
        /\ pc[c] = "start" => from = 3 + 3 * listed
        /\ pc[c] = "plan" => from = 2 + 3 * listed
        /\ pc[c] = "dispatch" => from = 1 + 3 * listed
    BY <1>1, StepsByPlace
  <1>5. /\ to \in 0..(8 + 4 * N)
        /\ pc'[c] = "recover" => to = 7 + 3 * N + unsettled'
        /\ pc'[c] = "fetch" => to = 6 + 3 * N
        /\ pc'[c] = "apply" => to = 5 + 3 * N
        /\ pc'[c] \in {"list", "resolve"} => to = 4 + 3 * N
        /\ pc'[c] = "start" => to = 3 + 3 * listed'
        /\ pc'[c] = "plan" => to = 2 + 3 * listed'
        /\ pc'[c] = "dispatch" => to = 1 + 3 * listed'
        /\ pc'[c] \in {"idle", "unexpected"} => to = 0
    BY <1>2, StepsByPlace
  <1> HIDE DEF from, to, unsettled, N
  <1>6. ASSUME NEW label, Goto(c, label) PROVE pc'[c] = label
    BY <1>0, <1>6 DEF Goto, ServiceTypeOK
  <1>7. ASSUME Leave(c) PROVE pc'[c] = "idle"
    BY <1>0, <1>7 DEF Leave, ServiceTypeOK
  <1>8. CASE EnterLock(c)
    <2>1. pc[c] = "lock" /\ pc'[c] \in {"recover", "fetch"}
      BY <1>6, <1>8 DEF EnterLock
    <2>2. from = 8 + 4 * N
      BY <1>4, <2>1
    <2>3. to = 7 + 3 * N + unsettled' \/ to = 6 + 3 * N
      BY <1>5, <2>1
    <2>4. N \in Nat /\ unsettled' \in 0..N
      BY <1>1, <1>2
    <2> HIDE DEF listed
    <2> QED
      BY <2>2, <2>3, <2>4
  <1>9. CASE Busy(c) \/ RefreshBlocked(c) \/ MonitorDone(c)
    <2>1. pc[c] \in {"lock", "apply", "dispatch"} /\ pc'[c] = "idle"
      BY <1>7, <1>9 DEF Busy, RefreshBlocked, MonitorDone
    <2>2. to = 0
      BY <1>5, <2>1
    <2>3. listed \in Nat /\ from \in Nat
      BY <1>1, <1>4
    <2> HIDE DEF listed
    <2>4. from > 0
      BY <1>1, <1>4, <2>1, <2>3
    <2> QED
      BY <2>2, <2>4
  <1>10. CASE RecoverOne(c)
    <2>1. unsettled' = unsettled - 1
      BY <1>10, RecoverSettles DEF unsettled
    <2>2. pc[c] = "recover" /\ pc'[c] = pc[c]
      BY <1>10 DEF RecoverOne, serviceVars, localVars
    <2>3. pc[c] = "recover" /\ pc'[c] = "recover"
      BY <2>2
    <2>4. from = 7 + 3 * N + unsettled
      BY <1>4, <2>3
    <2>5. to = 7 + 3 * N + unsettled'
      BY <1>5, <2>3
    <2>6. N \in Nat /\ unsettled \in 0..N
      BY <1>1
    <2> HIDE DEF listed
    <2> QED
      BY <2>1, <2>4, <2>5, <2>6
  <1>11. CASE RecoverDone(c)
    <2>1. pc[c] = "recover" /\ pc'[c] = "fetch"
      BY <1>6, <1>11 DEF RecoverDone
    <2>2. from = 7 + 3 * N + unsettled
      BY <1>4, <2>1
    <2>3. to = 6 + 3 * N
      BY <1>5, <2>1
    <2>4. N \in Nat /\ unsettled \in 0..N
      BY <1>1, <1>2
    <2> HIDE DEF listed
    <2> QED
      BY <2>2, <2>3, <2>4
  <1>12. CASE Refresh(c)
    <2>1. pc[c] = "fetch" /\ pc'[c] = "apply"
      BY <1>6, <1>12 DEF Refresh
    <2>2. from = 6 + 3 * N
      BY <1>4, <2>1
    <2>3. to = 5 + 3 * N
      BY <1>5, <2>1
    <2>4. N \in Nat
      BY <1>1, <1>2
    <2> HIDE DEF listed
    <2> QED
      BY <2>2, <2>3, <2>4
  <1>13. CASE Apply(c)
    <2>1. pc[c] = "apply" /\ pc'[c] \in {"list", "resolve"}
      BY <1>6, <1>13 DEF Apply
    <2>2. from = 5 + 3 * N
      BY <1>4, <2>1
    <2>3. to = 4 + 3 * N
      BY <1>5, <2>1
    <2>4. N \in Nat
      BY <1>1, <1>2
    <2> HIDE DEF listed
    <2> QED
      BY <2>2, <2>3, <2>4
  <1>14. CASE ListSegments(c)
    <2>1. pc[c] = "list" /\ pc'[c] = "dispatch"
      BY <1>6, <1>14 DEF ListSegments
    <2>2. from = 4 + 3 * N
      BY <1>4, <2>1
    <2>3. to = 1 + 3 * listed'
      BY <1>5, <2>1
    <2>4. N \in Nat /\ listed' \in 0..N
      BY <1>1, <1>2
    <2> HIDE DEF listed
    <2>5. \A n \in Nat : \A k \in 0..n : 0 < 4 + 3 * n /\ 1 + 3 * k < 4 + 3 * n /\ 3 + 3 * k < 4 + 3 * n
      OBVIOUS
    <2>6. 0 < 4 + 3 * N /\ 1 + 3 * listed' < 4 + 3 * N /\ 3 + 3 * listed' < 4 + 3 * N
      BY <2>4, <2>5
    <2> QED
      BY <2>2, <2>3, <2>6
  <1>15. CASE Dispatch(c)
    <2>1. PICK s \in Earliest(c) :
            /\ todo' = [todo EXCEPT ![c] = Without(@, s)]
            /\ \E label \in {"start", "unexpected", "dispatch"} : Goto(c, label)
      BY <1>15 DEF Dispatch
    <2>2. pc[c] = "dispatch" /\ pc'[c] \in {"start", "dispatch"}
      BY <1>6, <1>15, <2>1 DEF Dispatch
    <2>3. DOMAIN todo'[c] = DOMAIN todo[c] \ {s} /\ s \in DOMAIN todo[c]
      BY <1>0, <2>1 DEF Without, Earliest, ServiceTypeOK
    <2>4. DOMAIN todo[c] \in SUBSET Segments
      BY <1>0, StepCounts DEF WithinSegments
    <2>5. listed' = listed - 1
      BY <2>3, <2>4, Counts
    <2>6. from = 1 + 3 * listed /\ listed \in Nat
      BY <1>1, <1>4, <2>2
    <2>7. to = 3 + 3 * listed' \/ to = 1 + 3 * listed'
      BY <1>5, <2>2
    <2> HIDE DEF listed
    <2>8. from = 1 + 3 * listed /\ (to = 3 * listed \/ to = 3 * listed - 2)
      BY <2>5, <2>6, <2>7
    <2> QED
      BY <2>6, <2>8
  <1>16. CASE Resolve(c)
    <2>1. pc[c] = "resolve" /\ pc'[c] \in {"idle", "start"}
      BY <1>6, <1>7, <1>16 DEF Resolve
    <2>2. from = 4 + 3 * N
      BY <1>4, <2>1
    <2>3. to = 0 \/ to = 3 + 3 * listed'
      BY <1>5, <2>1
    <2>4. N \in Nat /\ listed' \in 0..N
      BY <1>1, <1>2
    <2> HIDE DEF listed
    <2>5. \A n \in Nat : \A k \in 0..n : 0 < 4 + 3 * n /\ 1 + 3 * k < 4 + 3 * n /\ 3 + 3 * k < 4 + 3 * n
      OBVIOUS
    <2>6. 0 < 4 + 3 * N /\ 1 + 3 * listed' < 4 + 3 * N /\ 3 + 3 * listed' < 4 + 3 * N
      BY <2>4, <2>5
    <2> QED
      BY <2>2, <2>3, <2>6
  <1>17. CASE Start(c)
    <2>1. pc[c] = "start" /\ pc'[c] = "plan" /\ todo' = todo
      BY <1>6, <1>17 DEF Start
    <2>2. listed' = listed
      BY <2>1
    <2>3. from = 3 + 3 * listed /\ listed \in Nat
      BY <1>1, <1>4, <2>1
    <2>4. to = 2 + 3 * listed
      BY <1>5, <2>1, <2>2
    <2> HIDE DEF listed
    <2> QED
      BY <2>3, <2>4
  <1>18. CASE Finish(c)
    <2>1. pc[c] = "plan" /\ (pc'[c] = "idle" \/ (pc'[c] = "dispatch" /\ todo' = todo))
      BY <1>6, <1>7, <1>18 DEF Finish
    <2>2. todo' = todo => listed' = listed
      OBVIOUS
    <2>3. from = 2 + 3 * listed /\ listed \in Nat
      BY <1>1, <1>4, <2>1
    <2>4. to = 0 \/ to = 1 + 3 * listed
      <3>1. CASE pc'[c] = "idle"
        BY <1>5, <3>1
      <3>2. CASE pc'[c] = "dispatch" /\ todo' = todo
        BY <1>5, <2>2, <3>2
      <3> QED
        BY <2>1, <3>1, <3>2
    <2> HIDE DEF listed
    <2>5. to < from
      BY <2>3, <2>4
    <2>6. to \in Nat /\ from \in Nat
      BY <2>3, <2>4
    <2> QED
      BY <2>5, <2>6
  <1> QED
    BY <1>8, <1>9, <1>10, <1>11, <1>12, <1>13, <1>14, <1>15, <1>16, <1>17, <1>18 DEF Step

\* Every other step.
LEMMA OthersAddNothing ==
  ASSUME AutomaticInv, NEW c \in Callers, pc[c] # "idle", [Next]_vars, ~Step(c)
  PROVE  StepsLeft(c)' <= StepsLeft(c)
  <1>0. TypeOK /\ ServiceTypeOK /\ LockHeld
    BY DEF AutomaticInv, TypeOK
  <1>1. StepsLeft(c) \in Nat
    <2>1. SegmentCount \in Nat /\ Cardinality(DOMAIN todo[c]) \in 0..SegmentCount /\ Cardinality(Unsettled) \in 0..SegmentCount
      BY <1>0, Counts, StepCounts DEF WithinSegments
    <2> QED
      BY <2>1, StepsByPlace DEF StepsLeft
  <1>2. ASSUME UNCHANGED <<pc, todo, attempts>> PROVE StepsLeft(c)' = StepsLeft(c)
    BY <1>2 DEF StepsLeft, StepsFrom, Unsettled, Interrupted, Running, SegmentCount
  <1>3. CASE UNCHANGED vars \/ Tick
    BY <1>1, <1>2, <1>3 DEF vars, serviceVars, localVars, Tick, repositoryVars
  <1>4. CASE Abort(c)
    <2>1. pc'[c] = "idle"
      BY <1>0, <1>4 DEF Abort, Leave, ServiceTypeOK
    <2>2. StepsLeft(c)' = 0
      BY <2>1 DEF StepsLeft, StepsFrom
    <2> QED
      BY <1>1, <2>2
  <1>5. ASSUME NEW d \in Callers, d # c, Step(d) \/ Abort(d) \/ \E m \in Modes : Invoke(d, m)
        PROVE  StepsLeft(c)' <= StepsLeft(c)
    <2>1. pc'[c] = pc[c] /\ todo'[c] = todo[c]
      BY <1>0, <1>5 DEF Step, Abort, Invoke, EnterLock, Busy, RecoverOne, RecoverDone, Refresh, Apply,
         RefreshBlocked, ListSegments, Dispatch, MonitorDone, Resolve, Start, Finish, Leave, Goto,
         ServiceTypeOK, serviceVars, localVars
    <2>2. CASE pc[c] = "recover"
      <3>1. lock = c
        BY <1>0, <2>2 DEF LockHeld, Locked
      <3>2. pc[d] \notin Locked /\ lock # NoCaller
        BY <1>0, <1>5, <3>1, CallersAssumption DEF LockHeld
      <3>3. UNCHANGED attempts
        BY <1>5, <3>2 DEF Step, Abort, Invoke, EnterLock, Busy, LockAvailable, RecoverOne, RecoverDone, Refresh, Apply,
           RefreshBlocked, ListSegments, Dispatch, MonitorDone, Resolve, Start, Finish, Locked, repositoryVars
      <3>4. Unsettled' = Unsettled
        BY <3>3 DEF Unsettled, Interrupted, Running
      <3> QED
        BY <1>1, <2>1, <3>4 DEF StepsLeft, StepsFrom, SegmentCount
    <2>3. CASE pc[c] # "recover"
      BY <1>1, <2>1, <2>3 DEF StepsLeft, StepsFrom, SegmentCount
    <2> QED
      BY <2>2, <2>3
  <1>6. ~\E m \in Modes : Invoke(c, m)
    BY DEF Invoke
  <1> QED
    BY <1>3, <1>4, <1>5, <1>6 DEF Next

\* Every invocation ends after a bounded number of its own steps, for any number of
\* processes, invocations and deaths: recovery settles each segment once, and the loop
\* turns once for each segment listed.
THEOREM InvocationsShort == Spec => InvocationsAreShort
  <1>1. AutomaticInv /\ AutomaticInv' /\ [Next]_vars =>
          [\A c \in Callers :
             /\ StepsLeft(c) \in 0..(8 + 4 * SegmentCount)
             /\ Step(c) => StepsLeft(c)' < StepsLeft(c)
             /\ pc[c] # "idle" => StepsLeft(c)' <= StepsLeft(c)]_vars
    <2> SUFFICES ASSUME AutomaticInv, AutomaticInv', [Next]_vars, NEW c \in Callers
        PROVE  /\ StepsLeft(c) \in 0..(8 + 4 * SegmentCount)
               /\ Step(c) => StepsLeft(c)' < StepsLeft(c)
               /\ pc[c] # "idle" => StepsLeft(c)' <= StepsLeft(c)
      OBVIOUS
    <2>1. TypeOK /\ TypeOK' /\ pc'[c] # "unexpected"
      BY DEF AutomaticInv, NoUnexpectedExecution
    <2>2. SegmentCount \in Nat /\ Cardinality(DOMAIN todo[c]) \in 0..SegmentCount /\ Cardinality(Unsettled) \in 0..SegmentCount
      BY <2>1, Counts, StepCounts DEF WithinSegments
    <2>3. StepsLeft(c) \in 0..(8 + 4 * SegmentCount)
      BY <2>2, StepsByPlace DEF StepsLeft
    <2>4. (SegmentCount \in Nat /\ Cardinality(DOMAIN todo[c]) \in 0..SegmentCount /\ Cardinality(Unsettled) \in 0..SegmentCount)'
      <3>1. (TypeOK => WithinSegments)'
        BY StepCounts, PTL
      <3> QED
        BY <2>1, <2>2, <3>1 DEF SegmentCount, WithinSegments
    <2>5. StepsLeft(c)' \in Nat
      <3>1. StepsLeft(c)' = StepsFrom(pc'[c], Cardinality(DOMAIN todo'[c]), Cardinality(Unsettled'))
        BY DEF StepsLeft, StepsFrom, SegmentCount
      <3>2. Cardinality(DOMAIN todo'[c]) \in 0..SegmentCount /\ Cardinality(Unsettled') \in 0..SegmentCount
        BY <2>4 DEF SegmentCount
      <3> QED
        BY <2>2, <3>1, <3>2, StepsByPlace
    <2>6. Step(c) => StepsLeft(c)' < StepsLeft(c)
      BY <2>1, OwnStep
    <2>7. pc[c] # "idle" => StepsLeft(c)' <= StepsLeft(c)
      BY <2>3, <2>5, <2>6, OthersAddNothing
    <2> QED
      BY <2>3, <2>6, <2>7
  <1> QED
    BY <1>1, AutomaticInvariant, PTL DEF Spec, InvocationsAreShort

\* Some departure of a nonempty listing is the earliest.
LEMMA LeastNumber ==
  ASSUME NEW T \in SUBSET Nat, T # {}
  PROVE  \E m \in T : \A n \in T : m <= n
  <1> DEFINE R == OpToRel(<, Nat)
  <1>1. IsWellFoundedOn(R, Nat)
    BY NatLessThanWellFounded
  <1>2. \A x, y \in Nat : x < y => <<x, y>> \in R
    BY DEF OpToRel
  <1> HIDE DEF R
  <1>3. PICK m \in T : \A n \in T : ~(<<n, m>> \in R)
    BY <1>1, WFMin
  <1>4. \A n \in T : ~(n < m)
    BY <1>2, <1>3
  <1> QED
    BY <1>4

LEMMA EarliestExists ==
  ASSUME TypeOK, NEW c \in Callers, todo[c] # NoSegments
  PROVE  Earliest(c) # {}
  <1> DEFINE list == todo[c]
             departures == {list[s].departure : s \in DOMAIN list}
  <1>1. list \in Snapshot
    BY DEF TypeOK, ServiceTypeOK
  <1>2. list \in [DOMAIN list -> Facts]
    BY <1>1, SnapshotElim
  <1>3. DOMAIN list # {}
    BY <1>2 DEF NoSegments
  <1>4. \A s \in DOMAIN list : list[s].departure \in Nat
    BY <1>2, TimesAssumption DEF Facts
  <1>5. departures \in SUBSET Nat /\ departures # {}
    BY <1>3, <1>4
  <1>6. PICK m \in departures : \A n \in departures : m <= n
    BY <1>5, LeastNumber
  <1>7. PICK s \in DOMAIN list : m = list[s].departure
    BY <1>6
  <1>8. \A x \in DOMAIN list : list[s].departure <= list[x].departure
    BY <1>6, <1>7
  <1> QED
    BY <1>7, <1>8 DEF Earliest

\* Whoever plans finds its attempt last in its history, and running.
InHandOf(c) ==
  pc[c] = "plan" =>
    LET rows == attempts[job[c].segment][TriggerOf(mode[c])]
    IN  rows # <<>> /\ rows[Len(rows)].state = "PLANNING"

InHand == \A c \in Callers : InHandOf(c)

\* Only Start begins to plan, and nobody writes an attempt while another plans.
LEMMA PlanUndisturbed ==
  ASSUME AutomaticInv, [Next]_vars, NEW c \in Callers, pc'[c] = "plan", ~Start(c)
  PROVE  pc[c] = "plan" /\ mode'[c] = mode[c] /\ job'[c] = job[c] /\ attempts' = attempts
  <1>0. TypeOK /\ ServiceTypeOK /\ LockHeld
    BY DEF AutomaticInv, TypeOK
  <1>1. CASE Tick \/ UNCHANGED vars
    BY <1>1 DEF Tick, vars, serviceVars, localVars, repositoryVars
  <1>2. ~(Step(c) \/ Abort(c) \/ \E m \in Modes : Invoke(c, m))
    <2>1. ASSUME NEW label, Goto(c, label) PROVE pc'[c] = label
      BY <1>0, <2>1 DEF Goto, ServiceTypeOK
    <2>2. ~Leave(c)
      BY <1>0 DEF Leave, ServiceTypeOK
    <2>3. ~Goto(c, "lock") /\ ~Goto(c, "recover") /\ ~Goto(c, "fetch") /\ ~Goto(c, "apply")
          /\ ~Goto(c, "list") /\ ~Goto(c, "resolve") /\ ~Goto(c, "dispatch") /\ ~Goto(c, "start")
          /\ ~Goto(c, "unexpected")
      BY <2>1
    <2>4. ~RecoverOne(c)
      BY DEF RecoverOne, serviceVars, localVars
    <2>5. ~Resolve(c) /\ ~Finish(c)
      BY <2>2, <2>3 DEF Resolve, Finish
    <2>6. ~EnterLock(c) /\ ~Apply(c) /\ ~Dispatch(c)
      <3>1. ~Goto(c, IF mode[c] = "AUTOMATIC" THEN "recover" ELSE "fetch")
            /\ ~Goto(c, IF mode[c] = "AUTOMATIC" THEN "list" ELSE "resolve")
            /\ \A plan, broken \in BOOLEAN :
                 ~Goto(c, IF plan THEN "start" ELSE IF broken THEN "unexpected" ELSE "dispatch")
        BY <2>1
      <3> QED
        BY <3>1 DEF EnterLock, Apply, Dispatch
    <2> QED
      BY <2>2, <2>3, <2>4, <2>5, <2>6 DEF Step, Abort, Invoke, Busy, RecoverDone, Refresh,
         RefreshBlocked, ListSegments, MonitorDone
  <1>3. ASSUME NEW d \in Callers, d # c, Step(d) \/ Abort(d) \/ \E m \in Modes : Invoke(d, m)
        PROVE  pc[c] = "plan" /\ mode'[c] = mode[c] /\ job'[c] = job[c] /\ attempts' = attempts
    <2>1. pc'[c] = pc[c] /\ mode'[c] = mode[c] /\ job'[c] = job[c]
      BY <1>0, <1>3 DEF Step, Abort, Invoke, EnterLock, Busy, RecoverOne, RecoverDone, Refresh, Apply,
         RefreshBlocked, ListSegments, Dispatch, MonitorDone, Resolve, Start, Finish, Leave, Goto,
         ServiceTypeOK, serviceVars, localVars
    <2>2. lock = c /\ pc[d] \notin Locked
      BY <1>0, <1>3, <2>1 DEF LockHeld, Locked
    <2>3. attempts' = attempts
      BY <1>3, <2>2 DEF Step, Abort, Invoke, EnterLock, Busy, RecoverOne, RecoverDone, Refresh, Apply,
         RefreshBlocked, ListSegments, Dispatch, MonitorDone, Resolve, Start, Finish, Locked, repositoryVars
    <2> QED
      BY <2>1, <2>3
  <1> QED
    BY <1>1, <1>2, <1>3 DEF Next

LEMMA InHandStep == AutomaticInv /\ InHand /\ [Next]_vars => InHand'
  <1> SUFFICES ASSUME AutomaticInv, InHand, [Next]_vars, NEW c \in Callers, pc'[c] = "plan"
      PROVE  InHandOf(c)'
    BY DEF InHand, InHandOf
  <1>0. RepositoryTypeOK /\ ServiceTypeOK
    BY DEF AutomaticInv, TypeOK
  <1>1. CASE Start(c)
    <2>1. ~Goto(c, "unexpected")
      BY <1>0 DEF Goto, ServiceTypeOK
    <2>2. /\ pc[c] = "start" /\ mode' = mode /\ job' = job
          /\ StartAttempt(job[c].segment, TriggerOf(mode[c]), job[c].facts, asOf[c])
      BY <1>1, <2>1 DEF Start
    <2>3. PICK s \in Segments, t \in Triggers, f \in Facts, at \in Times :
            s = job[c].segment /\ t = TriggerOf(mode[c]) /\ f = job[c].facts /\ at = asOf[c]
      BY <1>0, <2>2 DEF ServiceTypeOK, Job, TriggerOf, Triggers, ByLeadTime
    <2>4. StartAttempt(s, t, f, at)
      BY <2>2, <2>3
    <2>5. /\ attempts[s][t] \in Seq(Attempt)
          /\ attempts'[s][t] = Append(attempts[s][t],
               [state |-> "PLANNING", revision |-> segments[s].revision, asOf |-> at, facts |-> f])
      BY <1>0, <2>4, StartAppends
    <2>6. LET rows == attempts'[s][t]
          IN  rows # <<>> /\ rows[Len(rows)].state = "PLANNING"
      BY <2>5
    <2>7. attempts'[s][t] = attempts[job[c].segment][TriggerOf(mode[c])]'
      BY <2>2, <2>3 DEF TriggerOf
    <2> QED
      BY <2>6, <2>7 DEF InHandOf
  <1>2. CASE ~Start(c)
    <2>1. pc[c] = "plan" /\ mode'[c] = mode[c] /\ job'[c] = job[c] /\ attempts' = attempts
      BY <1>2, PlanUndisturbed
    <2>2. InHandOf(c)
      BY DEF InHand
    <2> QED
      BY <2>1, <2>2 DEF InHandOf, TriggerOf
  <1> QED
    BY <1>1, <1>2

\* No place an invocation can be at is without a way on.
THEOREM NeverBlocked == Spec => []NothingBlocks
  <1>1. Init => InHand
    BY DEF Init, InHand, InHandOf
  <1>2. AutomaticInv /\ InHand => NothingBlocks
    <2> SUFFICES ASSUME AutomaticInv, InHand, NEW c \in Callers
        PROVE  /\ pc[c] # "unexpected"
               /\ pc[c] = "dispatch" => todo[c] = NoSegments \/ Earliest(c) # {}
               /\ pc[c] = "plan" =>
                    LET rows == attempts[job[c].segment][TriggerOf(mode[c])]
                    IN  rows # <<>> /\ rows[Len(rows)].state = "PLANNING"
      BY DEF NothingBlocks
    <2>1. pc[c] # "unexpected" /\ TypeOK
      BY DEF AutomaticInv, NoUnexpectedExecution
    <2>2. todo[c] = NoSegments \/ Earliest(c) # {}
      BY <2>1, EarliestExists
    <2>3. InHandOf(c)
      BY DEF InHand
    <2> QED
      BY <2>1, <2>2, <2>3 DEF InHandOf
  <1> QED
    BY AutomaticInvariant, InHandStep, <1>1, <1>2, PTL DEF Spec

=============================================================================
