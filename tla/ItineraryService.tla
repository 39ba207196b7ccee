-------------------------- MODULE ItineraryService --------------------------
(***************************************************************************)
(* Invocations of monitor_trips and plan_booked_trip over one database:    *)
(* travel_agent/itinerary/service.py, locking.py, activation.py.           *)
(*                                                                         *)
(* A caller is an operating-system process with its own connection.  The   *)
(* clock is read before the lock is tried, the lock is non-blocking, and   *)
(* everything after it runs under the lock, one database transaction per   *)
(* step.  Abort is a process death or a sqlite3.Error at any step: both    *)
(* release the lock and leave the committed rows as they are.              *)
(***************************************************************************)
EXTENDS ItineraryRepository

CONSTANTS
  Callers,         \* processes that invoke the service
  NoCaller,        \* the lock is free
  NoJob,           \* no segment is being planned
  Batches,         \* the snapshots the source may return
  Rejected,        \* a refresh that returned REJECTED or SOURCE_ERROR
  LeadTime,        \* planning_lead_time_minutes
  MaxInvocations,  \* bound on invocations
  MaxAborts        \* bound on aborted invocations

ASSUME LeadTimeAssumption == LeadTime \in Nat
ASSUME BoundsAssumption == MaxInvocations \in Nat /\ MaxAborts \in Nat
ASSUME CallersAssumption == NoCaller \notin Callers
ASSUME BatchesAssumption ==
  \A b \in Batches :
    /\ DOMAIN b \subseteq Itineraries
    /\ \A i \in DOMAIN b :
         /\ b[i] \in Snapshot
         /\ DOMAIN b[i] # {}   \* "Expected segments" (itinerary/contracts.py)
         /\ \A s \in DOMAIN b[i] : ItineraryOf[s] = i
ASSUME RejectedAssumption == Rejected \notin Batches
ASSUME NoJobAssumption == \A s \in Segments, f \in Facts : NoJob # [segment |-> s, facts |-> f]

NoSegments == [s \in {} |-> NoFacts]

VARIABLES
  now,      \* the wall clock
  lock,     \* holder of the database-associated MonitorLock
  pc, mode, asOf, batch, todo, job,   \* locals of each caller
  started, aborted                    \* counters behind the bounds

localVars == <<pc, mode, asOf, batch, todo, job>>
serviceVars == <<now, lock, localVars, started, aborted>>
vars == <<repositoryVars, serviceVars>>

Modes == {"AUTOMATIC", "USER_INITIATED"}
TriggerOf(m) == IF m = "AUTOMATIC" THEN ByLeadTime ELSE "USER_REQUEST"

Job == [segment : Segments, facts : Facts]
Locked == {"recover", "fetch", "apply", "list", "resolve", "dispatch",
           "start", "plan", "unexpected"}

ServiceTypeOK ==
  /\ now \in Times
  /\ lock \in Callers \cup {NoCaller}
  /\ pc \in [Callers -> Locked \cup {"idle", "lock"}]
  /\ mode \in [Callers -> Modes]
  /\ asOf \in [Callers -> Times]
  /\ batch \in [Callers -> Batches \cup {Rejected}]
  /\ todo \in [Callers -> Snapshot]
  /\ job \in [Callers -> Job \cup {NoJob}]
  /\ \A c \in Callers : pc[c] \in {"start", "plan"} => job[c] \in Job
  /\ started \in Nat
  /\ aborted \in Nat

\* The rows satisfy the CHECK constraints of the schema, the locals have their
\* types, and a caller that is about to plan has a segment to plan.
TypeOK == RepositoryTypeOK /\ ServiceTypeOK

Init ==
  /\ RepositoryInit
  /\ now \in Times /\ \A t \in Times : now <= t
  /\ lock = NoCaller
  /\ pc = [c \in Callers |-> "idle"]
  /\ mode = [c \in Callers |-> "AUTOMATIC"]
  /\ asOf = [c \in Callers |-> now]
  /\ batch = [c \in Callers |-> Rejected]
  /\ todo = [c \in Callers |-> NoSegments]
  /\ job = [c \in Callers |-> NoJob]
  /\ started = 0
  /\ aborted = 0

(***************************************************************************)
(* ActivationEvaluator.evaluate, for segments that passed validation.      *)
(***************************************************************************)

Evaluate(facts, t) ==
  CASE facts.status = "CANCELLED"          -> "CANCELLED"
    [] facts.status # "CANCELLED" /\ t >= facts.departure -> "DEPARTED"
    [] facts.status # "CANCELLED" /\ t + LeadTime < facts.departure
                                           -> "NOT_YET_ELIGIBLE"
    [] OTHER                               -> "ELIGIBLE"

Eligible(facts, t) == Evaluate(facts, t) = "ELIGIBLE"

(***************************************************************************)
(* Control helpers.                                                        *)
(***************************************************************************)

Goto(c, label) == pc' = [pc EXCEPT ![c] = label]

\* Return from the `with MonitorLock' block; locals are dropped.
Leave(c) ==
  /\ lock' = IF lock = c THEN NoCaller ELSE lock
  /\ pc' = [pc EXCEPT ![c] = "idle"]
  /\ mode' = [mode EXCEPT ![c] = "AUTOMATIC"]
  /\ batch' = [batch EXCEPT ![c] = Rejected]
  /\ todo' = [todo EXCEPT ![c] = NoSegments]
  /\ job' = [job EXCEPT ![c] = NoJob]

Without(f, x) == [y \in DOMAIN f \ {x} |-> f[y]]

(***************************************************************************)
(* Actions.                                                                *)
(***************************************************************************)

\* The clock is read once, outside the lock.
Invoke(c, m) ==
  /\ pc[c] = "idle"
  /\ started < MaxInvocations
  /\ started' = started + 1
  /\ asOf' = [asOf EXCEPT ![c] = now]
  /\ mode' = [mode EXCEPT ![c] = m]
  /\ Goto(c, "lock")
  /\ UNCHANGED <<repositoryVars, now, lock, batch, todo, job, aborted>>

\* Mutant of LockAvailable: the lock file is opened but not locked.
LockIgnored == TRUE

LockAvailable == lock = NoCaller

\* Only a monitor runs recover_interrupted.
EnterLock(c) ==
  /\ pc[c] = "lock"
  /\ LockAvailable
  /\ lock' = c
  /\ Goto(c, IF mode[c] = "AUTOMATIC" THEN "recover" ELSE "fetch")
  /\ UNCHANGED <<repositoryVars, now, mode, asOf, batch, todo, job, started, aborted>>

\* MonitorBusy: no refresh, no dispatch.
Busy(c) ==
  /\ pc[c] = "lock"
  /\ ~LockAvailable
  /\ Leave(c)
  /\ UNCHANGED <<repositoryVars, now, asOf, started, aborted>>

\* One finish_attempt transaction of recover_interrupted.
RecoverOne(c) ==
  /\ pc[c] = "recover"
  /\ \E s \in Segments : \E n \in Interrupted(s) :
       FinishAttempt(s, ByLeadTime, n, "FAILED")
  /\ UNCHANGED <<serviceVars>>

\* Mutants of RecoverDone: recovery stops before the last interrupted row; or
\* waits for manual rows too, which nothing recovers.
RecoverEarly(c) ==
  /\ pc[c] = "recover"
  /\ Goto(c, "fetch")
  /\ UNCHANGED <<repositoryVars, now, lock, mode, asOf, batch, todo, job, started, aborted>>
RecoverEveryTrigger(c) ==
  /\ pc[c] = "recover"
  /\ \A s \in Segments, t \in Triggers : Running(s, t) = {}
  /\ Goto(c, "fetch")
  /\ UNCHANGED <<repositoryVars, now, lock, mode, asOf, batch, todo, job, started, aborted>>

RecoverDone(c) ==
  /\ pc[c] = "recover"
  /\ \A s \in Segments : Interrupted(s) = {}
  /\ Goto(c, "fetch")
  /\ UNCHANGED <<repositoryVars, now, lock, mode, asOf, batch, todo, job, started, aborted>>

\* ItineraryAgent.refresh: the whole snapshot is validated or refused.
Refresh(c) ==
  /\ pc[c] = "fetch"
  /\ \E b \in Batches \cup {Rejected} : batch' = [batch EXCEPT ![c] = b]
  /\ Goto(c, "apply")
  /\ UNCHANGED <<repositoryVars, now, lock, mode, asOf, todo, job, started, aborted>>

Apply(c) ==
  /\ pc[c] = "apply"
  /\ batch[c] # Rejected
  /\ ApplySnapshot(batch[c])
  /\ batch' = [batch EXCEPT ![c] = Rejected]
  /\ Goto(c, IF mode[c] = "AUTOMATIC" THEN "list" ELSE "resolve")
  /\ UNCHANGED <<now, lock, mode, asOf, todo, job, started, aborted>>

\* A refresh that did not apply ends the invocation, after recovery.
RefreshBlocked(c) ==
  /\ pc[c] = "apply"
  /\ batch[c] = Rejected
  /\ Leave(c)
  /\ UNCHANGED <<repositoryVars, now, asOf, started, aborted>>

ListSegments(c) ==
  /\ pc[c] = "list"
  /\ todo' = [todo EXCEPT ![c] = CurrentSegments]
  /\ Goto(c, "dispatch")
  /\ UNCHANGED <<repositoryVars, now, lock, mode, asOf, batch, job, started, aborted>>

\* list_current_segments orders by departure first.
Earliest(c) ==
  {s \in DOMAIN todo[c] :
     \A x \in DOMAIN todo[c] : todo[c][s].departure <= todo[c][x].departure}

\* What one segment of the loop does before any planning.
Dispatch(c) ==
  /\ pc[c] = "dispatch"
  /\ \E s \in Earliest(c) :
       LET facts == todo[c][s]
           before == AutomaticState(s)
           plan == Eligible(facts, asOf[c]) /\ CanStart(before)
           broken == Eligible(facts, asOf[c]) /\ before = "PLANNING"
       IN  /\ InitializeAutomaticState(s)
           /\ todo' = [todo EXCEPT ![c] = Without(@, s)]
           /\ job' = [job EXCEPT ![c] =
                        IF plan THEN [segment |-> s, facts |-> facts] ELSE NoJob]
           /\ Goto(c, IF plan THEN "start" ELSE IF broken THEN "unexpected"
                      ELSE "dispatch")
  /\ UNCHANGED <<itineraries, revisions, segments, attempts,
                 now, lock, mode, asOf, batch, started, aborted>>

MonitorDone(c) ==
  /\ pc[c] = "dispatch"
  /\ todo[c] = NoSegments
  /\ Leave(c)
  /\ UNCHANGED <<repositoryVars, now, asOf, started, aborted>>

\* resolve_upcoming with a selector that `selected' satisfies.
Resolve(c) ==
  /\ pc[c] = "resolve"
  /\ \E selected \in SUBSET Segments :
       LET upcoming == UpcomingSegments(asOf[c])
           matches == selected \cap DOMAIN upcoming
       IN  \/ /\ Cardinality(matches) = 1
              /\ \E s \in matches :
                   job' = [job EXCEPT ![c] = [segment |-> s, facts |-> upcoming[s]]]
              /\ Goto(c, "start")
              /\ UNCHANGED <<lock, mode, batch, todo>>
           \/ /\ Cardinality(matches) # 1
              /\ Leave(c)
  /\ UNCHANGED <<repositoryVars, now, asOf, started, aborted>>

\* _plan_segment commits PLANNING before it looks anything up.
Start(c) ==
  /\ pc[c] = "start"
  /\ LET s == job[c].segment
         t == TriggerOf(mode[c])
     IN  IF StartRefused(s, t)
         THEN /\ UNCHANGED repositoryVars
              /\ Goto(c, "unexpected")
         ELSE /\ StartAttempt(s, t, job[c].facts, asOf[c])
              /\ Goto(c, "plan")
  /\ UNCHANGED <<now, lock, mode, asOf, batch, todo, job, started, aborted>>

\* The pure planning core answers; a planning failure becomes FAILED.
Finish(c) ==
  /\ pc[c] = "plan"
  /\ \E outcome \in {"COMPLETED", "FAILED"} :
       LET s == job[c].segment
           t == TriggerOf(mode[c])
       IN  FinishAttempt(s, t, Len(attempts[s][t]), outcome)
  /\ IF mode[c] = "AUTOMATIC"
     THEN /\ Goto(c, "dispatch")
          /\ job' = [job EXCEPT ![c] = NoJob]
          /\ UNCHANGED <<lock, mode, batch, todo>>
     ELSE Leave(c)
  /\ UNCHANGED <<now, asOf, started, aborted>>

Abort(c) ==
  /\ pc[c] # "idle"
  /\ aborted < MaxAborts
  /\ aborted' = aborted + 1
  /\ Leave(c)
  /\ UNCHANGED <<repositoryVars, now, asOf, started>>

Tick ==
  /\ now + 1 \in Times
  /\ now' = now + 1
  /\ UNCHANGED <<repositoryVars, lock, localVars, started, aborted>>

\* One step of an invocation that was already made.
Step(c) ==
  \/ EnterLock(c) \/ Busy(c)
  \/ RecoverOne(c) \/ RecoverDone(c)
  \/ Refresh(c) \/ Apply(c) \/ RefreshBlocked(c)
  \/ ListSegments(c) \/ Dispatch(c) \/ MonitorDone(c)
  \/ Resolve(c) \/ Start(c) \/ Finish(c)

Next ==
  \/ \E c \in Callers :
       \/ \E m \in Modes : Invoke(c, m)
       \/ Step(c)
       \/ Abort(c)
  \/ Tick

Spec == Init /\ [][Next]_vars

\* A running process keeps running; nothing makes a host invoke the service.
FairSpec == Spec /\ \A c \in Callers : WF_vars(Step(c))

(***************************************************************************)
(* Properties.                                                             *)
(***************************************************************************)

\* The summary row of a segment and its attempt rows tell one story: every
\* automatic attempt but the last failed, so at most one ever completed, and
\* the row repeats the state and the number of the last one
\* (start_attempt, finish_attempt and recover_interrupted write both tables).
AutomaticHistory(s) ==
  LET rows == attempts[s][ByLeadTime]
      n == Len(rows)
  IN  /\ automatic[s].last = n
      /\ \A k \in 1..(n - 1) : rows[k].state = "FAILED"
      /\ n = 0 => AutomaticState(s) = "NOT_ACTIVATED"
      /\ n > 0 => automatic[s].state = rows[n].state
      /\ automatic[s].completed =
           IF automatic[s].state = "COMPLETED" THEN n ELSE 0

AutomaticStateMatchesHistory == \A s \in Segments : AutomaticHistory(s)

\* A monitor past recovery: no other process may run an automatic attempt.
PastRecovery(c) ==
  /\ mode[c] = "AUTOMATIC"
  /\ pc[c] \in {"fetch", "apply", "list", "dispatch", "start", "plan"}

\* "With the lock and recovery above this indicates a broken state invariant"
\* (service.py): the RuntimeErrors of monitor_trips and start_attempt are never
\* raised, because a monitor past recovery owns every running automatic attempt.
NoUnexpectedExecution ==
  \A c \in Callers :
    /\ pc[c] # "unexpected"
    /\ PastRecovery(c) =>
         \A s \in Segments : Running(s, ByLeadTime) # {} =>
           pc[c] = "plan" /\ job[c].segment = s

\* Every attempt was made for a booking exactly as some revision of its
\* itinerary records it, still confirmed and ahead of the decision time; an
\* automatic one inside the planning window. The refresh, the walk over the
\* listing and start_attempt are separate transactions of one invocation.
AttemptsJustified ==
  \A s \in Segments, t \in Triggers : \A n \in DOMAIN attempts[s][t] :
    LET a == attempts[s][t][n]
        history == revisions[ItineraryOf[s]]
    IN  /\ a.revision \in DOMAIN history
        /\ s \in DOMAIN history[a.revision]
        /\ history[a.revision][s] = a.facts
        /\ a.facts.status = "CONFIRMED"
        /\ a.facts.departure > a.asOf
        /\ t = ByLeadTime => Eligible(a.facts, a.asOf)

\* The current tables are a projection of the immutable revisions: what
\* list_current_segments returns is the current revision of each present
\* itinerary, and a segment gone from it keeps the row of the last that had it.
ProjectionMatchesRevision ==
  /\ \A i \in Itineraries :
       /\ itineraries[i].revision = Len(revisions[i])
       /\ Known(i) <=> itineraries[i].revision > 0
  /\ \A s \in Segments :
       LET i == ItineraryOf[s]
           current == itineraries[i].revision
       IN  /\ (s \in DOMAIN CurrentSegments) <=>
                /\ itineraries[i].presence = "PRESENT"
                /\ s \in DOMAIN revisions[i][current]
           /\ s \in DOMAIN CurrentSegments => segments[s].revision = current
           /\ segments[s].presence # "NONE" =>
                revisions[i][segments[s].revision][s] = segments[s].facts

\* When a monitor reaches the end of its loop nothing inside the planning
\* window is left behind: each such segment is planned, or was tried at this
\* invocation's clock and failed.
MonitorLeavesNothingPending ==
  \A c \in Callers : pc[c] = "dispatch" =>
    \A s \in DOMAIN CurrentSegments :
      LET rows == attempts[s][ByLeadTime]
      IN  Eligible(CurrentSegments[s], asOf[c]) =>
            \/ s \in DOMAIN todo[c]
            \/ rows # <<>> /\ rows[Len(rows)].state = "COMPLETED"
            \/ rows # <<>> /\ rows[Len(rows)].state = "FAILED"
                /\ rows[Len(rows)].asOf = asOf[c]

\* What was recorded stays recorded: revisions and attempts are only appended,
\* an attempt keeps the decision it was made on, and a settled one its outcome,
\* whatever is aborted, recovered or retried afterwards.
RecordsDurable ==
  [][/\ \A i \in Itineraries : \A r \in DOMAIN revisions[i] :
          r \in DOMAIN revisions'[i] /\ revisions'[i][r] = revisions[i][r]
     /\ \A s \in Segments, t \in Triggers : \A n \in DOMAIN attempts[s][t] :
          LET old == attempts[s][t][n]
              new == attempts'[s][t][n]
          IN  /\ n \in DOMAIN attempts'[s][t]
              /\ new = [old EXCEPT !.state = new.state]
              /\ old.state # "PLANNING" => new = old
    ]_vars

\* "Manual execution never consults or mutates automatic execution state"
\* (service.py): no step of a plan_booked_trip moves any automatic record, even
\* while a monitor that died left one running.
ManualIndependent ==
  [][\A c \in Callers : mode[c] = "USER_INITIATED" /\ pc'[c] # pc[c] =>
       /\ automatic' = automatic
       /\ \A s \in Segments : attempts'[s][ByLeadTime] = attempts[s][ByLeadTime]]_vars

\* Every invocation returns: it takes the lock or reports MONITOR_BUSY, and the
\* recovery and dispatch loops are finite.
InvocationTerminates == \A c \in Callers : pc[c] # "idle" ~> pc[c] = "idle"

Lifecycle == INSTANCE AutomaticLifecycle WITH
  phase <- [s \in Segments |-> AutomaticState(s)],
  history <- [s \in Segments |->
                [n \in DOMAIN attempts[s][ByLeadTime] |-> attempts[s][ByLeadTime][n].state]]

\* The database implements the lifecycle each segment was promised.
ImplementsLifecycle == Lifecycle!Spec
=============================================================================
