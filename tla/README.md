# Verification of the Travel Agent

TLA+ models of `src/travel_agent`, TLC runs that check them on small instances, and
TLAPS proofs of their main properties for every instance.

- [The system](#the-system): components, state, operations, what is hard, what correct means
- [The plan](#the-plan): modules, composition, order of work
- [Modules and code](#modules-and-code): how state and actions correspond to the source
- [Runs](#runs): what each run checks and shows, its bounds
- [Fairness](#fairness)
- [Proofs](#proofs): what is proved, from which assumptions, along which argument
- [Where code and documents disagree](#where-code-and-documents-disagree)
- [Observations](#observations)
- [What is not modelled](#what-is-not-modelled)
- [Running the checks](#running-the-checks)

## The system

A Python program that a host (an MCP client, a scheduler, a demonstration script) calls.
It plans when to leave for a flight, keeps booked itineraries in SQLite and plans them
when they come due, and - in its "live" part, V9 - synchronizes mail, reconstructs
bookings from it, judges calendar conflicts and decides when a plan must be revised.
No part runs threads of its own: concurrency comes from several processes on one SQLite
file and one lock file, and from mailboxes that change between two requests.

| Component | State | Operations | Who calls it, whom it calls |
|---|---|---|---|
| Planning core (`planning/`) | the beam of one search | rank, expand, report | the coordinator |
| Coordinator and agents (`coordinator.py`, `agents/flight_agent.py`, `agents/transport_agent.py`, `contracts.py`, `service.py`) | none between calls | gather a trip context, evaluate plans | `TravelService`, the itinerary service; calls the flight, calendar and transport tools |
| Calendar agent V8 (`agents/calendar_agent.py`) | none between calls | events of a day, departure conflicts, free windows | the coordinator |
| Itinerary monitoring (`itinerary/`, `agents/itinerary_agent.py`) | six tables: itineraries, revisions, segments, attempts, automatic states, refreshes; a lock file | `monitor_trips`, `plan_booked_trip`: recover, refresh, dispatch, plan | a scheduler and a host, in several processes; calls the coordinator |
| Mail synchronization (`live/mail_sync.py`, `live/repository.py`, `live/booking_repository.py`) | checkpoint, required-resynchronization flag, retained mail, visibility, runs | `run`: pages from a source, one commit or one recorded failure | a caller per account, possibly several; calls a mail source |
| Gmail source (`live/gmail.py`) | the attempt in hand | full listing or history since a cursor, reads, final check | mail synchronization; calls the Gmail client; asks the store what is retained |
| Gmail HTTP client (`live/gmail_client.py`) | the byte budget and deadline of an attempt | one request: open, read chunks, classify | the Gmail source |
| Outlook source (`live/outlook.py`) | the attempt in hand | folder inventory, delta chain per folder, reads, quiet round, second inventory | mail synchronization; asks the store what is retained |
| Graph HTTP client (`live/graph_client.py`) | the deadlines and budgets of an attempt | the same for Outlook | the Outlook source |
| Booking projection (`live/booking.py`, `live/booking_repository.py`, `live/reconciliation.py`, `live/extraction.py`, `live/template_*.py`) | events, evidence links, revisions, current projections | read the texts a policy grants, project every coupon after a commit; read and constrain; planning readiness | the commit of mail synchronization |
| Evidence store (`live/observations.py`, `live/repository.py`) | the rows a session holds; observations and retrieval attempts, written once | parse a host's row, say what a host must supply again, store, record a retrieval | sessions, several on one file |
| Migrations (`live/migrations.py`, `live/projection_migrations.py`, `itinerary/repository.py`) | the schema and its history | open a file as one of three repositories | every repository constructor |
| Calendar conflicts (`live/calendar.py`, `live/calendar_agent.py`) | none between calls | read a snapshot, evaluate a window | a caller of the live part |
| Replanning evaluator (`live/replanning.py`) | none: the caller holds the active plan | compare the active plan with a snapshot | a monitor that is not in the repository yet |
| MIME and normalization, MCP adapter, demonstrations | see [What is not modelled](#what-is-not-modelled) | | |

### What is hard, and what correct means

**Itinerary monitoring.** Two processes, a lock that is refused rather than waited for, an
attempt that is planned between two transactions, death at any point. Correct: one
automatic execution history per segment that no interleaving splits or repeats; no
branch that the code guards with a `RuntimeError` is reached; an attempt is made only on facts that
justify it; when a monitor ends nothing due is left behind; the current tables are a
projection of append-only revisions; every invocation returns.

**Mail synchronization.** Runs overlap, each from the checkpoint it read before its pages; a
cursor may expire; a failure may be reported after another run's success; the mailbox
changes between pages; bookings are projected in the transaction that moves the cursor.
Correct: the checkpoint is always an exact mirror of the mailbox at the position of its
cursor, moves forward in single steps, and a required resynchronization is honoured; and no
cursor stands for mail whose bookings are not projected.

**Mail sources.** Every request sees another mailbox. Correct: a completed answer describes
one position of it, the one its cursor stands for, and nothing since the previous cursor is
missed; and a quiet mailbox is always answered. Their HTTP clients share one deadline and
one byte budget among all requests of an attempt. Correct: an answer is a whole body in
time, within every limit, and a refusal has its cause.

**Booking projection.** Documents arrive in any order, several coupons share a booking, and
a synchronization may bring nothing about a coupon that nevertheless changes. Correct: one
history has one outcome; a cancellation stands until a reinstatement names it; conflicts do
not heal; nothing is shown that the evidence does not explain and no text says in so many
words; what is ready for planning rests on one lifetime.

**Evidence.** Every time comes from a caller: evidence is parsed at one, stored at another,
used at a third, and none of them is ordered. Correct: no session plans on evidence that is
stale, from the future, or another airport's; a name stands for one row whoever uses it.

**Migrations.** Three kinds of repository open one file and die at any statement. Correct: a
migration is there whole or not at all; an open repository keeps what it needs; no file is
made unusable.

**Calendar, replanning, planning.** Sequential, but with boundaries and orders of rules that
are easy to get wrong: a missing fact must not become an all-clear; small drifts must not
add up unnoticed; a narrow beam must not lose the best plan; a trip must not be refused that
could be made.

`PROJECT.json` lists the hazards, each at its line with the properties that would catch it.

## The plan

Order of work, the most consequential behaviour first. "done" is what this directory holds.

1. Itinerary monitoring: store, service, abstract lifecycle, refinement, proofs. *done*
2. Mail synchronization: store, runs, abstract mirror, refinement, proofs. *done*
3. Booking projection: pure projection, repository, proofs. *done*
4. The contract of a mail source, and the two sources held to it, one after the other on
   one account, with proofs. *done*
5. Migrations, with proofs. *done*
6. Planning: calendar agent, search, coordinator over both, with proofs. *done*
7. Calendar conflicts, replanning, both HTTP clients, with proofs. *done*
8. The composition of synchronization and projection, with proofs that it implements both.
   *done*
9. The reading of texts by templates and policies, and what is shown traced back to it. *done*
10. The evidence store, with proofs. *done*
11. Theorems for every invariant and action property that a run checks. *done*
12. *Not done*: type correctness of the search and of the clients as theorems of their
    own; that either source, as a process, takes only the steps that `MailSync` allows a page;
    that what `RefusalNeedsChange` says of one attempt bounds the refusals of an account.

Which module uses which:

    ItineraryRepository <- ItineraryService   --implements-->  AutomaticLifecycle
    MailSource <- MailSync (<- MailRepository) --implements--> MailMirror
    MailSync, BookingRepository <- MailBookings  --implements--> MailSync, BookingRepository
    MailSource <- SourceAttempt <- GmailSource, OutlookSource <- MailSources
                                              (held to the contract MailSync relies on)
    HttpAttempt <- GmailClient, GraphClient <- MailClients
    Booking <- MailReading;  Booking <- BookingRepository;  both <- BookingTexts
    CalendarAgent, BeamSearch <- TripPlanning
    SchemaMigration, CalendarConflict, Replanning, EvidenceStore: on their own
    X <- XProofs, X <- MCX

## Modules and code

Every definition that stands for code has a row in `PROJECT.json` (`map`) with the lines it
stands for; here is how to read the modules.

**`ItineraryRepository`** - the tables of `itinerary/repository.py` as functions:
`itineraries` (revision and presence), `revisions` (append-only contents), `segments` (facts,
presence, revision), `attempts` (per segment and trigger, in order of their numbers),
`automatic` (the summary row). Its operators are the transactions: `ApplySnapshot`,
`StartAttempt`, `FinishAttempt`, recovery of one row. `refresh_runs` and texts are left out.

**`ItineraryService`** - two entry points as a `pc` per caller: take the clock, take the lock
or be refused, recover row by row, refresh (valid, rejected, or in error), dispatch segment
by segment in departure order, start, plan, finish. `Abort` is the death of a process at any
point: its lock goes, its rows stay. `Tick` moves the clock; `now` is read before the lock.
The planner is a choice of COMPLETED or FAILED.

**`AutomaticLifecycle`** - what a segment's automatic execution promises: not activated,
then attempts of which at most one runs and at most one completes, with the number of each.

**`MailSource`** - what a completed answer of a source may say of a mailbox (`FullAnswers`,
`DeltaAnswers`). **`MailRepository`** - `sync`, `flag`, `stored`, `visible`, `runs` and the
two transactions `commit_sync` and `record_sync_failure` with their guards (`Acceptable`,
`AttemptedAfter`). **`MailSync`** - `MailSynchronization.run` as a `pc` per runner over a
`mailbox` that changes: begin, pages up to `MaxPages`, commit or fail, record or be dropped;
`Abort` is a death. How an answer is cut into pages decides only when a run gives up, so a page
carries no part of it. An upgraded database (`Upgraded`) starts without a run, flag or visibility,
but with what migration 1's `store_messages`, `complete_sync` and `sync_failed` may have left:
no row, failures alone, or a cursor with failures after it, and any mail beside what the
cursor stands for, since `complete_sync` never dropped what left the mailbox.
**`MailMirror`** - the abstract mirror: an account's position moves forward in single steps
with the mailbox's view of it, and heals by a full run.

**`SourceAttempt`** - what the two sources share: the `attempt` in hand is one record, the locals
of `sync`; a request replaces it, and other runs (`Retain`) and the mailbox change between
any two. **`GmailSource`** - each request an action: profile, list pages, read messages, history
pages, the final check. The mailbox is a `log` of labelings; a history id is an index of it.
**`OutlookSource`** - the same for folders: inventory, a delta chain per folder (a link is an
index of the log), reads, the quiet round over every folder, the second inventory.
**`MailSources`** - an account of either kind, and the contract both are held to.

**`MailBookings`** - `MailSync` and `BookingRepository` as the one system they are: `Commit`, which
moves an account's checkpoint, and `CommitSync`, which projects the bookings, are conjuncts of one
action, because the code writes both in one transaction. It implements each of the two
alone, so what is proved of them holds here.

**`Booking`** - `project`, the lifetime collision, `planning_readiness` as operators; the walk
over the cancellation barrier is recursive in the number of events. **`BookingRepository`** -
`link` (immutable, per message), `events`, `revisions` (with the evidence linked when they
were written), `current`; one action, `CommitSync`, is the whole of `_project_all` inside
`commit_sync`: new evidence or refusal, then every coupon projected again. A *policy* is what
a deployment reads from a message: it may change between two commits. It begins as a new
database or as one upgraded from migration 1, whose mail was never projected.
**`MailReading`** - what a policy makes of a text: the one template whose subject matches, the
labelled lines of all parts, the grant for the event, and the order and reinstatement that
`northstar_event_v1` adds. A text is a set of label-value pairs; parts that disagree are two
pairs with one label. **`BookingTexts`** - `BookingRepository` whose `Reading` is `EventOf` these texts, so
that what a coupon shows can be compared with what was written.

**`EvidenceStore`** - per session the row it holds of each host table and what its last call was
told; `stored` and `attempts` are the tables, by name; a retrieval brought an observation or an error. `ParseHostRow`, `RequiredHostInput`, `Store`
(`store_observation`) and `RecordRetrieval` are called at any time with any time, name and
segment, again after a lost answer, and by several sessions; `Crash` loses a session's rows and
its answer, not the tables. The callers are external: only tests call this part so far.

**`SchemaMigration`** - a file as a set of executed statements and a history (`ledger`), a
transaction with its draft, and a `pc` per process; three kinds of process differ in the
schema they expect. Synchronizations through open repositories write `cursor` and `mirrored`.

**`CalendarAgent`** - `get_events`, `departure_conflicts` and `free_windows` with its loop, one
meeting a step. **`BeamSearch`** - feasibility, score, ranking, refinement, outcome; time in
ticks, several to a minute, because hosts may propose seconds and refined times drop them.
**`TripPlanning`** - `TravelCoordinator` over both: flight, events, mapping of priorities,
drive, with every error of the agents, then the search; or a host's own context; or a
caller of the calendar agent.

**`CalendarConflict`** - provider, filter, snapshot checks, evaluator. Its properties do not
repeat the rules: `Possibly` and `Surely` say what the facts of an event allow in reality,
whatever its missing facts are, and `LeftOpen` that they leave it open. **`Replanning`** - every rule of the evaluator, inside a trip
in which snapshots arrive, time passes and revised plans are adopted; the trip is external,
modelled from the evaluator's interface.

**`HttpAttempt`** - what the two HTTP clients share: a clock, the request in hand, its deadline, the
bytes received, and what an attempt ends with. **`GmailClient`** - requests, the shared budget, reads
chunk by chunk, and every ending of a request. **`GraphClient`** - the same of
`graph_client.py`: its deadline runs while credentials are fetched, what a chunk may take is
computed anew, an error is read to its end before it is believed, and a status means
different things for a read and for a folder's delta. A few statuses that end in one error with one
retry are one status in both. **`MailClients`** - an attempt through either,
and what both promise.

`MC*` modules give the constants small values. Definitions commented *Mutant* are plausible
bugs; no run uses them as they stand. Replacing the definition below by its mutant makes
TLC report the property that `PROJECT.json` pairs with it, which shows that the property
depends on the code.

## Runs

All runs are exhaustive: `CHECK_DEADLOCK FALSE` appears where an instance really stops
(callers are out of calls, a search has ended). Every bound is a constant that appears in a
guard (`MaxInvocations`, `MaxAborts`, `MaxCalls`, `MaxPages`, `MaxMessages`, `MaxChanges`,
`MaxAttempts`, `MaxHistoryPages`, `MaxRecords`, `MaxOpens`, `MaxSyncs`, `MaxSequence`,
`MaxRequests`, `AttemptLimit`, `Horizon`) or a finite set of inputs (`Times`, `Offered`,
`Batches`, the texts). Of these `MaxPages`, `MaxMessages` of `MailSync`, `MaxHistoryPages`,
`MaxRecords`, `MaxRequests`, `AttemptLimit` and `MaxSequence` are limits of the code, too;
the others belong to the instance.

| Run | Instance | What it shows |
|---|---|---|
| `itinerary` (`MCItineraryService.cfg`, 875 147 states) | two processes, three invocations, one death, three instants, two itineraries of three bookings that move, are cancelled, leave and return | `AutomaticStateMatchesHistory`, `NoUnexpectedExecution`, `AttemptsJustified`, `MonitorLeavesNothingPending`, `ProjectionMatchesRevision`, `ManualIndependent`, `RecordsDurable`; the refinement `ImplementsLifecycle`; `InvocationTerminates` |
| `mail_bookings` (2 540 421) | two runners, two calls, answers of one page or two, one mailbox change, a cancellation and a later change of one coupon on either side of the lookback, new databases and all that migration 1 may have left of them | `MirrorMatchesMailbox`, `CursorCarriesBookings`, `CancellationsReachPlans`, `ExpiryConcernsCheckpoint`; the refinement `ImplementsMirror` |
| `booking_histories` (165 971) | every history of up to four out of twenty-one documents about one coupon, in every order of arrival | `OrderIrrelevant`, `CurrentIsVerdict`, `ConflictPermanent` |
| `booking_family` (20 809) | ten texts about two coupons of one booking, two with parts that disagree; batches of up to two; a policy that reads order and one that does not and grants no cancellation; callers that do or do not authorize the traveler | `Traceable`, `CurrentIsProjection`, `RevisionsExplained`, `ReadyIsSafe`, `ShownIsWritten` |
| `trip_planning` (136 008) | calendars of up to three meetings around midnight, others with an entry twice; flights early, at night and malformed; proposals of up to three leave times, some with seconds; beam 2, depth 3 as in the service | `FreeIsExact`, `UnpenalizedIsFree`, `SelectedIsBest`, `RefusalIsDue` |
| `mail_sources` (7 190 000) | either source: two attempts, two mailbox changes, two folders, two messages on either side of the lower bound | `AnswerKeepsContract`, `RefusalNeedsChange` |
| `schema_migration` (973 801) | one process of each kind and a second `BookingRepository`, four openings, scripts of three, two and two statements | `NoPartialMigration`, `OpenHasItsSchema`, `RefusalIsDue` |
| `schema_bypass` | the same | violation of `NoBypass`, see below |
| `calendar_conflict` (749 962) | every combination of the facts of one event, and of fewer beside one of six others; three queries, four policies, four `as_of` | `VerdictIsSound`, `DoubtIsDue` |
| `replanning` (195 006) | snapshots that differ from a base in one field or in two that the rules relate, any number of polls and adoptions | `KeptPlanStillFits`, `NoEndlessReplanning`, `RevisionsKeepInputs` |
| `mail_clients` (3 300 000) | either client: three requests, bodies below, at and above each limit, a clock of four seconds | `AnswersAreWhole`, `RefusalIsDue` |
| `evidence_store` (285 525) | two sessions that plan one segment and share one name of an observation and one of a retrieval, from either of two accounts and with either of two errors; rows of another segment, airport or permission, simulated, old and from the future | `ReadyOnEvidence`, `AcknowledgedIsStored` |

Why the bounds are enough for the questions asked:

- *itinerary*. An anomaly between invocations needs a run that is interrupted, one that
  finds what it left, and a third (a manual one, or a later monitor) that acts on it: three
  invocations and one death. A lead time of one over three instants gives a booking that
  is not yet due, one that is due, and one that has left; a booking that moves is due, fails, and is
  due again.
- *mail_bookings*. Two calls are two overlapping runs, or one that fails or demands a
  resynchronization and one that heals. What earlier calls may have done is in the rows and
  mail an upgraded database starts with (`Upgraded`): a cursor with or without failures after it,
  an expired one, and mail retained under no cursor. A delta needs an older cursor, so
  one change is enough for the mailbox to differ between two checkpoints; two messages
  let one leave the mailbox or fall behind the lookback while the other stays; that they are a
  cancellation and a later change of one coupon is the order in which losing either would
  show. Longer sequences, as two deltas that overlap after a full run, are left to the proofs.
- *bookings*. The barrier compares a reinstatement with the cancellation it names and what
  lies between: four sequence numbers and four documents contain every such pattern, with
  one document left over to disturb it. A family needs three documents to bar and reinstate
  one coupon and one of its sibling to disturb it.
- *sources*. An attempt reads a message between two changes at most twice; the contract of
  a delta relates the cursor, the start and the end of the attempt, hence two attempts and
  as many changes. A third change of the Outlook mailbox exceeds what TLC explores in
  minutes, because a cursor is a vector of moments.
- *evidence*. Evidence may be parsed, used and stored at times in either order, which two
  instants and an age of none allow; a name is contested by two sessions or by one that
  calls again, with another error or account, or for the same.
- *migrations*. A race needs two that migrate and one that holds the file open; a script of
  two statements can stop between them.
- *calendar, replanning, client*. Numbers lie below, at and above each threshold, and rules
  that look at two fields get both varied together.

Each property speaks of states its run reaches, and each is violated by the mutant paired
with it (`mutants` of `PROJECT.json`). Type invariants are not checked as runs of their own;
where a module has theorems its type invariant is proved.

## Fairness

Only `ItineraryService` states fairness: `FairSpec` adds weak fairness of `Step(c)` for every
caller. A step is the next statement of a process that is running; nothing in the code waits
for another process (the lock is taken with `LOCK_NB` and refused when held, SQLite
transactions are single actions here), so a process that has a next step takes it, unless
it dies, which `Abort` models. Nothing makes a host invoke the service, the clock move or
a process die, so these have no fairness. `InvocationTerminates` holds under it: recovery
and dispatch loop over rows that other invocations leave, and each turn must settle one.

The mail run ends by its page bound, which is a counter; the other components end by
construction or by their callers. They need no liveness property and state no fairness.

## Proofs

Eight modules hold theorems; `tlapm` checks every leaf. They are about the same specifications
TLC checks, for every value of the constants that satisfies the named `ASSUME`s
next to their declarations - in particular without the bounds' values, for any number of
processes, messages, coupons, statements or meetings.

| Module | Theorems (and the property of a run that each states) |
|---|---|
| `ItineraryServiceProofs` | `TypeCorrect`; `AutomaticHistoryHolds` (`AutomaticStateMatchesHistory`); `NeverUnexpected` (`NoUnexpectedExecution`); `ServiceImplementsLifecycle` (`ImplementsLifecycle`); `ManualIsIndependent` (`ManualIndependent`); `RecordsAreDurable` (`RecordsDurable`); `ProjectionHolds` (`ProjectionMatchesRevision`); `MonitorIsThorough` (`MonitorLeavesNothingPending`); `AttemptsAreJustified` (`AttemptsJustified`); `InvocationsShort`; `NeverBlocked` |
| `MailBookingsProofs` | of synchronization: `MailTypeCorrect`; `MirrorHolds` (`MirrorMatchesMailbox`); `AttemptsOrdered`; `ExpiriesConcernCheckpoint` (`ExpiryConcernsCheckpoint`); `SyncImplementsMirror` (`ImplementsMirror`); of the composition: `LiveImplementsSync`; `LiveImplementsBookings`; `BookingsCarried` (`CursorCarriesBookings`); `CancellationsReach` (`CancellationsReachPlans`) |
| `MailSourcesProofs` | of the sources: `AnswersKeepContract` (`AnswerKeepsContract`); `RefusalsNeedChange` (`RefusalNeedsChange`); of their HTTP clients: `AnswersWhole` (`AnswersAreWhole`); `RefusalsDue` (`RefusalIsDue`) |
| `BookingRepositoryProofs` | `NoneLeftBehind` (`CurrentIsProjection`); `ConflictsStay` (`ConflictPermanent`); `EverythingTraceable` (`Traceable`); `RevisionsAuditable` (`RevisionsExplained`); `OneHistoryOneOutcome` (`OrderIrrelevant`); `VerdictShown` (`CurrentIsVerdict`); `ReadyAlwaysSafe` (`ReadyIsSafe`); `ShownWritten` (`ShownIsWritten`) |
| `PlanningProofs` | of the calendar agent: `WindowsExact` (`FreeIsExact`); `WindowsNeverTouch`; of the coordinator: `SearchFindsBest` (`SelectedIsBest`); `RefusedInEarnest` (`RefusalIsDue`); `UnpenalizedPlansFit` (`UnpenalizedIsFree`); `AgentImplemented`; `CoordinatorWindowsExact` (`FreeIsExact`); of the evaluator: `KeptPlansFit` (`KeptPlanStillFits`); `ReplanningEnds` (`NoEndlessReplanning`); `RevisionsKeep` (`RevisionsKeepInputs`) |
| `EvidenceStoreProofs` | `TypeCorrect`; `SessionsAreReadyOnEvidence` (`ReadyOnEvidence`); `AcknowledgedStays` (`AcknowledgedIsStored`); `RetrievalsAreExplained` (`RetrievalsExplained`) |
| `SchemaMigrationProofs` | `MigrationTypeCorrect`; `MigrationsAtomic` (`NoPartialMigration`); `OpenSchemasHold` (`OpenHasItsSchema`); `RefusalsAreDue` (`RefusalIsDue`); `UpgradesOnly` |
| `CalendarConflictProofs` | `VerdictsAreSound` (`VerdictIsSound`); `DoubtsAreDue` (`DoubtIsDue`) |

Together they state every invariant and every action property of the passing runs and both
refinements: what TLC shows of an instance holds of them all.

The assumptions on constants are named where the constants are declared, and TLC evaluates
each. Most are types (sets of integers, functions between the given sets, a value that stands
for nothing and is not one of the others) or signs of the code's limits. Those that say
something of the code's surroundings:

- `SegmentsAssumption` (`ItineraryRepository`): the segments are finitely many, as rows of a table are.
- `FactsAssumption` (`BookingRepository`): two policies that read an event from one message read
  the same facts, which `construct()` enforces. `ReadingIsOfTexts`, `CouponIsOfTexts` and
  `TextAssumption` (`BookingTexts`): readings are of texts, and a text has finitely many lines.
- `ReceivedAssumption` (`MailSource`): a message has one time of receipt. `SourcesAssumption`: the
  inbox is one of the folders.
- `ListAssumption`, `HostAssumption`, `FlightsAssumption` (`TripPlanning`): a tool answers a list, and a
  host's context has passed `context_from_dict`.
- `AgentAssumption` (`CalendarAgent`), `CalendarAssumption` (`CalendarConflict`), `ReplanningAssumption`:
  what the parsers of `contracts.py` and `live/` guarantee of the records.

**Itinerary.** The properties are not inductive: that a monitor finds no running attempt
depends on the lock. `AutomaticInv` adds that whoever is past the lock holds it (`LockHeld`), that
a caller in the middle of planning holds a job whose attempt is the running one (`JobReady`),
and that the mode of a caller fits its place (`ModeMatches`). A death frees the lock and leaves the
running row; recovery settles it before anything else is planned, which is why
`NoUnexpectedExecution` belongs to the same invariant. The refinement maps `phase` to the
summary row and `history` to the states of the attempts; every step of the service starts
one attempt, settles one, or stutters.
That an invocation ends is proved as far as safety reaches. `StepsLeft` counts what a place has
before it, at most 8 + 4n for n segments: `InvocationsShort` says that each step of the invocation
itself lowers it and that nothing another process does raises it, since only the holder of the lock
starts an attempt or lists segments, one transaction of recovery settles one segment, and
the loop takes one off its list. `NeverBlocked` says that the walk and the plan always find what they
need: an earliest departure, and the attempt as it was started. What is left to liveness is that a
step that can be taken is taken.

`ManualIsIndependent` needs only who holds the lock and in which mode. `RecordsAreDurable` follows
row by row: `StartAppends` and `FinishSettles` say what the two transactions leave alone, and
`AttemptsChange` that nothing else touches an attempt. That the tables are a projection rests on
`ProjectionInv`: revisions are numbered in order, and each segment row is what the latest revision
that mentions it says. That a monitor is thorough rests on `WalkInv`, the invariant of its loop: the
segments still listed are as the tables have them, and every segment inside the window is listed,
in hand, or settled at this clock (`Accounted`); it is kept by everyone else's steps because the
walker holds the lock. An attempt is justified by the revision that was current when it was made
(`Justified`), and revisions stay.

**Mail.** `SyncInv` says what a run may rely on while others commit: cursors name positions the
mailbox has had; the window of a cursor lies behind the attempt that made it; recorded runs
lie behind the checkpoint; what the store held at a run's start it still holds; and the pages
a run has collected describe the mailbox at the position of its answer
(`AnswersDescribeMailbox`). A commit is then correct because its guard compares the checkpoint
with the one the run started from, and a delta is hints over a mirror that was exact there.
The proof uses of a source only the contract in `MailSource`, to which the next proof holds both.
A failure demands a resynchronization only where `AttemptedAfter` and the checkpoint read at the
start still agree, which is all that `ExpiryStep` needs.

**Sources.** A mailbox is a log, so that what an attempt has read at different moments can be
compared with one of them. `GmailLogInv` and `OutlookLogInv` say what no history does (a deleted
message stays deleted; what no change touches in a folder stays there), the store's part what
cursors stand for, and the rest, place by place, what the locals tell of the mailbox *if* nothing has
happened since the moment the attempt will check. For Gmail that moment is the history id of the
checkpoint: the answer is shown exact under the condition `Len(log) = checkpoint`, and the final
profile check makes the condition true. Outlook has one link per folder and no common moment, so a
folder's link stands for the interval in which nothing happened in it (`Still`); the invariant of the
quiet round is that what is told is true of the moment of the first folder seen again, provided the
folders still to be seen were still until then (`OutlookCheckingInv`): each quiet delta discharges its
folder. A refusal needs a change because in a log that has not grown since the start
everything named can be read (`OutlookReadableInv`), every folder is quiet, and both inventories agree.

**HTTP clients.** A Gmail response has one limit, fixed when its body begins: `GmailBudget` says that it
is the tightest of three and that what the attempt had received before is counted in it, which
gives both directions - within it all limits hold, beyond it one is exceeded. Graph computes the
allowance anew for each chunk, so there the bound itself is invariant (`GraphBodyInv`). A chunk of
zero bytes is the end of a body only because at least one byte is always asked for (`GmailChunk`); that
is where a limit that is not inclusive would break the proof.

**Bookings.** `TraceInv` strengthens traceability with the facts about links that a new message
must respect. That conflicts stay rests on `ConflictGrows`: the conflict of a set of documents is
monotone.

What the walk over the cancellation barrier computes is shown by induction on the airline's
sequence number. The walk is a recursive function, and the library's induction theorems
take an operator as a parameter; `LeastNumber` and `Induct` state induction over a *set* of numbers
instead, from the well-foundedness of `<`. `StepsExist` then gives a function that satisfies the
equations, `WalkSteps` that the walk is its last value, and `FoundFurther` one step of the claim `Found`:
after the numbers up to n the walk holds the last cancellation that nothing reinstated, or else the newest
event, or is broken by a reinstatement that names nothing. `ProjectionIsVerdict` compares this with the
reading of the whole history in airline order; that order of arrival is irrelevant and that what is
ready is safe follow from it. `ShownIsWritten` needs no walk: what is shown is an event of its coupon
(`ShownIsEvent`), events are readings (`LinksAreReadings`), and a reading repeats its text
(`EventRepeats`), where a unanimous label has one value because a text has finitely many lines.

**Mail and bookings.** Each step of the composition is a step of `MailSync` (`StepOfSync`) and one of
`BookingRepository` or a stutter (`StepOfBookings`); the invariant of the first is therefore at
hand. That a cursor never outruns the bookings is then `AllCarried`: a commit reads all
retained mail again, so whatever is retained after it is linked and shown; and the mirror says that
what the mailbox showed at the cursor is retained. `CancellationsReachPlans` relates mail and its
`Reading` to what is published, with nothing between presupposed. `Sourced` is what lies
between: mail is linked to what some policy read from it, and every event was read from retained
mail of its coupon. So mail read as a cancellation is an event of its coupon, no
event of the coupon reinstates it unless mail does, and what is shown projects the coupon's
events (`Projecting`); without a reinstatement a walk
that has met the barrier stays behind it (`StaysBarred`, `WalkEndsBarred`), and a history with a conflict or
without authority is not booked either (`CancelledIsNotBooked`).

**Evidence.** A row is explained by the observation it was made from, so `IInv` says what every
observation a session holds went through (`HeldWereAccepted`) and where every row is filed
(`RowsAreFiled`). A name that is taken is only ever written with the row it has
(`InsertedIsNew`), which keeps every earlier promise.

**Migrations.** `IInv` says what an open transaction has done and will have done when it commits:
its draft is a prefix of the pending statements, and no other process changes the file while
it is open. A refusal is then due because a committed schema is always a union of whole
scripts, so that only the V8 script, which runs outside a transaction, can be there in half.

**Calendar conflicts.** The rules are right about one event (`AssessIsSound`, by the order of the
rules); the filter hides no event that could matter (`UnselectedIsClear`); between the read and
the judgement the snapshot is what the filter selects. An unreliable verdict has its reason by
`UnknownIsDue`: what no rule settles may be a commitment (`UnsettledIsPossible`), and what a rule
doubts may be none (`UnresolvedIsUnsure`), so that an event doubted before it is settled would
have no reason.

**Calendar agent.** The loop keeps: before the cursor, the windows are exactly the instants that
no visited meeting takes (`ExactBeforeCursor`); after it, no visited meeting takes any
(`ClearAfterCursor`); and windows lie apart. The order of the visits is what keeps the first.
The theorems are about `AgentSpec`; every step of `TripPlanning` is one of it or a stutter
(`AgentImplemented`), so they hold of the coordinator's callers, too.

**Planning.** The search keeps that the first plan of the beam is the best of *all* plans evaluated
(`Chosen`), although most of them were dropped: the ranking is a strict order on distinct plans
(`StrictRanking`), the beam takes the first places of it (`PlacesTaken`, `RankKeepsBest`), and a
refinement's pool contains the beam. For refusals `Gained` says that while the best plan is late every
refinement has made it ten minutes less late than the best proposal: the plan ten minutes earlier
is in the pool, and lateness falls with the leave time and decides before anything else. The sum of
penalties is a fold over the set of entries, numbered where two are alike; `PenaltiesAdd` and `PenaltiesCount` say, by induction, that it is
zero only where no meeting costs anything.

**Replanning.** An evaluation is always one of the plan, the snapshot and the state at hand
(`EvaluationInv`); a kept plan then has nothing missing and no cause, every amount grew by less than its
threshold (`GrewLittle`), and the sum of the tolerances bounds the sum of the drifts.

**Only model-checked.** `InvocationTerminates`: liveness under fairness, and with it anything about
`ENABLED`, is outside what TLAPS supports; its safety halves are `InvocationsShort` and `NeverBlocked`. `NoBypass` is violated, and its run is the evidence. The
other way round, `InvocationsAreShort`, `NothingBlocks`, `AttemptsInOrder`, `RetrievalsExplained`,
`WindowsApart`, `OnlyUpgrades` and the
implementation of `BookingRepository` are proved and no run checks them.

## Where code and documents disagree

`schema_bypass`: `V9_IMPLEMENTATION_PLAN.md:855-859` says that the inherited cursor-only
`complete_sync` is refused and that `LiveRepository` refuses a migration-2 schema.
`LiveRepository` checks the schema when it opens and never again. One that was opened before
another process upgraded the file still commits `complete_sync` on it
(`live/repository.py:124`): a cursor whose messages get no visibility and whose removals are
dropped. TLC shows the shortest such history as a violation of `NoBypass`.

## Observations

Not disagreements, but worth knowing; each was met while modelling.

*Itinerary.* The clock is read before the lock is taken, so an invocation may decide at a time
earlier than one that finished before it. No document orders the times of invocations.

*Mail.* A run's `CURSOR_EXPIRED` is dropped when another run recorded a failure in between; the
next run meets it again. A database upgraded from migration 1 has no visibility rows until
the first full run, which is the premise `HasFullRun` of the mirror. A deployment whose policy reads a
linked message differently refuses every commit until the policy is restored
("explicit reprocessing required").

*Sources.* Gmail's final profile check adds nothing to a full attempt, whose quiet history
already compared, and is essential for a delta. Outlook relies on a folder delta naming also a message
that came and went between two rounds; a folder hidden and shown again between the
inventories goes unnoticed, harmlessly; a 404 for a folder's delta in the quiet round of a full
attempt is reported as an expired cursor.

*HTTP clients.* Gmail's timeout is fixed before the token is fetched and the deadline counted from
after it, so the check that the attempt makes after a request is what refuses an answer
that is too late. Graph needs none: its deadline runs while credentials are fetched. A 403
of Gmail whose explanation exceeds the diagnostic limit is a denied permission, also if it
names a rate limit.

*Bookings.* A text whose parts disagree about the facts is unresolved and has no effect; one whose
parts disagree about its order is an event with issues, and bars its coupon for good.

*Evidence.* The airport of a host's row and the permission of a location are checked when the row
is parsed and never again; `ReadyOnEvidence` holds because a session asks with the same
airport and permissions. One that loses a permission keeps the location read under it.

*Demonstration.* `hitl.py` compares a proposed slot with the current times of the other meetings,
not with slots it has just proposed for them: two proposals may overlap each other. Nothing
applies them.

*Migrations.* A V8 script that stopped half way is refused by the migrations and completed by
opening the file as an `ItineraryRepository` again.

*Calendar.* `as_of` is given before the read, so with a provider that stamps later than it every
verdict is UNKNOWN. Tentative events that the policy ignores, and all-day events, stay UNKNOWN when their
availability is unknown; that is the documented policy.

*Replanning.* A cancelled flight asks for a new plan at every poll, because no reliable plan
exists to adopt. An unknown terminal in an adopted plan hides a later change of terminal. After
arrival a road input that was missing still counts as recovered.

*Planning.* A refined leave time is written to the minute, so the history of a plan proposed with seconds
accounts for its leave time only to within a minute. Only the flight's day is fetched: a plan
that leaves the evening before a flight in the small hours is scored without that evening's
meetings, which is the premise of `UnpenalizedIsFree`.

## What is not modelled

- **MIME and normalization** (`live/gmail_mime.py`, `live/graph_normalization.py`): bytes in, a text or a
  refusal out; a refusal ends an attempt (`Abandon`). Nested folders are one level here.
- **Of the HTTP clients**: the validation of URLs, links and headers, tokens, and `Retry-After`,
  which no caller reads.
- **Of templates**: the formats of dates, flights and references (a value that no pattern
  accepts is one outside the sets), and the check that a parser keeps its declaration.
- **Of the evidence store**: the values read, the names of their sources and the V8 segment id,
  which are compared as parts of a row and decide nothing; `live/time.py` and `live/config.py`.
- **Message versions, `sync_projections`, `refresh_runs`, backups**: audit rows and files
  that no decision reads.
- **MCP adapter, composition, mock provider, demonstrations**: translation, wiring and scripts
  over fixtures. They keep no state between two calls and decide nothing that a modelled
  part does not; every tool of the adapter is one call of a modelled entry point.
- **Time zones, texts, tokens, URLs, JSON, wording**: a property about them would be about a
  library. Times are integers; local times carry no zone in the code either.

## Running the checks

    tlc -workers 2 -config MCMailBookings.cfg MCMailBookings.tla
    tlapm MailBookingsProofs.tla

`PROJECT.json` names the module and the configuration of every run. The longest run takes
about two minutes with two workers.
