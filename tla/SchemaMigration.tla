--------------------------- MODULE SchemaMigration ---------------------------
(***************************************************************************)
(* Processes that open one database file as an ItineraryRepository         *)
(* (travel_agent/itinerary/repository.py), a LiveRepository                *)
(* (live/migrations.py) or a BookingRepository (live/projection_           *)
(* migrations.py), fail or die at any statement, open it again, and        *)
(* synchronize mail with what they opened.                                 *)
(*                                                                         *)
(* The schema is the set of statements that have taken effect, numbered in *)
(* the order of the three scripts.  SQLite is external: a transaction sees *)
(* and leaves all or nothing, one process at a time has one that writes,   *)
(* and outside a transaction every statement is one of its own.  Left out  *)
(* are the check of foreign keys, which only refuses, the optional backup, *)
(* which only reads, and files altered by others.                          *)
(***************************************************************************)
EXTENDS Integers, FiniteSetsExt

CONSTANTS
  Itinerary, Live, Booking,            \* processes, by what they open
  LegacySize, LiveSize, BookingSize,   \* statements of the three scripts
  Nobody,     \* where no process has a transaction
  MaxOpens,   \* bound on attempts to open
  MaxSyncs    \* bound on synchronizations

NoSync == -1

Processes == Itinerary \cup Live \cup Booking

ASSUME KindsAssumption ==
  Itinerary \cap Live = {} /\ Itinerary \cap Booking = {} /\ Live \cap Booking = {}
ASSUME NobodyAssumption == Nobody \notin Processes
ASSUME SizesAssumption == LegacySize \in Nat \ {0} /\ LiveSize \in Nat \ {0} /\ BookingSize \in Nat \ {0}
ASSUME OpensAssumption == MaxOpens \in Nat /\ MaxSyncs \in Nat

VARIABLES
  schema,      \* statements that have taken effect
  ledger,      \* schema_migrations: for each version its applied_at, 0 without a row
  cursor,      \* cursor of the account's checkpoint, 0 without one
  mirrored,    \* the last cursor committed with the visibility of its messages
  writer,      \* process with an open transaction
  draft, draftLedger,   \* schema and ledger as that transaction sees them
  pc,          \* of each process
  asOf,        \* of each process, the time it opens at
  held,        \* of each process, the cursor its synchronization started from, or NoSync
  opens        \* attempts to open so far; also the clock

files == <<schema, ledger, cursor, mirrored>>
transaction == <<writer, draft, draftLedger>>
vars == <<files, transaction, pc, asOf, held, opens>>

LegacyStatements == 1..LegacySize
LiveStatements == LegacySize + 1..LegacySize + LiveSize
BookingStatements == LegacySize + LiveSize + 1..LegacySize + LiveSize + BookingSize
Versions == {1, 2}
Script(version) == IF version = 1 THEN LiveStatements ELSE BookingStatements

LegacySchema == LegacyStatements
LiveSchema == LegacyStatements \cup LiveStatements
BookingSchema == LiveSchema \cup BookingStatements

States == {"closed", "script", "begin", "migrate", "open", "refused"}

TypeOK ==
  /\ schema \in SUBSET BookingSchema /\ draft \in SUBSET BookingSchema
  /\ ledger \in [Versions -> Nat] /\ draftLedger \in [Versions -> Nat]
  /\ cursor \in Nat /\ mirrored \in Nat
  /\ writer \in Processes \cup {Nobody}
  /\ pc \in [Processes -> States]
  /\ asOf \in [Processes -> Nat] /\ held \in [Processes -> Nat \cup {NoSync}]
  /\ opens \in Nat
  /\ \A p \in Processes : pc[p] = "migrate" <=> writer = p

Init ==
  /\ schema = {} /\ ledger = [v \in Versions |-> 0] /\ cursor = 0 /\ mirrored = 0
  /\ writer = Nobody /\ draft = {} /\ draftLedger = [v \in Versions |-> 0]
  /\ pc = [p \in Processes |-> "closed"]
  /\ asOf = [p \in Processes |-> 0] /\ held = [p \in Processes |-> NoSync]
  /\ opens = 0

(***************************************************************************)
(* Opening.                                                                *)
(***************************************************************************)

Open(p) ==
  /\ pc[p] \in {"closed", "refused"} /\ opens < MaxOpens
  /\ opens' = opens + 1
  /\ asOf' = [asOf EXCEPT ![p] = opens + 1]
  /\ pc' = [pc EXCEPT ![p] = IF p \in Itinerary THEN "script" ELSE "begin"]
  /\ held' = [held EXCEPT ![p] = NoSync]
  /\ UNCHANGED <<files, transaction>>

\* A statement of the V8 script, which runs outside a transaction: the first that
\* is missing.  The ones before it are there, and there they do nothing.
ScriptStatement(p) ==
  /\ pc[p] = "script" /\ writer = Nobody
  /\ LegacyStatements \ schema # {}
  /\ schema' = schema \cup {Min(LegacyStatements \ schema)}
  /\ UNCHANGED <<ledger, cursor, mirrored, transaction, pc, asOf, held, opens>>

ScriptDone(p) ==
  /\ pc[p] = "script" /\ LegacyStatements \subseteq schema
  /\ pc' = [pc EXCEPT ![p] = "open"]
  /\ UNCHANGED <<files, transaction, asOf, held, opens>>

Target(p) == IF p \in Live THEN LiveSchema ELSE BookingSchema

\* Mutant: a script that another process has begun counts as one that is complete.
AnyLegacy(p) == SUBSET LegacySchema \cup {LiveSchema, Target(p)}

\* Mutant: only a new file or the newest schema is accepted.
NewOrTarget(p) == {{}, Target(p)}

\* Schemas that a migration starts from.
Recognized(p) == {{}, LegacySchema, LiveSchema, Target(p)}

\* The rows of the history are those of the scripts that have run.
HistoryMatches == \A v \in Versions : ledger[v] > 0 <=> Script(v) \subseteq schema

Begin(p) ==
  /\ pc[p] = "begin" /\ writer = Nobody
  /\ IF schema \in Recognized(p) /\ HistoryMatches
     THEN /\ pc' = [pc EXCEPT ![p] = "migrate"]
          /\ writer' = p /\ draft' = schema /\ draftLedger' = ledger
     ELSE /\ pc' = [pc EXCEPT ![p] = "refused"]
          /\ UNCHANGED transaction
  /\ UNCHANGED <<files, asOf, held, opens>>

\* Statements still to run; on a file that is not new, none of the V8 script.
Pending(p) == (IF schema = {} THEN Target(p) ELSE Target(p) \ LegacyStatements) \ draft

Unrecorded(v) == draftLedger[v] = 0

\* Scripts that have run without leaving their row.
Recordable(p) == {v \in Versions : Script(v) \subseteq draft /\ Unrecorded(v)}

\* Mutant: statements of a migration commit one by one, as those of a script do.
StatementCommits == draft'

\* A statement inside a transaction leaves the file as it is.
InTransaction == schema

\* Nobody sees in which order.
Statement(p, statement) ==
  /\ pc[p] = "migrate" /\ Recordable(p) = {} /\ statement \in Pending(p)
  /\ draft' = draft \cup {statement}
  /\ schema' = InTransaction
  /\ UNCHANGED <<ledger, cursor, mirrored, writer, draftLedger, pc, asOf, held, opens>>

Record(p, v) ==
  /\ pc[p] = "migrate" /\ v \in Recordable(p)
  /\ draftLedger' = [draftLedger EXCEPT ![v] = asOf[p]]
  /\ UNCHANGED <<files, writer, draft, pc, asOf, held, opens>>

NoTransaction == writer' = Nobody /\ draft' = {} /\ draftLedger' = [v \in Versions |-> 0]

CommitMigration(p) ==
  /\ pc[p] = "migrate" /\ Recordable(p) = {} /\ Pending(p) = {}
  /\ schema' = draft /\ ledger' = draftLedger
  /\ NoTransaction
  /\ pc' = [pc EXCEPT ![p] = "open"]
  /\ UNCHANGED <<cursor, mirrored, asOf, held, opens>>

Rollback(p) == IF writer = p THEN NoTransaction ELSE UNCHANGED transaction

\* A statement fails, also for a lock held elsewhere, the process dies, or it
\* closes what it has opened.
Stop(p) ==
  /\ pc[p] # "closed"
  /\ pc' = [pc EXCEPT ![p] = "closed"]
  /\ Rollback(p)
  /\ UNCHANGED <<files, asOf, held, opens>>

(***************************************************************************)
(* Synchronizations through an open repository.                            *)
(***************************************************************************)

\* The state a synchronization starts from.
SyncState(p) ==
  /\ pc[p] = "open" /\ p \in Live \cup Booking
  /\ held' = [held EXCEPT ![p] = cursor]
  /\ UNCHANGED <<files, transaction, pc, asOf, opens>>

NewCursor(p) ==
  /\ pc[p] = "open" /\ writer = Nobody
  /\ held[p] = cursor /\ cursor < MaxSyncs
  /\ cursor' = cursor + 1
  /\ held' = [held EXCEPT ![p] = NoSync]
  /\ UNCHANGED <<schema, ledger, transaction, pc, asOf, opens>>

\* LiveRepository.complete_sync: messages and cursor.
CompleteSync(p) ==
  /\ p \in Live
  /\ NewCursor(p)
  /\ UNCHANGED mirrored

\* BookingRepository.commit_sync: messages, removals, visibility and cursor.
CommitSync(p) ==
  /\ p \in Booking
  /\ NewCursor(p)
  /\ mirrored' = cursor'

Next ==
  \E p \in Processes :
    \/ Open(p) \/ ScriptStatement(p) \/ ScriptDone(p)
    \/ Begin(p) \/ CommitMigration(p) \/ Stop(p)
    \/ \E statement \in BookingSchema : Statement(p, statement)
    \/ \E v \in Versions : Record(p, v)
    \/ SyncState(p) \/ CompleteSync(p) \/ CommitSync(p)

Spec == Init /\ [][Next]_vars

(***************************************************************************)
(* Properties.                                                             *)
(***************************************************************************)

\* Wherever processes die, and whoever opens the file meanwhile, a migration is
\* there with all of its statements and its row of the history, or not at all; only
\* the V8 script, which has no transaction, can be there in part.
NoPartialMigration ==
  /\ \E n \in 0..LegacySize : schema = 1..n \/ schema \in {LiveSchema, BookingSchema}
  /\ HistoryMatches

\* An open repository finds what it needs for as long as it is open, whatever
\* others do to the file.
OpenHasItsSchema ==
  \A p \in Processes :
    pc[p] = "open" => (IF p \in Itinerary THEN LegacySchema ELSE Target(p)) \subseteq schema

\* Nothing that has taken effect is undone, and the history is never rewritten:
\* opening again is no new migration.
OnlyUpgrades ==
  [][/\ schema \subseteq schema'
     /\ \A v \in Versions : ledger[v] > 0 => ledger'[v] = ledger[v]]_vars

\* A file is refused only for a V8 script that stopped half way, or by a
\* LiveRepository because a BookingRepository has upgraded it: no failure or race
\* of migrations makes a file unusable.
RefusalIsDue ==
  [][\A p \in Processes :
       pc[p] = "begin" /\ pc'[p] = "refused" =>
         \/ LegacyStatements \cap schema # {} /\ LegacyStatements \ schema # {}
         \/ p \in Live /\ schema = BookingSchema]_vars

\* Documented: once bookings are synchronized, no cursor is committed without the
\* visibility of its messages; a LiveRepository refuses such a file.
NoBypass == mirrored > 0 => cursor = mirrored
=============================================================================
