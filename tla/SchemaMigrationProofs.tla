------------------------ MODULE SchemaMigrationProofs ------------------------
(***************************************************************************)
(* What TLAPS proves of SchemaMigration for any number of processes and    *)
(* any sizes of the three scripts: migrations are there whole or not at    *)
(* all, open repositories keep the schema they need, and nothing is undone.*)
(***************************************************************************)
EXTENDS SchemaMigration, TLAPS

(***************************************************************************)
(* The inductive invariant: besides the properties themselves, what an     *)
(* open transaction has and will have done.                                *)
(***************************************************************************)

\* Only an ItineraryRepository runs the V8 script, and what migrates has a time.
Dated ==
  \A p \in Processes :
    /\ pc[p] = "script" => p \in Itinerary
    /\ pc[p] \in {"begin", "migrate"} => asOf[p] > 0

Migrating ==
  writer # Nobody =>
    /\ schema \in Recognized(writer)
    /\ schema \subseteq draft /\ draft \subseteq Target(writer)
    /\ \A v \in Versions : draftLedger[v] > 0 => Script(v) \subseteq draft
    /\ \A v \in Versions : ledger[v] > 0 => draftLedger[v] = ledger[v]

IInv == TypeOK /\ Dated /\ Migrating /\ NoPartialMigration /\ OpenHasItsSchema

(***************************************************************************)
(* The scripts.                                                            *)
(***************************************************************************)

\* No part of the V8 script contains a statement of a migration.
LEMMA PrefixLacksScripts ==
  ASSUME NEW n \in 0..LegacySize, NEW v \in Versions
  PROVE  ~(Script(v) \subseteq 1..n)
<1>1. CASE v = 1
  <2>1. LegacySize + 1 \in LiveStatements /\ LegacySize + 1 \notin 1..n
    BY SizesAssumption DEF LiveStatements
  <2> QED BY <1>1, <2>1 DEF Script
<1>2. CASE v = 2
  <2>1. LegacySize + LiveSize + 1 \in BookingStatements /\ LegacySize + LiveSize + 1 \notin 1..n
    BY SizesAssumption DEF BookingStatements
  <2> QED BY <1>2, <2>1 DEF Script
<1> QED BY <1>1, <1>2 DEF Versions

\* Which migrations the complete schemas contain.
LEMMA ScriptsOfSchemas ==
  /\ Script(1) \subseteq LiveSchema /\ ~(Script(2) \subseteq LiveSchema)
  /\ Script(1) \subseteq BookingSchema /\ Script(2) \subseteq BookingSchema
<1>1. LegacySize + LiveSize + 1 \in BookingStatements /\ LegacySize + LiveSize + 1 \notin LiveSchema
  BY SizesAssumption DEF BookingStatements, LiveSchema, LegacyStatements, LiveStatements
<1> QED BY <1>1 DEF Script, LiveSchema, BookingSchema

\* The first missing statement of a script extends the part that has run.
LEMMA NextStatement ==
  ASSUME NEW n \in 0..LegacySize, LegacyStatements \ (1..n) # {}
  PROVE  n + 1 \in 0..LegacySize /\ (1..n) \cup {Min(LegacyStatements \ (1..n))} = 1..(n + 1)
<1> DEFINE rest == LegacyStatements \ (1..n)
<1>1. n < LegacySize
  BY SizesAssumption DEF LegacyStatements
<1>2. n + 1 \in rest /\ \A y \in rest : n + 1 <= y
  BY <1>1, SizesAssumption DEF LegacyStatements
<1>3. \A x \in rest : (\A y \in rest : x <= y) => x = n + 1
  BY <1>2, SizesAssumption DEF LegacyStatements
<1>4. Min(rest) = n + 1
  BY <1>2, <1>3 DEF Min
<1>5. (1..n) \cup {n + 1} = 1..(n + 1)
  BY <1>1, SizesAssumption
<1> QED BY <1>1, <1>4, <1>5, SizesAssumption

-----------------------------------------------------------------------------
(* One step lemma for each action that touches the schema.                  *)

\* Statements of the V8 script keep the schema a prefix of it.
LEMMA ScriptStatementPreserves ==
  ASSUME IInv, NEW p \in Processes, ScriptStatement(p)
  PROVE  IInv'
<1>1. PICK n \in 0..LegacySize : schema = 1..n
  <2>1. \A s \in {LiveSchema, BookingSchema} : LegacyStatements \ s = {}
    BY DEF LiveSchema, BookingSchema
  <2>2. schema \notin {LiveSchema, BookingSchema}
    BY <2>1 DEF ScriptStatement
  <2> QED BY <2>2 DEF IInv, NoPartialMigration
<1>2. n + 1 \in 0..LegacySize /\ schema' = 1..(n + 1)
  BY <1>1, NextStatement DEF ScriptStatement
<1>3. schema \subseteq schema' /\ schema' \subseteq BookingSchema
  <2>1. 1..(n + 1) \subseteq LegacyStatements /\ 1..n \subseteq 1..(n + 1)
    BY <1>2, SizesAssumption DEF LegacyStatements
  <2> QED BY <1>1, <1>2, <2>1 DEF BookingSchema, LiveSchema
<1>4. TypeOK' /\ Dated'
  BY <1>3 DEF IInv, TypeOK, Dated, ScriptStatement, transaction
<1>5. Migrating'
  BY DEF ScriptStatement, Migrating, transaction
<1>6. NoPartialMigration'
  <2>1. \A v \in Versions : ~(Script(v) \subseteq schema) /\ ~(Script(v) \subseteq schema')
    BY <1>1, <1>2, PrefixLacksScripts
  <2>2. HistoryMatches'
    BY <2>1 DEF IInv, NoPartialMigration, HistoryMatches, ScriptStatement
  <2> QED BY <1>2, <2>2 DEF NoPartialMigration
<1>7. OpenHasItsSchema'
  BY <1>3 DEF IInv, OpenHasItsSchema, ScriptStatement, Target
<1> QED BY <1>4, <1>5, <1>6, <1>7 DEF IInv

\* What a schema that a migration starts from allows the process to reach.
LEMMA RecognizedWithinTarget ==
  ASSUME NEW p \in Processes, NEW s \in Recognized(p)
  PROVE  s \subseteq Target(p) /\ (s # {} => LegacyStatements \subseteq s)
BY DEF Recognized, Target, LegacySchema, LiveSchema, BookingSchema

LEMMA BeginPreserves ==
  ASSUME IInv, NEW p \in Processes, Begin(p)
  PROVE  IInv'
<1>1. CASE schema \in Recognized(p) /\ HistoryMatches
  <2>1. TypeOK'
    <3>1. \A q \in Processes : pc[q] # "migrate"
      BY NobodyAssumption DEF IInv, TypeOK, Begin
    <3>2. pc' = [pc EXCEPT ![p] = "migrate"] /\ writer' = p
      BY <1>1 DEF Begin
    <3>3. \A q \in Processes : pc'[q] = "migrate" <=> writer' = q
      BY <3>1, <3>2 DEF IInv, TypeOK
    <3> QED BY <1>1, <3>2, <3>3 DEF IInv, TypeOK, Begin, files, States
  <2>2. Dated'
    BY <1>1 DEF IInv, TypeOK, Dated, Begin
  <2>3. Migrating'
    <3>1. schema \subseteq Target(p)
      BY <1>1, RecognizedWithinTarget
    <3>2. \A v \in Versions : ledger[v] > 0 => Script(v) \subseteq schema
      BY <1>1 DEF HistoryMatches
    <3>3. writer' = p /\ draft' = schema /\ draftLedger' = ledger /\ schema' = schema /\ ledger' = ledger
      BY <1>1 DEF Begin, files
    <3>4. Recognized(p)' = Recognized(p) /\ Target(p)' = Target(p)
      BY DEF Recognized, Target
    <3> QED BY <1>1, <3>1, <3>2, <3>3, <3>4 DEF Migrating, Recognized, Target, Script
  <2>4. NoPartialMigration' /\ OpenHasItsSchema'
    BY <1>1 DEF IInv, NoPartialMigration, HistoryMatches, OpenHasItsSchema, Begin, files, TypeOK, Target
  <2> QED BY <2>1, <2>2, <2>3, <2>4 DEF IInv
<1>2. CASE ~(schema \in Recognized(p) /\ HistoryMatches)
  <2>1. TypeOK'
    BY <1>2 DEF IInv, TypeOK, Begin, files, transaction, States
  <2>2. Dated' /\ Migrating'
    BY <1>2 DEF IInv, TypeOK, Dated, Migrating, Begin, files, transaction, Recognized, Target
  <2>3. NoPartialMigration' /\ OpenHasItsSchema'
    BY <1>2 DEF IInv, NoPartialMigration, HistoryMatches, OpenHasItsSchema, Begin, files, TypeOK, Target
  <2> QED BY <2>1, <2>2, <2>3 DEF IInv
<1> QED BY <1>1, <1>2

\* Inside a transaction nothing reaches the file.
LEMMA StatementPreserves ==
  ASSUME IInv, NEW p \in Processes, NEW statement \in BookingSchema, Statement(p, statement)
  PROVE  IInv'
<1>1. writer = p /\ writer' = p
  BY DEF IInv, TypeOK, Statement
<1>2. schema' = schema /\ ledger' = ledger
  BY DEF Statement, InTransaction
<1>3. TypeOK' /\ Dated'
  BY <1>1, <1>2 DEF IInv, TypeOK, Dated, Statement
<1>4. statement \in Target(p) /\ draft' = draft \cup {statement} /\ draftLedger' = draftLedger
  BY DEF Statement, Pending
<1>5. Migrating'
  BY <1>1, <1>2, <1>4, NobodyAssumption DEF IInv, Migrating, Recognized, Target, Script
<1>6. NoPartialMigration' /\ OpenHasItsSchema'
  BY <1>2 DEF IInv, NoPartialMigration, HistoryMatches, OpenHasItsSchema, Statement, Target
<1> QED BY <1>3, <1>5, <1>6 DEF IInv

LEMMA RecordPreserves ==
  ASSUME IInv, NEW p \in Processes, NEW v \in Versions, Record(p, v)
  PROVE  IInv'
<1>1. writer = p /\ writer' = p /\ asOf[p] > 0
  BY DEF IInv, TypeOK, Dated, Record
<1>2. schema' = schema /\ ledger' = ledger /\ draft' = draft
  BY DEF Record, files
<1>3. TypeOK' /\ Dated'
  BY <1>1, <1>2 DEF IInv, TypeOK, Dated, Record, files
<1>4. Script(v) \subseteq draft /\ draftLedger[v] = 0
  BY DEF Record, Recordable, Unrecorded
<1>5. draftLedger' = [draftLedger EXCEPT ![v] = asOf[p]]
  BY DEF Record
<1>6. ledger[v] = 0
  BY <1>1, <1>4, NobodyAssumption DEF IInv, Migrating, TypeOK
<1>7. Migrating'
  BY <1>1, <1>2, <1>4, <1>5, <1>6, NobodyAssumption DEF IInv, TypeOK, Migrating, Recognized, Target, Script
<1>8. NoPartialMigration' /\ OpenHasItsSchema'
  BY <1>2 DEF IInv, NoPartialMigration, HistoryMatches, OpenHasItsSchema, Record, Target
<1> QED BY <1>3, <1>7, <1>8 DEF IInv

\* What a transaction commits is one of the two complete schemas, with its rows.
LEMMA CommitIsComplete ==
  ASSUME IInv, NEW p \in Processes, CommitMigration(p)
  PROVE  /\ writer = p
         /\ schema' = Target(p) /\ schema \subseteq schema'
         /\ \A v \in Versions : draftLedger[v] > 0 <=> Script(v) \subseteq draft
         /\ \A v \in Versions : ledger[v] > 0 => draftLedger[v] = ledger[v]
<1>1. writer = p /\ p # Nobody
  BY NobodyAssumption DEF IInv, TypeOK, CommitMigration
<1>2. schema \in Recognized(p) /\ schema \subseteq draft /\ draft \subseteq Target(p)
  BY <1>1 DEF IInv, Migrating
<1>3. draft = Target(p)
  BY <1>2, RecognizedWithinTarget DEF CommitMigration, Pending
<1>4. schema' = draft
  BY DEF CommitMigration
<1>5. ASSUME NEW v \in Versions
      PROVE  draftLedger[v] > 0 <=> Script(v) \subseteq draft
  BY <1>1, <1>5 DEF IInv, TypeOK, Migrating, CommitMigration, Recordable, Unrecorded
<1> QED BY <1>1, <1>2, <1>3, <1>4, <1>5 DEF IInv, Migrating

LEMMA CommitPreserves ==
  ASSUME IInv, NEW p \in Processes, CommitMigration(p)
  PROVE  IInv'
<1>1. writer = p /\ schema' = Target(p) /\ schema \subseteq schema' /\ ledger' = draftLedger /\ schema' = draft
  BY CommitIsComplete DEF CommitMigration
<1>2. TypeOK'
  BY <1>1, NobodyAssumption DEF IInv, TypeOK, CommitMigration, NoTransaction, States
<1>3. Dated' /\ Migrating'
  BY <1>1 DEF IInv, TypeOK, Dated, Migrating, CommitMigration, NoTransaction
<1>4. HistoryMatches'
  BY <1>1, CommitIsComplete DEF HistoryMatches, Script
<1>5. NoPartialMigration'
  <2>1. schema' \in {LiveSchema, BookingSchema}
    BY <1>1 DEF Target
  <2>2. LegacySize \in 0..LegacySize
    BY SizesAssumption
  <2> QED BY <1>4, <2>1, <2>2 DEF NoPartialMigration
<1>6. OpenHasItsSchema'
  <2>1. pc' = [pc EXCEPT ![p] = "open"] /\ pc \in [Processes -> States] /\ pc[p] = "migrate"
    BY DEF CommitMigration, IInv, TypeOK
  <2>2. LegacySchema \subseteq Target(p)
    BY DEF LegacySchema, Target, LiveSchema, BookingSchema
  <2> QED BY <1>1, <2>1, <2>2 DEF IInv, OpenHasItsSchema, Target
<1> QED BY <1>2, <1>3, <1>5, <1>6 DEF IInv

-----------------------------------------------------------------------------
(* The other actions, and the theorems.                                     *)

\* A process that stops takes its transaction with it.
LEMMA StopPreserves ==
  ASSUME IInv, NEW p \in Processes, Stop(p)
  PROVE  IInv'
<1>1. schema' = schema /\ ledger' = ledger /\ pc' = [pc EXCEPT ![p] = "closed"]
  BY DEF Stop, files
<1>2. CASE writer = p
  <2>1. writer' = Nobody
    BY <1>2 DEF Stop, Rollback, NoTransaction
  <2>2. TypeOK'
    BY <1>1, <1>2, <2>1, NobodyAssumption DEF IInv, TypeOK, Stop, Rollback, NoTransaction, files, States
  <2>3. Dated' /\ Migrating'
    BY <1>1, <2>1 DEF IInv, TypeOK, Dated, Migrating, Stop
  <2> QED BY <1>1, <2>2, <2>3 DEF IInv, TypeOK, NoPartialMigration, HistoryMatches, OpenHasItsSchema, Target
<1>3. CASE writer # p
  <2>1. UNCHANGED transaction
    BY <1>3 DEF Stop, Rollback
  <2>2. TypeOK'
    BY <1>1, <1>3, <2>1 DEF IInv, TypeOK, Stop, transaction, files, States
  <2>3. Dated' /\ Migrating'
    BY <1>1, <2>1 DEF IInv, TypeOK, Dated, Migrating, Stop, transaction, Recognized, Target
  <2> QED BY <1>1, <2>2, <2>3 DEF IInv, TypeOK, NoPartialMigration, HistoryMatches, OpenHasItsSchema, Target
<1> QED BY <1>2, <1>3

LEMMA OpenPreserves ==
  ASSUME IInv, NEW p \in Processes, Open(p) \/ ScriptDone(p)
  PROVE  IInv'
<1>1. schema' = schema /\ ledger' = ledger /\ UNCHANGED transaction
  BY DEF Open, ScriptDone, files
<1>2. CASE Open(p)
  <2>1. TypeOK'
    BY <1>2 DEF IInv, TypeOK, Open, files, transaction, States
  <2>2. Dated' /\ Migrating'
    BY <1>1, <1>2 DEF IInv, TypeOK, Dated, Migrating, Open, transaction, Recognized, Target
  <2>3. NoPartialMigration' /\ OpenHasItsSchema'
    BY <1>1, <1>2 DEF IInv, TypeOK, NoPartialMigration, HistoryMatches, OpenHasItsSchema, Open, Target
  <2> QED BY <2>1, <2>2, <2>3 DEF IInv
<1>3. CASE ScriptDone(p)
  <2>1. TypeOK'
    BY <1>3 DEF IInv, TypeOK, ScriptDone, files, transaction, States
  <2>2. Dated' /\ Migrating'
    BY <1>1, <1>3 DEF IInv, TypeOK, Dated, Migrating, ScriptDone, transaction, Recognized, Target
  <2>3. NoPartialMigration'
    BY <1>1 DEF IInv, NoPartialMigration, HistoryMatches
  <2>4. p \in Itinerary
    BY <1>3 DEF IInv, Dated, ScriptDone
  <2>5. OpenHasItsSchema'
    BY <1>1, <1>3, <2>4 DEF IInv, TypeOK, OpenHasItsSchema, ScriptDone, Target, LegacySchema
  <2> QED BY <2>1, <2>2, <2>3, <2>5 DEF IInv
<1> QED BY <1>2, <1>3

LEMMA SyncPreserves ==
  ASSUME IInv, NEW p \in Processes, SyncState(p) \/ CompleteSync(p) \/ CommitSync(p)
  PROVE  IInv'
<1>1. schema' = schema /\ ledger' = ledger /\ UNCHANGED transaction /\ pc' = pc /\ asOf' = asOf
  BY DEF SyncState, CompleteSync, CommitSync, NewCursor, files
<1>2. TypeOK'
  BY <1>1 DEF IInv, TypeOK, SyncState, CompleteSync, CommitSync, NewCursor, files, transaction
<1>3. Dated' /\ Migrating' /\ NoPartialMigration' /\ OpenHasItsSchema'
  BY <1>1 DEF IInv, Dated, Migrating, NoPartialMigration, HistoryMatches, OpenHasItsSchema, transaction, Recognized, Target
<1> QED BY <1>2, <1>3 DEF IInv

LEMMA IInvInductive ==
  ASSUME IInv, [Next]_vars
  PROVE  IInv'
<1>1. CASE UNCHANGED vars
  BY <1>1 DEF vars, files, transaction, IInv, TypeOK, Dated, Migrating, NoPartialMigration, HistoryMatches,
     OpenHasItsSchema, Recognized, Target
<1>2. CASE Next
  <2>1. PICK p \in Processes :
          \/ Open(p) \/ ScriptStatement(p) \/ ScriptDone(p)
          \/ Begin(p) \/ CommitMigration(p) \/ Stop(p)
          \/ \E statement \in BookingSchema : Statement(p, statement)
          \/ \E v \in Versions : Record(p, v)
          \/ SyncState(p) \/ CompleteSync(p) \/ CommitSync(p)
    BY <1>2 DEF Next
  <2> QED BY <2>1, OpenPreserves, ScriptStatementPreserves, BeginPreserves, CommitPreserves, StopPreserves,
             StatementPreserves, RecordPreserves, SyncPreserves
<1> QED BY <1>1, <1>2

LEMMA IInvInitially ==
  ASSUME Init
  PROVE  IInv
<1>1. schema = 1..0 /\ 0 \in 0..LegacySize
  BY SizesAssumption DEF Init
<1>2. HistoryMatches
  BY <1>1, PrefixLacksScripts DEF Init, HistoryMatches
<1>3. NoPartialMigration
  BY <1>1, <1>2 DEF NoPartialMigration
<1>4. TypeOK
  BY NobodyAssumption DEF Init, TypeOK, States
<1>5. Dated /\ Migrating /\ OpenHasItsSchema
  BY DEF Init, Dated, Migrating, OpenHasItsSchema
<1> QED BY <1>3, <1>4, <1>5 DEF IInv

LEMMA IInvAlways == Spec => []IInv
BY IInvInitially, IInvInductive, PTL DEF Spec

\* Every reachable file and process state has its type; in particular a transaction
\* belongs to the process that is migrating.
THEOREM MigrationTypeCorrect == Spec => []TypeOK
BY IInvAlways, PTL DEF IInv

\* A migration is in the file whole, with its row of the history, or not at all,
\* whoever dies at whichever statement.
THEOREM MigrationsAtomic == Spec => []NoPartialMigration
BY IInvAlways, PTL DEF IInv

\* No process, however it migrates, takes a table away from an open repository.
THEOREM OpenSchemasHold == Spec => []OpenHasItsSchema
BY IInvAlways, PTL DEF IInv

\* A step only adds to the schema and to the history.
LEMMA StepOnlyUpgrades ==
  ASSUME IInv, [Next]_vars
  PROVE  schema \subseteq schema' /\ \A v \in Versions : ledger[v] > 0 => ledger'[v] = ledger[v]
<1>1. CASE UNCHANGED vars
  BY <1>1 DEF vars, files
<1>2. CASE Next
  <2>1. PICK p \in Processes :
          \/ Open(p) \/ ScriptStatement(p) \/ ScriptDone(p)
          \/ Begin(p) \/ CommitMigration(p) \/ Stop(p)
          \/ \E statement \in BookingSchema : Statement(p, statement)
          \/ \E v \in Versions : Record(p, v)
          \/ SyncState(p) \/ CompleteSync(p) \/ CommitSync(p)
    BY <1>2 DEF Next
  <2>2. CASE CommitMigration(p)
    BY <2>2, CommitIsComplete DEF CommitMigration
  <2>3. CASE ScriptStatement(p)
    BY <2>3 DEF ScriptStatement
  <2> QED BY <2>1, <2>2, <2>3 DEF Open, ScriptDone, Begin, Stop, Statement, InTransaction, Record, SyncState,
             CompleteSync, CommitSync, NewCursor, files
<1> QED BY <1>1, <1>2

\* Opening again, failing and racing never undo a migration or rewrite its history.
THEOREM UpgradesOnly == Spec => OnlyUpgrades
<1>1. IInv /\ [Next]_vars =>
        [schema \subseteq schema' /\ \A v \in Versions : ledger[v] > 0 => ledger'[v] = ledger[v]]_vars
  BY StepOnlyUpgrades
<1> QED BY <1>1, IInvAlways, PTL DEF Spec, OnlyUpgrades

\* Only the beginning of a migration refuses a file, for a schema it does not know.
LEMMA RefusalsBegin ==
  ASSUME IInv, [Next]_vars, NEW p \in Processes, pc[p] = "begin", pc'[p] = "refused"
  PROVE  schema \notin Recognized(p)
<1>1. Next
  BY DEF vars
<1>2. PICK q \in Processes :
        \/ Open(q) \/ ScriptStatement(q) \/ ScriptDone(q)
        \/ Begin(q) \/ CommitMigration(q) \/ Stop(q)
        \/ \E statement \in BookingSchema : Statement(q, statement)
        \/ \E v \in Versions : Record(q, v)
        \/ SyncState(q) \/ CompleteSync(q) \/ CommitSync(q)
  BY <1>1 DEF Next
<1>3. pc \in [Processes -> States]
  BY DEF IInv, TypeOK
<1>4. HistoryMatches
  BY DEF IInv, NoPartialMigration
<1>5. Begin(q)
  BY <1>2, <1>3 DEF Open, ScriptStatement, ScriptDone, CommitMigration, Stop, Statement, Record, SyncState,
     CompleteSync, CommitSync, NewCursor
<1>6. p = q
  BY <1>3, <1>5 DEF Begin
<1> QED BY <1>3, <1>4, <1>5, <1>6 DEF Begin

\* A part of the V8 script that no migration starts from has some of it and lacks some.
LEMMA UnknownPrefix ==
  ASSUME NEW n \in 0..LegacySize, NEW p \in Processes, 1..n \notin Recognized(p)
  PROVE  LegacyStatements \cap (1..n) # {} /\ LegacyStatements \ (1..n) # {}
<1>1. n # 0 /\ n # LegacySize
  BY DEF Recognized, LegacySchema, LegacyStatements
<1>2. 1 \in LegacyStatements \cap (1..n) /\ LegacySize \in LegacyStatements \ (1..n)
  BY <1>1, SizesAssumption DEF LegacyStatements
<1> QED BY <1>2

\* RefusalIsDue: a file is refused for half a V8 script, or by a LiveRepository
\* because a BookingRepository upgraded it, and for nothing that failures or races
\* of migrations leave behind.
THEOREM RefusalsAreDue == Spec => RefusalIsDue
<1>1. ASSUME IInv, [Next]_vars, NEW p \in Processes, pc[p] = "begin", pc'[p] = "refused"
      PROVE  \/ LegacyStatements \cap schema # {} /\ LegacyStatements \ schema # {}
             \/ p \in Live /\ schema = BookingSchema
  <2>1. schema \notin Recognized(p)
    BY <1>1, RefusalsBegin
  <2>2. CASE \E n \in 0..LegacySize : schema = 1..n
    BY <2>1, <2>2, UnknownPrefix
  <2>3. CASE schema \in {LiveSchema, BookingSchema}
    BY <2>1, <2>3 DEF Recognized, Target
  <2> QED BY <1>1, <2>2, <2>3 DEF IInv, NoPartialMigration
<1>2. IInv /\ [Next]_vars =>
        [\A p \in Processes :
           pc[p] = "begin" /\ pc'[p] = "refused" =>
             \/ LegacyStatements \cap schema # {} /\ LegacyStatements \ schema # {}
             \/ p \in Live /\ schema = BookingSchema]_vars
  BY <1>1
<1> QED BY <1>2, IInvAlways, PTL DEF Spec, RefusalIsDue
=============================================================================
