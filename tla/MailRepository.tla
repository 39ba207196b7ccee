--------------------------- MODULE MailRepository ---------------------------
(***************************************************************************)
(* The checkpoint of one mail account and the evidence behind it, as the   *)
(* transactions of travel_agent/live/booking_repository.py leave them:     *)
(* commit_sync, record_sync_failure, sync_failed, resync_required.         *)
(*                                                                         *)
(* Every operator is one BEGIN IMMEDIATE transaction.  A message stands    *)
(* for its immutable normalized evidence; its extraction and the travel    *)
(* projection that the same transaction writes are left out.               *)
(***************************************************************************)
EXTENDS MailSource

CONSTANTS
  Times,      \* instants callers pass as as_of
  NoTime,     \* a NULL timestamp
  Lookback    \* initial_lookback_days

ASSUME TimesAssumption == Times \subseteq Int /\ NoTime \notin Times
ASSUME LookbackAssumption == Lookback \in Nat

VARIABLES
  sync,      \* the provider_sync_state row
  flag,      \* provider_resync_requirements.resync_required
  stored,    \* ids in mail_messages
  visible,   \* ids whose mailbox_visibility row says visible
  runs       \* mail_sync_runs, by run_id

mailVars == <<sync, flag, stored, visible, runs>>

\* The code that requires a resynchronization, and the one a failed run makes
\* up, which stands for the other codes of a source: nothing tells them apart.
ErrorCodes == {"CURSOR_EXPIRED", "INVALID_RESPONSE"}
NoError == "NONE"

\* A source's cursor names a position of its mailbox and the lower bound fixed
\* when the position was first reached by a full synchronization.
Cursor == [position : Nat, lower : Int]
NoCursor == [position |-> 0, lower |-> 0]

Checkpoint == [cursor : Cursor, success : Times \cup {NoTime},
               attempt : Times \cup {NoTime}, error : ErrorCodes \cup {NoError}]
NoRow == [cursor |-> NoCursor, success |-> NoTime, attempt |-> NoTime, error |-> NoError]

\* What a run hands to commit_sync; its run_id is a digest of all of it.
Run == [before : Checkpoint, cursor : Cursor, full : BOOLEAN, asOf : Times,
        messages : SUBSET Messages, removed : SUBSET Messages]

MailTypeOK ==
  /\ sync \in Checkpoint
  /\ flag \in BOOLEAN
  /\ stored \in SUBSET Messages
  /\ visible \in SUBSET stored
  /\ runs \in SUBSET Run

\* An upgraded database holds the error of its last attempt but no flag row.
ResyncRequired == flag \/ sync.error = "CURSOR_EXPIRED"

AttemptedAfter(t) == sync.attempt # NoTime /\ sync.attempt > t

\* Mutant: the latest failure alone decides whether a resync is required.
WriteLatestFailure(code, t) ==
  /\ sync' = [sync EXCEPT !.attempt = t, !.error = code]
  /\ flag' = (code = "CURSOR_EXPIRED")
  /\ UNCHANGED <<stored, visible, runs>>

\* sync_failed and record_sync_failure, once the checkpoint is accepted.
WriteFailure(code, t) ==
  /\ sync' = [sync EXCEPT !.attempt = t, !.error = code]
  /\ flag' = (ResyncRequired \/ code = "CURSOR_EXPIRED")
  /\ UNCHANGED <<stored, visible, runs>>

\* Mutant: the expected checkpoint is not compared.
RecordAnyFailure(expected, code, t) ==
  IF ~AttemptedAfter(t) THEN WriteFailure(code, t) ELSE UNCHANGED mailVars

\* A failure that lost to another attempt is dropped without a word.
RecordFailure(expected, code, t) ==
  IF sync = expected /\ ~AttemptedAfter(t)
  THEN WriteFailure(code, t)
  ELSE UNCHANGED mailVars

\* Mutant: the expected checkpoint is not compared.
AcceptableToAny(run) ==
  /\ ResyncRequired => run.full
  /\ ~AttemptedAfter(run.asOf)
  /\ \A m \in run.messages : Received[m] <= run.asOf

\* The checks of commit_sync and of _store_messages.
Acceptable(run) ==
  /\ sync = run.before
  /\ ResyncRequired => run.full
  /\ ~AttemptedAfter(run.asOf)
  /\ \A m \in run.messages : Received[m] <= run.asOf

\* A full synchronization also withdraws what its lookback no longer shows.
Removals(run) ==
  run.removed \cup
  (IF run.full THEN (stored \cap InWindow(run.asOf - Lookback)) \ run.messages ELSE {})

CommitSync(run) ==
  /\ Acceptable(run)
  /\ stored' = stored \cup run.messages
  /\ IF run \in runs
     THEN UNCHANGED <<visible, runs>>
     ELSE /\ visible' = (visible \ Removals(run)) \cup run.messages
          /\ runs' = runs \cup {run}
  /\ sync' = [cursor |-> run.cursor, success |-> run.asOf,
              attempt |-> run.asOf, error |-> NoError]
  /\ flag' = (flag /\ ~run.full)
=============================================================================
