---------------------------- MODULE SourceAttempt ----------------------------
(***************************************************************************)
(* What GmailSource and OutlookSource share: an attempt of sync between    *)
(* two of its requests, over a mailbox that changes between any two, and a *)
(* store to which other runs add.                                          *)
(*                                                                         *)
(* The mailbox is external: log[k] is the mailbox after its k-th change.   *)
(* An attempt is one record, its locals; a request replaces it, and no     *)
(* part of it outlives the attempt.                                        *)
(***************************************************************************)
EXTENDS MailSource, Sequences

CONSTANTS
  Lowers,       \* instants callers pass as since
  MaxAttempts   \* bound on calls of sync

ASSUME AttemptsAssumption == Lowers \subseteq Int /\ MaxAttempts \in Nat

VARIABLES
  log,         \* the mailbox, change by change
  retained,    \* messages in the store
  cursors,     \* cursors of completed answers
  attempt,     \* the attempt in hand
  begun        \* counter behind MaxAttempts

vars == <<log, retained, cursors, attempt, begun>>

Now == Len(log)
NoAttempt == [pc |-> "idle"]
At(place) == attempt.pc = place

Beginning == retained = {} /\ cursors = {} /\ attempt = NoAttempt /\ begun = 0

Begin(locals) ==
  /\ At("idle") /\ begun < MaxAttempts
  /\ begun' = begun + 1
  /\ attempt' = locals
  /\ UNCHANGED <<log, retained, cursors>>

Proceed(locals) == attempt' = locals /\ UNCHANGED <<log, retained, cursors, begun>>
Goto(place) == Proceed([attempt EXCEPT !.pc = place])

\* The caller commits the answer.
Commit(cursor) ==
  /\ At("done")
  /\ retained' = retained \cup attempt.messages
  /\ cursors' = cursors \cup {cursor}
  /\ attempt' = NoAttempt
  /\ UNCHANGED <<log, begun>>

\* The attempt has refused, a request failed, a limit was hit, or the caller has
\* no use for the answer.
Abandon == ~At("idle") /\ Proceed(NoAttempt)

Changes(mailbox) == log' = Append(log, mailbox) /\ UNCHANGED <<retained, cursors, attempt, begun>>

\* Another run commits a message it has seen.
Retains(m) == retained' = retained \cup {m} /\ UNCHANGED <<log, cursors, attempt, begun>>

\* The answer of the attempt, as the contract of MailSource has it: it describes
\* the mailbox that shows `new` at a position, and continues one that showed `old`.
KeepsContract(position, old, new) ==
  [position |-> position, messages |-> attempt.messages, removed |-> attempt.removed] \in
    IF attempt.full THEN FullAnswers(position, new, attempt.lower, retained)
    ELSE DeltaAnswers(position, old, new, attempt.lower, attempt.known, retained)
=============================================================================
