------------------------------ MODULE MailSync ------------------------------
(***************************************************************************)
(* Runs of MailSynchronization over one account                            *)
(* (travel_agent/live/mail_sync.py), next to a mailbox that keeps          *)
(* changing.  Nothing but the database keeps two runs apart: a run reads   *)
(* the checkpoint, spends any time on the source's pages, and then commits *)
(* or records its failure against the checkpoint it read.                  *)
(*                                                                         *)
(* The mailbox is external: mailbox[k] is what it shows in the k-th of its *)
(* states, and a cursor's position is such a k.  Its source keeps the      *)
(* contract of MailSource, or it answers an error.                         *)
(***************************************************************************)
EXTENDS MailRepository, Sequences, FiniteSets

CONSTANTS
  Runners,      \* concurrent callers of MailSynchronization.run
  MaxPages,     \* max_pages
  MaxMessages,  \* max_messages
  MaxCalls,     \* bound on calls of run and sync_failed
  MaxChanges    \* bound on changes of the mailbox

ASSUME PagesAssumption == MaxPages \in Nat \ {0} /\ MaxMessages \in Nat \ {0}
ASSUME SyncBoundsAssumption == MaxCalls \in Nat /\ MaxChanges \in Nat

VARIABLES
  mailbox,    \* the mailbox after each of its changes
  pc, before, asOf, full, pages, answer, error,   \* locals of each run
  known,      \* messages retained when each run began
  begun       \* counter behind MaxCalls

runVars == <<pc, before, asOf, full, pages, answer, error, known>>
vars == <<mailVars, mailbox, runVars, begun>>

\* What the source will have answered on its last page.
Answer == [position : Nat, messages : SUBSET Messages, removed : SUBSET Messages]
NoAnswer == [position |-> 0, messages |-> {}, removed |-> {}]

SyncTypeOK ==
  /\ mailbox \in Seq(SUBSET Messages) /\ Len(mailbox) >= 1
  /\ pc \in [Runners -> {"idle", "check", "page", "commit", "failed"}]
  /\ before \in [Runners -> Checkpoint]
  /\ asOf \in [Runners -> Times \cup {NoTime}]
  /\ \A r \in Runners : pc[r] # "idle" => asOf[r] # NoTime
  /\ full \in [Runners -> BOOLEAN]
  /\ pages \in [Runners -> Nat]
  /\ answer \in [Runners -> Answer]
  /\ known \in [Runners -> SUBSET Messages]
  /\ error \in [Runners -> ErrorCodes \cup {NoError}]
  /\ \A r \in Runners : pc[r] = "failed" => error[r] # NoError
  /\ begun \in Nat

NewDatabase == sync = NoRow /\ stored = {}

\* What migration 1 may have left of the account: no attempt, none but failed ones, or
\* a cursor, set by a first synchronization and carried on by the last, and perhaps
\* failures since, one of which may have found it expired.
UpgradedRow ==
  \/ sync = NoRow
  \/ \E t \in Times, code \in ErrorCodes : sync = [NoRow EXCEPT !.attempt = t, !.error = code]
  \/ \E first, last, t \in Times, code \in ErrorCodes \cup {NoError} :
       /\ first <= last /\ last <= t /\ (code = NoError => t = last)
       /\ sync = [cursor |-> [position |-> 1, lower |-> first - Lookback],
                  success |-> last, attempt |-> t, error |-> code]

\* An upgraded database has neither visibility nor flag rows.  It has all that the
\* mailbox showed at its cursor, and may have more: complete_sync drops nothing that
\* left the mailbox, and store_messages adds mail under no cursor.
Upgraded ==
  /\ UpgradedRow
  /\ stored \in SUBSET {m \in Messages : \E t \in Times : Received[m] <= t}
  /\ sync.cursor # NoCursor =>
       \A m \in mailbox[1] \cap InWindow(sync.cursor.lower) :
         m \in stored /\ Received[m] <= sync.success

Init ==
  /\ mailbox \in [{1} -> SUBSET Messages]
  /\ NewDatabase \/ Upgraded
  /\ flag = FALSE /\ visible = {} /\ runs = {}
  /\ pc = [r \in Runners |-> "idle"]
  /\ before = [r \in Runners |-> NoRow]
  /\ asOf = [r \in Runners |-> NoTime]
  /\ full = [r \in Runners |-> FALSE]
  /\ pages = [r \in Runners |-> 0]
  /\ answer = [r \in Runners |-> NoAnswer]
  /\ known = [r \in Runners |-> {}]
  /\ error = [r \in Runners |-> NoError]
  /\ begun = 0

\* run returns or its process dies: nothing of it remains.
Return(r) ==
  /\ pc' = [pc EXCEPT ![r] = "idle"]
  /\ before' = [before EXCEPT ![r] = NoRow]
  /\ asOf' = [asOf EXCEPT ![r] = NoTime]
  /\ full' = [full EXCEPT ![r] = FALSE]
  /\ pages' = [pages EXCEPT ![r] = 0]
  /\ answer' = [answer EXCEPT ![r] = NoAnswer]
  /\ known' = [known EXCEPT ![r] = {}]
  /\ error' = [error EXCEPT ![r] = NoError]

Fail(r, code) ==
  /\ pc' = [pc EXCEPT ![r] = "failed"]
  /\ error' = [error EXCEPT ![r] = code]
  /\ UNCHANGED <<before, asOf, full, pages, answer, known>>

\* The checkpoint is read once, before anything else.
Begin(r, t, wanted) ==
  /\ pc[r] = "idle" /\ begun < MaxCalls
  /\ begun' = begun + 1
  /\ pc' = [pc EXCEPT ![r] = "check"]
  /\ before' = [before EXCEPT ![r] = sync]
  /\ asOf' = [asOf EXCEPT ![r] = t]
  /\ full' = [full EXCEPT ![r] = wanted \/ sync.cursor = NoCursor]
  /\ known' = [known EXCEPT ![r] = stored]
  /\ UNCHANGED <<mailVars, mailbox, pages, answer, error>>

\* A required resync that the caller did not ask for is refused, unrecorded.
Check(r) ==
  /\ pc[r] = "check"
  /\ IF ResyncRequired /\ ~full[r]
     THEN Return(r)
     ELSE pc' = [pc EXCEPT ![r] = "page"]
          /\ UNCHANGED <<before, asOf, full, pages, answer, error, known>>
  /\ UNCHANGED <<mailVars, mailbox, begun>>

(***************************************************************************)
(* The source.                                                             *)
(***************************************************************************)

Lower(r) == IF full[r] THEN asOf[r] - Lookback ELSE before[r].cursor.lower

Shown == mailbox[Len(mailbox)]

\* The first page fixes the position, later pages deliver more of the same answer.
Answers(r) ==
  IF pages[r] > 0 THEN {answer[r]}
  ELSE IF full[r] THEN FullAnswers(Len(mailbox), Shown, Lower(r), stored)
  ELSE DeltaAnswers(Len(mailbox), mailbox[before[r].cursor.position], Shown, Lower(r),
                    known[r], stored)

Contents(a) == a.messages \cup a.removed

\* max_messages, for an answer that is complete.
Fits(a) == Cardinality(Contents(a)) <= MaxMessages

\* A page of the answer a.  How much of it comes with which page decides nothing but
\* the page at which a run gives up on an answer that does not fit: PageRefused.
Page(r, a) ==
  /\ answer' = [answer EXCEPT ![r] = a]
  /\ UNCHANGED <<mailVars, mailbox, before, asOf, full, error, known, begun>>

\* Another page follows, under a token the run has not seen and within max_pages.
MayContinue(r) == pages[r] + 1 < MaxPages

PageMore(r, a) ==
  /\ Page(r, a)
  /\ MayContinue(r)
  /\ pages' = [pages EXCEPT ![r] = @ + 1]
  /\ UNCHANGED pc

\* The page with the completed cursor.
PageLast(r, a) ==
  /\ Page(r, a)
  /\ Fits(a)
  /\ pc' = [pc EXCEPT ![r] = "commit"]
  /\ UNCHANGED pages

\* The source answers an error, or a page that run refuses: a wrong type or
\* scope, a repeated token, one page or one message too many, an id both
\* present and removed.
PageRefused(r, code) ==
  /\ pc[r] = "page"
  /\ Fail(r, code)
  /\ UNCHANGED <<mailVars, mailbox, begun>>

(***************************************************************************)
(* The end of a run.                                                       *)
(***************************************************************************)

Batch(r) ==
  [before |-> before[r], full |-> full[r], asOf |-> asOf[r],
   cursor |-> [position |-> answer[r].position, lower |-> Lower(r)],
   messages |-> answer[r].messages, removed |-> answer[r].removed]

Commit(r) ==
  /\ pc[r] = "commit"
  /\ CommitSync(Batch(r))
  /\ Return(r)
  /\ UNCHANGED <<mailbox, begun>>

\* commit_sync raises: one of its checks, the extraction, the projection or a
\* locked database.  The transaction leaves nothing behind.
CommitRefused(r) ==
  /\ pc[r] = "commit"
  /\ Fail(r, "INVALID_RESPONSE")
  /\ UNCHANGED <<mailVars, mailbox, begun>>

Record(r) ==
  /\ pc[r] = "failed"
  /\ RecordFailure(before[r], error[r], asOf[r])
  /\ Return(r)
  /\ UNCHANGED <<mailbox, begun>>

\* A run's process dies, or its failure meets a locked database.
Abort(r) ==
  /\ pc[r] # "idle"
  /\ Return(r)
  /\ UNCHANGED <<mailVars, mailbox, begun>>

\* All that a run does without committing.
Work(r) ==
  \/ Check(r)
  \/ /\ pc[r] = "page"
     /\ \E a \in Answers(r) : PageMore(r, a) \/ PageLast(r, a)
  \/ \E code \in ErrorCodes : PageRefused(r, code)
  \/ CommitRefused(r)
  \/ Record(r)

Step(r) == Work(r) \/ Commit(r)

(***************************************************************************)
(* The rest of the world.                                                  *)
(***************************************************************************)

\* BookingRepository.sync_failed, called by anyone against the current row.
SyncFailed(code, t) ==
  /\ begun < MaxCalls
  /\ begun' = begun + 1
  /\ ~AttemptedAfter(t)
  /\ WriteFailure(code, t)
  /\ UNCHANGED <<mailbox, runVars>>

\* A message arrives, leaves, or comes back.
Change(m) ==
  /\ Len(mailbox) <= MaxChanges
  /\ mailbox' = Append(mailbox, IF m \in Shown THEN Shown \ {m} ELSE Shown \cup {m})
  /\ UNCHANGED <<mailVars, runVars, begun>>

\* Every step that brings no evidence.
Other ==
  \/ \E r \in Runners, t \in Times, wanted \in BOOLEAN : Begin(r, t, wanted)
  \/ \E r \in Runners : Work(r)
  \/ \E r \in Runners : Abort(r)
  \/ \E code \in ErrorCodes, t \in Times : SyncFailed(code, t)
  \/ \E m \in Messages : Change(m)

Next == Other \/ \E r \in Runners : Commit(r)

Spec == Init /\ [][Next]_vars

(***************************************************************************)
(* Properties.                                                             *)
(***************************************************************************)

TypeOK == MailTypeOK /\ SyncTypeOK

HasFullRun == \E run \in runs : run.full

\* No mail is lost and no removal is missed: of the messages not older than the
\* cursor's lower bound, all that the mailbox showed at the cursor's position
\* are retained and, once a full run has been recorded, exactly those are
\* visible - whichever runs overlapped, failed, died or were replayed.
MirrorMatchesMailbox ==
  sync.cursor # NoCursor =>
    LET shown == mailbox[sync.cursor.position] \cap InWindow(sync.cursor.lower)
    IN  /\ shown \subseteq stored
        /\ HasFullRun => shown = visible \cap InWindow(sync.cursor.lower)

\* last_attempt_at never goes back, although callers choose as_of and runs end
\* in any order ("Out-of-order synchronization").
AttemptsInOrder ==
  [][sync.attempt # NoTime => sync'.attempt # NoTime /\ sync'.attempt >= sync.attempt]_vars

\* A run cannot demand a resynchronization of a checkpoint that another run has
\* meanwhile replaced ("without racing a newer successful checkpoint").
ExpiryConcernsCheckpoint ==
  [][\A r \in Runners :
       Record(r) /\ ~ResyncRequired /\ ResyncRequired' =>
         before[r].cursor = sync.cursor /\ before[r].success = sync.success]_vars

\* The account's checkpoint is a mirror of the mailbox that moves forward in
\* single steps, and no delta moves it while a resynchronization is required.
MirrorNow ==
  [position |-> sync.cursor.position, lower |-> sync.cursor.lower, known |-> HasFullRun,
   view |-> IF HasFullRun THEN visible \cap InWindow(sync.cursor.lower) ELSE {}]
Mirror == INSTANCE MailMirror WITH mirror <- MirrorNow, required <- ResyncRequired
ImplementsMirror == Mirror!Spec

=============================================================================
