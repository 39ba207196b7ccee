------------------------- MODULE MailBookingsProofs -------------------------
(***************************************************************************)
(* What holds of synchronization, for every mailbox, set of runners and    *)
(* lookback and for any number of calls, pages and changes; and of         *)
(* synchronization and projection together, for every policy, caller and   *)
(* document: the composed system takes only steps of its two parts, and a  *)
(* cursor never outruns the bookings.                                      *)
(***************************************************************************)
EXTENDS MailBookings, FiniteSetTheorems, TLAPS

(***************************************************************************)
(* The inductive invariant.                                                *)
(***************************************************************************)

\* A cursor is absent, or a position the mailbox has had.
Placed(cursor) == cursor = NoCursor \/ cursor.position \in 1..Len(mailbox)

CursorsPlaced ==
  /\ Placed(sync.cursor)
  /\ \A r \in Runners : Placed(before[r].cursor)
  /\ \A r \in Runners : pc[r] # "idle" /\ ~full[r] => before[r].cursor # NoCursor

\* The lower bound of the checkpoint is no later than its last attempt allows.
WindowBehindAttempt ==
  sync.cursor # NoCursor =>
    sync.attempt # NoTime /\ sync.cursor.lower <= sync.attempt - Lookback

\* The cursor of every recorded run has been reached or passed.
RunsBehindCheckpoint ==
  \A run \in runs :
    /\ sync.cursor # NoCursor
    /\ run.cursor.position <= sync.cursor.position
    /\ run.cursor.lower <= sync.cursor.lower

\* What a run starts from was retained when it began.
Retained(cursor, found) ==
  cursor # NoCursor => mailbox[cursor.position] \cap InWindow(cursor.lower) \subseteq found
StartsRetained == \A r \in Runners : Retained(before[r].cursor, known[r])

\* The answer a runner holds describes one position, not before its cursor's.
HasAnswer(r) == pc[r] = "commit" \/ (pc[r] = "page" /\ pages[r] > 0)
FullAnswered(r, a) ==
  /\ a.messages \cap InWindow(Lower(r)) = mailbox[a.position] \cap InWindow(Lower(r))
  /\ a.removed \cap mailbox[a.position] = {}
DeltaAnswered(r, a) ==
  \A m \in InWindow(Lower(r)) :
    /\ m \in a.messages => m \in mailbox[a.position]
    /\ m \in a.removed => m \notin mailbox[a.position]
    /\ m \in mailbox[a.position] =>
         m \in a.messages \/ m \in mailbox[before[r].cursor.position]
    /\ m \in mailbox[before[r].cursor.position] =>
         m \in a.removed \/ m \in mailbox[a.position]
Answered(r, a) ==
  /\ a.position \in 1..Len(mailbox)
  /\ before[r].cursor.position <= a.position
  /\ full[r] => FullAnswered(r, a)
  /\ ~full[r] => DeltaAnswered(r, a)
AnswersDescribeMailbox == \A r \in Runners : HasAnswer(r) => Answered(r, answer[r])

\* Pages are counted from zero.
NothingAsked(r) == pc[r] \in {"idle", "check"} => pages[r] = 0
NoEarlyPages == \A r \in Runners : NothingAsked(r)

SyncInv ==
  /\ TypeOK
  /\ NoEarlyPages
  /\ CursorsPlaced
  /\ WindowBehindAttempt
  /\ RunsBehindCheckpoint
  /\ StartsRetained
  /\ AnswersDescribeMailbox
  /\ MirrorMatchesMailbox

\* The same, one runner at a time.
RunnerInv(r) ==
  /\ NothingAsked(r)
  /\ Placed(before[r].cursor)
  /\ pc[r] # "idle" /\ ~full[r] => before[r].cursor # NoCursor
  /\ Retained(before[r].cursor, known[r])
  /\ HasAnswer(r) => Answered(r, answer[r])

LEMMA RunnersApart ==
  CursorsPlaced /\ StartsRetained /\ AnswersDescribeMailbox /\ NoEarlyPages
    <=> Placed(sync.cursor) /\ \A r \in Runners : RunnerInv(r)
  BY DEF CursorsPlaced, StartsRetained, AnswersDescribeMailbox, NoEarlyPages, RunnerInv

(***************************************************************************)
(* Steps that leave a runner's locals alone.                               *)
(***************************************************************************)

SameLocals(r) ==
  /\ pc'[r] = pc[r] /\ before'[r] = before[r] /\ asOf'[r] = asOf[r]
  /\ full'[r] = full[r] /\ pages'[r] = pages[r] /\ answer'[r] = answer[r]
  /\ known'[r] = known[r]

\* The mailbox keeps its past and the database its evidence.
Grows ==
  /\ Len(mailbox') \in Nat /\ Len(mailbox') >= Len(mailbox)
  /\ \A k \in 1..Len(mailbox) : mailbox'[k] = mailbox[k]
  /\ stored \subseteq stored'

LEMMA RunnerKept ==
  ASSUME TypeOK, NEW r \in Runners, RunnerInv(r), SameLocals(r), Grows
  PROVE  RunnerInv(r)'
  <1> DEFINE c == before[r].cursor
  <1>1. c \in Cursor /\ Len(mailbox) \in Nat /\ answer[r] \in Answer
    BY DEF TypeOK, SyncTypeOK, Checkpoint
  <1>2. Placed(before[r].cursor)'
    BY <1>1 DEF RunnerInv, Placed, SameLocals, Grows
  <1>3. Retained(before[r].cursor, known[r])'
    BY <1>1 DEF RunnerInv, Retained, Placed, SameLocals, Grows, InWindow
  <1>4. Lower(r)' = Lower(r) /\ HasAnswer(r)' = HasAnswer(r)
    BY DEF SameLocals, Lower, HasAnswer
  <1>5. ASSUME HasAnswer(r) PROVE Answered(r, answer[r])'
    <2>1. Answered(r, answer[r])
      BY <1>5 DEF RunnerInv
    <2>2. mailbox'[answer[r].position] = mailbox[answer[r].position]
      BY <2>1 DEF Answered, Grows
    <2>3. full[r] => FullAnswered(r, answer[r])'
      BY <1>4, <2>1, <2>2 DEF Answered, FullAnswered, SameLocals, InWindow
    <2>4. ASSUME ~full[r] PROVE DeltaAnswered(r, answer[r])'
      <3>1. c.position \in 1..Len(mailbox)
        BY <1>5, <2>4 DEF RunnerInv, Placed, HasAnswer
      <3>2. mailbox'[c.position] = mailbox[c.position]
        BY <3>1 DEF Grows
      <3> QED
        BY <1>4, <2>1, <2>2, <2>4, <3>2 DEF Answered, DeltaAnswered, SameLocals, InWindow
    <2> QED
      BY <1>1, <2>1, <2>3, <2>4 DEF Answered, SameLocals, Grows
  <1> QED
    BY <1>2, <1>3, <1>4, <1>5 DEF RunnerInv, SameLocals, NothingAsked

\* A runner without an answer has nothing to keep but its start.
LEMMA RunnerReturned ==
  ASSUME NEW r \in Runners, pc \in [Runners -> {"idle", "check", "page", "commit", "failed"}],
         before \in [Runners -> Checkpoint], pages \in [Runners -> Nat], Return(r)
  PROVE  RunnerInv(r)'
  BY DEF Return, RunnerInv, NothingAsked, Placed, Retained, HasAnswer, NoRow

LEMMA ReturnTypes ==
  ASSUME TypeOK, NEW r \in Runners, Return(r), mailbox' = mailbox, begun' = begun
  PROVE  SyncTypeOK' /\ \A q \in Runners \ {r} : SameLocals(q)
  <1>1. NoRow \in Checkpoint /\ NoAnswer \in Answer
    BY DEF NoRow, NoCursor, Checkpoint, Cursor, NoAnswer, Answer, NoError
  <1> QED
    BY <1>1 DEF TypeOK, SyncTypeOK, Return, SameLocals

LEMMA FailTypes ==
  ASSUME TypeOK, NEW r \in Runners, NEW code \in ErrorCodes, pc[r] # "idle",
         Fail(r, code), mailbox' = mailbox, begun' = begun
  PROVE  SyncTypeOK' /\ \A q \in Runners \ {r} : SameLocals(q)
  BY DEF TypeOK, SyncTypeOK, Fail, SameLocals, ErrorCodes, NoError

(***************************************************************************)
(* Steps that leave the database and the mailbox alone.                    *)
(***************************************************************************)

LEMMA StoreKept ==
  ASSUME SyncInv, UNCHANGED <<mailVars, mailbox>>, SyncTypeOK',
         NEW r \in Runners, RunnerInv(r)', \A q \in Runners \ {r} : SameLocals(q)
  PROVE  SyncInv'
  <1>1. TypeOK'
    BY DEF SyncInv, TypeOK, MailTypeOK, mailVars
  <1>2. Grows
    BY DEF Grows, SyncInv, TypeOK, SyncTypeOK, mailVars
  <1>3. \A q \in Runners : RunnerInv(q)
    BY RunnersApart DEF SyncInv
  <1>4. \A q \in Runners : RunnerInv(q)'
    BY <1>2, <1>3, RunnerKept DEF SyncInv
  <1>5. Placed(sync.cursor)'
    BY DEF SyncInv, CursorsPlaced, Placed, mailVars
  <1>6. (CursorsPlaced /\ StartsRetained /\ AnswersDescribeMailbox /\ NoEarlyPages)'
    BY <1>4, <1>5 DEF CursorsPlaced, StartsRetained, AnswersDescribeMailbox, NoEarlyPages, RunnerInv
  <1>7. (WindowBehindAttempt /\ RunsBehindCheckpoint /\ MirrorMatchesMailbox)'
    BY DEF SyncInv, WindowBehindAttempt, RunsBehindCheckpoint, MirrorMatchesMailbox,
           HasFullRun, InWindow, mailVars
  <1> QED
    BY <1>1, <1>6, <1>7 DEF SyncInv

LEMMA ReturnStep ==
  ASSUME SyncInv, NEW r \in Runners, Return(r), UNCHANGED <<mailVars, mailbox, begun>>
  PROVE  SyncInv'
  BY ReturnTypes, RunnerReturned, StoreKept DEF SyncInv, TypeOK, SyncTypeOK

LEMMA FailStep ==
  ASSUME SyncInv, NEW r \in Runners, NEW code \in ErrorCodes, pc[r] # "idle",
         Fail(r, code), UNCHANGED <<mailVars, mailbox, begun>>
  PROVE  SyncInv'
  <1>1. SyncTypeOK' /\ \A q \in Runners \ {r} : SameLocals(q)
    BY FailTypes DEF SyncInv
  <1>2. RunnerInv(r)
    BY RunnersApart DEF SyncInv
  <1>3. RunnerInv(r)'
    BY <1>2 DEF RunnerInv, NothingAsked, Placed, Retained, HasAnswer, Fail, InWindow, mailVars,
                SyncInv, TypeOK, SyncTypeOK
  <1> QED
    BY <1>1, <1>3, StoreKept

LEMMA BeginStep ==
  ASSUME SyncInv, NEW r \in Runners, NEW t \in Times, NEW wanted \in BOOLEAN,
         Begin(r, t, wanted)
  PROVE  SyncInv'
  <1>1. SyncTypeOK' /\ \A q \in Runners \ {r} : SameLocals(q)
    <2>1. sync \in Checkpoint /\ t # NoTime /\ stored \in SUBSET Messages
      BY TimesAssumption DEF SyncInv, TypeOK, MailTypeOK
    <2> QED
      BY <2>1 DEF SyncInv, TypeOK, SyncTypeOK, Begin, SameLocals
  <1>2. before'[r] = sync /\ pc'[r] = "check" /\ full'[r] = (wanted \/ sync.cursor = NoCursor)
    BY DEF Begin, SyncInv, TypeOK, SyncTypeOK
  <1>3. mailbox' = mailbox /\ stored' = stored /\ pages'[r] = 0 /\ known'[r] = stored
    BY DEF Begin, mailVars, SyncInv, TypeOK, SyncTypeOK, NoEarlyPages, NothingAsked
  <1>4. Placed(sync.cursor) /\ Retained(sync.cursor, stored)
    BY DEF SyncInv, CursorsPlaced, MirrorMatchesMailbox, Retained
  <1>5. RunnerInv(r)'
    BY <1>2, <1>3, <1>4 DEF RunnerInv, NothingAsked, Placed, Retained, HasAnswer, InWindow
  <1> QED
    BY <1>1, <1>5, StoreKept DEF Begin

LEMMA CheckStep ==
  ASSUME SyncInv, NEW r \in Runners, Check(r)
  PROVE  SyncInv'
  <1>1. CASE Return(r)
    BY <1>1, ReturnStep DEF Check
  <1>2. CASE ~Return(r)
    <2>1. SyncTypeOK' /\ \A q \in Runners \ {r} : SameLocals(q)
      BY <1>2 DEF SyncInv, TypeOK, SyncTypeOK, Check, SameLocals
    <2>2. RunnerInv(r)
      BY RunnersApart DEF SyncInv
    <2>3. RunnerInv(r)'
      BY <1>2, <2>2 DEF RunnerInv, NothingAsked, Placed, Retained, HasAnswer, Check, InWindow, mailVars,
                        SyncInv, TypeOK, SyncTypeOK
    <2> QED
      BY <2>1, <2>3, StoreKept DEF Check
  <1> QED
    BY <1>1, <1>2

(***************************************************************************)
(* The source's pages.                                                     *)
(***************************************************************************)

LEMMA LowerType ==
  ASSUME SyncInv, NEW r \in Runners, pc[r] # "idle"
  PROVE  Lower(r) \in Int /\ asOf[r] \in Times /\ asOf[r] \in Int
  <1>1. asOf[r] \in Times /\ asOf[r] \in Int /\ before[r] \in Checkpoint
    BY TimesAssumption DEF SyncInv, TypeOK, SyncTypeOK
  <1> QED
    BY <1>1, LookbackAssumption DEF Lower, Checkpoint, Cursor

\* Whatever a source answers to a delta describes its present position.
LEMMA DeltaDescribes ==
  ASSUME SyncInv, NEW r \in Runners, pc[r] = "page", ~full[r],
         NEW a \in DeltaAnswers(Len(mailbox), mailbox[before[r].cursor.position], Shown,
                               Lower(r), known[r], stored)
  PROVE  a \in Answer /\ Answered(r, a)
  <1> DEFINE p == before[r].cursor.position
             n == Len(mailbox)
             W == InWindow(Lower(r))
  <1>1. RunnerInv(r)
    BY RunnersApart DEF SyncInv
  <1>2. p \in 1..n /\ n \in Nat /\ n \in 1..n /\ p <= n
    BY <1>1 DEF RunnerInv, Placed, SyncInv, TypeOK, SyncTypeOK
  <1>3. Lower(r) = before[r].cursor.lower /\ mailbox[p] \cap W \subseteq known[r]
    BY <1>1 DEF Lower, RunnerInv, Retained
  <1>4. mailbox[p] \in SUBSET Messages /\ Shown \in SUBSET Messages /\ stored \in SUBSET Messages
        /\ known[r] \in SUBSET Messages
    BY <1>2 DEF Shown, SyncInv, TypeOK, SyncTypeOK, MailTypeOK
  <1>5. PICK hints \in Hints(mailbox[p], Shown), more \in SUBSET stored, gone \in SUBSET Messages :
           a = DeltaAnswer(n, Shown, Lower(r), known[r], hints, more, gone)
    BY DEF DeltaAnswers
  <1>6. a \in Answer
    BY <1>2, <1>4, <1>5 DEF Answer, DeltaAnswer, Hints
  <1>7. a.position = n /\ a.messages = hints \cap Shown \cap (W \cup known[r] \cup more)
        /\ a.removed = (hints \ Shown) \cap (known[r] \cup gone)
    BY <1>5 DEF DeltaAnswer
  <1>8. DeltaAnswered(r, a)
    BY <1>3, <1>4, <1>5, <1>7 DEF DeltaAnswered, Shown, Hints
  <1> QED
    BY <1>2, <1>6, <1>7, <1>8 DEF Answered

LEMMA FullDescribes ==
  ASSUME SyncInv, NEW r \in Runners, pc[r] = "page", full[r],
         NEW a \in FullAnswers(Len(mailbox), Shown, Lower(r), stored)
  PROVE  a \in Answer /\ Answered(r, a)
  <1> DEFINE n == Len(mailbox)
             W == InWindow(Lower(r))
  <1>1. RunnerInv(r) /\ before[r] \in Checkpoint
    BY RunnersApart DEF SyncInv, TypeOK, SyncTypeOK
  <1>2. n \in Nat /\ n \in 1..n
    BY DEF SyncInv, TypeOK, SyncTypeOK
  <1>3. Shown \in SUBSET Messages /\ stored \in SUBSET Messages
    BY <1>2 DEF Shown, SyncInv, TypeOK, SyncTypeOK, MailTypeOK
  <1>4. PICK older \in SUBSET stored, gone \in SUBSET stored :
           a = FullAnswer(n, Shown, Lower(r), older, gone)
    BY DEF FullAnswers
  <1>5. a.position = n /\ a.messages = Shown \cap (W \cup older) /\ a.removed = gone \ Shown
    BY <1>4 DEF FullAnswer
  <1>6. a \in Answer
    BY <1>2, <1>3, <1>4 DEF Answer, FullAnswer
  <1>7. before[r].cursor.position <= n
    BY <1>1, <1>2 DEF RunnerInv, Placed, NoCursor
  <1>8. FullAnswered(r, a)
    BY <1>5 DEF FullAnswered, Shown
  <1> QED
    BY <1>2, <1>5, <1>6, <1>7, <1>8 DEF Answered

LEMMA AnswersDescribe ==
  ASSUME SyncInv, NEW r \in Runners, pc[r] = "page", NEW a \in Answers(r)
  PROVE  a \in Answer /\ Answered(r, a)
  <1>1. CASE pages[r] > 0
    <2>1. a = answer[r] /\ HasAnswer(r)
      BY <1>1 DEF Answers, HasAnswer
    <2> QED
      BY <2>1 DEF SyncInv, AnswersDescribeMailbox, TypeOK, SyncTypeOK
  <1>2. CASE ~(pages[r] > 0) /\ full[r]
    BY <1>2, FullDescribes DEF Answers
  <1>3. CASE ~(pages[r] > 0) /\ ~full[r]
    BY <1>3, DeltaDescribes DEF Answers
  <1> QED
    BY <1>1, <1>2, <1>3

LEMMA PageStep ==
  ASSUME SyncInv, NEW r \in Runners, pc[r] = "page", NEW a \in Answers(r),
         PageMore(r, a) \/ PageLast(r, a)
  PROVE  SyncInv'
  <1>1. Page(r, a)
    BY DEF PageMore, PageLast
  <1>2. a \in Answer /\ Answered(r, a) /\ RunnerInv(r)
    BY AnswersDescribe, RunnersApart DEF SyncInv
  <1>3. pc' \in [Runners -> {"idle", "check", "page", "commit", "failed"}]
        /\ pc' = [pc EXCEPT ![r] = pc'[r]] /\ pc'[r] \in {"page", "commit"}
    BY DEF PageMore, PageLast, SyncInv, TypeOK, SyncTypeOK
  <1>4. pages' \in [Runners -> Nat] /\ pages' = [pages EXCEPT ![r] = pages'[r]]
    <2>1. pages \in [Runners -> Nat]
      BY DEF SyncInv, TypeOK, SyncTypeOK
    <2>2. CASE PageMore(r, a)
      BY <2>1, <2>2 DEF PageMore
    <2>3. CASE PageLast(r, a)
      BY <2>1, <2>3 DEF PageLast
    <2> QED
      BY <2>2, <2>3
  <1>5. /\ answer' = [answer EXCEPT ![r] = a]
        /\ UNCHANGED <<mailVars, mailbox, before, asOf, full, error, known, begun>>
    BY <1>1 DEF Page
  <1>6. SyncTypeOK'
    BY <1>2, <1>3, <1>4, <1>5 DEF SyncInv, TypeOK, SyncTypeOK
  <1>7. \A q \in Runners \ {r} : SameLocals(q)
    BY <1>3, <1>4, <1>5 DEF SameLocals, SyncInv, TypeOK, SyncTypeOK
  <1>8. RunnerInv(r)'
    <2>1. answer'[r] = a
      BY <1>5 DEF SyncInv, TypeOK, SyncTypeOK
    <2>2. Answered(r, answer[r])'
      BY <1>2, <1>5, <2>1 DEF Answered, FullAnswered, DeltaAnswered, Lower, InWindow
    <2> QED
      BY <1>2, <1>3, <1>5, <2>2 DEF RunnerInv, NothingAsked, Placed, Retained, InWindow, mailVars
  <1> QED
    BY <1>5, <1>6, <1>7, <1>8, StoreKept

(***************************************************************************)
(* The mailbox changes.                                                    *)
(***************************************************************************)

LEMMA ChangeStep ==
  ASSUME SyncInv, NEW m \in Messages, Change(m)
  PROVE  SyncInv'
  <1> DEFINE n == Len(mailbox)
  <1>1. n \in Nat /\ n \in 1..n /\ Shown \in SUBSET Messages
    BY DEF Shown, SyncInv, TypeOK, SyncTypeOK
  <1>2. PICK shown \in SUBSET Messages : mailbox' = Append(mailbox, shown)
    BY <1>1 DEF Change
  <1>3. mailbox' \in Seq(SUBSET Messages) /\ Len(mailbox') = n + 1
        /\ \A k \in 1..n : mailbox'[k] = mailbox[k]
    BY <1>1, <1>2 DEF SyncInv, TypeOK, SyncTypeOK
  <1>4. UNCHANGED <<mailVars, runVars, begun>>
    BY DEF Change
  <1>5. TypeOK'
    BY <1>1, <1>3, <1>4 DEF SyncInv, TypeOK, SyncTypeOK, MailTypeOK, mailVars, runVars
  <1>6. Grows
    BY <1>1, <1>3, <1>4 DEF Grows, mailVars
  <1>7. \A q \in Runners : RunnerInv(q) /\ SameLocals(q)
    BY <1>4, RunnersApart DEF SyncInv, SameLocals, runVars
  <1>8. \A q \in Runners : RunnerInv(q)'
    BY <1>6, <1>7, RunnerKept DEF SyncInv
  <1>9. Placed(sync.cursor) /\ Placed(sync.cursor)'
    BY <1>1, <1>3, <1>4 DEF SyncInv, CursorsPlaced, Placed, mailVars
  <1>10. (CursorsPlaced /\ StartsRetained /\ AnswersDescribeMailbox /\ NoEarlyPages)'
    BY <1>8, <1>9 DEF CursorsPlaced, StartsRetained, AnswersDescribeMailbox, NoEarlyPages, RunnerInv
  <1>11. (WindowBehindAttempt /\ RunsBehindCheckpoint)'
    BY <1>4 DEF SyncInv, WindowBehindAttempt, RunsBehindCheckpoint, mailVars
  <1>12. MirrorMatchesMailbox'
    BY <1>3, <1>4, <1>9 DEF SyncInv, MirrorMatchesMailbox, HasFullRun, InWindow, Placed, mailVars
  <1> QED
    BY <1>5, <1>10, <1>11, <1>12 DEF SyncInv

(***************************************************************************)
(* Failures.                                                               *)
(***************************************************************************)

\* Writing a failure moves the attempt forward and nothing else.
LEMMA WriteFailureStore ==
  ASSUME SyncInv, NEW code \in ErrorCodes, NEW t \in Times, ~AttemptedAfter(t),
         WriteFailure(code, t)
  PROVE  /\ MailTypeOK' /\ sync'.cursor = sync.cursor /\ sync'.success = sync.success
         /\ stored' = stored /\ visible' = visible /\ runs' = runs
         /\ sync'.attempt = t
         /\ sync.attempt # NoTime => sync.attempt <= t
         /\ WindowBehindAttempt'
  <1>1. t \in Int /\ t # NoTime /\ (sync.attempt # NoTime => sync.attempt \in Int)
    BY TimesAssumption DEF SyncInv, TypeOK, MailTypeOK, Checkpoint
  <1>2. sync' \in Checkpoint /\ sync'.cursor = sync.cursor /\ sync'.success = sync.success
        /\ sync'.attempt = t
    BY DEF WriteFailure, SyncInv, TypeOK, MailTypeOK, Checkpoint
  <1>3. MailTypeOK' /\ stored' = stored /\ visible' = visible /\ runs' = runs
    BY <1>2 DEF WriteFailure, SyncInv, TypeOK, MailTypeOK, ResyncRequired
  <1>4. sync.attempt # NoTime => sync.attempt <= t
    BY <1>1 DEF AttemptedAfter
  <1>5. sync.cursor \in Cursor
    BY DEF SyncInv, TypeOK, MailTypeOK, Checkpoint
  <1>6. WindowBehindAttempt'
    BY <1>1, <1>2, <1>4, <1>5, LookbackAssumption DEF SyncInv, WindowBehindAttempt, Cursor
  <1> QED
    BY <1>2, <1>3, <1>4, <1>6

\* The invariant needs no more of a step that keeps cursor, evidence and mailbox.
LEMMA EvidenceKept ==
  ASSUME SyncInv, mailbox' = mailbox, sync'.cursor = sync.cursor,
         stored' = stored, visible' = visible, runs' = runs,
         TypeOK', WindowBehindAttempt', \A q \in Runners : RunnerInv(q)'
  PROVE  SyncInv'
  <1>1. Placed(sync.cursor)'
    BY DEF SyncInv, CursorsPlaced, Placed
  <1>2. (CursorsPlaced /\ StartsRetained /\ AnswersDescribeMailbox /\ NoEarlyPages)'
    BY <1>1 DEF CursorsPlaced, StartsRetained, AnswersDescribeMailbox, NoEarlyPages, RunnerInv
  <1>3. (RunsBehindCheckpoint /\ MirrorMatchesMailbox)'
    BY DEF SyncInv, RunsBehindCheckpoint, MirrorMatchesMailbox, HasFullRun, InWindow
  <1> QED
    BY <1>2, <1>3 DEF SyncInv

LEMMA SyncFailedStep ==
  ASSUME SyncInv, NEW code \in ErrorCodes, NEW t \in Times, SyncFailed(code, t)
  PROVE  SyncInv'
  <1>1. /\ MailTypeOK' /\ sync'.cursor = sync.cursor /\ stored' = stored
        /\ visible' = visible /\ runs' = runs /\ WindowBehindAttempt'
    BY WriteFailureStore DEF SyncFailed
  <1>2. UNCHANGED <<mailbox, runVars>> /\ begun' = begun + 1
    BY DEF SyncFailed
  <1>3. TypeOK'
    BY <1>1, <1>2 DEF SyncInv, TypeOK, SyncTypeOK, runVars
  <1>4. Grows
    BY <1>1, <1>2 DEF Grows, SyncInv, TypeOK, SyncTypeOK
  <1>5. \A q \in Runners : RunnerInv(q) /\ SameLocals(q)
    BY <1>2, RunnersApart DEF SyncInv, SameLocals, runVars
  <1>6. \A q \in Runners : RunnerInv(q)'
    BY <1>4, <1>5, RunnerKept DEF SyncInv
  <1> QED
    BY <1>1, <1>2, <1>3, <1>6, EvidenceKept

LEMMA RecordStep ==
  ASSUME SyncInv, NEW r \in Runners, Record(r)
  PROVE  SyncInv'
  <1>1. pc[r] # "idle" /\ Return(r) /\ UNCHANGED <<mailbox, begun>>
    BY DEF Record
  <1>2. asOf[r] \in Times /\ error[r] \in ErrorCodes
    BY <1>1, LowerType DEF Record, SyncInv, TypeOK, SyncTypeOK
  <1>3. CASE UNCHANGED mailVars
    BY <1>1, <1>3, ReturnStep
  <1>4. CASE ~UNCHANGED mailVars
    <2>1. ~AttemptedAfter(asOf[r]) /\ WriteFailure(error[r], asOf[r])
      BY <1>4 DEF Record, RecordFailure
    <2>2. /\ MailTypeOK' /\ sync'.cursor = sync.cursor /\ stored' = stored
          /\ visible' = visible /\ runs' = runs /\ WindowBehindAttempt'
      BY <1>2, <2>1, WriteFailureStore
    <2>3. SyncTypeOK' /\ \A q \in Runners \ {r} : SameLocals(q)
      BY <1>1, ReturnTypes DEF SyncInv
    <2>4. Grows
      BY <1>1, <2>2 DEF Grows, SyncInv, TypeOK, SyncTypeOK
    <2>5. \A q \in Runners : RunnerInv(q)
      BY RunnersApart DEF SyncInv
    <2>6. \A q \in Runners \ {r} : RunnerInv(q)'
      BY <2>3, <2>4, <2>5, RunnerKept DEF SyncInv
    <2>7. RunnerInv(r)'
      BY <1>1, RunnerReturned DEF SyncInv, TypeOK, SyncTypeOK
    <2> QED
      BY <1>1, <2>2, <2>3, <2>6, <2>7, EvidenceKept DEF TypeOK
  <1> QED
    BY <1>3, <1>4

(***************************************************************************)
(* A run commits.                                                          *)
(***************************************************************************)

\* The batch of a run describes its position, and goes back behind no cursor.
LEMMA BatchDescribes ==
  ASSUME SyncInv, NEW r \in Runners, pc[r] = "commit", Acceptable(Batch(r))
  PROVE  /\ Batch(r) \in Run /\ Answered(r, answer[r]) /\ sync = before[r]
         /\ sync.attempt # NoTime => sync.attempt <= asOf[r]
         /\ sync.cursor # NoCursor =>
              sync.cursor.position <= Batch(r).cursor.position
              /\ sync.cursor.lower <= Batch(r).cursor.lower
         /\ Batch(r).cursor.lower <= asOf[r] - Lookback
         /\ Batch(r).cursor.position \in 1..Len(mailbox)
  <1>1. /\ Lower(r) \in Int /\ asOf[r] \in Times /\ asOf[r] \in Int
        /\ before[r] \in Checkpoint /\ answer[r] \in Answer /\ full[r] \in BOOLEAN
    BY LowerType DEF SyncInv, TypeOK, SyncTypeOK
  <1>2. Answered(r, answer[r]) /\ RunnerInv(r)
    BY RunnersApart DEF SyncInv, AnswersDescribeMailbox, HasAnswer
  <1>3. Batch(r) \in Run
    BY <1>1, <1>2 DEF Batch, Run, Answer, Answered, Cursor
  <1>4. sync = before[r] /\ ~AttemptedAfter(asOf[r])
    BY DEF Acceptable, Batch
  <1>5. sync.attempt # NoTime => sync.attempt \in Int /\ sync.attempt <= asOf[r]
    <2>1. sync.attempt \in Times \cup {NoTime}
      BY <1>1, <1>4 DEF Checkpoint
    <2>2. sync.attempt # NoTime => ~(sync.attempt > asOf[r])
      BY <1>4 DEF AttemptedAfter
    <2>3. sync.attempt # NoTime => sync.attempt \in Int
      BY <2>1, TimesAssumption
    <2>4. asOf[r] \in Int
      BY <1>1
    <2> QED
      BY <2>2, <2>3, <2>4
  <1>6. Batch(r).cursor.position = answer[r].position /\ Batch(r).cursor.lower = Lower(r)
    BY DEF Batch
  <1>7. sync.cursor # NoCursor => sync.cursor.position <= answer[r].position
    BY <1>2, <1>4 DEF Answered
  <1>8. sync.cursor.lower \in Int
    BY <1>1, <1>4 DEF Checkpoint, Cursor
  <1>9. CASE full[r]
    <2>1. Lower(r) = asOf[r] - Lookback
      BY <1>9 DEF Lower
    <2>2. sync.cursor # NoCursor => sync.cursor.lower <= asOf[r] - Lookback
      BY <1>1, <1>5, <1>8, LookbackAssumption DEF SyncInv, WindowBehindAttempt
    <2> QED
      BY <1>1, <1>2, <1>3, <1>4, <1>5, <1>6, <1>7, <2>1, <2>2, LookbackAssumption DEF Answered
  <1>10. CASE ~full[r]
    <2>1. sync.cursor # NoCursor /\ Lower(r) = sync.cursor.lower
      BY <1>2, <1>4, <1>10 DEF RunnerInv, Lower
    <2>2. sync.attempt # NoTime /\ sync.cursor.lower <= sync.attempt - Lookback
      BY <2>1 DEF SyncInv, WindowBehindAttempt
    <2>3. Lower(r) <= asOf[r] - Lookback
      BY <1>1, <1>5, <1>8, <2>1, <2>2, LookbackAssumption
    <2> QED
      BY <1>1, <1>2, <1>3, <1>4, <1>5, <1>6, <1>7, <1>8, <2>1, <2>3 DEF Answered
  <1> QED
    BY <1>1, <1>9, <1>10

\* A run that is already recorded would commit the cursor that stands.
LEMMA ReplayChangesNothing ==
  ASSUME SyncInv, NEW r \in Runners, pc[r] = "commit", Acceptable(Batch(r)), Batch(r) \in runs
  PROVE  Batch(r).cursor = sync.cursor
  <1>1. sync.cursor # NoCursor /\ Batch(r).cursor.position <= sync.cursor.position
        /\ Batch(r).cursor.lower <= sync.cursor.lower
    BY DEF SyncInv, RunsBehindCheckpoint
  <1>2. sync.cursor \in Cursor /\ Batch(r).cursor \in Cursor
    BY BatchDescribes DEF SyncInv, TypeOK, MailTypeOK, Checkpoint, Run
  <1>3. sync.cursor.position = Batch(r).cursor.position /\ sync.cursor.lower = Batch(r).cursor.lower
    BY <1>1, <1>2, BatchDescribes DEF Cursor
  <1> QED
    BY <1>2, <1>3 DEF Cursor

\* What the mailbox shows at the batch's position is retained and visible.
LEMMA CommitMirrors ==
  ASSUME SyncInv, NEW r \in Runners, pc[r] = "commit", CommitSync(Batch(r))
  PROVE  LET run == Batch(r)
             shown == mailbox[run.cursor.position] \cap InWindow(run.cursor.lower)
         IN  /\ shown \subseteq stored'
             /\ HasFullRun' => shown = visible' \cap InWindow(run.cursor.lower)
  <1> DEFINE run == Batch(r)
             q == answer[r].position
             W == InWindow(Lower(r))
             p == before[r].cursor.position
  <1>1. Acceptable(run) /\ stored' = stored \cup run.messages
    BY DEF CommitSync
  <1>2. /\ run.cursor.position = q /\ run.cursor.lower = Lower(r) /\ run.full = full[r]
        /\ run.messages = answer[r].messages /\ run.removed = answer[r].removed
        /\ run.asOf = asOf[r]
    BY DEF Batch
  <1>3. Answered(r, answer[r]) /\ sync = before[r] /\ RunnerInv(r)
    BY <1>1, BatchDescribes, RunnersApart DEF SyncInv
  <1>4. /\ visible \subseteq stored /\ stored \subseteq Messages
        /\ answer[r].messages \subseteq Messages /\ answer[r].removed \subseteq Messages
        /\ mailbox[q] \subseteq Messages /\ W \subseteq Messages
    BY <1>3 DEF SyncInv, TypeOK, MailTypeOK, SyncTypeOK, Answer, Answered, InWindow
  <1>5. CASE run \in runs
    <2>1. run.cursor = sync.cursor /\ run.cursor # NoCursor
      BY <1>1, <1>5, ReplayChangesNothing DEF SyncInv, RunsBehindCheckpoint
    <2>2. visible' = visible /\ runs' = runs
      BY <1>5 DEF CommitSync
    <2> QED
      BY <1>1, <2>1, <2>2 DEF SyncInv, MirrorMatchesMailbox, HasFullRun
  <1>6. CASE run \notin runs /\ full[r]
    <2>1. answer[r].messages \cap W = mailbox[q] \cap W /\ answer[r].removed \cap mailbox[q] = {}
      BY <1>3, <1>6 DEF Answered, FullAnswered
    <2>2. visible' = (visible \ Removals(run)) \cup answer[r].messages
      BY <1>2, <1>6 DEF CommitSync
    <2>3. Removals(run) = answer[r].removed \cup ((stored \cap W) \ answer[r].messages)
      BY <1>2, <1>6, <2>1 DEF Removals, Lower
    <2>4. visible' \cap W = mailbox[q] \cap W
      BY <1>4, <2>1, <2>2, <2>3
    <2> QED
      BY <1>1, <1>2, <2>1, <2>4
  <1>7. CASE run \notin runs /\ ~full[r]
    <2>1. DeltaAnswered(r, answer[r]) /\ before[r].cursor # NoCursor
          /\ Lower(r) = before[r].cursor.lower
      BY <1>3, <1>7 DEF Answered, RunnerInv, Lower
    <2>2. visible' = (visible \ answer[r].removed) \cup answer[r].messages
          /\ (HasFullRun' => HasFullRun)
      BY <1>2, <1>7 DEF CommitSync, Removals, HasFullRun
    <2>3. mailbox[p] \cap W \subseteq stored /\ (HasFullRun => mailbox[p] \cap W = visible \cap W)
      BY <1>3, <2>1 DEF SyncInv, MirrorMatchesMailbox
    <2>4. mailbox[q] \cap W \subseteq stored'
      BY <1>1, <1>2, <1>4, <2>1, <2>3 DEF DeltaAnswered
    <2>5. ASSUME HasFullRun' PROVE mailbox[q] \cap W = visible' \cap W
      <3>1. mailbox[p] \cap W = visible \cap W
        BY <2>2, <2>3, <2>5
      <3>2. \A m \in W : m \in mailbox[q] => m \in visible'
        BY <2>1, <2>2, <3>1 DEF DeltaAnswered
      <3>3. \A m \in W : m \in visible' => m \in mailbox[q]
        BY <2>1, <2>2, <3>1 DEF DeltaAnswered
      <3> QED
        BY <3>2, <3>3
    <2> QED
      BY <1>2, <2>4, <2>5
  <1> QED
    BY <1>5, <1>6, <1>7

LEMMA CommitStep ==
  ASSUME SyncInv, NEW r \in Runners, Commit(r)
  PROVE  SyncInv'
  <1> DEFINE run == Batch(r)
  <1>1. pc[r] = "commit" /\ CommitSync(run) /\ Return(r) /\ UNCHANGED <<mailbox, begun>>
    BY DEF Commit
  <1>2. Acceptable(run) /\ run \in Run /\ run.asOf = asOf[r] /\ asOf[r] \in Times
    BY <1>1, BatchDescribes, LowerType DEF CommitSync, Batch
  <1>3. /\ run.cursor.lower <= asOf[r] - Lookback
        /\ run.cursor.position \in 1..Len(mailbox)
        /\ sync.cursor # NoCursor => sync.cursor.position <= run.cursor.position
                                     /\ sync.cursor.lower <= run.cursor.lower
    BY <1>1, <1>2, BatchDescribes
  <1>4. sync' = [cursor |-> run.cursor, success |-> run.asOf,
                 attempt |-> run.asOf, error |-> NoError]
        /\ stored' = stored \cup run.messages /\ flag' \in BOOLEAN
        /\ runs' \subseteq runs \cup {run}
    BY <1>1 DEF CommitSync
  <1>5. run.cursor \in Cursor /\ run.messages \in SUBSET Messages /\ run.cursor # NoCursor
    BY <1>2, <1>3 DEF Run, NoCursor
  <1>6. MailTypeOK'
    <2>1. sync' \in Checkpoint
      BY <1>2, <1>4, <1>5 DEF Checkpoint
    <2>2. visible' \in SUBSET stored'
      BY <1>1, <1>4 DEF CommitSync, SyncInv, TypeOK, MailTypeOK
    <2>3. stored' \in SUBSET Messages /\ runs' \in SUBSET Run
      BY <1>2, <1>4, <1>5 DEF SyncInv, TypeOK, MailTypeOK
    <2> QED
      BY <1>4, <2>1, <2>2, <2>3 DEF MailTypeOK
  <1>7. SyncTypeOK' /\ \A q \in Runners \ {r} : SameLocals(q)
    BY <1>1, ReturnTypes DEF SyncInv
  <1>8. Grows
    BY <1>1, <1>4 DEF Grows, SyncInv, TypeOK, SyncTypeOK
  <1>9. \A q \in Runners : RunnerInv(q)'
    <2>1. \A q \in Runners : RunnerInv(q)
      BY RunnersApart DEF SyncInv
    <2>2. \A q \in Runners \ {r} : RunnerInv(q)'
      BY <1>7, <1>8, <2>1, RunnerKept DEF SyncInv
    <2>3. RunnerInv(r)'
      BY <1>1, RunnerReturned DEF SyncInv, TypeOK, SyncTypeOK
    <2> QED
      BY <2>2, <2>3
  <1>10. Placed(sync.cursor)'
    BY <1>1, <1>3, <1>4 DEF Placed
  <1>11. (CursorsPlaced /\ StartsRetained /\ AnswersDescribeMailbox /\ NoEarlyPages)'
    BY <1>9, <1>10 DEF CursorsPlaced, StartsRetained, AnswersDescribeMailbox, NoEarlyPages, RunnerInv
  <1>12. WindowBehindAttempt'
    BY <1>2, <1>3, <1>4, TimesAssumption DEF WindowBehindAttempt
  <1>13. RunsBehindCheckpoint'
    <2>1. sync.cursor \in Cursor
      BY DEF SyncInv, TypeOK, MailTypeOK, Checkpoint
    <2>2. ASSUME NEW old \in runs
          PROVE  old.cursor.position <= run.cursor.position /\ old.cursor.lower <= run.cursor.lower
      <3>1. old.cursor \in Cursor
        BY DEF SyncInv, TypeOK, MailTypeOK, Run
      <3> QED
        BY <1>3, <1>5, <2>1, <3>1 DEF SyncInv, RunsBehindCheckpoint, Cursor
    <2> QED
      BY <1>4, <1>5, <2>2 DEF RunsBehindCheckpoint, Cursor
  <1>14. MirrorMatchesMailbox'
    <2>1. sync'.cursor = run.cursor
      BY <1>4
    <2> QED
      BY <1>1, <2>1, CommitMirrors DEF MirrorMatchesMailbox, InWindow
  <1> QED
    BY <1>6, <1>7, <1>11, <1>12, <1>13, <1>14 DEF SyncInv, TypeOK

(***************************************************************************)
(* The theorems.                                                           *)
(***************************************************************************)

LEMMA FunctionIsSeq ==
  ASSUME NEW S, NEW n \in Nat, NEW f \in [1..n -> S]
  PROVE  f \in Seq(S) /\ Len(f) = n
  OBVIOUS

LEMMA UpgradedRows ==
  ASSUME UpgradedRow
  PROVE  /\ sync \in Checkpoint /\ WindowBehindAttempt
         /\ sync.cursor = NoCursor \/ sync.cursor.position = 1
  <1>1. NoRow \in Checkpoint
    BY DEF NoRow, NoCursor, Checkpoint, Cursor, NoError
  <1>2. CASE sync = NoRow
    BY <1>1, <1>2 DEF WindowBehindAttempt, NoRow
  <1>3. CASE \E t \in Times, code \in ErrorCodes : sync = [NoRow EXCEPT !.attempt = t, !.error = code]
    BY <1>1, <1>3 DEF WindowBehindAttempt, NoRow, Checkpoint
  <1>4. ASSUME NEW first \in Times, NEW last \in Times, NEW t \in Times,
               NEW code \in ErrorCodes \cup {NoError}, first <= last, last <= t,
               sync = [cursor |-> [position |-> 1, lower |-> first - Lookback],
                       success |-> last, attempt |-> t, error |-> code]
        PROVE  sync \in Checkpoint /\ WindowBehindAttempt /\ sync.cursor.position = 1
    <2>1. first \in Int /\ last \in Int /\ t \in Int /\ t # NoTime
      BY TimesAssumption
    <2>2. first - Lookback \in Int /\ first - Lookback <= t - Lookback
      BY <1>4, <2>1, LookbackAssumption
    <2>3. sync \in Checkpoint
      BY <1>4, <2>2 DEF Checkpoint, Cursor
    <2> QED
      BY <1>4, <2>1, <2>2, <2>3 DEF WindowBehindAttempt
  <1> QED
    BY <1>2, <1>3, <1>4 DEF UpgradedRow

LEMMA SyncInit ==
  ASSUME Init
  PROVE  SyncInv
  <1>1. mailbox \in Seq(SUBSET Messages) /\ Len(mailbox) = 1
    <2>1. mailbox \in [1..1 -> SUBSET Messages]
      BY 1..1 = {1} DEF Init
    <2> QED
      BY <2>1, FunctionIsSeq
  <1>2. NoRow \in Checkpoint /\ NoAnswer \in Answer
    BY DEF NoRow, NoCursor, Checkpoint, Cursor, NoAnswer, Answer, NoError
  <1>3. SyncTypeOK /\ NoEarlyPages
    BY <1>1, <1>2 DEF Init, SyncTypeOK, NoEarlyPages, NothingAsked
  <1>4. StartsRetained /\ AnswersDescribeMailbox
    BY DEF Init, StartsRetained, Retained, NoRow, AnswersDescribeMailbox, HasAnswer
  <1>5. \A r \in Runners : Placed(before[r].cursor) /\ pc[r] = "idle"
    BY DEF Init, Placed, NoRow
  <1>6. RunsBehindCheckpoint /\ ~HasFullRun
    BY DEF Init, RunsBehindCheckpoint, HasFullRun
  <1>7. CASE NewDatabase
    BY <1>2, <1>3, <1>4, <1>5, <1>6, <1>7
    DEF NewDatabase, Init, SyncInv, TypeOK, MailTypeOK, CursorsPlaced, Placed, NoRow,
        WindowBehindAttempt, MirrorMatchesMailbox
  <1>8. CASE Upgraded
    <2>1. sync \in Checkpoint /\ Placed(sync.cursor) /\ WindowBehindAttempt
      BY <1>1, <1>8, UpgradedRows DEF Upgraded, Placed
    <2>2. MailTypeOK
      BY <1>8, <2>1 DEF Upgraded, Init, MailTypeOK
    <2>3. MirrorMatchesMailbox
      <3>1. sync.cursor # NoCursor => sync.cursor.position = 1
        BY <1>8, UpgradedRows DEF Upgraded
      <3> QED
        BY <1>6, <1>8, <3>1 DEF Upgraded, MirrorMatchesMailbox
    <2> QED
      BY <1>3, <1>4, <1>5, <1>6, <2>1, <2>2, <2>3 DEF SyncInv, TypeOK, CursorsPlaced
  <1> QED
    BY <1>7, <1>8 DEF Init

LEMMA SyncStep ==
  ASSUME SyncInv, [Next]_vars
  PROVE  SyncInv'
  <1>1. ASSUME NEW r \in Runners, NEW t \in Times, NEW wanted \in BOOLEAN, Begin(r, t, wanted)
        PROVE  SyncInv'
    BY <1>1, BeginStep
  <1>2. ASSUME NEW r \in Runners, Step(r)
        PROVE  SyncInv'
    <2>1. CASE Check(r)
      BY <2>1, CheckStep
    <2>2. CASE pc[r] = "page" /\ \E a \in Answers(r) : PageMore(r, a) \/ PageLast(r, a)
      BY <2>2, PageStep
    <2>3. CASE \E code \in ErrorCodes : PageRefused(r, code)
      BY <2>3, FailStep DEF PageRefused
    <2>4. CASE Commit(r)
      BY <2>4, CommitStep
    <2>5. CASE CommitRefused(r)
      <3>1. "INVALID_RESPONSE" \in ErrorCodes
        BY DEF ErrorCodes
      <3> QED
        BY <2>5, <3>1, FailStep DEF CommitRefused
    <2>6. CASE Record(r)
      BY <2>6, RecordStep
    <2> QED
      BY <1>2, <2>1, <2>2, <2>3, <2>4, <2>5, <2>6 DEF Step, Work
  <1>3. ASSUME NEW r \in Runners, Abort(r)
        PROVE  SyncInv'
    BY <1>3, ReturnStep DEF Abort
  <1>4. ASSUME NEW code \in ErrorCodes, NEW t \in Times, SyncFailed(code, t)
        PROVE  SyncInv'
    BY <1>4, SyncFailedStep
  <1>5. ASSUME NEW m \in Messages, Change(m)
        PROVE  SyncInv'
    BY <1>5, ChangeStep
  <1>6. CASE UNCHANGED vars
    <2>1. UNCHANGED <<mailVars, mailbox, runVars, begun>>
      BY <1>6 DEF vars
    <2> QED
      BY <2>1 DEF mailVars, runVars, SyncInv, TypeOK, SyncTypeOK, MailTypeOK, CursorsPlaced, Placed,
         WindowBehindAttempt, RunsBehindCheckpoint, StartsRetained, Retained, InWindow,
         AnswersDescribeMailbox, HasAnswer, Answered, FullAnswered, DeltaAnswered, Lower,
         MirrorMatchesMailbox, HasFullRun, NoEarlyPages, NothingAsked
  <1> QED
    BY <1>1, <1>2, <1>3, <1>4, <1>5, <1>6 DEF Next, Other, Step

LEMMA SyncInvariant == Spec => []SyncInv
  <1>1. Init => SyncInv
    BY SyncInit
  <1>2. SyncInv /\ [Next]_vars => SyncInv'
    BY SyncStep
  <1> QED
    BY <1>1, <1>2, PTL DEF Spec

\* Rows and locals keep their types, and only retained messages are visible.
THEOREM MailTypeCorrect == Spec => []TypeOK
  <1>1. SyncInv => TypeOK
    BY DEF SyncInv
  <1> QED
    BY <1>1, SyncInvariant, PTL

\* The checkpoint mirrors the mailbox at its cursor: no message is lost between
\* two cursors and no removal is missed, whatever runs overlap, fail or die.
THEOREM MirrorHolds == Spec => []MirrorMatchesMailbox
  <1>1. SyncInv => MirrorMatchesMailbox
    BY DEF SyncInv
  <1> QED
    BY <1>1, SyncInvariant, PTL

\* A recorded failure that comes to require a resynchronization found the checkpoint
\* its run began from.
LEMMA ExpiryStep ==
  ASSUME NEW r \in Runners, Record(r), ~ResyncRequired, ResyncRequired'
  PROVE  before[r].cursor = sync.cursor /\ before[r].success = sync.success
  <1>1. ~UNCHANGED mailVars
    BY DEF ResyncRequired, mailVars
  <1> QED
    BY <1>1 DEF Record, RecordFailure

\* ExpiryConcernsCheckpoint: a run whose checkpoint another run has replaced
\* meanwhile demands no resynchronization, whenever it fails.
THEOREM ExpiriesConcernCheckpoint == Spec => ExpiryConcernsCheckpoint
  <1>1. [Next]_vars =>
          [\A r \in Runners :
             Record(r) /\ ~ResyncRequired /\ ResyncRequired' =>
               before[r].cursor = sync.cursor /\ before[r].success = sync.success]_vars
    BY ExpiryStep
  <1> QED
    BY <1>1, PTL DEF Spec, ExpiryConcernsCheckpoint

\* No attempt, successful or failed, is recorded before an earlier one.
THEOREM AttemptsOrdered == Spec => AttemptsInOrder
  <1> DEFINE Ordered == sync.attempt # NoTime => sync'.attempt # NoTime /\ sync'.attempt >= sync.attempt
  <1>1. ASSUME SyncInv, [Next]_vars PROVE Ordered \/ UNCHANGED vars
    <2>1. sync.attempt # NoTime => sync.attempt \in Int
      BY <1>1, TimesAssumption DEF SyncInv, TypeOK, MailTypeOK, Checkpoint
    <2>2. ASSUME sync' = sync PROVE Ordered
      BY <2>1, <2>2
    <2>3. ASSUME NEW code \in ErrorCodes, NEW t \in Times, ~AttemptedAfter(t), WriteFailure(code, t)
          PROVE  Ordered
      BY <1>1, <2>1, <2>3, WriteFailureStore, TimesAssumption
    <2>4. ASSUME NEW r \in Runners, Commit(r) PROVE Ordered
      <3>1. pc[r] = "commit" /\ Acceptable(Batch(r)) /\ sync'.attempt = asOf[r]
        BY <2>4 DEF Commit, CommitSync, Batch
      <3>2. asOf[r] \in Int /\ asOf[r] # NoTime
        BY <1>1, <3>1, LowerType, TimesAssumption
      <3> QED
        BY <1>1, <2>1, <3>1, <3>2, BatchDescribes
    <2>5. ASSUME NEW r \in Runners, Record(r) PROVE Ordered
      <3>1. asOf[r] \in Times /\ error[r] \in ErrorCodes
        BY <1>1, <2>5, LowerType DEF Record, SyncInv, TypeOK, SyncTypeOK
      <3>2. sync' = sync \/ (~AttemptedAfter(asOf[r]) /\ WriteFailure(error[r], asOf[r]))
        BY <2>5 DEF Record, RecordFailure, mailVars
      <3> QED
        BY <2>2, <2>3, <3>1, <3>2
    <2>6. ASSUME NEW r \in Runners, Step(r), ~Commit(r), ~Record(r) PROVE sync' = sync
      BY <2>6 DEF Step, Work, Check, PageMore, PageLast, Page, PageRefused, CommitRefused, mailVars
    <2>7. ASSUME NEW code \in ErrorCodes, NEW t \in Times, SyncFailed(code, t) PROVE Ordered
      BY <2>3, <2>7 DEF SyncFailed
    <2>8. ASSUME NEW r \in Runners, NEW t \in Times, NEW wanted \in BOOLEAN, Begin(r, t, wanted)
          PROVE  sync' = sync
      BY <2>8 DEF Begin, mailVars
    <2>9. ASSUME NEW r \in Runners, Abort(r) PROVE sync' = sync
      BY <2>9 DEF Abort, mailVars
    <2>10. ASSUME NEW m \in Messages, Change(m) PROVE sync' = sync
      BY <2>10 DEF Change, mailVars
    <2> QED
      BY <1>1, <2>2, <2>4, <2>5, <2>6, <2>7, <2>8, <2>9, <2>10 DEF Next, Other, Step
  <1> QED
    BY <1>1, SyncInvariant, PTL DEF Spec, AttemptsInOrder

(***************************************************************************)
(* The refinement.                                                         *)
(***************************************************************************)

\* Nothing of the abstract state is touched.
SameMirror == mailbox' = mailbox /\ MirrorNow' = MirrorNow /\ ResyncRequired' = ResyncRequired
MirrorMoves == Mirror!Next \/ SameMirror

LEMMA StoreKeepsMirror ==
  ASSUME UNCHANGED <<mailVars, mailbox>>
  PROVE  MirrorMoves
  BY DEF mailVars, MirrorMoves, SameMirror, MirrorNow, ResyncRequired, HasFullRun, InWindow

LEMMA FailureRequires ==
  ASSUME SyncInv, NEW code \in ErrorCodes, NEW t \in Times, WriteFailure(code, t), mailbox' = mailbox
  PROVE  MirrorMoves
  <1>1. sync'.cursor = sync.cursor /\ sync'.error = code /\ visible' = visible /\ runs' = runs
    BY DEF WriteFailure, SyncInv, TypeOK, MailTypeOK, Checkpoint
  <1>2. MirrorNow' = MirrorNow
    BY <1>1 DEF MirrorNow, HasFullRun, InWindow
  <1>3. flag' = (ResyncRequired \/ code = "CURSOR_EXPIRED")
    BY DEF WriteFailure
  <1>4. CASE ResyncRequired \/ code = "CURSOR_EXPIRED"
    <2>1. ResyncRequired' = TRUE
      BY <1>3, <1>4 DEF ResyncRequired
    <2>2. Mirror!Require
      BY <1>2, <2>1 DEF Mirror!Require
    <2> QED
      BY <2>2 DEF MirrorMoves, Mirror!Next
  <1>5. CASE ~(ResyncRequired \/ code = "CURSOR_EXPIRED")
    <2>1. ResyncRequired' = FALSE /\ ResyncRequired = FALSE
      BY <1>1, <1>3, <1>5 DEF ResyncRequired, SyncInv, TypeOK, MailTypeOK
    <2> QED
      BY <1>2, <2>1 DEF MirrorMoves, SameMirror
  <1> QED
    BY <1>4, <1>5

LEMMA ChangeMirror ==
  ASSUME SyncInv, NEW m \in Messages, Change(m)
  PROVE  MirrorMoves
  <1>1. Shown \in SUBSET Messages
    BY DEF Shown, SyncInv, TypeOK, SyncTypeOK
  <1>2. MirrorNow' = MirrorNow /\ ResyncRequired' = ResyncRequired
    BY DEF Change, mailVars, MirrorNow, ResyncRequired, HasFullRun, InWindow
  <1>3. Mirror!Change
    BY <1>1, <1>2 DEF Change, Mirror!Change
  <1> QED
    BY <1>3 DEF MirrorMoves, Mirror!Next

LEMMA CommitMoves ==
  ASSUME SyncInv, NEW r \in Runners, Commit(r)
  PROVE  MirrorMoves
  <1> DEFINE run == Batch(r)
             q == run.cursor.position
             low == run.cursor.lower
  <1>1. pc[r] = "commit" /\ CommitSync(run) /\ mailbox' = mailbox /\ Acceptable(run)
    BY DEF Commit, CommitSync
  <1>2. run \in Run /\ q \in 1..Len(mailbox) /\ q \in Nat /\ low \in Int
        /\ Len(mailbox) \in Nat /\ run.full = full[r]
    <2>1. run \in Run /\ q \in 1..Len(mailbox) /\ run.full = full[r]
      BY <1>1, BatchDescribes DEF Batch
    <2>2. run.cursor \in Cursor
      BY <2>1 DEF Run
    <2> QED
      BY <2>1, <2>2 DEF Cursor, SyncInv, TypeOK, SyncTypeOK
  <1>3. sync'.cursor = run.cursor /\ sync'.error = NoError /\ flag' = (flag /\ ~run.full)
    BY <1>1 DEF CommitSync
  <1>4. sync.cursor \in Cursor /\ (sync.cursor # NoCursor <=> sync.cursor.position > 0)
        /\ sync.cursor.position \in 0..q
    <2>1. sync.cursor \in Cursor /\ Placed(sync.cursor)
      BY DEF SyncInv, TypeOK, MailTypeOK, Checkpoint, CursorsPlaced
    <2> QED
      BY <1>1, <1>2, <2>1, BatchDescribes DEF Cursor, Placed, NoCursor
  <1>5. sync.cursor # NoCursor => low >= sync.cursor.lower
    BY <1>1, <1>2, <1>4, BatchDescribes DEF Cursor
  <1>6. HasFullRun' => Mirror!ViewAt(q, low) = visible' \cap InWindow(low)
    BY <1>1, CommitMirrors DEF Mirror!ViewAt, Mirror!Window, InWindow
  <1>7. MirrorNow' = [position |-> q, lower |-> low, known |-> HasFullRun',
                      view |-> IF HasFullRun' THEN Mirror!ViewAt(q, low) ELSE {}]
    BY <1>3, <1>6 DEF MirrorNow, InWindow
  <1>8. MirrorNow.position = sync.cursor.position /\ MirrorNow.lower = sync.cursor.lower
        /\ MirrorNow.known = HasFullRun
    BY DEF MirrorNow
  <1>9. ResyncRequired' = flag'
    BY <1>3 DEF ResyncRequired, NoError, SyncInv, TypeOK, MailTypeOK
  <1>10. CASE full[r]
    <2>1. HasFullRun' = TRUE
      BY <1>1, <1>2, <1>10 DEF CommitSync, HasFullRun
    <2>2. ResyncRequired' = FALSE
      BY <1>2, <1>3, <1>9, <1>10
    <2>3. MirrorNow' = [position |-> q, lower |-> low, known |-> TRUE, view |-> Mirror!ViewAt(q, low)]
      BY <1>7, <2>1
    <2>4. q \in MirrorNow.position..Len(mailbox) /\ (MirrorNow.position > 0 => low >= MirrorNow.lower)
      BY <1>2, <1>4, <1>5, <1>8
    <2>5. Mirror!Resync(q, low) /\ MirrorNow'.lower = low
      BY <1>1, <2>2, <2>3, <2>4 DEF Mirror!Resync
    <2> QED
      BY <1>2, <2>5 DEF MirrorMoves, Mirror!Next
  <1>11. CASE ~full[r]
    <2>1. ~ResyncRequired /\ ResyncRequired' = ResyncRequired
      BY <1>1, <1>2, <1>3, <1>9, <1>11 DEF Acceptable, ResyncRequired, SyncInv, TypeOK, MailTypeOK
    <2>2. sync.cursor # NoCursor /\ low = sync.cursor.lower
      <3>1. sync = before[r] /\ RunnerInv(r)
        BY <1>1, BatchDescribes, RunnersApart DEF SyncInv
      <3> QED
        BY <1>1, <1>11, <3>1 DEF RunnerInv, Batch, Lower
    <2>3. HasFullRun' = HasFullRun
      BY <1>1, <1>2, <1>11 DEF CommitSync, HasFullRun
    <2>4. MirrorNow' = [position |-> q, lower |-> MirrorNow.lower, known |-> MirrorNow.known,
             view |-> IF MirrorNow.known THEN Mirror!ViewAt(q, MirrorNow.lower) ELSE {}]
      BY <1>7, <1>8, <2>2, <2>3
    <2>5. q \in MirrorNow.position..Len(mailbox) /\ MirrorNow.position > 0
      BY <1>2, <1>4, <1>8, <2>2
    <2>6. Mirror!Follow(q)
      BY <1>1, <2>1, <2>4, <2>5 DEF Mirror!Follow
    <2> QED
      BY <1>2, <2>6 DEF MirrorMoves, Mirror!Next
  <1> QED
    BY <1>10, <1>11

\* A checkpoint and its evidence behave as one mirror that moves forward, and
\* that only a full synchronization moves while one is required.
THEOREM SyncImplementsMirror == Spec => ImplementsMirror
  <1>1. ASSUME Init PROVE Mirror!Init
    <2>1. ~HasFullRun /\ sync.cursor.position \in {0, 1} /\ ResyncRequired \in BOOLEAN
      BY <1>1, UpgradedRows DEF Init, HasFullRun, NewDatabase, Upgraded, NoRow, NoCursor, ResyncRequired
    <2> QED
      BY <1>1, <2>1 DEF Init, Mirror!Init, MirrorNow
  <1>2. ASSUME SyncInv, [Next]_vars PROVE MirrorMoves
    <2>1. ASSUME NEW r \in Runners, Record(r) PROVE MirrorMoves
      <3>1. asOf[r] \in Times /\ error[r] \in ErrorCodes
        BY <1>2, <2>1, LowerType DEF Record, SyncInv, TypeOK, SyncTypeOK
      <3> QED
        BY <1>2, <2>1, <3>1, FailureRequires, StoreKeepsMirror DEF Record, RecordFailure
    <2>2. ASSUME NEW r \in Runners, Step(r), ~Commit(r), ~Record(r)
          PROVE  UNCHANGED <<mailVars, mailbox>>
      BY <2>2 DEF Step, Work, Check, PageMore, PageLast, Page, PageRefused, CommitRefused
    <2>3. ASSUME NEW r \in Runners, Step(r) PROVE MirrorMoves
      BY <1>2, <2>1, <2>2, <2>3, CommitMoves, StoreKeepsMirror
    <2>4. ASSUME NEW code \in ErrorCodes, NEW t \in Times, SyncFailed(code, t) PROVE MirrorMoves
      BY <1>2, <2>4, FailureRequires DEF SyncFailed
    <2>5. ASSUME NEW r \in Runners, NEW t \in Times, NEW wanted \in BOOLEAN, Begin(r, t, wanted)
          PROVE  MirrorMoves
      BY <2>5, StoreKeepsMirror DEF Begin
    <2>6. ASSUME NEW r \in Runners, Abort(r) PROVE MirrorMoves
      BY <2>6, StoreKeepsMirror DEF Abort
    <2>7. ASSUME NEW m \in Messages, Change(m) PROVE MirrorMoves
      BY <1>2, <2>7, ChangeMirror
    <2>8. CASE UNCHANGED vars
      BY <2>8, StoreKeepsMirror DEF vars
    <2> QED
      BY <1>2, <2>3, <2>4, <2>5, <2>6, <2>7, <2>8 DEF Next, Other, Step
  <1>3. MirrorMoves => [Mirror!Next]_(Mirror!mirrorVars)
    BY DEF MirrorMoves, SameMirror, Mirror!mirrorVars
  <1> QED
    BY <1>1, <1>2, <1>3, SyncInvariant, PTL DEF Spec, ImplementsMirror, Mirror!Spec

-----------------------------------------------------------------------------
(* Both parts are implemented. *)

LEMMA StepOfSync == [LiveNext]_<<vars, projection>> => [Next]_vars
  BY DEF LiveNext, CommitBookings, Next

\* Synchronization with bookings is synchronization: what is proved above
\* of MailSync holds of the composed system.
THEOREM LiveImplementsSync == LiveSpec => Spec
  <1>1. LiveInit => Init
    BY DEF LiveInit
  <1> QED
    BY <1>1, StepOfSync, PTL DEF LiveSpec, Spec

LEMMA LiveInvariant == LiveSpec => []SyncInv
  BY LiveImplementsSync, SyncInvariant, PTL

\* A step that brings no evidence stores none and records no run.
LEMMA OtherKeepsEvidence == Other => UNCHANGED <<stored, runs>>
  <1>1. ASSUME NEW code, NEW t, WriteFailure(code, t) PROVE UNCHANGED <<stored, runs>>
    BY <1>1 DEF WriteFailure
  <1>2. ASSUME NEW r \in Runners, Record(r) PROVE UNCHANGED <<stored, runs>>
    BY <1>1, <1>2 DEF Record, RecordFailure, mailVars
  <1>3. ASSUME NEW r \in Runners, Work(r) PROVE UNCHANGED <<stored, runs>>
    BY <1>2, <1>3 DEF Work, Check, PageMore, PageLast, Page, PageRefused, CommitRefused, mailVars
  <1> QED
    BY <1>1, <1>3 DEF Other, Begin, Abort, SyncFailed, Change, mailVars

\* Every batch a run commits is one that BookingRepository allows.
LEMMA StepOfBookings ==
  ASSUME SyncInv, [LiveNext]_<<vars, projection>>
  PROVE  [Booked!Next]_(Booked!vars)
  <1>1. CASE Other /\ UNCHANGED projection
    BY <1>1, OtherKeepsEvidence DEF projection, Booked!vars
  <1>2. ASSUME NEW r \in Runners, CommitBookings(r) PROVE Booked!Next
    <2>1. stored \in SUBSET Messages /\ answer[r].messages \in SUBSET Messages
      BY <1>2 DEF SyncInv, TypeOK, MailTypeOK, SyncTypeOK, Answer
    <2>2. Cardinality(stored \cup answer[r].messages) <= Cardinality(Messages)
      BY <2>1, FiniteMessages, FS_Subset
    <2>3. Booked!Cardinality(stored \cup answer[r].messages) = Cardinality(stored \cup answer[r].messages)
      BY DEF Booked!Cardinality, Cardinality
    <2> QED
      BY <1>2, <2>1, <2>2, <2>3 DEF CommitBookings, Booked!Next
  <1>3. CASE UNCHANGED <<vars, projection>>
    BY <1>3 DEF vars, mailVars, projection, Booked!vars
  <1> QED
    BY <1>1, <1>2, <1>3 DEF LiveNext

\* The projection takes only the steps of BookingRepository: what
\* BookingRepositoryProofs proves of it holds of the composed system.
THEOREM LiveImplementsBookings == LiveSpec => ImplementsBookings
  <1>1. LiveInit => Booked!Init
    BY DEF LiveInit
  <1> QED
    BY <1>1, StepOfBookings, LiveInvariant, PTL DEF LiveSpec, ImplementsBookings, Booked!Spec

-----------------------------------------------------------------------------
(* A cursor never outruns the bookings. *)

Carried(m) ==
  /\ link[m] # Booked!NoEvent /\ link[m] \in events[SegmentOf[m]]
  /\ current[SegmentOf[m]] # Booked!NoProjection

AllCarried == runs # {} => \A m \in stored : Granted(m) => Carried(m)

LEMMA ProjectionShows ==
  ASSUME NEW learned, NEW s, NEW p \in Booked!Projections(learned, s)
  PROVE  p # Booked!NoProjection
  <1>1. PICK row : p = Booked!Constrain(Booked!Project(s, learned[s], row), Booked!Family(learned, s))
    BY DEF Booked!Projections
  <1> DEFINE q == Booked!Project(s, learned[s], row)
  <1>2. q.status \in {"UNRESOLVED", "CANCELLED", "BOOKED"}
    BY DEF Booked!Project, Booked!Unresolved
  <1>3. p.status \in {"UNRESOLVED", "CANCELLED", "BOOKED"}
    BY <1>1, <1>2 DEF Booked!Constrain, Booked!Unresolved
  <1> QED
    BY <1>3 DEF Booked!NoProjection

\* A commit reads all retained mail again, so it carries all of it.
LEMMA CommitCarries ==
  ASSUME SyncInv, NEW r \in Runners, CommitBookings(r),
         NEW m \in stored', Granted(m)
  PROVE  Carried(m)'
  <1>1. PICK p \in Policies, travelers \in Callers :
          Booked!CommitSync(answer[r].messages, p, travelers)
    BY DEF CommitBookings
  <1> DEFINE mail == stored \cup answer[r].messages
             eligible == Booked!Eligible(mail, p, travelers)
             learned == Booked!Learned(eligible, p)
             s == SegmentOf[m]
  <1>2. /\ stored' = mail /\ events' = learned /\ current' \in Booked!Shown(learned)
        /\ link' = [n \in Messages |-> IF n \in eligible THEN Reading[p][n] ELSE link[n]]
    BY <1>1 DEF Booked!CommitSync
  <1>3. m \in Messages /\ s \in Segments
    BY <1>2, CouponsAssumption DEF SyncInv, TypeOK, MailTypeOK, SyncTypeOK, Answer
  <1>4. m \in eligible /\ Reading[p][m] # Booked!NoEvent
    BY <1>2 DEF Granted, Booked!Eligible
  <1>5. link'[m] = Reading[p][m] /\ Reading[p][m] \in learned[s]
    BY <1>2, <1>3, <1>4 DEF Booked!Learned
  <1>6. s \in Booked!Projected(learned)
    BY <1>3, <1>5 DEF Booked!Projected
  <1>7. current'[s] \in Booked!Projections(learned, s)
    BY <1>2, <1>3, <1>6 DEF Booked!Shown
  <1>8. current'[s] # Booked!NoProjection
    BY <1>7, ProjectionShows
  <1> QED
    BY <1>2, <1>4, <1>5, <1>8 DEF Carried, Booked!NoEvent, Booked!NoProjection

LEMMA CarriedStep ==
  ASSUME SyncInv, AllCarried, [LiveNext]_<<vars, projection>>
  PROVE  AllCarried'
  <1>1. CASE UNCHANGED <<stored, runs, projection>>
    BY <1>1 DEF AllCarried, Carried, Granted, projection
  <1>2. ASSUME NEW r \in Runners, CommitBookings(r) PROVE AllCarried'
    BY <1>2, CommitCarries DEF AllCarried, Granted
  <1> QED
    BY <1>1, <1>2, OtherKeepsEvidence DEF LiveNext, vars, mailVars

\* Once a run has completed, everything that was ever retained and everything the
\* mailbox showed at the cursor is linked to an event of its coupon, if every policy
\* and caller grants it, and the coupon is shown.
THEOREM BookingsCarried == LiveSpec => []CursorCarriesBookings
  <1>1. LiveInit => AllCarried
    BY DEF LiveInit, Init, AllCarried
  <1>2. LiveSpec => []AllCarried
    BY <1>1, CarriedStep, LiveInvariant, PTL DEF LiveSpec
  <1>3. SyncInv /\ AllCarried => CursorCarriesBookings
    <2>1. SUFFICES ASSUME SyncInv, AllCarried, runs # {},
                          NEW m \in Gathered
                   PROVE  m \in stored
      BY DEF CursorCarriesBookings, AllCarried, Carried
    <2>2. sync.cursor # NoCursor
      BY <2>1 DEF SyncInv, RunsBehindCheckpoint
    <2> QED
      BY <2>1, <2>2 DEF SyncInv, MirrorMatchesMailbox, Gathered
  <1> QED
    BY <1>2, <1>3, LiveInvariant, PTL

-----------------------------------------------------------------------------
(* A cancellation keeps its coupon from planning.                            *)

\* A nonempty set of naturals has a least element.
LEMMA LeastNumber ==
  ASSUME NEW T \in SUBSET Nat, T # {}
  PROVE  \E m \in T : \A n \in T : m <= n
  <1> DEFINE R == OpToRel(<, Nat)
  <1>1. IsWellFoundedOn(R, Nat)
    BY NatLessThanWellFounded
  <1>2. \A x, y \in Nat : x < y => <<x, y>> \in R
    BY DEF OpToRel
  <1> HIDE DEF R
  <1>3. PICK m \in T : \A n \in T : ~(<<n, m>> \in R)
    BY <1>1, WFMin
  <1>4. \A n \in T : ~(n < m)
    BY <1>2, <1>3
  <1> QED
    BY <1>4

LEMMA Induct ==
  ASSUME NEW T, 0 \in T, \A n \in Nat : n \in T => n + 1 \in T
  PROVE  Nat \subseteq T
  <1> SUFFICES ASSUME Nat \ T # {} PROVE FALSE
    OBVIOUS
  <1>1. PICK m \in Nat \ T : \A n \in Nat \ T : m <= n
    BY LeastNumber
  <1>2. m # 0 /\ m - 1 \in Nat /\ m - 1 \in T
    BY <1>1
  <1> QED
    BY <1>2, <1>1

\* What the walk over the barrier holds after sequence number n.
Onward(row, n, selected) == IF n \in DOMAIN row THEN Booked!Cross(selected, row[n]) ELSE selected

Steps(row, n, g) ==
  g[-1] = Booked!NoEvent /\ \A k \in 0..n : g[k] = Onward(row, k, g[k - 1])

LEMMA StepsExist ==
  ASSUME NEW row, NEW n \in Nat
  PROVE  \E g : Steps(row, n, g)
  <1> DEFINE T == {k \in Nat : \E g : Steps(row, k, g)}
  <1>1. 0 \in T
    <2> DEFINE g == [k \in {-1, 0} |-> IF k = -1 THEN Booked!NoEvent ELSE Onward(row, 0, Booked!NoEvent)]
    <2>1. Steps(row, 0, g)
      BY DEF Steps
    <2> QED
      BY <2>1
  <1>2. ASSUME NEW k \in Nat, k \in T PROVE k + 1 \in T
    <2>1. PICK g : Steps(row, k, g)
      BY <1>2
    <2> DEFINE h == [j \in -1..(k + 1) |-> IF j <= k THEN g[j] ELSE Onward(row, k + 1, g[k])]
    <2>2. h[-1] = Booked!NoEvent
      BY <2>1 DEF Steps
    <2>3. ASSUME NEW j \in 0..(k + 1) PROVE h[j] = Onward(row, j, h[j - 1])
      BY <2>1 DEF Steps
    <2>4. Steps(row, k + 1, h)
      BY <2>2, <2>3 DEF Steps
    <2> QED
      BY <2>4
  <1> HIDE DEF T
  <1>3. n \in T
    BY <1>1, <1>2, Induct
  <1> QED
    BY <1>3 DEF T

LEMMA WalkSteps ==
  ASSUME NEW row
  PROVE  \E g : Steps(row, MaxSequence, g) /\ Booked!Walk(row) = g[MaxSequence]
  <1> DEFINE Equation(g) == g = [n \in -1..MaxSequence |->
                                 IF n = -1 THEN Booked!NoEvent
                                 ELSE IF n \in DOMAIN row THEN Booked!Cross(g[n - 1], row[n])
                                 ELSE g[n - 1]]
  <1> USE SequenceAssumption
  <1>1. \E g : Equation(g)
    <2>1. PICK g : Steps(row, MaxSequence, g)
      BY StepsExist
    <2> DEFINE h == [n \in -1..MaxSequence |-> g[n]]
    <2>2. ASSUME NEW n \in -1..MaxSequence
          PROVE  h[n] = IF n = -1 THEN Booked!NoEvent
                        ELSE IF n \in DOMAIN row THEN Booked!Cross(h[n - 1], row[n])
                        ELSE h[n - 1]
      BY <2>1 DEF Steps, Onward
    <2>3. Equation(h)
      BY <2>2
    <2> QED
      BY <2>3
  <1> DEFINE h == CHOOSE g : Equation(g)
  <1>2. Equation(h)
    BY <1>1, Zenon
  <1>3. Booked!Walk(row) = h[MaxSequence]
    BY Zenon DEF Booked!Walk
  <1> HIDE DEF h
  <1>4. h[-1] = Booked!NoEvent
    BY <1>2
  <1>5. ASSUME NEW n \in 0..MaxSequence PROVE h[n] = Onward(row, n, h[n - 1])
    BY <1>2 DEF Onward
  <1>6. Steps(row, MaxSequence, h)
    BY <1>4, <1>5 DEF Steps
  <1> QED
    BY <1>3, <1>6

\* Nothing of a history reinstates a coupon.
Unreinstated(E) == ~\E e \in E : Booked!IsReinstatement(e)

\* What a walk holds that has met a cancellation which nothing ended.
Barred(x) == x = Booked!Broken \/ Booked!IsCancellation(x)

\* Without a reinstatement no event crosses the barrier.
LEMMA StaysBarred ==
  ASSUME NEW E, Unreinstated(E), NEW row \in Booked!Rows(E), NEW n, NEW x, Barred(x)
  PROVE  Barred(Onward(row, n, x))
  <1>1. n \in DOMAIN row => row[n] \in E
    BY DEF Booked!Rows
  <1>2. n \in DOMAIN row => ~Booked!IsReinstatement(row[n])
    BY <1>1 DEF Unreinstated
  <1> QED
    BY <1>2 DEF Barred, Onward, Booked!Cross

\* The walk through a history with authority ends at the barrier.
LEMMA WalkEndsBarred ==
  ASSUME NEW E, E \subseteq Booked!BookingEvent, Booked!Attributed(E), ~Booked!Conflict(E), Unreinstated(E),
         NEW row \in Booked!Rows(E), NEW c \in E, Booked!IsCancellation(c)
  PROVE  Barred(Booked!Walk(row))
  <1> DEFINE k == c.authority.sequence
  <1> USE SequenceAssumption
  <1>1. k \in 0..MaxSequence
    <2>1. c.authority \in Booked!Authority
      BY DEF Booked!BookingEvent, Booked!Attributed
    <2> QED
      BY <2>1 DEF Booked!Authority
  <1>2. k \in DOMAIN row /\ row[k] \in E /\ row[k].authority.sequence = k
    BY DEF Booked!Rows
  <1>3. Booked!IsCancellation(row[k])
    <2>1. Booked!Fact(row[k]) = Booked!Fact(c)
      BY <1>2 DEF Booked!Conflict, Booked!Contradicts
    <2> QED
      BY <2>1 DEF Booked!Fact, Booked!IsCancellation
  <1>4. PICK g : Steps(row, MaxSequence, g) /\ Booked!Walk(row) = g[MaxSequence]
    BY WalkSteps
  <1> HIDE DEF k
  <1>5. Barred(g[k])
    BY <1>1, <1>2, <1>3, <1>4 DEF Steps, Onward, Barred, Booked!Cross
  <1> DEFINE T == {n \in Nat : k <= n /\ n <= MaxSequence /\ ~Barred(g[n])}
  <1> SUFFICES ASSUME T # {} PROVE FALSE
    BY <1>1, <1>4
  <1>6. PICK n \in T : \A j \in T : n <= j
    BY LeastNumber
  <1>7. n # k /\ n - 1 \in Nat /\ n \in 0..MaxSequence /\ Barred(g[n - 1])
    BY <1>1, <1>5, <1>6
  <1>8. g[n] = Onward(row, n, g[n - 1])
    BY <1>4, <1>7 DEF Steps
  <1> QED
    BY <1>6, <1>7, <1>8, StaysBarred

\* The newest row of a history is one of its events.
LEMMA NewestRow ==
  ASSUME NEW E, E \subseteq Booked!BookingEvent, E # {}, NEW row \in Booked!Rows(E)
  PROVE  row[Booked!Max(DOMAIN row)] \in E
  <1> USE SequenceAssumption
  <1>1. ASSUME NEW e \in E PROVE e.authority.sequence \in -1..MaxSequence
    <2>1. e.authority \in Booked!Authority \cup {Booked!NoAuthority}
      BY DEF Booked!BookingEvent
    <2> QED
      BY <2>1 DEF Booked!Authority, Booked!NoAuthority
  <1>2. DOMAIN row = {e.authority.sequence : e \in E} /\ \A k \in DOMAIN row : row[k] \in E
    BY DEF Booked!Rows
  <1>3. DOMAIN row \subseteq -1..MaxSequence /\ DOMAIN row # {}
    BY <1>1, <1>2
  <1> DEFINE T == {k \in Nat : MaxSequence - k \in DOMAIN row}
  <1>4. T # {}
    <2>1. PICK n \in DOMAIN row : TRUE
      BY <1>3
    <2>2. MaxSequence - n \in Nat /\ MaxSequence - (MaxSequence - n) = n
      BY <1>3, <2>1
    <2>3. MaxSequence - n \in T
      BY <2>1, <2>2
    <2> QED
      BY <2>3
  <1>5. PICK k \in T : \A j \in T : k <= j
    BY <1>4, LeastNumber
  <1>6. ASSUME NEW j \in DOMAIN row PROVE MaxSequence - k >= j
    <2>1. j \in -1..MaxSequence
      BY <1>3
    <2>2. MaxSequence - j \in Nat /\ MaxSequence - (MaxSequence - j) = j
      BY <2>1
    <2>3. MaxSequence - j \in T
      BY <1>6, <2>2
    <2> QED
      BY <1>5, <2>1, <2>3
  <1>7. \E m \in DOMAIN row : \A j \in DOMAIN row : m >= j
    BY <1>5, <1>6
  <1>8. Booked!Max(DOMAIN row) \in DOMAIN row
    BY <1>7 DEF Booked!Max
  <1> QED
    BY <1>2, <1>8

\* A history with a cancellation and no reinstatement projects no booked coupon.
LEMMA CancelledIsNotBooked ==
  ASSUME NEW s, NEW E, E \subseteq Booked!BookingEvent, Unreinstated(E), NEW row \in Booked!Rows(E),
         NEW c \in E, Booked!IsCancellation(c)
  PROVE  Booked!Project(s, E, row).status # "BOOKED"
  <1> DEFINE x == Booked!Selected(s, E, row)
  <1>1. CASE Booked!Conflict(E)
    BY <1>1 DEF Booked!Project, Booked!Unresolved
  <1>2. CASE ~Booked!Conflict(E)
    <2>1. Barred(x)
      <3>1. CASE Booked!Attributed(E)
        <4>1. x = Booked!Walk(row)
          BY <3>1 DEF Booked!Selected, Booked!Barrier, Unreinstated
        <4> QED
          BY <1>2, <3>1, <4>1, WalkEndsBarred
      <3>2. CASE ~Booked!Attributed(E)
        <4>1. x = row[Booked!Max(DOMAIN row)]
          BY <3>2 DEF Booked!Selected, Booked!Barrier, Unreinstated
        <4>2. x \in E
          BY <4>1, NewestRow
        <4>3. Booked!Fact(x) = Booked!Fact(c)
          BY <1>2, <3>2, <4>2 DEF Booked!Conflict, Booked!Contradicts
        <4> QED
          BY <4>3 DEF Barred, Booked!Fact, Booked!IsCancellation
      <3> QED
        BY <3>1, <3>2
    <2> HIDE DEF x
    <2>2. CASE x = Booked!Broken
      BY <1>2, <2>2 DEF x, Booked!Project, Booked!Unresolved
    <2>3. CASE x # Booked!Broken /\ Booked!IsCancellation(x)
      BY <1>2, <2>3 DEF x, Booked!Project
    <2> QED
      BY <2>1, <2>2, <2>3 DEF Barred
  <1> QED
    BY <1>1, <1>2

\* What the tables hold of a coupon are events, and what it shows projects them.
Projecting ==
  \A s \in Segments :
    /\ events[s] \subseteq Booked!BookingEvent
    /\ events[s] # {} => current[s] \in Booked!Projections(events, s)

\* Some deployment read the event from retained mail of the coupon.
ReadFrom(mail, s, e) == \E n \in mail, p \in Policies : SegmentOf[n] = s /\ Reading[p][n] = e

\* Mail is linked to what some deployment read from it, and every event was read from
\* retained mail of its coupon.
Sourced ==
  /\ \A m \in Messages : link[m] # Booked!NoEvent => \E p \in Policies : link[m] = Reading[p][m]
  /\ \A s \in Segments : \A e \in events[s] : ReadFrom(stored, s, e)

LEMMA CommitProjects ==
  ASSUME Projecting, NEW batch \in SUBSET Messages, NEW p \in Policies, NEW travelers \in Callers,
         stored \subseteq Messages, Booked!CommitSync(batch, p, travelers)
  PROVE  Projecting'
  <1> DEFINE eligible == Booked!Eligible(stored \cup batch, p, travelers)
             learned == Booked!Learned(eligible, p)
  <1>1. events' = learned /\ current' \in Booked!Shown(learned)
    BY DEF Booked!CommitSync
  <1>2. \A m \in eligible : m \in Messages /\ Reading[p][m] \in Booked!BookingEvent
    BY ReadingAssumption DEF Booked!Eligible
  <1> HIDE DEF eligible
  <1>3. ASSUME NEW s \in Segments PROVE learned[s] \subseteq Booked!BookingEvent
    BY <1>2 DEF Projecting, Booked!Learned
  <1>4. ASSUME NEW s \in Segments, learned[s] # {} PROVE current'[s] \in Booked!Projections(learned, s)
    <2>1. s \in Booked!Projected(learned)
      BY <1>4 DEF Booked!Projected
    <2> HIDE DEF learned
    <2> QED
      BY <1>1, <2>1 DEF Booked!Shown
  <1> HIDE DEF learned
  <1>5. \A s \in Segments : Booked!Projections(events, s)' = Booked!Projections(learned, s)
    BY <1>1 DEF Booked!Projections, Booked!Family
  <1> QED
    BY <1>1, <1>3, <1>4, <1>5 DEF Projecting

LEMMA ProjectingStep ==
  ASSUME SyncInv, Projecting, [LiveNext]_<<vars, projection>>
  PROVE  Projecting'
  <1>1. CASE UNCHANGED projection
    BY <1>1 DEF projection, Projecting, Booked!Projections, Booked!Family
  <1>2. ASSUME NEW r \in Runners, CommitBookings(r) PROVE Projecting'
    <2>1. PICK p \in Policies, travelers \in Callers : Booked!CommitSync(answer[r].messages, p, travelers)
      BY <1>2 DEF CommitBookings
    <2>2. stored \subseteq Messages /\ answer[r].messages \in SUBSET Messages
      BY DEF SyncInv, TypeOK, MailTypeOK, SyncTypeOK, Answer
    <2> QED
      BY <2>1, <2>2, CommitProjects
  <1> QED
    BY <1>1, <1>2 DEF LiveNext

LEMMA CommitSources ==
  ASSUME Sourced, NEW batch, NEW p \in Policies, NEW travelers, stored \cup batch \subseteq Messages,
         Booked!CommitSync(batch, p, travelers)
  PROVE  Sourced'
  <1> DEFINE mail == stored \cup batch
             eligible == Booked!Eligible(mail, p, travelers)
             learned == Booked!Learned(eligible, p)
  <1>1. /\ stored' = mail /\ events' = learned
        /\ link' = [n \in Messages |-> IF n \in eligible THEN Reading[p][n] ELSE link[n]]
    BY DEF Booked!CommitSync
  <1>2. eligible \subseteq mail
    BY DEF Booked!Eligible
  <1> HIDE DEF eligible
  <1>3. ASSUME NEW m \in Messages, link'[m] # Booked!NoEvent
        PROVE  \E q \in Policies : link'[m] = Reading[q][m]
    BY <1>1, <1>3 DEF Sourced
  <1>4. ASSUME NEW s \in Segments, NEW e \in learned[s] PROVE ReadFrom(mail, s, e)
    <2>1. e \in events[s] \/ \E n \in eligible : SegmentOf[n] = s /\ e = Reading[p][n]
      BY <1>4 DEF Booked!Learned
    <2>2. CASE e \in events[s]
      BY <2>2 DEF Sourced, ReadFrom
    <2>3. CASE \E n \in eligible : SegmentOf[n] = s /\ e = Reading[p][n]
      BY <1>2, <2>3 DEF ReadFrom
    <2> QED
      BY <2>1, <2>2, <2>3
  <1> HIDE DEF learned
  <1> QED
    BY <1>1, <1>3, <1>4 DEF Sourced, Booked!NoEvent, ReadFrom

LEMMA SourcedStep ==
  ASSUME SyncInv, Sourced, [LiveNext]_<<vars, projection>>
  PROVE  Sourced'
  <1>1. CASE UNCHANGED <<stored, projection>>
    BY <1>1 DEF projection, Sourced, ReadFrom
  <1>2. ASSUME NEW r \in Runners, CommitBookings(r) PROVE Sourced'
    <2>1. PICK p \in Policies, travelers \in Callers : Booked!CommitSync(answer[r].messages, p, travelers)
      BY <1>2 DEF CommitBookings
    <2>2. stored \cup answer[r].messages \subseteq Messages
      BY DEF SyncInv, TypeOK, MailTypeOK, SyncTypeOK, Answer
    <2> QED
      BY <2>1, <2>2, CommitSources
  <1> QED
    BY <1>1, <1>2, OtherKeepsEvidence DEF LiveNext, vars, mailVars

\* CancellationsReachPlans: once a run has completed, mail that every deployment reads
\* as a cancellation and grants, of whatever age, gathered by whichever run or upgrade,
\* shown by the mailbox or not, keeps its coupon from planning while no retained mail
\* reinstates it, whatever other mail came before or after it.
THEOREM CancellationsReach == LiveSpec => []CancellationsReachPlans
  <1>1. LiveInit => Projecting /\ Sourced
    BY DEF LiveInit, Booked!Init, Projecting, Sourced
  <1>2. LiveSpec => [](Projecting /\ Sourced)
    BY <1>1, ProjectingStep, SourcedStep, LiveInvariant, PTL DEF LiveSpec
  <1>3. SyncInv /\ Projecting /\ Sourced /\ CursorCarriesBookings => CancellationsReachPlans
    <2>1. SUFFICES ASSUME SyncInv, Projecting, Sourced, CursorCarriesBookings, runs # {},
                          NEW m \in Gathered, Granted(m),
                          \A p \in Policies : Booked!IsCancellation(Reading[p][m]),
                          ~ReinstatedByMail(SegmentOf[m])
                   PROVE  ~Booked!PlanningReady(Booked!Published(SegmentOf[m]))
      BY DEF CancellationsReachPlans
    <2> DEFINE s == SegmentOf[m]
               E == events[s]
    <2>2. m \in Messages /\ s \in Segments
      <3>1. stored \in SUBSET Messages /\ InWindow(sync.cursor.lower) \subseteq Messages
        BY <2>1 DEF SyncInv, TypeOK, MailTypeOK, InWindow
      <3>2. m \in Messages
        BY <2>1, <3>1 DEF Gathered
      <3> QED
        BY <3>2, CouponsAssumption
    <2>3. link[m] # Booked!NoEvent /\ link[m] \in E
      BY <2>1 DEF CursorCarriesBookings
    <2>4. Booked!IsCancellation(link[m])
      BY <2>1, <2>2, <2>3 DEF Sourced
    <2>5. Unreinstated(E)
      BY <2>1, <2>2 DEF Sourced, ReadFrom, ReinstatedByMail, Unreinstated
    <2>6. PICK row \in Booked!Rows(E) :
            current[s] = Booked!Constrain(Booked!Project(s, E, row), Booked!Family(events, s))
      BY <2>1, <2>2, <2>3 DEF Projecting, Booked!Projections
    <2>7. Booked!Project(s, E, row).status # "BOOKED"
      <3>1. E \subseteq Booked!BookingEvent
        BY <2>1, <2>2 DEF Projecting
      <3> HIDE DEF E, s
      <3> QED
        BY <2>3, <2>4, <2>5, <3>1, CancelledIsNotBooked
    <2>8. current[s].status # "BOOKED"
      <3> DEFINE p == Booked!Project(s, E, row)
      <3> HIDE DEF p
      <3>1. current[s] = Booked!Constrain(p, Booked!Family(events, s)) /\ p.status # "BOOKED"
        BY <2>6, <2>7 DEF p
      <3> QED
        BY <3>1 DEF Booked!Constrain, Booked!Unresolved
    <2>9. Booked!Published(s).status # "BOOKED"
      BY <2>8 DEF Booked!Published, Booked!Constrain, Booked!Unresolved
    <2> QED
      BY <2>9 DEF Booked!PlanningReady
  <1> QED
    BY <1>2, <1>3, BookingsCarried, LiveInvariant, PTL
=============================================================================
