----------------------------- MODULE GmailSource -----------------------------
(***************************************************************************)
(* One attempt of GmailMailSource.sync (travel_agent/live/gmail.py) at a   *)
(* time.                                                                   *)
(*                                                                         *)
(* log[k] has the labels of every message after the k-th history record    *)
(* and the messages that record is about, so a history id is an index of   *)
(* log.  A request sees the mailbox of its own moment; the last page of a  *)
(* history read reaches to the history id it carries.  A message that is   *)
(* permanently deleted never returns, nor does mail become a draft.        *)
(* Parsing, MIME and limits are left out: what they refuse ends an attempt *)
(* as any failing request does.                                            *)
(***************************************************************************)
EXTENDS SourceAttempt

CONSTANTS
  MaxHistoryPages,
  MaxRecords    \* bound on changes of the mailbox

Labels == {"absent", "draft", "mail", "deleted"}
LabelNow(m) == log[Now].labels[m]
ShownAt(k) == {m \in Messages : log[k].labels[m] = "mail"}

Init ==
  /\ log \in {<<[labels |-> labels, touched |-> {}]>> : labels \in [Messages -> {"absent", "draft", "mail"}]}
  /\ Beginning

(***************************************************************************)
(* Calls.                                                                  *)
(***************************************************************************)

\* The cursor's history id is where an incremental attempt starts from.
Called(place, whole, bound, from) ==
  Begin([pc |-> place, full |-> whole, lower |-> bound,
         from |-> from, checkpoint |-> from, reached |-> from, pages |-> 0,
         unlisted |-> Messages, ids |-> {}, messages |-> {}, removed |-> {},
         known |-> retained, startedAt |-> Now])

BeginFull(since) == Called("profile", TRUE, since, 0)
BeginDelta(cursor) == Called("history", FALSE, cursor.lower, cursor.position)

(***************************************************************************)
(* Requests of a full attempt.                                             *)
(***************************************************************************)

\* _profile: the mailbox's current history id, read before anything else.
Profile ==
  /\ At("profile")
  /\ Proceed([attempt EXCEPT !.pc = "list", !.checkpoint = Now, !.reached = Now])

\* A page of the listing.  The query reaches one second below the lower bound
\* and leaves drafts out.
ListPage(entries) ==
  /\ At("list")
  /\ Proceed([attempt EXCEPT
       !.ids = @ \cup {m \in entries : LabelNow(m) = "mail" /\ m \in InWindow(attempt.lower - 1)},
       !.unlisted = @ \ entries,
       !.pc = IF attempt.unlisted \subseteq entries THEN "read" ELSE "list"])

(***************************************************************************)
(* Requests of any attempt.                                                *)
(***************************************************************************)

\* _message: drafts are skipped, and mail below the lower bound unless an
\* incremental attempt finds it retained.
Admits(m) ==
  /\ LabelNow(m) = "mail"
  /\ m \in InWindow(attempt.lower) \/ (~attempt.full /\ m \in retained)

\* A message that is no longer there is not skipped: NOT_FOUND.
ReadMessage(m) ==
  /\ At("read") /\ m \in attempt.ids
  /\ IF LabelNow(m) \in {"draft", "mail"}
     THEN Proceed([attempt EXCEPT !.ids = @ \ {m},
                     !.messages = IF Admits(m) THEN @ \cup {m} ELSE @])
     ELSE Goto("refused")

\* The bodies are in; a full attempt now reads the history since its checkpoint.
ReadDone ==
  /\ At("read") /\ attempt.ids = {}
  /\ Goto(IF attempt.full THEN "history" ELSE "verify")

\* A history page that is not the last one.
HistoryPage(position) ==
  /\ At("history") /\ attempt.pages + 1 < MaxHistoryPages
  /\ Proceed([attempt EXCEPT !.reached = position, !.pages = @ + 1])

Touched(after) == UNION {log[k].touched : k \in (after + 1)..Now}

\* Messages of which the history says last that they were permanently deleted.
Deleted(after) == {m \in Touched(after) : LabelNow(m) = "deleted"}

\* The last page of a full attempt's history: nothing may have happened.
HistoryQuiet ==
  /\ At("history") /\ attempt.full
  /\ Goto(IF Touched(attempt.checkpoint) = {} /\ Now = attempt.checkpoint THEN "verify" ELSE "refused")

\* The last page of an incremental attempt's history, which it now stands for:
\* the messages whose present evidence is to be read, and the deleted ones.
HistoryComplete ==
  /\ At("history") /\ ~attempt.full
  /\ Proceed([attempt EXCEPT !.pc = "read", !.reached = Now, !.checkpoint = Now,
                !.removed = Deleted(attempt.from),
                !.ids = Touched(attempt.from) \ Deleted(attempt.from)])

\* Mutant: the profile is not compared at the end.
AlwaysQuiet == TRUE

\* The profile still has the checkpoint's history id.
StillQuiet == Now = attempt.checkpoint

Verify == At("verify") /\ Goto(IF StillQuiet THEN "done" ELSE "refused")

(***************************************************************************)
(* The end of an attempt, and the rest of the world.                       *)
(***************************************************************************)

CommitAnswer == Commit([position |-> attempt.checkpoint, lower |-> attempt.lower])

\* What a history record may do to a message; mail stays mail when other labels
\* change, as on moving to the trash.
Successors(label) ==
  CASE label = "absent" -> {"draft", "mail"}
    [] label = "draft" -> {"draft", "mail", "deleted"}
    [] label = "mail" -> {"mail", "deleted"}
    [] label = "deleted" -> {}

Change(m, label) ==
  /\ Now <= MaxRecords
  /\ label \in Successors(LabelNow(m))
  /\ Changes([labels |-> [log[Now].labels EXCEPT ![m] = label], touched |-> {m}])

Retain(m) == (\E k \in 1..Now : m \in ShownAt(k)) /\ Retains(m)

Step ==
  \/ Profile
  \/ At("list") /\ \E entries \in SUBSET attempt.unlisted : ListPage(entries)
  \/ At("read") /\ \E m \in attempt.ids : ReadMessage(m)
  \/ ReadDone
  \/ At("history") /\ \E position \in attempt.reached..Now : HistoryPage(position)
  \/ HistoryQuiet \/ HistoryComplete
  \/ Verify

Next ==
  \/ \E since \in Lowers : BeginFull(since)
  \/ \E cursor \in cursors : BeginDelta(cursor)
  \/ Step
  \/ CommitAnswer \/ Abandon
  \/ \E m \in Messages : Retain(m)
  \/ \E m \in Messages, label \in Labels : Change(m, label)

Spec == Init /\ [][Next]_vars
=============================================================================
