----------------------------- MODULE MailSources -----------------------------
(***************************************************************************)
(* Either of the two mail sources over a mailbox of its kind, held to the  *)
(* contract that MailSync relies on, whichever provider an account has.    *)
(***************************************************************************)
EXTENDS SourceAttempt

CONSTANTS MaxHistoryPages, MaxRecords, NoMessage, Folders, MaxChanges

ASSUME SourcesAssumption ==
  /\ MaxHistoryPages \in Nat \ {0} /\ MaxRecords \in Nat /\ MaxChanges \in Nat
  /\ NoMessage \notin Messages
  /\ Folders \subseteq Nat \ {0} /\ 1 \in Folders

VARIABLE provider

Gmail == INSTANCE GmailSource
Outlook == INSTANCE OutlookSource

Init == \/ provider = "gmail" /\ Gmail!Init
        \/ provider = "outlook" /\ Outlook!Init

Next == /\ \/ provider = "gmail" /\ Gmail!Next
           \/ provider = "outlook" /\ Outlook!Next
        /\ UNCHANGED provider

Spec == Init /\ [][Next]_<<vars, provider>>

(***************************************************************************)
(* Properties.                                                             *)
(***************************************************************************)

\* Every request of sync sees another mailbox; Outlook reads each folder at another
\* moment, and its cursor is a vector of still other moments.  A completed answer
\* nevertheless describes the whole mailbox at one moment, that of its cursor, and
\* everything since the cursor it was asked to continue: the contract that MailSync
\* relies on.
AnswerKeepsContract ==
  At("done") =>
    IF provider = "gmail"
    THEN KeepsContract(attempt.checkpoint, Gmail!ShownAt(attempt.from),
                       Gmail!ShownAt(attempt.checkpoint))
    ELSE LET View(k) == Outlook!ViewAt(k, attempt.folders)
         IN  KeepsContract(attempt.quietAt, View(attempt.quietFrom), View(attempt.quietAt))

\* sync itself gives up only on a mailbox that changed under it: a quiet mailbox
\* always gets an answer, also after moves, drafts and deletions.
RefusalNeedsChange == At("refused") => Now > attempt.startedAt
=============================================================================
