----------------------------- MODULE MailSource -----------------------------
(***************************************************************************)
(* The contract of a mail source (travel_agent/live/providers.py): what a  *)
(* completed answer may say of the mailbox.  MailSync relies on it;        *)
(* GmailSource and OutlookSource are held to it.                           *)
(*                                                                         *)
(* All of an answer describes one position of the mailbox, the one its     *)
(* cursor stands for.  A source may look at any moment of its attempt      *)
(* which messages the store retains, so it may find what was retained when *)
(* the attempt began and any of what has been added since.                 *)
(***************************************************************************)
EXTENDS Integers

CONSTANTS
  Messages,   \* message ids of the account
  Received    \* received_at of each message

ASSUME ReceivedAssumption == Received \in [Messages -> Int]

InWindow(lower) == {m \in Messages : Received[m] >= lower}

\* Everything the mailbox shows that is not older than the lower bound.  A source
\* that goes by folders also delivers older messages it finds retained, and the
\* removal of those that have left.
FullAnswer(position, shown, lower, older, gone) ==
  [position |-> position,
   messages |-> shown \cap (InWindow(lower) \cup older), removed |-> gone \ shown]

FullAnswers(position, shown, lower, retained) ==
  {FullAnswer(position, shown, lower, older, gone) :
     older \in SUBSET retained, gone \in SUBSET retained}

\* The ids a source may report as touched: those that came or left, and any more.
Hints(old, shown) ==
  {hints \in SUBSET Messages : (old \ shown) \cup (shown \ old) \subseteq hints}

\* Of these, the messages that are not older than the lower bound or found
\* retained, and the removals, of which those not found retained may be left out.
DeltaAnswer(position, shown, lower, known, hints, more, gone) ==
  [position |-> position,
   messages |-> hints \cap shown \cap (InWindow(lower) \cup known \cup more),
   removed |-> (hints \ shown) \cap (known \cup gone)]

DeltaAnswers(position, old, shown, lower, known, retained) ==
  {DeltaAnswer(position, shown, lower, known, hints, more, gone) :
     hints \in Hints(old, shown), more \in SUBSET retained, gone \in SUBSET Messages}
=============================================================================
