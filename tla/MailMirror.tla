----------------------------- MODULE MailMirror -----------------------------
(***************************************************************************)
(* What a mail checkpoint promises, without runs, pages, tables or races:  *)
(* a view of the mailbox at one position, which moves forward in single    *)
(* steps (V9_IMPLEMENTATION_PLAN.md, "Synchronization and mailbox          *)
(* visibility" and "persistent full-resync requirement").                  *)
(***************************************************************************)
EXTENDS Integers, Sequences

CONSTANTS Messages, Received

VARIABLES
  mailbox,   \* what the mailbox showed, state after state
  mirror,    \* a position of it, and what is known to be visible there
  required   \* only a full synchronization may follow

mirrorVars == <<mailbox, mirror, required>>

Window(lower) == {m \in Messages : Received[m] >= lower}
ViewAt(position, lower) == mailbox[position] \cap Window(lower)

Init ==
  /\ mailbox \in [{1} -> SUBSET Messages]
  /\ mirror.position \in {0, 1} /\ ~mirror.known /\ mirror.view = {}
  /\ required \in BOOLEAN

Change ==
  /\ \E shown \in SUBSET Messages : mailbox' = Append(mailbox, shown)
  /\ UNCHANGED <<mirror, required>>

\* A full synchronization: everything from a lower bound on, which never recedes.
Resync(position, lower) ==
  /\ position \in mirror.position..Len(mailbox)
  /\ mirror.position > 0 => lower >= mirror.lower
  /\ mirror' = [position |-> position, lower |-> lower, known |-> TRUE,
                view |-> ViewAt(position, lower)]
  /\ required' = FALSE
  /\ UNCHANGED mailbox

\* An incremental one: the same window, later.
Follow(position) ==
  /\ mirror.position > 0 /\ ~required
  /\ position \in mirror.position..Len(mailbox)
  /\ mirror' = [position |-> position, lower |-> mirror.lower, known |-> mirror.known,
                view |-> IF mirror.known THEN ViewAt(position, mirror.lower) ELSE {}]
  /\ UNCHANGED <<mailbox, required>>

Require ==
  /\ required' = TRUE
  /\ UNCHANGED <<mailbox, mirror>>

Next ==
  \/ Change
  \/ \E position \in 1..Len(mailbox) : Resync(position, mirror'.lower) \/ Follow(position)
  \/ Require

Spec == Init /\ [][Next]_mirrorVars
=============================================================================
