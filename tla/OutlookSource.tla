---------------------------- MODULE OutlookSource ----------------------------
(***************************************************************************)
(* One attempt of OutlookMailSource.sync (travel_agent/live/outlook.py) at *)
(* a time.                                                                 *)
(*                                                                         *)
(* log[k] says, after the k-th change of the mailbox, where each message   *)
(* is, which are drafts, which folders are normal ones, and which messages *)
(* the change touched.  There is no mailbox-wide history: every folder has *)
(* a delta of its own, so a cursor is a vector of positions.  A delta is   *)
(* taken to name every message a change touched in its folder, also one    *)
(* that came and went, and its last page, like the listing of folders, to  *)
(* be read at one moment.  A permanently deleted message never returns.    *)
(* Folders lie directly under the first one, their root.  Normalization,   *)
(* attachments, links and limits are left out: what they refuse ends an    *)
(* attempt as any failing request does.                                    *)
(***************************************************************************)
EXTENDS SourceAttempt, FiniteSets, FiniteSetsExt

CONSTANTS
  NoMessage,    \* where sync resolves none
  Folders,      \* folder ids, in their order
  MaxChanges    \* bound on changes of the mailbox

Absent == 0
Gone == -1
NoLinks == [f \in Folders |-> 0]

PlaceAt(m, k) == log[k].place[m]
PlaceNow(m) == PlaceAt(m, Now)
Exists(m) == PlaceNow(m) \in Folders

\* The mail in a set of folders, at the k-th change.
ViewAt(k, scope) == {m \in Messages : PlaceAt(m, k) \in scope /\ m \notin log[k].drafts}

Init ==
  /\ \E place \in [Messages -> Folders \cup {Absent}], drafts \in SUBSET Messages,
        normal \in SUBSET Folders :
       /\ 1 \in normal
       /\ \A m \in drafts : place[m] # Absent
       /\ log = <<[place |-> place, drafts |-> drafts, normal |-> normal, touched |-> {}]>>
  /\ Beginning

(***************************************************************************)
(* Calls.                                                                  *)
(***************************************************************************)

\* links: the position each folder's next delta starts from; left: the ids that a
\* delta named as removed; current, found, seen: the id being resolved, whether it
\* was found retained, and when it was first read.  The moments are for the properties.
Called(whole, bound, scope, vector, position) ==
  Begin([pc |-> "inventory", full |-> whole, lower |-> bound, previous |-> scope, folders |-> {},
         todo |-> {}, links |-> vector, hints |-> {}, left |-> {},
         current |-> NoMessage, found |-> FALSE, seen |-> 0, messages |-> {}, removed |-> {},
         known |-> retained, startedAt |-> Now, quietFrom |-> position, quietAt |-> 0])

BeginFull(since) == Called(TRUE, since, {}, NoLinks, 0)
BeginDelta(cursor) ==
  Called(FALSE, cursor.lower, cursor.folders, cursor.links, cursor.position)

(***************************************************************************)
(* Requests.                                                               *)
(***************************************************************************)

\* _inventory: the folders that are neither hidden nor searches.  A cursor holds
\* for the folders it was made for and no others.
Inventory ==
  /\ At("inventory")
  /\ LET normal == log[Now].normal
     IN  Proceed([attempt EXCEPT !.folders = normal, !.todo = normal,
                    !.pc = IF attempt.full \/ attempt.previous = normal THEN "staged" ELSE "expired"])

\* External: what a folder's delta names.  Without a link, all that is in the folder.
Named(f) ==
  IF attempt.links[f] = 0 THEN {m \in Messages : PlaceNow(m) = f}
  ELSE {m \in Messages : \E k \in (attempt.links[f] + 1)..Now :
          m \in log[k].touched /\ f \in {PlaceAt(m, k - 1), PlaceAt(m, k)}}

NextFolder == Min(attempt.todo)
Last == attempt.todo = {NextFolder}

\* _delta: the ids named by the folders, in the order of the folders.
StagedDelta ==
  /\ At("staged")
  /\ Proceed([attempt EXCEPT
       !.hints = @ \cup Named(NextFolder),
       !.left = @ \cup {m \in Named(NextFolder) : PlaceNow(m) # NextFolder},
       !.links[NextFolder] = Now, !.todo = @ \ {NextFolder},
       !.pc = IF Last THEN "resolve" ELSE "staged"])

\* Membership in the store is looked up before the message is read.
LookUp(m) ==
  /\ At("resolve") /\ m \in attempt.hints
  /\ Proceed([attempt EXCEPT !.pc = "light", !.hints = @ \ {m}, !.current = m,
                !.found = (m \in retained)])

Resolve(messages, removed) ==
  Proceed([attempt EXCEPT !.pc = "resolve", !.messages = @ \cup messages,
             !.removed = @ \cup removed, !.current = NoMessage, !.found = FALSE, !.seen = 0])

IfFound(m) == IF attempt.found THEN {m} ELSE {}

\* Mutant: a missing message is always a failure.
NeverTombstoned(m) == FALSE

\* A missing message is a removal only if an established delta said so.
Tombstoned(m) == m \in attempt.left /\ ~attempt.full

InScope(m) == PlaceNow(m) \in attempt.folders /\ m \notin log[Now].drafts

\* Mail below the lower bound is left out unless it was found retained.
Wanted(m) == m \in InWindow(attempt.lower) \/ attempt.found

ReadMissing(m) ==
  /\ ~Exists(m)
  /\ IF Tombstoned(m) THEN Resolve({}, IfFound(m)) ELSE Goto("refused")

ReadOutside(m) == Exists(m) /\ ~InScope(m) /\ Resolve({}, IfFound(m))

ReadOlder(m) == InScope(m) /\ ~Wanted(m) /\ Resolve({}, {})

ReadInScope(m) ==
  InScope(m) /\ Wanted(m) /\ Proceed([attempt EXCEPT !.pc = "full", !.found = FALSE, !.seen = Now])

ReadLight ==
  /\ At("light")
  /\ LET m == attempt.current
     IN  ReadMissing(m) \/ ReadOutside(m) \/ ReadOlder(m) \/ ReadInScope(m)

\* The body, refused unless its metadata is what the light read showed.
ReadFull ==
  /\ At("full")
  /\ IF \E k \in (attempt.seen + 1)..Now : attempt.current \in log[k].touched
     THEN Goto("refused")
     ELSE Resolve({attempt.current}, {})

Resolved ==
  /\ At("resolve") /\ attempt.hints = {}
  /\ Proceed([attempt EXCEPT !.pc = "quiet", !.todo = attempt.folders])

Quiet(f) == Named(f) = {}

\* The second round of deltas, from the links of the first.
QuietDelta ==
  /\ At("quiet")
  /\ IF Quiet(NextFolder)
     THEN Proceed([attempt EXCEPT
            !.quietAt = IF attempt.todo = attempt.folders THEN Now ELSE @,
            !.links[NextFolder] = Now, !.todo = @ \ {NextFolder},
            !.pc = IF Last THEN "verify" ELSE "quiet"])
     ELSE Goto("refused")

\* The folders are the ones of the first inventory.
Verify ==
  At("verify") /\ Goto(IF log[Now].normal = attempt.folders THEN "done" ELSE "refused")

(***************************************************************************)
(* The end of an attempt, and the rest of the world.                       *)
(***************************************************************************)

CommitAnswer ==
  Commit([folders |-> attempt.folders, lower |-> attempt.lower, position |-> attempt.quietAt,
          links |-> [f \in Folders |-> IF f \in attempt.folders THEN attempt.links[f] ELSE 0]])

Changed(place, drafts, normal, touched) ==
  /\ Now <= MaxChanges
  /\ Changes([place |-> place, drafts |-> drafts, normal |-> normal, touched |-> touched])

\* A message arrives, moves, is changed where it is, or is permanently deleted.
Move(m, place) ==
  /\ PlaceNow(m) # Gone /\ place # Absent
  /\ PlaceNow(m) = Absent => place # Gone
  /\ Changed([log[Now].place EXCEPT ![m] = place],
             log[Now].drafts \ (IF place = Gone THEN {m} ELSE {}), log[Now].normal, {m})

Send(m) ==
  /\ m \in log[Now].drafts
  /\ Changed(log[Now].place, log[Now].drafts \ {m}, log[Now].normal, {m})

\* A folder appears or becomes hidden; the root stays.
Toggle(f) ==
  /\ f # 1
  /\ Changed(log[Now].place, log[Now].drafts,
             IF f \in log[Now].normal THEN log[Now].normal \ {f} ELSE log[Now].normal \cup {f}, {})

Retain(m) == (\E k \in 1..Now : m \in ViewAt(k, Folders)) /\ Retains(m)

Step ==
  \/ Inventory \/ StagedDelta
  \/ At("resolve") /\ \E m \in attempt.hints : LookUp(m)
  \/ ReadLight \/ ReadFull \/ Resolved
  \/ QuietDelta \/ Verify

Next ==
  \/ \E since \in Lowers : BeginFull(since)
  \/ \E cursor \in cursors : BeginDelta(cursor)
  \/ Step
  \/ CommitAnswer \/ Abandon
  \/ \E m \in Messages : Retain(m)
  \/ \E m \in Messages, place \in Folders \cup {Gone} : Move(m, place)
  \/ \E m \in Messages : Send(m)
  \/ \E f \in Folders : Toggle(f)

Spec == Init /\ [][Next]_vars
=============================================================================
