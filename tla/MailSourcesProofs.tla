-------------------------- MODULE MailSourcesProofs --------------------------
(***************************************************************************)
(* Proofs about MailSources: whichever provider an account has, a          *)
(* completed answer keeps the contract of MailSource, and an attempt       *)
(* refuses only after the mailbox has changed under it; and about          *)
(* MailClients: an answer of either HTTP client is whole and in time, and  *)
(* a refusal for size is due.                                              *)
(*                                                                         *)
(* The inductive invariant of either source has three parts: what no       *)
(* history of changes does to a message, what the store and its cursors    *)
(* stand for, and, at each place of an attempt, what its locals tell of    *)
(* the mailbox if nothing has happened since the moment that the attempt   *)
(* will check.  For Gmail that moment is the history id of the checkpoint. *)
(* Outlook has one link per folder, and what is told is true of the moment *)
(* at which the first of them is seen to be quiet.                         *)
(***************************************************************************)
EXTENDS MailSources, MailClients, FiniteSetTheorems, TLAPS

(***************************************************************************)
(* Gmail: the invariant.                                                   *)
(***************************************************************************)

Labelings == [labels : [Messages -> Gmail!Labels], touched : SUBSET Messages]

Untouched(m, j, k) == \A i \in (j + 1)..k : m \notin log[i].touched

Settled == {"mail", "deleted"}

\* What a history of changes cannot do.
GmailLogInv ==
  /\ log \in Seq(Labelings) /\ Len(log) >= 1
  /\ \A m \in Messages : \A j, k \in 1..Len(log) : j <= k =>
       /\ Untouched(m, j, k) => log[k].labels[m] = log[j].labels[m]
       /\ log[j].labels[m] \in Settled => log[k].labels[m] \in Settled
       /\ m \in log[j].touched => log[k].labels[m] # "absent"

GmailStoreInv ==
  /\ retained \subseteq {m \in Messages : log[Len(log)].labels[m] \in Settled}
  /\ cursors \subseteq [position : 1..Len(log), lower : Lowers]

GmailPlaces == {"profile", "list", "read", "history", "verify", "done", "refused"}

GmailAttempts ==
  [pc : GmailPlaces, full : BOOLEAN, lower : Int, from : Nat, checkpoint : Nat, reached : Nat,
   pages : Nat, unlisted : SUBSET Messages, ids : SUBSET Messages, messages : SUBSET Messages,
   removed : SUBSET Messages, known : SUBSET Messages, startedAt : Nat]

Busy == attempt # NoAttempt

GmailTypeInv == attempt = NoAttempt \/ attempt \in GmailAttempts

\* What the answer of a full attempt has to say.
Wanted == Gmail!ShownAt(attempt.checkpoint) \cap InWindow(attempt.lower)

GmailFullInv ==
  Busy /\ attempt.full =>
    /\ attempt.removed = {}
    /\ attempt.pc = "profile" =>
         attempt.messages = {} /\ attempt.ids = {} /\ attempt.unlisted = Messages
    /\ attempt.pc # "profile" =>
         attempt.startedAt <= attempt.checkpoint /\ attempt.checkpoint \in 1..Len(log)
    /\ attempt.pc = "list" =>
         /\ attempt.messages = {}
         /\ Len(log) = attempt.checkpoint =>
              attempt.ids = (Gmail!ShownAt(attempt.checkpoint) \cap InWindow(attempt.lower - 1))
                              \ attempt.unlisted
    /\ attempt.pc \in {"read", "history"} /\ Len(log) = attempt.checkpoint =>
         attempt.messages \subseteq Wanted /\ Wanted \subseteq attempt.messages \cup attempt.ids
    /\ attempt.pc = "history" => attempt.ids = {}
    /\ attempt.pc \in {"verify", "done"} => attempt.messages = Wanted

\* What an incremental attempt's history names.
Named == {m \in Messages : ~Untouched(m, attempt.from, attempt.checkpoint)}
NamedShown == Named \cap Gmail!ShownAt(attempt.checkpoint)

GmailDeltaInv ==
  Busy /\ ~attempt.full =>
    /\ attempt.from \in 1..Len(log)
    /\ attempt.pc \in {"history", "read", "verify", "done", "refused"}
    /\ attempt.pc = "history" => attempt.messages = {}
    /\ attempt.pc \in {"read", "verify", "done"} =>
         /\ attempt.startedAt <= attempt.checkpoint /\ attempt.from <= attempt.checkpoint
         /\ attempt.checkpoint \in 1..Len(log)
         /\ attempt.removed = {m \in Named : log[attempt.checkpoint].labels[m] = "deleted"}
         /\ attempt.ids \subseteq Named
    /\ \/ attempt.pc \in {"read", "verify"} /\ Len(log) = attempt.checkpoint
       \/ attempt.pc = "done"
       => /\ attempt.messages \subseteq NamedShown \cap (InWindow(attempt.lower) \cup retained)
          /\ NamedShown \cap (InWindow(attempt.lower) \cup attempt.known)
               \subseteq attempt.messages \cup attempt.ids
    /\ attempt.pc \in {"verify", "done"} => attempt.ids = {}

GmailStartInv ==
  Busy =>
    /\ attempt.lower \in Lowers
    /\ attempt.startedAt \in 1..Len(log)
    /\ attempt.known \subseteq retained
    /\ \A m \in attempt.known : log[attempt.startedAt].labels[m] \in Settled
    /\ Len(log) = attempt.startedAt =>
         \A m \in attempt.ids : log[Len(log)].labels[m] \in {"draft", "mail"}
    /\ attempt.pc = "refused" => Len(log) > attempt.startedAt
    /\ attempt.messages \subseteq {m \in Messages : log[Len(log)].labels[m] \in Settled}

GmailInv ==
  /\ GmailLogInv /\ GmailStoreInv /\ GmailTypeInv
  /\ GmailFullInv /\ GmailDeltaInv /\ GmailStartInv

USE AttemptsAssumption, SourcesAssumption, ReceivedAssumption

(***************************************************************************)
(* Gmail: every step keeps it.                                             *)
(***************************************************************************)

\* Every initial mailbox satisfies the invariant of the Gmail source.
LEMMA GmailInitial == ASSUME Gmail!Init PROVE GmailInv
<1> USE DEF Gmail!Init, Gmail!Beginning, Gmail!NoAttempt, NoAttempt, Gmail!Labels
<1>1. PICK labels \in [Messages -> {"absent", "draft", "mail"}] :
        log = <<[labels |-> labels, touched |-> {}]>>
  OBVIOUS
<1>2. log \in Seq(Labelings) /\ Len(log) = 1 /\ log[1] = [labels |-> labels, touched |-> {}]
  BY <1>1 DEF Labelings
<1>3. GmailLogInv
  BY <1>2 DEF GmailLogInv
<1>4. GmailStoreInv /\ GmailTypeInv
  BY <1>2 DEF GmailStoreInv, GmailTypeInv
<1>5. ~Busy
  BY DEF Busy
<1> QED BY <1>3, <1>4, <1>5 DEF GmailInv, GmailFullInv, GmailDeltaInv, GmailStartInv

\* The mailbox moves on; what has been read of it stays.
LEMMA GmailGrows ==
  ASSUME GmailInv, NEW m \in Messages, NEW label \in Gmail!Labels, Gmail!Change(m, label)
  PROVE  GmailInv'
<1> DEFINE n == Len(log)
           new == [labels |-> [log[n].labels EXCEPT ![m] = label], touched |-> {m}]
<1>1. /\ log' = Append(log, new) /\ retained' = retained /\ cursors' = cursors
      /\ attempt' = attempt /\ label \in Gmail!Successors(log[n].labels[m])
  BY DEF Gmail!Change, Gmail!Changes, Gmail!LabelNow, Gmail!Now
<1>2. log \in Seq(Labelings) /\ n \in Nat /\ n >= 1
  BY DEF GmailInv, GmailLogInv
<1>3. log[n] \in Labelings
  BY <1>2
<1>4. new \in Labelings
  BY <1>3 DEF Labelings
<1>5. /\ log' \in Seq(Labelings) /\ Len(log') = n + 1 /\ log'[n + 1] = new
      /\ \A k \in 1..n : log'[k] = log[k]
  BY <1>1, <1>2, <1>4
<1>6. /\ new.labels[m] = label /\ new.touched = {m}
      /\ \A o \in Messages \ {m} : new.labels[o] = log[n].labels[o]
  BY <1>3 DEF Labelings
<1>7. /\ label # "absent" /\ (log[n].labels[m] \in Settled => label \in Settled)
  BY <1>1, <1>3 DEF Gmail!Successors, Settled, Labelings, Gmail!Labels
<1> HIDE DEF new, n
<1>8. GmailLogInv'
  <2> SUFFICES ASSUME NEW o \in Messages, NEW j \in 1..(n + 1), NEW k \in 1..(n + 1), j <= k
               PROVE  /\ Untouched(o, j, k)' => log'[k].labels[o] = log'[j].labels[o]
                      /\ log'[j].labels[o] \in Settled => log'[k].labels[o] \in Settled
                      /\ o \in log'[j].touched => log'[k].labels[o] # "absent"
    BY <1>2, <1>5 DEF GmailLogInv
  <2>1. CASE k \in 1..n
    <3>1. j \in 1..n
      BY <2>1, <1>2
    <3>2. Untouched(o, j, k)' => Untouched(o, j, k)
      <4> SUFFICES ASSUME Untouched(o, j, k)', NEW i \in (j + 1)..k PROVE o \notin log[i].touched
        BY DEF Untouched
      <4>1. i \in 1..n
        BY <2>1, <1>2
      <4> QED BY <4>1, <1>5 DEF Untouched
    <3>3. /\ Untouched(o, j, k) => log[k].labels[o] = log[j].labels[o]
          /\ log[j].labels[o] \in Settled => log[k].labels[o] \in Settled
          /\ o \in log[j].touched => log[k].labels[o] # "absent"
      BY <3>1, <2>1 DEF n, GmailInv, GmailLogInv
    <3> QED BY <3>1, <3>2, <3>3, <2>1, <1>5
  <2>2. CASE k = n + 1 /\ j = n + 1
    BY <2>2, <1>5, <1>6, <1>7
  <2>3. CASE k = n + 1 /\ j \in 1..n
    <3>1. /\ Untouched(o, j, n) => log[n].labels[o] = log[j].labels[o]
          /\ log[j].labels[o] \in Settled => log[n].labels[o] \in Settled
          /\ o \in log[j].touched => log[n].labels[o] # "absent"
      BY <2>3, <1>2 DEF n, GmailInv, GmailLogInv
    <3>2. Untouched(o, j, k)' => Untouched(o, j, n) /\ o # m
      <4> SUFFICES ASSUME Untouched(o, j, k)' PROVE Untouched(o, j, n) /\ o # m
        OBVIOUS
      <4>1. \A i \in (j + 1)..n : i \in 1..n /\ i \in (j + 1)..k
        BY <2>3, <1>2
      <4>2. n + 1 \in (j + 1)..k
        BY <2>3, <1>2
      <4>3. o \notin log'[n + 1].touched
        BY <4>2 DEF Untouched
      <4> QED BY <4>1, <4>3, <1>5, <1>6 DEF Untouched
    <3>3. CASE o = m
      BY <3>1, <3>2, <3>3, <2>3, <1>5, <1>6, <1>7
    <3>4. CASE o # m
      BY <3>1, <3>2, <3>4, <2>3, <1>5, <1>6, <1>7
    <3> QED BY <3>3, <3>4
  <2> QED BY <2>1, <2>2, <2>3, <1>2
<1>9. \A o \in Messages : log[n].labels[o] \in Settled => log'[n + 1].labels[o] \in Settled
  BY <1>5, <1>6, <1>7
<1>10. GmailStoreInv'
  <2>1. retained \subseteq {o \in Messages : log'[n + 1].labels[o] \in Settled}
    BY <1>9 DEF GmailInv, GmailStoreInv, n
  <2>2. cursors \subseteq [position : 1..(n + 1), lower : Lowers]
    <3>1. \A p \in 1..n : p \in 1..(n + 1)
      BY <1>2
    <3> QED BY <3>1 DEF GmailInv, GmailStoreInv, n
  <2> QED BY <2>1, <2>2, <1>1, <1>5 DEF GmailStoreInv
<1>11. GmailTypeInv'
  BY <1>1 DEF GmailInv, GmailTypeInv
<1>12. \A k \in 1..n : Gmail!ShownAt(k)' = Gmail!ShownAt(k)
  BY <1>5 DEF Gmail!ShownAt
<1>13. \A k \in Nat : k \in 1..n => n + 1 # k /\ k \in 1..(n + 1)
  BY <1>2
<1>14. \A o \in Messages : \A j, k \in 1..n : Untouched(o, j, k)' <=> Untouched(o, j, k)
  <2> SUFFICES ASSUME NEW o \in Messages, NEW j \in 1..n, NEW k \in 1..n
               PROVE  Untouched(o, j, k)' <=> Untouched(o, j, k)
    OBVIOUS
  <2>1. \A i \in (j + 1)..k : i \in 1..n
    BY <1>2
  <2> QED BY <2>1, <1>5 DEF Untouched
<1>15. GmailFullInv'
  <2> SUFFICES ASSUME Busy, attempt.full, attempt \in GmailAttempts
               PROVE  GmailFullInv'
    BY <1>1 DEF GmailFullInv, GmailInv, GmailTypeInv, Busy
  <2>1. CASE attempt.pc = "profile"
    BY <2>1, <1>1 DEF GmailFullInv, GmailInv
  <2>2. CASE attempt.pc # "profile"
    <3>1. attempt.checkpoint \in 1..n /\ attempt.checkpoint \in Nat
      BY <2>2 DEF GmailFullInv, GmailInv, n, GmailAttempts
    <3>2. n + 1 # attempt.checkpoint /\ attempt.checkpoint \in 1..(n + 1)
      BY <3>1, <1>13
    <3>3. Wanted' = Wanted
      BY <3>1, <1>1, <1>12 DEF Wanted
    <3> QED BY <2>2, <3>2, <3>3, <1>1, <1>5 DEF GmailFullInv, GmailInv
  <2> QED BY <2>1, <2>2
<1>16. GmailDeltaInv'
  <2> SUFFICES ASSUME Busy, ~attempt.full, attempt \in GmailAttempts
               PROVE  GmailDeltaInv'
    BY <1>1 DEF GmailDeltaInv, GmailInv, GmailTypeInv, Busy
  <2>1. attempt.from \in 1..n /\ attempt.from \in Nat /\ attempt.checkpoint \in Nat
    BY DEF GmailDeltaInv, GmailInv, n, GmailAttempts
  <2>2. attempt.from \in 1..(n + 1)
    BY <2>1, <1>13
  <2>3. CASE attempt.pc \in {"read", "verify", "done"}
    <3>1. attempt.checkpoint \in 1..n
      BY <2>3 DEF GmailDeltaInv, GmailInv, n
    <3>2. n + 1 # attempt.checkpoint /\ attempt.checkpoint \in 1..(n + 1)
      BY <3>1, <2>1, <1>13
    <3>3. Named' = Named
      BY <3>1, <2>1, <1>1, <1>14 DEF Named
    <3>4. NamedShown' = NamedShown
      BY <3>1, <3>3, <1>1, <1>12 DEF NamedShown
    <3> QED BY <2>2, <2>3, <3>1, <3>2, <3>3, <3>4, <1>1, <1>5 DEF GmailDeltaInv, GmailInv
  <2>4. CASE attempt.pc \notin {"read", "verify", "done"}
    BY <2>2, <2>4, <1>1, <1>5 DEF GmailDeltaInv, GmailInv
  <2> QED BY <2>3, <2>4
<1>17. GmailStartInv'
  <2> SUFFICES ASSUME Busy, attempt \in GmailAttempts PROVE GmailStartInv'
    BY <1>1 DEF GmailStartInv, GmailInv, GmailTypeInv, Busy
  <2>1. attempt.startedAt \in 1..n /\ attempt.startedAt \in Nat
    BY DEF GmailStartInv, GmailInv, n, GmailAttempts
  <2>2. n + 1 # attempt.startedAt /\ attempt.startedAt \in 1..(n + 1) /\ n + 1 > attempt.startedAt
    BY <2>1, <1>2
  <2>3. attempt.messages \subseteq {o \in Messages : log'[n + 1].labels[o] \in Settled}
    BY <1>9 DEF GmailStartInv, GmailInv, n
  <2>4. \A o \in attempt.known : log'[attempt.startedAt].labels[o] \in Settled
    BY <2>1, <1>5 DEF GmailStartInv, GmailInv
  <2> QED BY <2>2, <2>3, <2>4, <1>1, <1>5 DEF GmailStartInv, GmailInv
<1> QED BY <1>8, <1>10, <1>11, <1>15, <1>16, <1>17 DEF GmailInv

\* A step of the attempt leaves the mailbox alone.
GmailStill == log' = log /\ GmailLogInv

LEMMA GmailLogStill == ASSUME GmailStill PROVE GmailLogInv'
  BY DEF GmailStill, GmailLogInv, Untouched

LEMMA GmailStarts ==
  ASSUME GmailInv, NEW place \in {"profile", "history"}, NEW lower \in Lowers,
         NEW from \in Nat, NEW whole \in BOOLEAN,
         whole => place = "profile",
         ~whole => place = "history" /\ from \in 1..Len(log),
         Gmail!Called(place, whole, lower, from)
  PROVE  GmailInv'
<1> DEFINE new == [pc |-> place, full |-> whole, lower |-> lower,
         from |-> from, checkpoint |-> from, reached |-> from, pages |-> 0,
         unlisted |-> Messages, ids |-> {}, messages |-> {}, removed |-> {},
         known |-> retained, startedAt |-> Len(log)]
<1>1. /\ log' = log /\ retained' = retained /\ cursors' = cursors /\ attempt' = new
  BY DEF Gmail!Called, Gmail!Begin, Gmail!Now
<1>2. log \in Seq(Labelings) /\ Len(log) \in Nat /\ Len(log) >= 1
  BY DEF GmailInv, GmailLogInv
<1>3. retained \subseteq {m \in Messages : log[Len(log)].labels[m] \in Settled}
  BY DEF GmailInv, GmailStoreInv
<1>4. /\ new.pc = place /\ new.full = whole /\ new.lower = lower /\ new.from = from
      /\ new.checkpoint = from /\ new.unlisted = Messages /\ new.ids = {} /\ new.messages = {}
      /\ new.removed = {} /\ new.known = retained /\ new.startedAt = Len(log)
  OBVIOUS
<1>5. new \in GmailAttempts
  BY <1>2, <1>3 DEF GmailAttempts, GmailPlaces
<1> HIDE DEF new
<1>6. GmailLogInv' /\ GmailStoreInv' /\ GmailTypeInv'
  BY <1>1, <1>5, GmailLogStill DEF GmailStill, GmailInv, GmailStoreInv, GmailTypeInv
<1>7. GmailFullInv'
  BY <1>1, <1>4 DEF GmailFullInv
<1>8. GmailDeltaInv'
  BY <1>1, <1>4 DEF GmailDeltaInv
<1>9. GmailStartInv'
  BY <1>1, <1>2, <1>3, <1>4 DEF GmailStartInv
<1> QED BY <1>6, <1>7, <1>8, <1>9 DEF GmailInv

\* What is left to show of a request that has an answer or a refusal: the parts of
\* the invariant that speak of the attempt.
LEMMA GmailProceeds ==
  ASSUME GmailInv, Gmail!Proceed(attempt'), attempt' \in GmailAttempts,
         GmailFullInv', GmailDeltaInv', GmailStartInv'
  PROVE  GmailInv'
<1>1. log' = log /\ retained' = retained /\ cursors' = cursors
  BY DEF Gmail!Proceed
<1>2. GmailLogInv' /\ GmailStoreInv' /\ GmailTypeInv'
  BY <1>1, GmailLogStill DEF GmailStill, GmailInv, GmailStoreInv, GmailTypeInv
<1> QED BY <1>2 DEF GmailInv

LEMMA GmailBusy ==
  ASSUME GmailInv, NEW place, Gmail!At(place), place # "idle"
  PROVE  /\ attempt \in GmailAttempts /\ Busy /\ attempt.pc = place
         /\ Len(log) \in Nat /\ Len(log) >= 1 /\ log[Len(log)] \in Labelings
<1>1. attempt # NoAttempt
  BY DEF Gmail!At, NoAttempt
<1>2. log \in Seq(Labelings) /\ Len(log) \in Nat /\ Len(log) >= 1
  BY DEF GmailInv, GmailLogInv
<1>3. log[Len(log)] \in Labelings
  BY <1>2
<1> QED BY <1>1, <1>2, <1>3 DEF GmailInv, GmailTypeInv, Busy, Gmail!At

LEMMA GmailProfile == ASSUME GmailInv, Gmail!Profile PROVE GmailInv'
<1>1. /\ attempt \in GmailAttempts /\ Busy /\ attempt.pc = "profile"
      /\ Len(log) \in Nat /\ Len(log) >= 1 /\ log[Len(log)] \in Labelings
  BY GmailBusy DEF Gmail!Profile
<1>2. /\ attempt' = [attempt EXCEPT !.pc = "list", !.checkpoint = Len(log), !.reached = Len(log)]
      /\ Gmail!Proceed(attempt') /\ log' = log /\ retained' = retained
  BY DEF Gmail!Profile, Gmail!Proceed, Gmail!Now
<1>3. attempt' \in GmailAttempts
  BY <1>1, <1>2 DEF GmailAttempts, GmailPlaces
<1>4. /\ attempt'.pc = "list" /\ attempt'.checkpoint = Len(log) /\ attempt'.full = attempt.full
      /\ attempt'.removed = attempt.removed /\ attempt'.messages = attempt.messages
      /\ attempt'.ids = attempt.ids /\ attempt'.unlisted = attempt.unlisted
      /\ attempt'.startedAt = attempt.startedAt /\ attempt'.known = attempt.known
  BY <1>1, <1>2 DEF GmailAttempts
<1>5. attempt.full /\ attempt.messages = {} /\ attempt.ids = {} /\ attempt.unlisted = Messages
      /\ attempt.removed = {} /\ attempt.startedAt \in 1..Len(log)
  BY <1>1 DEF GmailInv, GmailFullInv, GmailDeltaInv, GmailStartInv
<1>6. (Gmail!ShownAt(attempt.checkpoint))' \subseteq Messages
  BY DEF Gmail!ShownAt
<1>7. GmailFullInv'
  BY <1>1, <1>2, <1>4, <1>5, <1>6 DEF GmailFullInv
<1>8. GmailDeltaInv'
  BY <1>4, <1>5 DEF GmailDeltaInv
<1>9. GmailStartInv'
  BY <1>1, <1>2, <1>4, <1>5 DEF GmailStartInv, GmailInv
<1> QED BY <1>2, <1>3, <1>7, <1>8, <1>9, GmailProceeds

LEMMA GmailListPage ==
  ASSUME GmailInv, NEW entries \in SUBSET Messages, Gmail!ListPage(entries)
  PROVE  GmailInv'
<1>1. /\ attempt \in GmailAttempts /\ Busy /\ attempt.pc = "list"
      /\ Len(log) \in Nat /\ Len(log) >= 1 /\ log[Len(log)] \in Labelings
  BY GmailBusy DEF Gmail!ListPage
<1> DEFINE found == {m \in entries : log[Len(log)].labels[m] = "mail"
                                      /\ m \in InWindow(attempt.lower - 1)}
<1>2. /\ attempt' = [attempt EXCEPT !.ids = @ \cup found, !.unlisted = @ \ entries,
                       !.pc = IF attempt.unlisted \subseteq entries THEN "read" ELSE "list"]
      /\ Gmail!Proceed(attempt') /\ log' = log /\ retained' = retained
  BY DEF Gmail!ListPage, Gmail!Proceed, Gmail!LabelNow, Gmail!Now, Gmail!InWindow, InWindow
<1>3. found \subseteq Messages
  OBVIOUS
<1> HIDE DEF found
<1>4. attempt' \in GmailAttempts
  BY <1>1, <1>2, <1>3 DEF GmailAttempts, GmailPlaces
<1>5. /\ attempt'.checkpoint = attempt.checkpoint /\ attempt'.full = attempt.full
      /\ attempt'.removed = attempt.removed /\ attempt'.messages = attempt.messages
      /\ attempt'.startedAt = attempt.startedAt /\ attempt'.known = attempt.known
      /\ attempt'.ids = attempt.ids \cup found /\ attempt'.unlisted = attempt.unlisted \ entries
      /\ attempt'.lower = attempt.lower /\ attempt.lower \in Int
      /\ attempt'.pc \in {"read", "list"}
      /\ (attempt'.pc = "read" => attempt'.unlisted = {})
  BY <1>1, <1>2 DEF GmailAttempts
<1>6. /\ attempt.full /\ attempt.messages = {} /\ attempt.removed = {}
      /\ attempt.startedAt <= attempt.checkpoint /\ attempt.checkpoint \in 1..Len(log)
      /\ Len(log) = attempt.checkpoint =>
              attempt.ids = (Gmail!ShownAt(attempt.checkpoint) \cap InWindow(attempt.lower - 1))
                              \ attempt.unlisted
  BY <1>1 DEF GmailInv, GmailFullInv, GmailDeltaInv
<1>7. Len(log) = attempt.checkpoint =>
        attempt'.ids = (Gmail!ShownAt(attempt.checkpoint) \cap InWindow(attempt.lower - 1))
                              \ attempt'.unlisted
  BY <1>5, <1>6 DEF found, Gmail!ShownAt
<1>8. InWindow(attempt.lower) \subseteq InWindow(attempt.lower - 1)
  BY <1>5, ReceivedAssumption DEF InWindow
<1>9. GmailFullInv'
  <2>1. CASE attempt'.pc = "list"
    BY <2>1, <1>2, <1>5, <1>6, <1>7 DEF GmailFullInv, Gmail!ShownAt
  <2>2. CASE attempt'.pc = "read"
    <3>1. Wanted' = Gmail!ShownAt(attempt.checkpoint) \cap InWindow(attempt.lower)
      BY <1>2, <1>5 DEF Wanted, Gmail!ShownAt
    <3>2. Len(log) = attempt.checkpoint => Wanted' \subseteq attempt'.ids
      BY <2>2, <3>1, <1>5, <1>7, <1>8
    <3> QED BY <2>2, <3>2, <1>2, <1>5, <1>6 DEF GmailFullInv
  <2> QED BY <2>1, <2>2, <1>5
<1>10. GmailDeltaInv'
  BY <1>5, <1>6 DEF GmailDeltaInv
<1>11. GmailStartInv'
  <2>1. \A m \in found : log[Len(log)].labels[m] \in {"draft", "mail"}
    BY DEF found
  <2> QED BY <2>1, <1>1, <1>2, <1>5 DEF GmailStartInv, GmailInv
<1> QED BY <1>2, <1>4, <1>9, <1>10, <1>11, GmailProceeds

LEMMA GmailReadMessage ==
  ASSUME GmailInv, NEW m \in attempt.ids, Gmail!ReadMessage(m)
  PROVE  GmailInv'
<1>1. /\ attempt \in GmailAttempts /\ Busy /\ attempt.pc = "read"
      /\ Len(log) \in Nat /\ Len(log) >= 1 /\ log[Len(log)] \in Labelings
  BY GmailBusy DEF Gmail!ReadMessage
<1> DEFINE label == log[Len(log)].labels[m]
           admitted == label = "mail"
                         /\ (m \in InWindow(attempt.lower) \/ (~attempt.full /\ m \in retained))
<1>2. m \in Messages /\ log' = log /\ retained' = retained /\ Gmail!Proceed(attempt')
  BY <1>1 DEF Gmail!ReadMessage, Gmail!Proceed, Gmail!Goto, GmailAttempts
<1>3. CASE label \notin {"draft", "mail"}
  <2>1. attempt' = [attempt EXCEPT !.pc = "refused"]
    BY <1>3 DEF Gmail!ReadMessage, Gmail!Proceed, Gmail!Goto, Gmail!LabelNow, Gmail!Now
  <2>2. attempt' \in GmailAttempts
    BY <1>1, <2>1 DEF GmailAttempts, GmailPlaces
  <2>3. /\ attempt'.pc = "refused" /\ attempt'.checkpoint = attempt.checkpoint
        /\ attempt'.full = attempt.full /\ attempt'.from = attempt.from
        /\ attempt'.lower = attempt.lower
        /\ attempt'.removed = attempt.removed /\ attempt'.messages = attempt.messages
        /\ attempt'.startedAt = attempt.startedAt /\ attempt'.known = attempt.known
        /\ attempt'.ids = attempt.ids
    BY <1>1, <2>1 DEF GmailAttempts
  <2>4. GmailFullInv'
    BY <1>1, <1>2, <2>3 DEF GmailFullInv, GmailInv
  <2>5. GmailDeltaInv'
    BY <1>1, <1>2, <2>3 DEF GmailDeltaInv, GmailInv
  <2>6. Len(log) # attempt.startedAt
    BY <1>1, <1>3 DEF GmailStartInv, GmailInv
  <2>7. GmailStartInv'
    BY <1>1, <1>2, <2>3, <2>6 DEF GmailStartInv, GmailInv
  <2> QED BY <1>2, <2>2, <2>4, <2>5, <2>7, GmailProceeds
<1>4. CASE label \in {"draft", "mail"}
  <2> DEFINE more == IF admitted THEN {m} ELSE {}
  <2>1. attempt' = [attempt EXCEPT !.ids = @ \ {m},
                       !.messages = IF admitted THEN @ \cup {m} ELSE @]
    BY <1>4 DEF Gmail!ReadMessage, Gmail!Proceed, Gmail!LabelNow, Gmail!Now, Gmail!Admits,
                Gmail!InWindow, InWindow
  <2> HIDE DEF label, admitted
  <2>2. attempt' \in GmailAttempts
    BY <1>1, <1>2, <2>1 DEF GmailAttempts
  <2>3. /\ attempt'.pc = "read" /\ attempt'.checkpoint = attempt.checkpoint
        /\ attempt'.full = attempt.full /\ attempt'.from = attempt.from
        /\ attempt'.lower = attempt.lower
        /\ attempt'.removed = attempt.removed /\ attempt'.messages = attempt.messages \cup more
        /\ attempt'.startedAt = attempt.startedAt /\ attempt'.known = attempt.known
        /\ attempt'.ids = attempt.ids \ {m}
    BY <1>1, <2>1 DEF GmailAttempts
  <2>4. admitted => /\ label = "mail"
                    /\ m \in InWindow(attempt.lower) \/ (~attempt.full /\ m \in retained)
    BY DEF admitted
  <2>5. label = "mail" /\ m \in InWindow(attempt.lower) => admitted
    BY DEF admitted
  <2>6. label = "mail" /\ ~attempt.full /\ m \in retained => admitted
    BY DEF admitted
  <2>7. Len(log) = attempt.checkpoint =>
          (m \in Gmail!ShownAt(attempt.checkpoint) <=> label = "mail")
    BY <1>2 DEF Gmail!ShownAt, label
  <2> HIDE DEF more
  <2>8. (admitted => more = {m}) /\ (~admitted => more = {})
    BY DEF more
  <2>9. GmailFullInv'
    <3> SUFFICES ASSUME attempt.full PROVE GmailFullInv'
      BY <2>3 DEF GmailFullInv
    <3>1. Wanted' = Wanted
      BY <1>2, <2>3 DEF Wanted, Gmail!ShownAt
    <3>2. Len(log) = attempt.checkpoint =>
            attempt.messages \subseteq Wanted /\ Wanted \subseteq attempt.messages \cup attempt.ids
      BY <1>1 DEF GmailFullInv, GmailInv
    <3>3. Len(log) = attempt.checkpoint => (admitted <=> m \in Wanted)
      BY <2>4, <2>5, <2>7 DEF Wanted
    <3>4. Len(log) = attempt.checkpoint =>
            /\ attempt'.messages \subseteq Wanted
            /\ Wanted \subseteq attempt'.messages \cup attempt'.ids
      BY <3>2, <3>3, <2>3, <2>8
    <3> QED BY <3>1, <3>4, <1>1, <1>2, <2>3 DEF GmailFullInv, GmailInv
  <2>10. GmailDeltaInv'
    <3> SUFFICES ASSUME ~attempt.full PROVE GmailDeltaInv'
      BY <2>3 DEF GmailDeltaInv
    <3>1. Named' = Named /\ NamedShown' = NamedShown
      BY <1>2, <2>3 DEF Named, NamedShown, Gmail!ShownAt, Untouched
    <3>2. Len(log) = attempt.checkpoint =>
            /\ attempt.messages \subseteq NamedShown \cap (InWindow(attempt.lower) \cup retained)
            /\ NamedShown \cap (InWindow(attempt.lower) \cup attempt.known)
               \subseteq attempt.messages \cup attempt.ids
      BY <1>1 DEF GmailDeltaInv, GmailInv
    <3>3. attempt.known \subseteq retained
      BY <1>1 DEF GmailStartInv, GmailInv
    <3>4. m \in Named
      BY <1>1 DEF GmailDeltaInv, GmailInv
    <3>5. Len(log) = attempt.checkpoint =>
            /\ attempt'.messages \subseteq NamedShown \cap (InWindow(attempt.lower) \cup retained)
            /\ NamedShown \cap (InWindow(attempt.lower) \cup attempt.known)
               \subseteq attempt'.messages \cup attempt'.ids
      BY <3>2, <3>3, <3>4, <2>3, <2>4, <2>5, <2>6, <2>7, <2>8 DEF NamedShown
    <3> QED BY <3>1, <3>5, <1>1, <1>2, <2>3 DEF GmailDeltaInv, GmailInv
  <2>11. GmailStartInv'
    <3>1. attempt'.messages \subseteq {o \in Messages : log[Len(log)].labels[o] \in Settled}
      BY <1>1, <1>2, <2>3, <2>4, <2>8 DEF GmailStartInv, GmailInv, label, Settled
    <3> QED BY <3>1, <1>1, <1>2, <2>3 DEF GmailStartInv, GmailInv
  <2> QED BY <1>2, <2>2, <2>9, <2>10, <2>11, GmailProceeds
<1> QED BY <1>3, <1>4

\* A request that only moves the attempt on.
LEMMA GmailMoves ==
  ASSUME GmailInv, attempt \in GmailAttempts, NEW place \in GmailPlaces, Gmail!Goto(place)
  PROVE  /\ attempt' \in GmailAttempts /\ Gmail!Proceed(attempt') /\ log' = log
         /\ retained' = retained /\ attempt'.pc = place /\ Busy'
         /\ attempt'.full = attempt.full /\ attempt'.lower = attempt.lower
         /\ attempt'.from = attempt.from /\ attempt'.checkpoint = attempt.checkpoint
         /\ attempt'.unlisted = attempt.unlisted /\ attempt'.ids = attempt.ids
         /\ attempt'.messages = attempt.messages /\ attempt'.removed = attempt.removed
         /\ attempt'.known = attempt.known /\ attempt'.startedAt = attempt.startedAt
         /\ Wanted' = Wanted /\ Named' = Named /\ NamedShown' = NamedShown
<1>1. attempt' = [attempt EXCEPT !.pc = place] /\ log' = log /\ retained' = retained
  BY DEF Gmail!Goto, Gmail!Proceed
<1>2. attempt' \in GmailAttempts
  BY <1>1 DEF GmailAttempts
<1>3. /\ attempt'.pc = place /\ attempt'.full = attempt.full /\ attempt'.lower = attempt.lower
      /\ attempt'.from = attempt.from /\ attempt'.checkpoint = attempt.checkpoint
      /\ attempt'.unlisted = attempt.unlisted /\ attempt'.ids = attempt.ids
      /\ attempt'.messages = attempt.messages /\ attempt'.removed = attempt.removed
      /\ attempt'.known = attempt.known /\ attempt'.startedAt = attempt.startedAt
  BY <1>1 DEF GmailAttempts
<1>4. attempt' # NoAttempt
  <2>1. place # "idle"
    BY DEF GmailPlaces
  <2> QED BY <1>3, <2>1 DEF NoAttempt
<1>5. Wanted' = Wanted /\ Named' = Named /\ NamedShown' = NamedShown
  BY <1>1, <1>3 DEF Wanted, Named, NamedShown, Gmail!ShownAt, Untouched
<1>6. Gmail!Proceed(attempt')
  BY DEF Gmail!Goto, Gmail!Proceed
<1>7. Busy'
  BY <1>4 DEF Busy
<1> QED BY <1>1, <1>2, <1>3, <1>5, <1>6, <1>7

LEMMA GmailReadDone == ASSUME GmailInv, Gmail!ReadDone PROVE GmailInv'
<1>1. /\ attempt \in GmailAttempts /\ Busy /\ attempt.pc = "read"
      /\ Len(log) \in Nat /\ Len(log) >= 1 /\ log[Len(log)] \in Labelings
  BY GmailBusy DEF Gmail!ReadDone
<1> DEFINE place == IF attempt.full THEN "history" ELSE "verify"
<1>2. Gmail!Goto(place) /\ attempt.ids = {} /\ place \in GmailPlaces
  BY DEF Gmail!ReadDone, GmailPlaces
<1>3. attempt.full => place = "history"
  OBVIOUS
<1>4. ~attempt.full => place = "verify"
  OBVIOUS
<1> HIDE DEF place
<1>5. /\ attempt' \in GmailAttempts /\ Gmail!Proceed(attempt') /\ log' = log
      /\ retained' = retained /\ attempt'.pc = place
      /\ attempt'.full = attempt.full /\ attempt'.lower = attempt.lower
      /\ attempt'.from = attempt.from /\ attempt'.checkpoint = attempt.checkpoint
      /\ attempt'.unlisted = attempt.unlisted /\ attempt'.ids = attempt.ids
      /\ attempt'.messages = attempt.messages /\ attempt'.removed = attempt.removed
      /\ attempt'.known = attempt.known /\ attempt'.startedAt = attempt.startedAt
      /\ Wanted' = Wanted /\ Named' = Named /\ NamedShown' = NamedShown
  BY <1>1, <1>2, GmailMoves
<1>6. GmailFullInv'
  BY <1>1, <1>2, <1>3, <1>5 DEF GmailInv, GmailFullInv
<1>7. GmailDeltaInv'
  BY <1>1, <1>2, <1>4, <1>5 DEF GmailInv, GmailDeltaInv
<1>8. GmailStartInv'
  BY <1>1, <1>2, <1>3, <1>4, <1>5 DEF GmailInv, GmailStartInv
<1> QED BY <1>5, <1>6, <1>7, <1>8, GmailProceeds

LEMMA GmailHistoryPage ==
  ASSUME GmailInv, NEW position \in Nat, Gmail!HistoryPage(position) PROVE GmailInv'
<1>1. /\ attempt \in GmailAttempts /\ Busy /\ attempt.pc = "history"
      /\ Len(log) \in Nat /\ Len(log) >= 1 /\ log[Len(log)] \in Labelings
  BY GmailBusy DEF Gmail!HistoryPage
<1>2. /\ attempt' = [attempt EXCEPT !.reached = position, !.pages = @ + 1]
      /\ log' = log /\ retained' = retained /\ Gmail!Proceed(attempt')
  BY DEF Gmail!HistoryPage, Gmail!Proceed
<1>3. attempt' \in GmailAttempts
  <2>1. attempt.pages \in Nat
    BY <1>1 DEF GmailAttempts
  <2>2. attempt.pages + 1 \in Nat
    BY <2>1
  <2> QED BY <1>1, <1>2, <2>2 DEF GmailAttempts
<1>4. /\ attempt'.pc = "history" /\ attempt'.full = attempt.full /\ attempt'.lower = attempt.lower
      /\ attempt'.from = attempt.from /\ attempt'.checkpoint = attempt.checkpoint
      /\ attempt'.unlisted = attempt.unlisted /\ attempt'.ids = attempt.ids
      /\ attempt'.messages = attempt.messages /\ attempt'.removed = attempt.removed
      /\ attempt'.known = attempt.known /\ attempt'.startedAt = attempt.startedAt
  BY <1>1, <1>2 DEF GmailAttempts
<1>5. Wanted' = Wanted /\ Named' = Named /\ NamedShown' = NamedShown
  BY <1>2, <1>4 DEF Wanted, Named, NamedShown, Gmail!ShownAt, Untouched
<1>6. GmailFullInv'
  BY <1>1, <1>2, <1>4, <1>5 DEF GmailInv, GmailFullInv
<1>7. GmailDeltaInv'
  BY <1>1, <1>2, <1>4, <1>5 DEF GmailInv, GmailDeltaInv
<1>8. GmailStartInv'
  BY <1>1, <1>2, <1>4, <1>5 DEF GmailInv, GmailStartInv
<1> QED BY <1>2, <1>3, <1>6, <1>7, <1>8, GmailProceeds

LEMMA GmailHistoryQuiet == ASSUME GmailInv, Gmail!HistoryQuiet PROVE GmailInv'
<1>1. /\ attempt \in GmailAttempts /\ Busy /\ attempt.pc = "history" /\ attempt.full
      /\ Len(log) \in Nat /\ Len(log) >= 1 /\ log[Len(log)] \in Labelings
  BY GmailBusy DEF Gmail!HistoryQuiet
<1> DEFINE still == Gmail!Touched(attempt.checkpoint) = {} /\ Len(log) = attempt.checkpoint
           place == IF still THEN "verify" ELSE "refused"
<1>2. Gmail!Goto(place) /\ place \in GmailPlaces
  BY DEF Gmail!HistoryQuiet, GmailPlaces, Gmail!Now
<1>3. still => place = "verify" /\ Len(log) = attempt.checkpoint
  OBVIOUS
<1>4. ~still => place = "refused"
  OBVIOUS
<1>5. Len(log) = attempt.checkpoint => still
  <2> SUFFICES ASSUME Len(log) = attempt.checkpoint PROVE Gmail!Touched(attempt.checkpoint) = {}
    OBVIOUS
  <2>1. (attempt.checkpoint + 1)..Len(log) = {}
    BY <1>1
  <2> QED BY <2>1 DEF Gmail!Touched, Gmail!Now
<1> HIDE DEF place, still
<1>6. /\ attempt' \in GmailAttempts /\ Gmail!Proceed(attempt') /\ log' = log
      /\ retained' = retained /\ attempt'.pc = place
      /\ attempt'.full = attempt.full /\ attempt'.lower = attempt.lower
      /\ attempt'.from = attempt.from /\ attempt'.checkpoint = attempt.checkpoint
      /\ attempt'.unlisted = attempt.unlisted /\ attempt'.ids = attempt.ids
      /\ attempt'.messages = attempt.messages /\ attempt'.removed = attempt.removed
      /\ attempt'.known = attempt.known /\ attempt'.startedAt = attempt.startedAt
      /\ Wanted' = Wanted /\ Named' = Named /\ NamedShown' = NamedShown
  BY <1>1, <1>2, GmailMoves
<1>7. /\ attempt.startedAt <= attempt.checkpoint /\ attempt.checkpoint \in 1..Len(log)
      /\ attempt.ids = {} /\ attempt.startedAt \in 1..Len(log)
      /\ Len(log) = attempt.checkpoint =>
           attempt.messages \subseteq Wanted /\ Wanted \subseteq attempt.messages \cup attempt.ids
  BY <1>1 DEF GmailInv, GmailFullInv, GmailStartInv
<1>8. GmailFullInv'
  BY <1>1, <1>3, <1>4, <1>6, <1>7 DEF GmailInv, GmailFullInv
<1>9. GmailDeltaInv'
  BY <1>1, <1>6 DEF GmailDeltaInv
<1>10. place = "refused" => Len(log) > attempt.startedAt
  BY <1>1, <1>3, <1>5, <1>7
<1>11. GmailStartInv'
  BY <1>1, <1>6, <1>10 DEF GmailInv, GmailStartInv
<1> QED BY <1>6, <1>8, <1>9, <1>11, GmailProceeds

LEMMA GmailVerify == ASSUME GmailInv, Gmail!Verify PROVE GmailInv'
<1>1. /\ attempt \in GmailAttempts /\ Busy /\ attempt.pc = "verify"
      /\ Len(log) \in Nat /\ Len(log) >= 1 /\ log[Len(log)] \in Labelings
  BY GmailBusy DEF Gmail!Verify
<1> DEFINE still == Len(log) = attempt.checkpoint
           place == IF still THEN "done" ELSE "refused"
<1>2. Gmail!Goto(place) /\ place \in GmailPlaces
  BY DEF Gmail!Verify, Gmail!StillQuiet, GmailPlaces, Gmail!Now
<1>3. still => place = "done"
  OBVIOUS
<1>4. ~still => place = "refused"
  OBVIOUS
<1> HIDE DEF place
<1>6. /\ attempt' \in GmailAttempts /\ Gmail!Proceed(attempt') /\ log' = log
      /\ retained' = retained /\ attempt'.pc = place
      /\ attempt'.full = attempt.full /\ attempt'.lower = attempt.lower
      /\ attempt'.from = attempt.from /\ attempt'.checkpoint = attempt.checkpoint
      /\ attempt'.unlisted = attempt.unlisted /\ attempt'.ids = attempt.ids
      /\ attempt'.messages = attempt.messages /\ attempt'.removed = attempt.removed
      /\ attempt'.known = attempt.known /\ attempt'.startedAt = attempt.startedAt
      /\ Wanted' = Wanted /\ Named' = Named /\ NamedShown' = NamedShown
  BY <1>1, <1>2, GmailMoves
<1>7. /\ attempt.startedAt <= attempt.checkpoint /\ attempt.checkpoint \in 1..Len(log)
      /\ attempt.startedAt \in 1..Len(log)
  BY <1>1 DEF GmailInv, GmailFullInv, GmailDeltaInv, GmailStartInv
<1>8. GmailFullInv'
  BY <1>1, <1>3, <1>4, <1>6 DEF GmailInv, GmailFullInv
<1>9. GmailDeltaInv'
  <2>1. CASE still
    BY <2>1, <1>1, <1>3, <1>6 DEF GmailInv, GmailDeltaInv
  <2>2. CASE ~still
    BY <2>2, <1>1, <1>4, <1>6 DEF GmailInv, GmailDeltaInv
  <2> QED BY <2>1, <2>2
<1>10. place = "refused" => Len(log) > attempt.startedAt
  BY <1>1, <1>3, <1>7
<1>11. GmailStartInv'
  BY <1>1, <1>6, <1>10 DEF GmailInv, GmailStartInv
<1> QED BY <1>6, <1>8, <1>9, <1>11, GmailProceeds

LEMMA GmailHistoryComplete == ASSUME GmailInv, Gmail!HistoryComplete PROVE GmailInv'
<1>1. /\ attempt \in GmailAttempts /\ Busy /\ attempt.pc = "history" /\ ~attempt.full
      /\ Len(log) \in Nat /\ Len(log) >= 1 /\ log[Len(log)] \in Labelings
  BY GmailBusy DEF Gmail!HistoryComplete
<1> DEFINE named == {m \in Messages : ~Untouched(m, attempt.from, Len(log))}
           deleted == {m \in named : log[Len(log)].labels[m] = "deleted"}
<1>2. attempt.from \in 1..Len(log) /\ attempt.messages = {}
  BY <1>1 DEF GmailInv, GmailDeltaInv
<1>3. log \in Seq(Labelings)
  BY DEF GmailInv, GmailLogInv
<1>4. Gmail!Touched(attempt.from) = named
  <2>1. ASSUME NEW i \in (attempt.from + 1)..Len(log) PROVE log[i].touched \subseteq Messages
    <3>1. i \in 1..Len(log)
      BY <1>1, <1>2
    <3>2. log[i] \in Labelings
      BY <1>3, <3>1
    <3> QED BY <3>2 DEF Labelings
  <2> QED BY <2>1 DEF Gmail!Touched, Gmail!Now, Untouched
<1>5. Gmail!Deleted(attempt.from) = deleted
  BY <1>4 DEF Gmail!Deleted, Gmail!LabelNow, Gmail!Now
<1>6. /\ attempt' = [attempt EXCEPT !.pc = "read", !.reached = Len(log), !.checkpoint = Len(log),
                !.removed = deleted, !.ids = named \ deleted]
      /\ log' = log /\ retained' = retained /\ Gmail!Proceed(attempt')
  BY <1>4, <1>5 DEF Gmail!HistoryComplete, Gmail!Proceed, Gmail!Now
<1>7. named \subseteq Messages /\ deleted \subseteq Messages
  OBVIOUS
<1>8. \A m \in named \ deleted : log[Len(log)].labels[m] \in {"draft", "mail"}
  <2> SUFFICES ASSUME NEW m \in named \ deleted PROVE log[Len(log)].labels[m] \in {"draft", "mail"}
    OBVIOUS
  <2>1. PICK i \in (attempt.from + 1)..Len(log) : m \in log[i].touched
    BY DEF Untouched
  <2>2. i \in 1..Len(log) /\ i <= Len(log) /\ Len(log) \in 1..Len(log)
    BY <1>1, <1>2, <2>1
  <2>3. log[Len(log)].labels[m] # "absent"
    BY <2>1, <2>2 DEF GmailInv, GmailLogInv
  <2>4. log[Len(log)].labels[m] \in Gmail!Labels
    BY <1>1 DEF Labelings
  <2> QED BY <2>3, <2>4 DEF Gmail!Labels
<1>9. \A m \in named : m \in deleted <=> log[Len(log)].labels[m] = "deleted"
  OBVIOUS
<1> HIDE DEF named, deleted
<1>10. attempt' \in GmailAttempts
  BY <1>1, <1>6, <1>7 DEF GmailAttempts, GmailPlaces
<1>11. /\ attempt'.pc = "read" /\ attempt'.full = attempt.full /\ attempt'.lower = attempt.lower
      /\ attempt'.from = attempt.from /\ attempt'.checkpoint = Len(log)
      /\ attempt'.ids = named \ deleted /\ attempt'.removed = deleted
      /\ attempt'.messages = attempt.messages
      /\ attempt'.known = attempt.known /\ attempt'.startedAt = attempt.startedAt
  BY <1>1, <1>6 DEF GmailAttempts
<1>12. Named' = named
  BY <1>6, <1>11 DEF Named, named, Untouched
<1>13. deleted = {m \in named : log[Len(log)].labels[m] = "deleted"}
  BY DEF deleted
<1>14. NamedShown' \subseteq named \ deleted
  BY <1>6, <1>9, <1>11, <1>12 DEF NamedShown, Gmail!ShownAt
<1>15. GmailFullInv'
  BY <1>1, <1>11 DEF GmailFullInv
<1>16. attempt.startedAt \in 1..Len(log) /\ attempt.startedAt <= Len(log) /\ Len(log) \in 1..Len(log)
       /\ attempt.from <= Len(log)
  BY <1>1, <1>2 DEF GmailInv, GmailStartInv
<1>17. GmailDeltaInv'
  BY <1>1, <1>2, <1>6, <1>11, <1>12, <1>13, <1>14, <1>16 DEF GmailDeltaInv
<1>18. GmailStartInv'
  BY <1>1, <1>2, <1>6, <1>8, <1>11, <1>16 DEF GmailInv, GmailStartInv
<1> QED BY <1>6, <1>10, <1>15, <1>17, <1>18, GmailProceeds

(***************************************************************************)
(* Gmail: beginnings, ends, and what happens beside the attempt.           *)
(***************************************************************************)

LEMMA GmailBegins ==
  ASSUME GmailInv,
         (\E since \in Lowers : Gmail!BeginFull(since)) \/ (\E cursor \in cursors : Gmail!BeginDelta(cursor))
  PROVE  GmailInv'
<1>1. CASE \E since \in Lowers : Gmail!BeginFull(since)
  <2>1. PICK since \in Lowers : Gmail!BeginFull(since)
    BY <1>1
  <2>2. Gmail!Called("profile", TRUE, since, 0)
    BY <2>1 DEF Gmail!BeginFull
  <2>3. 0 \in Nat
    OBVIOUS
  <2> QED BY <2>2, <2>3, GmailStarts
<1>2. CASE \E cursor \in cursors : Gmail!BeginDelta(cursor)
  <2>1. PICK cursor \in cursors : Gmail!BeginDelta(cursor)
    BY <1>2
  <2>2. Gmail!Called("history", FALSE, cursor.lower, cursor.position)
    BY <2>1 DEF Gmail!BeginDelta
  <2>3. cursor \in [position : 1..Len(log), lower : Lowers]
    BY DEF GmailInv, GmailStoreInv
  <2>4. cursor.lower \in Lowers /\ cursor.position \in 1..Len(log)
    BY <2>3
  <2>6. cursor.position \in Nat
    BY <2>4 DEF GmailInv, GmailLogInv
  <2> QED BY <2>2, <2>4, <2>6, GmailStarts
<1> QED BY <1>1, <1>2

LEMMA GmailEnds == ASSUME GmailInv, Gmail!CommitAnswer \/ Gmail!Abandon PROVE GmailInv'
<1>1. ~Busy'
  BY DEF Gmail!CommitAnswer, Gmail!Abandon, Gmail!Commit, Gmail!Proceed, Gmail!NoAttempt,
         NoAttempt, Busy
<1>2. log' = log
  BY DEF Gmail!CommitAnswer, Gmail!Abandon, Gmail!Commit, Gmail!Proceed
<1>3. GmailLogInv'
  BY <1>2, GmailLogStill DEF GmailStill, GmailInv
<1>4. GmailTypeInv'
  BY <1>1 DEF GmailTypeInv, Busy
<1>5. GmailStoreInv'
  <2>1. CASE Gmail!Abandon
    BY <2>1, <1>2 DEF GmailInv, GmailStoreInv, Gmail!Abandon, Gmail!Proceed
  <2>2. CASE Gmail!CommitAnswer
    <3>1. /\ attempt \in GmailAttempts /\ Busy /\ attempt.pc = "done"
          /\ Len(log) \in Nat /\ Len(log) >= 1 /\ log[Len(log)] \in Labelings
      BY <2>2, GmailBusy DEF Gmail!CommitAnswer, Gmail!Commit
    <3>2. /\ retained' = retained \cup attempt.messages
          /\ cursors' = cursors \cup {[position |-> attempt.checkpoint, lower |-> attempt.lower]}
      BY <2>2 DEF Gmail!CommitAnswer, Gmail!Commit
    <3>3. attempt.messages \subseteq {o \in Messages : log[Len(log)].labels[o] \in Settled}
      BY <3>1 DEF GmailInv, GmailStartInv
    <3>4. attempt.checkpoint \in 1..Len(log) /\ attempt.lower \in Lowers
      BY <3>1 DEF GmailInv, GmailFullInv, GmailDeltaInv, GmailStartInv
    <3>5. [position |-> attempt.checkpoint, lower |-> attempt.lower]
             \in [position : 1..Len(log), lower : Lowers]
      BY <3>4
    <3> QED BY <1>2, <3>2, <3>3, <3>5 DEF GmailInv, GmailStoreInv
  <2> QED BY <2>1, <2>2
<1> QED BY <1>1, <1>3, <1>4, <1>5 DEF GmailInv, GmailFullInv, GmailDeltaInv, GmailStartInv

LEMMA GmailRetains == ASSUME GmailInv, NEW m \in Messages, Gmail!Retain(m) PROVE GmailInv'
<1>1. log' = log /\ retained' = retained \cup {m} /\ cursors' = cursors /\ attempt' = attempt
  BY DEF Gmail!Retain, Gmail!Retains
<1>2. PICK k \in 1..Len(log) : log[k].labels[m] = "mail"
  BY DEF Gmail!Retain, Gmail!ShownAt, Gmail!Now
<1>3. Len(log) \in Nat /\ Len(log) >= 1 /\ Len(log) \in 1..Len(log) /\ k <= Len(log)
  BY DEF GmailInv, GmailLogInv
<1>4. log[Len(log)].labels[m] \in Settled
  BY <1>2, <1>3 DEF GmailInv, GmailLogInv, Settled
<1>5. GmailLogInv'
  BY <1>1, GmailLogStill DEF GmailStill, GmailInv
<1>6. GmailStoreInv' /\ GmailTypeInv'
  BY <1>1, <1>4 DEF GmailInv, GmailStoreInv, GmailTypeInv
<1>7. Wanted' = Wanted /\ Named' = Named /\ NamedShown' = NamedShown
  BY <1>1 DEF Wanted, Named, NamedShown, Gmail!ShownAt, Untouched
<1>8. Gmail!ShownAt(attempt.checkpoint)' = Gmail!ShownAt(attempt.checkpoint)
  BY <1>1 DEF Gmail!ShownAt
<1>9. GmailFullInv'
  BY <1>1, <1>7, <1>8 DEF GmailInv, GmailFullInv, Busy
<1>10. GmailDeltaInv'
  BY <1>1, <1>7 DEF GmailInv, GmailDeltaInv, Busy
<1>11. GmailStartInv'
  BY <1>1 DEF GmailInv, GmailStartInv, Busy
<1> QED BY <1>5, <1>6, <1>9, <1>10, <1>11 DEF GmailInv

LEMMA GmailKept == ASSUME GmailInv, UNCHANGED vars PROVE GmailInv'
<1>1. log' = log /\ retained' = retained /\ cursors' = cursors /\ attempt' = attempt
  BY DEF vars
<1>2. Wanted' = Wanted /\ Named' = Named /\ NamedShown' = NamedShown
  BY <1>1 DEF Wanted, Named, NamedShown, Gmail!ShownAt, Untouched
<1>3. Gmail!ShownAt(attempt.checkpoint)' = Gmail!ShownAt(attempt.checkpoint)
  BY <1>1 DEF Gmail!ShownAt
<1>4. GmailLogInv' /\ GmailStoreInv' /\ GmailTypeInv'
  BY <1>1, GmailLogStill DEF GmailStill, GmailInv, GmailStoreInv, GmailTypeInv
<1>5. GmailFullInv' /\ GmailDeltaInv' /\ GmailStartInv'
  BY <1>1, <1>2, <1>3 DEF GmailInv, GmailFullInv, GmailDeltaInv, GmailStartInv, Busy
<1> QED BY <1>4, <1>5 DEF GmailInv

LEMMA GmailSteps == ASSUME GmailInv, Gmail!Step PROVE GmailInv'
<1>1. CASE Gmail!Profile
  BY <1>1, GmailProfile
<1>2. CASE Gmail!At("list") /\ \E entries \in SUBSET attempt.unlisted : Gmail!ListPage(entries)
  <2>1. attempt.unlisted \subseteq Messages
    <3>1. attempt \in GmailAttempts
      BY <1>2, GmailBusy
    <3> QED BY <3>1 DEF GmailAttempts
  <2> QED BY <1>2, <2>1, GmailListPage
<1>3. CASE Gmail!At("read") /\ \E m \in attempt.ids : Gmail!ReadMessage(m)
  BY <1>3, GmailReadMessage
<1>4. CASE Gmail!ReadDone
  BY <1>4, GmailReadDone
<1>5. CASE Gmail!At("history") /\ \E position \in attempt.reached..Gmail!Now : Gmail!HistoryPage(position)
  <2>1. attempt.reached \in Nat /\ Gmail!Now \in Nat
    <3>1. attempt \in GmailAttempts /\ Len(log) \in Nat
      BY <1>5, GmailBusy
    <3> QED BY <3>1 DEF GmailAttempts, Gmail!Now
  <2>2. PICK position \in attempt.reached..Gmail!Now : Gmail!HistoryPage(position)
    BY <1>5
  <2>3. position \in Nat
    BY <2>1, <2>2
  <2> QED BY <2>2, <2>3, GmailHistoryPage
<1>6. CASE Gmail!HistoryQuiet
  BY <1>6, GmailHistoryQuiet
<1>7. CASE Gmail!HistoryComplete
  BY <1>7, GmailHistoryComplete
<1>8. CASE Gmail!Verify
  BY <1>8, GmailVerify
<1> QED BY <1>1, <1>2, <1>3, <1>4, <1>5, <1>6, <1>7, <1>8 DEF Gmail!Step

LEMMA GmailNext == ASSUME GmailInv, Gmail!Next PROVE GmailInv'
<1>1. CASE \E since \in Lowers : Gmail!BeginFull(since)
  BY <1>1, GmailBegins
<1>2. CASE \E cursor \in cursors : Gmail!BeginDelta(cursor)
  BY <1>2, GmailBegins
<1>3. CASE Gmail!Step
  BY <1>3, GmailSteps
<1>4. CASE Gmail!CommitAnswer \/ Gmail!Abandon
  BY <1>4, GmailEnds
<1>5. CASE \E m \in Messages : Gmail!Retain(m)
  BY <1>5, GmailRetains
<1>6. CASE \E m \in Messages, label \in Gmail!Labels : Gmail!Change(m, label)
  BY <1>6, GmailGrows
<1> QED BY <1>1, <1>2, <1>3, <1>4, <1>5, <1>6 DEF Gmail!Next

\* The answer of a completed attempt: the messages of a full one are what the
\* checkpoint shows in its window; an incremental one answers with what its history
\* named.
LEMMA GmailAnswers ==
  ASSUME GmailInv, At("done")
  PROVE  KeepsContract(attempt.checkpoint, Gmail!ShownAt(attempt.from),
                       Gmail!ShownAt(attempt.checkpoint))
<1>1. /\ attempt \in GmailAttempts /\ Busy /\ attempt.pc = "done"
      /\ Len(log) \in Nat /\ Len(log) >= 1 /\ log[Len(log)] \in Labelings
  BY GmailBusy DEF At, Gmail!At
<1> DEFINE cp == attempt.checkpoint
           old == Gmail!ShownAt(attempt.from)
           shown == Gmail!ShownAt(cp)
           given == [position |-> cp, messages |-> attempt.messages, removed |-> attempt.removed]
<1>2. CASE attempt.full
  <2>1. attempt.removed = {} /\ attempt.messages = shown \cap InWindow(attempt.lower)
    BY <1>1, <1>2 DEF GmailInv, GmailFullInv, Wanted
  <2>2. given = FullAnswer(cp, shown, attempt.lower, {}, {})
    BY <2>1 DEF FullAnswer
  <2>3. given \in FullAnswers(cp, shown, attempt.lower, retained)
    BY <2>2 DEF FullAnswers
  <2> QED BY <1>2, <2>3 DEF KeepsContract
<1>3. CASE ~attempt.full
  <2>1. /\ attempt.from \in 1..Len(log) /\ cp \in 1..Len(log) /\ attempt.from <= cp
        /\ attempt.removed = {m \in Named : log[cp].labels[m] = "deleted"}
        /\ attempt.ids = {}
        /\ attempt.messages \subseteq NamedShown \cap (InWindow(attempt.lower) \cup retained)
        /\ NamedShown \cap (InWindow(attempt.lower) \cup attempt.known)
               \subseteq attempt.messages \cup attempt.ids
    BY <1>1, <1>3 DEF GmailInv, GmailDeltaInv
  <2>2. Named \in Hints(old, shown)
    <3>1. ASSUME NEW m \in Messages, m \notin Named PROVE m \in old <=> m \in shown
      <4>1. log[cp].labels[m] = log[attempt.from].labels[m]
        BY <2>1, <3>1 DEF GmailInv, GmailLogInv, Named
      <4> QED BY <4>1 DEF Gmail!ShownAt
    <3>2. old \subseteq Messages /\ shown \subseteq Messages /\ Named \subseteq Messages
      BY DEF Gmail!ShownAt, Named
    <3> QED BY <3>1, <3>2 DEF Hints
  <2>3. \A m \in attempt.known : m \in shown \/ log[cp].labels[m] = "deleted"
    <3> SUFFICES ASSUME NEW m \in attempt.known
                 PROVE  m \in shown \/ log[cp].labels[m] = "deleted"
      OBVIOUS
    <3>1. /\ log[attempt.startedAt].labels[m] \in Settled /\ m \in Messages
          /\ attempt.startedAt \in 1..Len(log)
      BY <1>1 DEF GmailInv, GmailStartInv, GmailAttempts
    <3>2. attempt.startedAt <= cp
      BY <1>1, <1>3 DEF GmailInv, GmailDeltaInv
    <3>3. log[cp].labels[m] \in Settled
      BY <2>1, <3>1, <3>2 DEF GmailInv, GmailLogInv
    <3> QED BY <3>1, <3>3 DEF Gmail!ShownAt, Settled
  <2> DEFINE more == attempt.messages \ InWindow(attempt.lower)
  <2>4. more \in SUBSET retained
    BY <2>1
  <2>5. attempt.messages = Named \cap shown \cap (InWindow(attempt.lower) \cup attempt.known \cup more)
    BY <2>1 DEF NamedShown
  <2>6. attempt.removed = (Named \ shown) \cap (attempt.known \cup attempt.removed)
    BY <2>1, <2>3 DEF Gmail!ShownAt
  <2>7. attempt.removed \in SUBSET Messages
    BY <1>1 DEF GmailAttempts
  <2>8. given = DeltaAnswer(cp, shown, attempt.lower, attempt.known, Named, more, attempt.removed)
    BY <2>5, <2>6 DEF DeltaAnswer
  <2> HIDE DEF more
  <2>9. given \in DeltaAnswers(cp, old, shown, attempt.lower, attempt.known, retained)
    BY <2>2, <2>4, <2>7, <2>8 DEF DeltaAnswers
  <2> QED BY <1>3, <2>9 DEF KeepsContract
<1> QED BY <1>2, <1>3

LEMMA GmailRefuses == ASSUME GmailInv, At("refused") PROVE Now > attempt.startedAt
<1>1. Busy /\ attempt.pc = "refused"
  BY GmailBusy DEF At, Gmail!At
<1> QED BY <1>1 DEF GmailInv, GmailStartInv, Now

(***************************************************************************)
(* Outlook: the invariant.                                                 *)
(***************************************************************************)

Spots == Folders \cup {Outlook!Absent, Outlook!Gone}

Mailboxes ==
  [place : [Messages -> Spots], drafts : SUBSET Messages, normal : SUBSET Folders,
   touched : SUBSET Messages]

\* No change from j to k touches the message in the folder.
Rests(m, f, j, k) ==
  \A i \in (j + 1)..k :
    m \in log[i].touched => f # log[i - 1].place[m] /\ f # log[i].place[m]

\* What rests in a folder is there throughout, and as draft as it was.
OutlookLogInv ==
  /\ log \in Seq(Mailboxes) /\ Len(log) >= 1
  /\ \A k \in 1..Len(log) : 1 \in log[k].normal
  /\ \A m \in Messages, f \in Folders : \A j, k \in 1..Len(log) :
       j <= k /\ Rests(m, f, j, k) =>
         /\ log[j].place[m] = f <=> log[k].place[m] = f
         /\ log[k].place[m] = f => (m \in log[j].drafts <=> m \in log[k].drafts)

\* From j to k nothing happens in the folder.
Still(f, j, k) == j <= k /\ k <= Len(log) /\ \A m \in Messages : Rests(m, f, j, k)

OutlookCursors ==
  [folders : SUBSET Folders, lower : Lowers, position : Nat, links : [Folders -> Nat]]

OutlookStoreInv ==
  /\ retained \subseteq Messages
  /\ cursors \subseteq OutlookCursors
  /\ \A c \in cursors :
       c.position >= 1 /\ c.position <= Len(log)
         /\ \A f \in c.folders : Still(f, c.position, c.links[f])

OutlookPlaces == {"inventory", "staged", "expired", "resolve", "light", "full", "quiet",
                  "verify", "done", "refused"}

OutlookAttempts ==
  [pc : OutlookPlaces, full : BOOLEAN, lower : Lowers, previous : SUBSET Folders,
   folders : SUBSET Folders, todo : SUBSET Folders, links : [Folders -> Nat],
   hints : SUBSET Messages, left : SUBSET Messages, current : Messages \cup {NoMessage},
   found : BOOLEAN, seen : Nat, messages : SUBSET Messages, removed : SUBSET Messages,
   known : SUBSET Messages, startedAt : Nat, quietFrom : Nat, quietAt : Nat]

OutlookTypeInv == attempt = NoAttempt \/ attempt \in OutlookAttempts

\* The message in hand, if any, is still to be told of, as the named ones are.
Untold == attempt.hints \cup {attempt.current}

OutlookStartInv ==
  Busy =>
    /\ attempt.startedAt \in 1..Len(log)
    /\ attempt.known \subseteq retained
    /\ ~attempt.full => attempt.quietFrom \in 1..Len(log)
    /\ attempt.todo \subseteq attempt.folders
    /\ attempt.pc # "inventory" =>
         1 \in attempt.folders /\ (Len(log) = attempt.startedAt => attempt.folders = log[Len(log)].normal)
    /\ attempt.pc \in {"staged", "quiet"} => attempt.todo # {}
    /\ attempt.pc \in {"light", "full"} => attempt.current \in Messages
    /\ attempt.pc \notin {"light", "full", "refused"} => attempt.current = NoMessage
    /\ attempt.pc = "full" => attempt.seen >= attempt.startedAt /\ attempt.seen <= Len(log)
    /\ attempt.pc = "refused" => Len(log) > attempt.startedAt

\* In a mailbox that does not change, what is named can be read, or was named as removed.
OutlookReadableInv ==
  Busy /\ attempt.pc \in {"staged", "resolve", "light", "full"} /\ Len(log) = attempt.startedAt =>
    \A m \in Untold \ {NoMessage} :
      log[Len(log)].place[m] \in Folders \/ (~attempt.full /\ m \in attempt.left)

NothingYet ==
  attempt.messages = {} /\ attempt.removed = {} /\ attempt.current = NoMessage

\* The folder has named what was in it, or what has happened in it since the cursor.
Gathered(f) ==
  /\ attempt.startedAt <= attempt.links[f] /\ attempt.links[f] <= Len(log)
  /\ attempt.full =>
       \A m \in Messages : log[attempt.links[f]].place[m] = f => m \in attempt.hints
  /\ ~attempt.full =>
       /\ attempt.quietFrom <= attempt.links[f]
       /\ \A m \in Messages \ attempt.hints :
            Rests(m, f, attempt.quietFrom, attempt.links[f])

\* The first round of deltas.
OutlookStagedInv ==
  /\ Busy /\ attempt.pc = "inventory" =>
       /\ NothingYet /\ attempt.hints = {}
       /\ attempt.full => \A f \in Folders : attempt.links[f] = 0
       /\ ~attempt.full => \A f \in attempt.previous : Still(f, attempt.quietFrom, attempt.links[f])
  /\ Busy /\ attempt.pc = "staged" =>
       /\ NothingYet
       /\ attempt.full => \A f \in attempt.todo : attempt.links[f] = 0
       /\ ~attempt.full => \A f \in attempt.todo : Still(f, attempt.quietFrom, attempt.links[f])
       /\ \A f \in attempt.folders \ attempt.todo : Gathered(f)

Shown == Outlook!ViewAt(Len(log), attempt.folders)
ShownBefore == Outlook!ViewAt(attempt.quietFrom, attempt.folders)
ShownQuiet == Outlook!ViewAt(attempt.quietAt, attempt.folders)

\* What the attempt tells of a mailbox that shows `shown` and showed `old`.
Told(shown, old) ==
  /\ attempt.messages \subseteq shown \cap (InWindow(attempt.lower) \cup retained)
  /\ attempt.removed \cap shown = {} /\ attempt.removed \subseteq retained
  /\ attempt.pc = "full" => attempt.current \in shown \cap (InWindow(attempt.lower) \cup retained)
  /\ attempt.full => shown \cap InWindow(attempt.lower) \subseteq attempt.messages \cup Untold
  /\ ~attempt.full =>
       /\ (shown \ old) \cap (InWindow(attempt.lower) \cup attempt.known)
            \subseteq attempt.messages \cup Untold
       /\ (old \ shown) \cap attempt.known \subseteq attempt.removed \cup Untold

Reading ==
  attempt.pc \in {"resolve", "light", "full"} \/ (attempt.pc = "quiet" /\ attempt.todo = attempt.folders)

\* While messages are read, and until a folder is seen again: the present mailbox is
\* told, if nothing has happened since the first round.
OutlookReadingInv ==
  Busy /\ Reading =>
    /\ \A f \in attempt.folders :
         attempt.startedAt <= attempt.links[f] /\ attempt.links[f] <= Len(log)
    /\ (\A f \in attempt.folders : Still(f, attempt.links[f], Len(log))) => Told(Shown, ShownBefore)
    /\ attempt.pc = "light" =>
         /\ attempt.current \in attempt.known => attempt.found
         /\ attempt.found => attempt.current \in retained
    /\ attempt.pc = "quiet" => attempt.hints = {}

Checking == attempt.pc \in {"quiet", "verify", "done"} /\ attempt.todo # attempt.folders

\* From the first folder seen again: the mailbox of that moment is told, if the folders
\* still to be seen had been still until then.
OutlookCheckingInv ==
  /\ Busy /\ attempt.pc \in {"verify", "done"} => attempt.todo = {}
  /\ Busy /\ Checking =>
       /\ attempt.hints = {}
       /\ attempt.startedAt <= attempt.quietAt /\ attempt.quietAt <= Len(log)
       /\ \A f \in attempt.todo :
            attempt.startedAt <= attempt.links[f] /\ attempt.links[f] <= attempt.quietAt
       /\ \A f \in attempt.folders \ attempt.todo : Still(f, attempt.quietAt, attempt.links[f])
       /\ (\A f \in attempt.todo : Still(f, attempt.links[f], attempt.quietAt))
            => Told(ShownQuiet, ShownBefore)

OutlookInv ==
  /\ OutlookLogInv /\ OutlookStoreInv /\ OutlookTypeInv /\ OutlookStartInv
  /\ OutlookReadableInv /\ OutlookStagedInv /\ OutlookReadingInv /\ OutlookCheckingInv

(***************************************************************************)
(* Outlook: every step keeps it.                                           *)
(***************************************************************************)

LEMMA OutlookInitial == ASSUME Outlook!Init PROVE OutlookInv
<1> USE DEF Outlook!Init, Outlook!Beginning, Outlook!NoAttempt, NoAttempt
<1>1. PICK place \in [Messages -> Folders \cup {Outlook!Absent}], drafts \in SUBSET Messages,
           normal \in SUBSET Folders :
        /\ 1 \in normal
        /\ log = <<[place |-> place, drafts |-> drafts, normal |-> normal, touched |-> {}]>>
  OBVIOUS
<1>2. place \in [Messages -> Spots]
  BY DEF Spots
<1> DEFINE first == [place |-> place, drafts |-> drafts, normal |-> normal, touched |-> {}]
<1>a. first \in Mailboxes /\ first.normal = normal
  BY <1>1, <1>2 DEF Mailboxes
<1>b. log = <<first>>
  BY <1>1
<1> HIDE DEF first
<1>3. log \in Seq(Mailboxes) /\ Len(log) = 1 /\ log[1] = first
  BY <1>a, <1>b
<1>4. OutlookLogInv
  BY <1>1, <1>a, <1>3 DEF OutlookLogInv
<1>5. OutlookStoreInv /\ OutlookTypeInv
  BY <1>3 DEF OutlookStoreInv, OutlookTypeInv
<1>6. ~Busy
  BY DEF Busy
<1> QED BY <1>4, <1>5, <1>6 DEF OutlookInv, OutlookStartInv, OutlookReadableInv, OutlookStagedInv,
     OutlookReadingInv, OutlookCheckingInv

LEMMA RestsWithin ==
  ASSUME NEW m, NEW f, NEW a \in Int, NEW b \in Int, NEW c \in Int, NEW d \in Int,
         a <= b, c <= d, Rests(m, f, a, d)
  PROVE  Rests(m, f, b, c)
<1>1. \A i \in (b + 1)..c : i \in (a + 1)..d
  OBVIOUS
<1> QED BY <1>1 DEF Rests

LEMMA RestsOn ==
  ASSUME NEW m, NEW f, NEW a \in Int, NEW b \in Int, NEW c \in Int,
         Rests(m, f, a, b), Rests(m, f, b, c)
  PROVE  Rests(m, f, a, c)
<1>1. \A i \in (a + 1)..c : i \in (a + 1)..b \/ i \in (b + 1)..c
  OBVIOUS
<1> QED BY <1>1 DEF Rests

\* The mailbox moves on; what has been seen of it stays.
LEMMA OutlookGrows ==
  ASSUME OutlookInv, NEW new \in Mailboxes, 1 \in new.normal,
         \A m \in Messages \ new.touched :
           /\ new.place[m] = log[Len(log)].place[m]
           /\ m \in new.drafts <=> m \in log[Len(log)].drafts,
         Outlook!Changes(new)
  PROVE  OutlookInv'
<1>1. /\ log' = Append(log, new) /\ retained' = retained /\ cursors' = cursors
      /\ attempt' = attempt
  BY DEF Outlook!Changes
<1>2. log \in Seq(Mailboxes)
  BY DEF OutlookInv, OutlookLogInv
<1>3. PICK n \in Nat : n = Len(log) /\ n >= 1
  BY <1>2 DEF OutlookInv, OutlookLogInv
<1>4. /\ log' \in Seq(Mailboxes) /\ Len(log') = n + 1 /\ log'[n + 1] = new
      /\ \A k \in 1..n : log'[k] = log[k]
  BY <1>1, <1>2, <1>3
<1>5. \A m, f : \A j, k \in Nat : j >= 1 /\ k <= n => (Rests(m, f, j, k)' <=> Rests(m, f, j, k))
  <2> SUFFICES ASSUME NEW m, NEW f, NEW j \in Nat, NEW k \in Nat, j >= 1, k <= n
               PROVE  Rests(m, f, j, k)' <=> Rests(m, f, j, k)
    OBVIOUS
  <2>1. \A i \in (j + 1)..k : i \in 1..n /\ i - 1 \in 1..n
    OBVIOUS
  <2> QED BY <2>1, <1>4 DEF Rests
<1>6. \A f : \A j, k \in Nat : j >= 1 /\ k <= n => (Still(f, j, k)' <=> Still(f, j, k))
  <2> SUFFICES ASSUME NEW f, NEW j \in Nat, NEW k \in Nat, j >= 1, k <= n
               PROVE  Still(f, j, k)' <=> Still(f, j, k)
    OBVIOUS
  <2>1. k <= n + 1
    OBVIOUS
  <2> QED BY <2>1, <1>3, <1>4, <1>5 DEF Still
<1>7. OutlookLogInv'
  <2>1. \A k \in 1..(n + 1) : 1 \in log'[k].normal
    <3>1. \A k \in 1..(n + 1) : k \in 1..n \/ k = n + 1
      OBVIOUS
    <3> QED BY <3>1, <1>3, <1>4 DEF OutlookInv, OutlookLogInv
  <2>2. ASSUME NEW m \in Messages, NEW f \in Folders, NEW j \in 1..(n + 1), NEW k \in 1..(n + 1),
               j <= k, Rests(m, f, j, k)'
        PROVE  /\ log'[j].place[m] = f <=> log'[k].place[m] = f
               /\ log'[k].place[m] = f => (m \in log'[j].drafts <=> m \in log'[k].drafts)
    <3>1. CASE k \in 1..n
      <4>1. j \in 1..n
        BY <2>2, <3>1
      <4>2. Rests(m, f, j, k)
        BY <2>2, <3>1, <4>1, <1>5
      <4>3. /\ log[j].place[m] = f <=> log[k].place[m] = f
            /\ log[k].place[m] = f => (m \in log[j].drafts <=> m \in log[k].drafts)
        BY <2>2, <3>1, <4>1, <4>2, <1>3 DEF OutlookInv, OutlookLogInv
      <4> QED BY <3>1, <4>1, <4>3, <1>4
    <3>2. CASE j = n + 1 /\ k = n + 1
      BY <3>2
    <3>3. CASE j \in 1..n /\ k = n + 1
      <4>1. Rests(m, f, j, n)
        <5>1. \A i \in (j + 1)..n : i \in (j + 1)..k
          BY <3>3
        <5>2. Rests(m, f, j, n)'
          BY <5>1, <2>2 DEF Rests
        <5> QED BY <5>2, <3>3, <1>5
      <4>2. m \in new.touched => f # log[n].place[m] /\ f # new.place[m]
        <5>1. n + 1 \in (j + 1)..k /\ (n + 1) - 1 = n /\ n \in 1..n
          BY <3>3, <1>3
        <5> QED BY <5>1, <2>2, <1>4 DEF Rests
      <4>3. /\ log[j].place[m] = f <=> log[n].place[m] = f
            /\ log[n].place[m] = f => (m \in log[j].drafts <=> m \in log[n].drafts)
        <5>1. n \in 1..n /\ j <= n
          BY <3>3, <1>3
        <5> QED BY <3>3, <4>1, <5>1, <1>3 DEF OutlookInv, OutlookLogInv
      <4>4. m \notin new.touched =>
              /\ new.place[m] = log[n].place[m]
              /\ m \in new.drafts <=> m \in log[n].drafts
        BY <1>3
      <4> QED BY <3>3, <4>2, <4>3, <4>4, <1>4
    <3>4. j \in 1..n \/ j = n + 1
      OBVIOUS
    <3>5. k \in 1..n \/ k = n + 1
      OBVIOUS
    <3> QED BY <3>1, <3>2, <3>3, <3>4, <3>5, <2>2
  <2>3. \A m \in Messages, f \in Folders : \A j, k \in 1..(n + 1) :
         j <= k /\ Rests(m, f, j, k)' =>
           /\ log'[j].place[m] = f <=> log'[k].place[m] = f
           /\ log'[k].place[m] = f => (m \in log'[j].drafts <=> m \in log'[k].drafts)
    BY <2>2
  <2>4. n + 1 >= 1
    OBVIOUS
  <2> QED BY <2>1, <2>3, <2>4, <1>4 DEF OutlookLogInv
<1>8. OutlookStoreInv'
  <2>1. ASSUME NEW c \in cursors
        PROVE  c.position >= 1 /\ c.position <= n + 1
                 /\ \A f \in c.folders : Still(f, c.position, c.links[f])'
    <3>1. c \in OutlookCursors /\ c.position >= 1 /\ c.position <= n
          /\ \A f \in c.folders : Still(f, c.position, c.links[f])
      BY <1>3 DEF OutlookInv, OutlookStoreInv
    <3>2. c.position \in Nat /\ \A f \in c.folders : c.links[f] \in Nat
      BY <3>1 DEF OutlookCursors
    <3>3. \A f \in c.folders : c.links[f] <= n
      BY <3>1, <1>3 DEF Still
    <3>4. \A f \in c.folders : Still(f, c.position, c.links[f])'
      BY <3>1, <3>2, <3>3, <1>6
    <3> QED BY <3>1, <3>2, <3>4
  <2> QED BY <2>1, <1>1, <1>4 DEF OutlookInv, OutlookStoreInv
<1>9. OutlookTypeInv'
  BY <1>1 DEF OutlookInv, OutlookTypeInv
<1> SUFFICES ASSUME Busy
             PROVE  /\ OutlookStartInv' /\ OutlookReadableInv' /\ OutlookStagedInv'
                    /\ OutlookReadingInv' /\ OutlookCheckingInv'
  BY <1>1, <1>7, <1>8, <1>9 DEF Busy, OutlookInv, OutlookStartInv, OutlookReadableInv,
     OutlookStagedInv, OutlookReadingInv, OutlookCheckingInv
<1>10. attempt \in OutlookAttempts
  BY DEF OutlookInv, OutlookTypeInv, Busy
<1>11. /\ attempt.startedAt \in Nat /\ attempt.quietFrom \in Nat /\ attempt.quietAt \in Nat
       /\ attempt.seen \in Nat /\ attempt.links \in [Folders -> Nat]
       /\ attempt.folders \subseteq Folders /\ attempt.todo \subseteq Folders
       /\ attempt.previous \subseteq Folders
  BY <1>10 DEF OutlookAttempts
<1>12. /\ attempt.startedAt >= 1 /\ attempt.startedAt <= n
       /\ attempt.startedAt \in 1..(n + 1) /\ n + 1 > attempt.startedAt
       /\ (~attempt.full => attempt.quietFrom >= 1 /\ attempt.quietFrom <= n
                              /\ attempt.quietFrom \in 1..(n + 1))
  BY <1>3, <1>11 DEF OutlookInv, OutlookStartInv
<1>13. ~attempt.full => ShownBefore' = ShownBefore
  <2> SUFFICES ASSUME ~attempt.full PROVE ShownBefore' = ShownBefore
    OBVIOUS
  <2>1. attempt.quietFrom \in 1..n
    BY <1>11, <1>12
  <2> QED BY <2>1, <1>1, <1>4 DEF ShownBefore, Outlook!ViewAt, Outlook!PlaceAt
<1>14. OutlookStartInv'
  <2>1. attempt.pc = "full" => attempt.seen >= attempt.startedAt /\ attempt.seen <= n + 1
    BY <1>3, <1>11 DEF OutlookInv, OutlookStartInv
  <2>2. n + 1 # attempt.startedAt
    BY <1>11, <1>12
  <2> QED BY <1>1, <1>4, <1>11, <1>12, <2>1, <2>2 DEF OutlookInv, OutlookStartInv
<1>15. OutlookReadableInv'
  <2>1. n + 1 # attempt.startedAt
    BY <1>11, <1>12
  <2> QED BY <1>1, <1>4, <2>1 DEF OutlookReadableInv
<1>16. OutlookStagedInv'
  <2>1. ~attempt.full => \A f \in Folders :
          Still(f, attempt.quietFrom, attempt.links[f]) => Still(f, attempt.quietFrom, attempt.links[f])'
    <3> SUFFICES ASSUME ~attempt.full, NEW f \in Folders, Still(f, attempt.quietFrom, attempt.links[f])
                 PROVE  Still(f, attempt.quietFrom, attempt.links[f])'
      OBVIOUS
    <3>1. attempt.links[f] \in Nat /\ attempt.links[f] <= n
      BY <1>3, <1>11 DEF Still
    <3>2. PICK j \in Nat, k \in Nat : j = attempt.quietFrom /\ k = attempt.links[f]
      BY <1>11, <3>1
    <3>3. Still(f, j, k)'
      BY <3>1, <3>2, <1>6, <1>12
    <3> QED BY <3>2, <3>3, <1>1
  <2>2. CASE attempt.pc = "inventory"
    BY <2>1, <2>2, <1>1, <1>11 DEF OutlookInv, OutlookStagedInv, NothingYet
  <2>3. CASE attempt.pc = "staged"
    <3>1. /\ NothingYet
          /\ attempt.full => \A f \in attempt.todo : attempt.links[f] = 0
          /\ ~attempt.full => \A f \in attempt.todo : Still(f, attempt.quietFrom, attempt.links[f])
      BY <2>3 DEF OutlookInv, OutlookStagedInv
    <3>2. ~attempt.full => \A f \in attempt.todo : Still(f, attempt.quietFrom, attempt.links[f])'
      BY <2>1, <3>1, <1>11
    <3>3. ASSUME NEW f \in attempt.folders \ attempt.todo
          PROVE  /\ attempt.startedAt <= attempt.links[f] /\ attempt.links[f] <= n + 1
                 /\ attempt.full =>
                      \A m \in Messages : log'[attempt.links[f]].place[m] = f => m \in attempt.hints
                 /\ ~attempt.full =>
                      /\ attempt.quietFrom <= attempt.links[f]
                      /\ \A m \in Messages \ attempt.hints :
                           Rests(m, f, attempt.quietFrom, attempt.links[f])'
      <4>1. /\ attempt.startedAt <= attempt.links[f] /\ attempt.links[f] <= n
            /\ attempt.full =>
                 \A m \in Messages : log[attempt.links[f]].place[m] = f => m \in attempt.hints
            /\ ~attempt.full =>
                 /\ attempt.quietFrom <= attempt.links[f]
                 /\ \A m \in Messages \ attempt.hints :
                      Rests(m, f, attempt.quietFrom, attempt.links[f])
        BY <2>3, <3>3, <1>3 DEF OutlookInv, OutlookStagedInv, Gathered
      <4>2. attempt.links[f] \in Nat
        BY <1>11
      <4>3. attempt.links[f] \in 1..n /\ attempt.links[f] <= n + 1
        BY <4>1, <4>2, <1>11, <1>12
      <4>4. PICK j \in Nat, k \in Nat : j = attempt.quietFrom /\ k = attempt.links[f]
        BY <1>11, <4>2
      <4>5. ~attempt.full => \A m \in Messages \ attempt.hints : Rests(m, f, j, k)'
        BY <4>1, <4>4, <1>5, <1>12
      <4> QED BY <4>1, <4>3, <4>4, <4>5, <1>1, <1>4
    <3> QED BY <2>3, <3>1, <3>2, <3>3, <1>1, <1>4 DEF OutlookStagedInv, NothingYet, Gathered
  <2>4. CASE attempt.pc \notin {"inventory", "staged"}
    BY <2>4, <1>1 DEF OutlookStagedInv
  <2> QED BY <2>2, <2>3, <2>4
<1>17. OutlookReadingInv'
  <2> SUFFICES ASSUME Reading PROVE OutlookReadingInv'
    BY <1>1 DEF OutlookReadingInv, Reading
  <2>1. \A f \in attempt.folders :
          attempt.startedAt <= attempt.links[f] /\ attempt.links[f] <= n
    BY <1>3 DEF OutlookInv, OutlookReadingInv
  <2>a. \A f \in attempt.folders : attempt.links[f] \in Nat
    BY <1>11
  <2>2. \A f \in attempt.folders : attempt.links[f] \in Nat /\ attempt.links[f] <= n + 1
    BY <2>1, <2>a
  <2>3. ASSUME \A f \in attempt.folders : Still(f, attempt.links[f], n + 1)'
        PROVE  Told(Shown, ShownBefore)'
    <3>1. ASSUME NEW f \in attempt.folders
          PROVE  /\ Still(f, attempt.links[f], n)
                 /\ \A m \in Messages : Rests(m, f, n, n + 1)'
      <4>1. PICK j \in Nat : j = attempt.links[f] /\ j >= 1 /\ j <= n
        BY <2>1, <2>2, <1>11, <1>12
      <4>2. Still(f, j, n + 1)'
        BY <2>3, <4>1, <1>1
      <4>3. \A m \in Messages : Rests(m, f, j, n + 1)'
        BY <4>2 DEF Still
      <4>4. \A m \in Messages : Rests(m, f, j, n)' /\ Rests(m, f, n, n + 1)'
        <5>1. \A i \in (j + 1)..n : i \in (j + 1)..(n + 1)
          BY <4>1
        <5>2. \A i \in (n + 1)..(n + 1) : i \in (j + 1)..(n + 1)
          BY <4>1
        <5> QED BY <4>3, <5>1, <5>2 DEF Rests
      <4>5. \A m \in Messages : Rests(m, f, j, n)
        BY <4>1, <4>4, <1>5
      <4> QED BY <4>1, <4>4, <4>5, <1>3 DEF Still
    <3>2. Told(Shown, ShownBefore)
      BY <3>1, <1>3 DEF OutlookInv, OutlookReadingInv
    <3>3. Shown' = Shown
      <4>1. ASSUME NEW m \in Messages PROVE m \in Shown' <=> m \in Shown
        <5>1. \A f \in attempt.folders :
                /\ log'[n].place[m] = f <=> log'[n + 1].place[m] = f
                /\ log'[n + 1].place[m] = f => (m \in log'[n].drafts <=> m \in log'[n + 1].drafts)
          <6>1. n \in 1..(n + 1) /\ n + 1 \in 1..(n + 1) /\ n <= n + 1
            BY <1>3
          <6> QED BY <3>1, <6>1, <1>4, <1>7, <1>11 DEF OutlookLogInv
        <5>2. log'[n] = log[n]
          BY <1>3, <1>4
        <5> QED BY <5>1, <5>2, <1>1, <1>3, <1>4 DEF Shown, Outlook!ViewAt, Outlook!PlaceAt
      <4> QED BY <4>1 DEF Shown, Outlook!ViewAt
    <3> QED BY <3>2, <3>3, <1>1, <1>13 DEF Told, Untold
  <2>4. /\ attempt.pc = "light" =>
             /\ attempt.current \in attempt.known => attempt.found
             /\ attempt.found => attempt.current \in retained
        /\ attempt.pc = "quiet" => attempt.hints = {}
    BY DEF OutlookInv, OutlookReadingInv
  <2> QED BY <2>1, <2>2, <2>3, <2>4, <1>1, <1>4 DEF OutlookReadingInv
<1>18. OutlookCheckingInv'
  <2>1. attempt.pc \in {"verify", "done"} => attempt.todo = {}
    BY DEF OutlookInv, OutlookCheckingInv
  <2> SUFFICES ASSUME Checking PROVE OutlookCheckingInv'
    BY <2>1, <1>1 DEF OutlookCheckingInv, Checking
  <2>2. /\ attempt.hints = {}
        /\ attempt.startedAt <= attempt.quietAt /\ attempt.quietAt <= n
        /\ \A f \in attempt.todo :
             attempt.startedAt <= attempt.links[f] /\ attempt.links[f] <= attempt.quietAt
        /\ \A f \in attempt.folders \ attempt.todo : Still(f, attempt.quietAt, attempt.links[f])
        /\ (\A f \in attempt.todo : Still(f, attempt.links[f], attempt.quietAt))
             => Told(ShownQuiet, ShownBefore)
    BY <1>3 DEF OutlookInv, OutlookCheckingInv
  <2>3. PICK q \in 1..n : q = attempt.quietAt
    BY <2>2, <1>11, <1>12
  <2>4. ASSUME NEW f \in attempt.folders \ attempt.todo
        PROVE  Still(f, attempt.quietAt, attempt.links[f])'
    <3>1. Still(f, attempt.quietAt, attempt.links[f]) /\ attempt.links[f] \in Nat
      BY <2>2, <1>11
    <3>2. PICK k \in Nat : k = attempt.links[f]
      BY <3>1
    <3>3. k <= n /\ Still(f, q, k)
      BY <3>1, <3>2, <2>3, <1>3 DEF Still
    <3>4. Still(f, q, k)'
      BY <3>3, <1>6
    <3> QED BY <3>2, <3>4, <2>3, <1>1
  <2>5. ASSUME NEW f \in attempt.todo, Still(f, attempt.links[f], attempt.quietAt)'
        PROVE  Still(f, attempt.links[f], attempt.quietAt)
    <3>0. attempt.links[f] \in Nat /\ attempt.startedAt <= attempt.links[f]
      BY <2>2, <1>11
    <3>1. PICK j \in Nat : j = attempt.links[f] /\ j >= 1
      BY <3>0, <1>11, <1>12
    <3>2. Still(f, j, q)'
      BY <2>5, <3>1, <2>3, <1>1
    <3>3. Still(f, j, q)
      BY <3>1, <3>2, <1>6
    <3> QED BY <3>1, <3>3, <2>3
  <2>6. ShownQuiet' = ShownQuiet
    BY <2>3, <1>1, <1>4 DEF ShownQuiet, Outlook!ViewAt, Outlook!PlaceAt
  <2>7. Told(ShownQuiet, ShownBefore) => Told(ShownQuiet, ShownBefore)'
    BY <2>6, <1>1, <1>13 DEF Told, Untold
  <2>8. attempt.quietAt <= n + 1
    BY <2>2, <1>11
  <2> QED BY <2>1, <2>2, <2>4, <2>5, <2>7, <2>8, <1>1, <1>4 DEF OutlookCheckingInv
<1> QED BY <1>14, <1>15, <1>16, <1>17, <1>18

LEMMA OutlookLogKept ==
  ASSUME log' = log
  PROVE  /\ \A m, f, j, k : Rests(m, f, j, k)' <=> Rests(m, f, j, k)
         /\ \A f, j, k : Still(f, j, k)' <=> Still(f, j, k)
         /\ OutlookLogInv => OutlookLogInv'
<1>1. \A m, f, j, k : Rests(m, f, j, k)' <=> Rests(m, f, j, k)
  BY DEF Rests
<1>2. \A f, j, k : Still(f, j, k)' <=> Still(f, j, k)
  BY <1>1 DEF Still
<1>3. OutlookLogInv => OutlookLogInv'
  BY <1>1 DEF OutlookLogInv
<1> QED BY <1>1, <1>2, <1>3

LEMMA OutlookProceeds ==
  ASSUME OutlookInv, Outlook!Proceed(attempt'), attempt' \in OutlookAttempts,
         OutlookStartInv', OutlookReadableInv', OutlookStagedInv', OutlookReadingInv',
         OutlookCheckingInv'
  PROVE  OutlookInv'
<1>1. log' = log /\ retained' = retained /\ cursors' = cursors
  BY DEF Outlook!Proceed
<1>2. OutlookLogInv' /\ \A f, j, k : Still(f, j, k)' <=> Still(f, j, k)
  BY <1>1, OutlookLogKept DEF OutlookInv
<1>3. OutlookStoreInv' /\ OutlookTypeInv'
  BY <1>1, <1>2 DEF OutlookInv, OutlookStoreInv, OutlookTypeInv
<1> QED BY <1>2, <1>3 DEF OutlookInv

LEMMA OutlookBusy ==
  ASSUME OutlookInv, NEW place, Outlook!At(place), place # "idle"
  PROVE  /\ attempt \in OutlookAttempts /\ Busy /\ attempt.pc = place
         /\ Len(log) \in Nat /\ Len(log) >= 1 /\ log[Len(log)] \in Mailboxes
<1>1. attempt # NoAttempt
  BY DEF Outlook!At, NoAttempt
<1>2. log \in Seq(Mailboxes) /\ Len(log) \in Nat /\ Len(log) >= 1
  BY DEF OutlookInv, OutlookLogInv
<1>3. log[Len(log)] \in Mailboxes
  BY <1>2
<1> QED BY <1>1, <1>2, <1>3 DEF OutlookInv, OutlookTypeInv, Busy, Outlook!At

LEMMA OutlookStarts ==
  ASSUME OutlookInv, NEW whole \in BOOLEAN, NEW lower \in Lowers, NEW scope \in SUBSET Folders,
         NEW vector \in [Folders -> Nat], NEW position \in Nat,
         whole => \A f \in Folders : vector[f] = 0,
         ~whole => /\ position >= 1 /\ position <= Len(log)
                   /\ \A f \in scope : Still(f, position, vector[f]),
         Outlook!Called(whole, lower, scope, vector, position)
  PROVE  OutlookInv'
<1> DEFINE new ==
      [pc |-> "inventory", full |-> whole, lower |-> lower, previous |-> scope, folders |-> {},
       todo |-> {}, links |-> vector, hints |-> {}, left |-> {},
       current |-> NoMessage, found |-> FALSE, seen |-> 0, messages |-> {}, removed |-> {},
       known |-> retained, startedAt |-> Len(log), quietFrom |-> position, quietAt |-> 0]
<1>1. /\ log' = log /\ retained' = retained /\ cursors' = cursors /\ attempt' = new
  BY DEF Outlook!Called, Outlook!Begin, Outlook!Now
<1>2. Len(log) \in Nat /\ Len(log) >= 1
  BY DEF OutlookInv, OutlookLogInv
<1>3. retained \subseteq Messages
  BY DEF OutlookInv, OutlookStoreInv
<1>4. /\ new.pc = "inventory" /\ new.full = whole /\ new.lower = lower /\ new.previous = scope
      /\ new.todo = {} /\ new.folders = {} /\ new.links = vector /\ new.hints = {}
      /\ new.current = NoMessage /\ new.messages = {} /\ new.removed = {}
      /\ new.known = retained /\ new.startedAt = Len(log) /\ new.quietFrom = position
  OBVIOUS
<1>5. new \in OutlookAttempts
  BY <1>2, <1>3 DEF OutlookAttempts, OutlookPlaces
<1> HIDE DEF new
<1>6. /\ OutlookLogInv' /\ \A f, j, k : Still(f, j, k)' <=> Still(f, j, k)
  BY <1>1, OutlookLogKept DEF OutlookInv
<1>7. OutlookStoreInv' /\ OutlookTypeInv'
  BY <1>1, <1>5, <1>6 DEF OutlookInv, OutlookStoreInv, OutlookTypeInv
<1>8. OutlookStartInv'
  BY <1>1, <1>2, <1>4 DEF OutlookStartInv
<1>9. OutlookStagedInv'
  BY <1>1, <1>4, <1>6 DEF OutlookStagedInv, NothingYet
<1>10. OutlookReadableInv' /\ OutlookReadingInv' /\ OutlookCheckingInv'
  BY <1>1, <1>4 DEF OutlookReadableInv, OutlookReadingInv, OutlookCheckingInv, Reading, Checking
<1> QED BY <1>6, <1>7, <1>8, <1>9, <1>10 DEF OutlookInv

LEMMA OutlookInventory == ASSUME OutlookInv, Outlook!Inventory PROVE OutlookInv'
<1>1. /\ attempt \in OutlookAttempts /\ Busy /\ attempt.pc = "inventory"
      /\ Len(log) \in Nat /\ Len(log) >= 1 /\ log[Len(log)] \in Mailboxes
  BY OutlookBusy DEF Outlook!Inventory
<1> DEFINE normal == log[Len(log)].normal
           place == IF attempt.full \/ attempt.previous = normal THEN "staged" ELSE "expired"
<1>2. /\ attempt' = [attempt EXCEPT !.folders = normal, !.todo = normal, !.pc = place]
      /\ log' = log /\ retained' = retained /\ Outlook!Proceed(attempt')
  BY DEF Outlook!Inventory, Outlook!Proceed, Outlook!Now
<1>3. normal \subseteq Folders /\ 1 \in normal
  <2>1. Len(log) \in 1..Len(log)
    BY <1>1
  <2> QED BY <1>1, <2>1 DEF Mailboxes, OutlookInv, OutlookLogInv
<1>4. place \in {"staged", "expired"}
  OBVIOUS
<1>5. place = "staged" => attempt.full \/ attempt.previous = normal
  OBVIOUS
<1> HIDE DEF place, normal
<1>6. attempt' \in OutlookAttempts
  BY <1>1, <1>2, <1>3, <1>4 DEF OutlookAttempts, OutlookPlaces
<1>7. /\ attempt'.pc = place /\ attempt'.folders = normal /\ attempt'.todo = normal
      /\ attempt'.full = attempt.full /\ attempt'.lower = attempt.lower
      /\ attempt'.links = attempt.links /\ attempt'.hints = attempt.hints
      /\ attempt'.left = attempt.left /\ attempt'.current = attempt.current
      /\ attempt'.messages = attempt.messages /\ attempt'.removed = attempt.removed
      /\ attempt'.known = attempt.known /\ attempt'.startedAt = attempt.startedAt
      /\ attempt'.quietFrom = attempt.quietFrom
  BY <1>1, <1>2 DEF OutlookAttempts
<1>8. \A f, j, k : Still(f, j, k)' <=> Still(f, j, k)
  BY <1>2, OutlookLogKept
<1>9. /\ NothingYet /\ attempt.hints = {}
      /\ attempt.full => \A f \in Folders : attempt.links[f] = 0
      /\ ~attempt.full => \A f \in attempt.previous : Still(f, attempt.quietFrom, attempt.links[f])
  BY <1>1 DEF OutlookInv, OutlookStagedInv
<1>10. OutlookStartInv'
  BY <1>1, <1>2, <1>3, <1>4, <1>7 DEF OutlookInv, OutlookStartInv, normal
<1>11. OutlookStagedInv'
  BY <1>2, <1>3, <1>4, <1>5, <1>7, <1>8, <1>9 DEF OutlookStagedInv, NothingYet
<1>12. OutlookReadableInv'
  BY <1>7, <1>9 DEF OutlookReadableInv, Untold, NothingYet
<1>13. OutlookReadingInv' /\ OutlookCheckingInv'
  BY <1>4, <1>7 DEF OutlookReadingInv, OutlookCheckingInv, Reading, Checking
<1> QED BY <1>2, <1>6, <1>10, <1>11, <1>12, <1>13, OutlookProceeds

\* The folder to go on with is one of those to do.
LEMMA LeastFolder ==
  ASSUME attempt.todo \subseteq Folders, attempt.todo # {}
  PROVE  Outlook!NextFolder \in attempt.todo
<1> DEFINE R == OpToRel(<, Nat)
           T == attempt.todo
<1>1. IsWellFoundedOn(R, Nat)
  BY NatLessThanWellFounded
<1>2. \A x, y \in Nat : x < y => <<x, y>> \in R
  BY DEF OpToRel
<1>3. T \subseteq Nat /\ T # {}
  OBVIOUS
<1> HIDE DEF R, T
<1>4. PICK m \in T : \A n \in T : ~(<<n, m>> \in R)
  BY <1>1, <1>3, WFMin
<1>5. ASSUME NEW n \in T PROVE m <= n
  <2>1. m \in Nat /\ n \in Nat
    BY <1>3
  <2>2. ~(n < m)
    BY <1>2, <1>4, <2>1
  <2> QED BY <2>1, <2>2
<1> QED BY <1>4, <1>5 DEF Outlook!NextFolder, Outlook!Min, T

\* What a delta with a link names.
LEMMA NamedSince ==
  ASSUME NEW f, attempt.links[f] # 0
  PROVE  Outlook!Named(f) = {m \in Messages : ~Rests(m, f, attempt.links[f], Len(log))}
  BY DEF Outlook!Named, Outlook!PlaceAt, Outlook!Now, Rests

LEMMA Gathering ==
  /\ OutlookLogInv /\ attempt \in OutlookAttempts /\ attempt.startedAt >= 1
  /\ ~attempt.full => attempt.quietFrom \in 1..Len(log)
  /\ NothingYet /\ attempt.pc # "full"
  /\ \A f \in attempt.folders : Gathered(f)
  /\ \A f \in attempt.folders : Still(f, attempt.links[f], Len(log))
  => Told(Shown, ShownBefore)
<1> SUFFICES ASSUME OutlookLogInv, attempt \in OutlookAttempts, attempt.startedAt >= 1,
                    ~attempt.full => attempt.quietFrom \in 1..Len(log),
                    NothingYet, attempt.pc # "full",
                    \A f \in attempt.folders : Gathered(f),
                    \A f \in attempt.folders : Still(f, attempt.links[f], Len(log))
             PROVE  Told(Shown, ShownBefore)
  OBVIOUS
<1>1. Len(log) \in Nat /\ Len(log) >= 1
  BY DEF OutlookLogInv
<1>2. /\ attempt.startedAt \in Nat /\ attempt.folders \subseteq Folders
      /\ attempt.quietFrom \in Nat
      /\ \A f \in attempt.folders : attempt.links[f] \in Nat
  BY DEF OutlookAttempts
<1>3. \A f \in attempt.folders : attempt.links[f] \in 1..Len(log) /\ attempt.links[f] <= Len(log)
  <2> SUFFICES ASSUME NEW f \in attempt.folders
               PROVE  attempt.links[f] \in 1..Len(log) /\ attempt.links[f] <= Len(log)
    OBVIOUS
  <2>1. attempt.startedAt <= attempt.links[f] /\ attempt.links[f] <= Len(log)
    BY DEF Gathered
  <2> QED BY <2>1, <1>1, <1>2
<1>4. Len(log) \in 1..Len(log)
  BY <1>1
<1>5. attempt.full => Shown \subseteq attempt.hints
  <2> SUFFICES ASSUME attempt.full, NEW m \in Shown PROVE m \in attempt.hints
    OBVIOUS
  <2>1. m \in Messages /\ log[Len(log)].place[m] \in attempt.folders
    BY DEF Shown, Outlook!ViewAt, Outlook!PlaceAt
  <2>2. PICK f \in attempt.folders : log[Len(log)].place[m] = f
    BY <2>1
  <2>3. Rests(m, f, attempt.links[f], Len(log))
    BY <2>1 DEF Still
  <2>4. log[attempt.links[f]].place[m] = f
    <3>1. PICK j \in 1..Len(log) : j = attempt.links[f] /\ j <= Len(log)
      BY <1>3
    <3>2. Rests(m, f, j, Len(log)) /\ f \in Folders
      BY <2>3, <3>1, <1>2
    <3>3. log[j].place[m] = f <=> log[Len(log)].place[m] = f
      BY <2>1, <3>1, <3>2, <1>4 DEF OutlookLogInv
    <3> QED BY <2>2, <3>1, <3>3
  <2> QED BY <2>1, <2>4 DEF Gathered
<1>6. ~attempt.full => \A m \in Messages \ attempt.hints : m \in Shown <=> m \in ShownBefore
  <2> SUFFICES ASSUME ~attempt.full, NEW m \in Messages \ attempt.hints
               PROVE  m \in Shown <=> m \in ShownBefore
    OBVIOUS
  <2>1. ASSUME NEW f \in attempt.folders
        PROVE  /\ log[attempt.quietFrom].place[m] = f <=> log[Len(log)].place[m] = f
               /\ log[Len(log)].place[m] = f =>
                    (m \in log[attempt.quietFrom].drafts <=> m \in log[Len(log)].drafts)
    <3>1. Rests(m, f, attempt.quietFrom, attempt.links[f])
      BY DEF Gathered
    <3>2. Rests(m, f, attempt.links[f], Len(log))
      BY DEF Still
    <3>3. /\ attempt.quietFrom \in Int /\ attempt.links[f] \in Int /\ Len(log) \in Int
      BY <1>1, <1>2
    <3>4. Rests(m, f, attempt.quietFrom, Len(log))
      BY <3>1, <3>2, <3>3, RestsOn
    <3>5. attempt.quietFrom <= Len(log) /\ f \in Folders
      BY <1>1, <1>2
    <3> QED BY <3>4, <3>5, <1>4 DEF OutlookLogInv
  <2> QED BY <2>1 DEF Shown, ShownBefore, Outlook!ViewAt, Outlook!PlaceAt
<1>7. Shown \subseteq Messages /\ ShownBefore \subseteq Messages
  BY DEF Shown, ShownBefore, Outlook!ViewAt
<1> QED BY <1>5, <1>6, <1>7 DEF Told, Untold, NothingYet

LEMMA OutlookStagedDelta == ASSUME OutlookInv, Outlook!StagedDelta PROVE OutlookInv'
<1>1. /\ attempt \in OutlookAttempts /\ Busy /\ attempt.pc = "staged"
      /\ Len(log) \in Nat /\ Len(log) >= 1 /\ log[Len(log)] \in Mailboxes
  BY OutlookBusy DEF Outlook!StagedDelta
<1>2. /\ attempt.todo \subseteq Folders /\ attempt.todo # {} /\ attempt.todo \subseteq attempt.folders
      /\ attempt.folders \subseteq Folders /\ attempt.links \in [Folders -> Nat]
      /\ attempt.startedAt \in Nat /\ attempt.startedAt >= 1 /\ attempt.startedAt <= Len(log)
      /\ attempt.quietFrom \in Nat
      /\ ~attempt.full => attempt.quietFrom >= 1 /\ attempt.quietFrom <= Len(log)
      /\ attempt.current = NoMessage
  BY <1>1 DEF OutlookInv, OutlookStartInv, OutlookAttempts
<1>3. PICK F \in attempt.todo : F = Outlook!NextFolder
  BY <1>2, LeastFolder
<1> DEFINE named == Outlook!Named(F)
           gone == {m \in named : log[Len(log)].place[m] # F}
           place == IF attempt.todo = {F} THEN "resolve" ELSE "staged"
<1>4. /\ attempt' = [attempt EXCEPT !.hints = @ \cup named, !.left = @ \cup gone,
                       !.links[F] = Len(log), !.todo = @ \ {F}, !.pc = place]
      /\ log' = log /\ retained' = retained /\ Outlook!Proceed(attempt')
  BY <1>3 DEF Outlook!StagedDelta, Outlook!Proceed, Outlook!Now, Outlook!PlaceNow, Outlook!PlaceAt,
              Outlook!Last
<1>5. named \subseteq Messages /\ gone \subseteq named
  BY DEF Outlook!Named
<1>6. \A m \in named : m \in gone <=> log[Len(log)].place[m] # F
  OBVIOUS
<1>7. /\ place = "resolve" => attempt.todo \ {F} = {}
      /\ place = "staged" => attempt.todo \ {F} # {}
      /\ place \in {"resolve", "staged"}
  BY <1>3
<1> HIDE DEF named, gone, place
<1>8. attempt' \in OutlookAttempts
  BY <1>1, <1>2, <1>3, <1>4, <1>5, <1>7 DEF OutlookAttempts, OutlookPlaces
<1>9. /\ attempt'.pc = place /\ attempt'.folders = attempt.folders
      /\ attempt'.todo = attempt.todo \ {F}
      /\ attempt'.full = attempt.full /\ attempt'.lower = attempt.lower
      /\ attempt'.hints = attempt.hints \cup named
      /\ attempt'.left = attempt.left \cup gone /\ attempt'.current = attempt.current
      /\ attempt'.messages = attempt.messages /\ attempt'.removed = attempt.removed
      /\ attempt'.known = attempt.known /\ attempt'.startedAt = attempt.startedAt
      /\ attempt'.quietFrom = attempt.quietFrom
  BY <1>1, <1>4 DEF OutlookAttempts
<1>10. attempt'.links = [attempt.links EXCEPT ![F] = Len(log)]
  BY <1>1, <1>4 DEF OutlookAttempts
<1>11. attempt'.links[F] = Len(log) /\ \A f \in Folders \ {F} : attempt'.links[f] = attempt.links[f]
  BY <1>2, <1>3, <1>10
<1>12. \A m, f, j, k : Rests(m, f, j, k)' <=> Rests(m, f, j, k)
  BY <1>4, OutlookLogKept
<1>13. \A f, j, k : Still(f, j, k)' <=> Still(f, j, k)
  BY <1>4, OutlookLogKept
<1>14. /\ NothingYet
       /\ attempt.full => \A f \in attempt.todo : attempt.links[f] = 0
       /\ ~attempt.full => \A f \in attempt.todo : Still(f, attempt.quietFrom, attempt.links[f])
       /\ \A f \in attempt.folders \ attempt.todo : Gathered(f)
  BY <1>1 DEF OutlookInv, OutlookStagedInv
<1>15. attempt.full => named = {m \in Messages : log[Len(log)].place[m] = F}
  BY <1>3, <1>14 DEF Outlook!Named, named, Outlook!PlaceNow, Outlook!PlaceAt, Outlook!Now
<1>16. ~attempt.full =>
         /\ attempt.links[F] >= attempt.quietFrom /\ attempt.links[F] <= Len(log)
         /\ named = {m \in Messages : ~Rests(m, F, attempt.links[F], Len(log))}
         /\ \A m \in Messages : Rests(m, F, attempt.quietFrom, attempt.links[F])
  <2> SUFFICES ASSUME ~attempt.full
               PROVE  /\ attempt.links[F] >= attempt.quietFrom /\ attempt.links[F] <= Len(log)
                      /\ named = {m \in Messages : ~Rests(m, F, attempt.links[F], Len(log))}
                      /\ \A m \in Messages : Rests(m, F, attempt.quietFrom, attempt.links[F])
    OBVIOUS
  <2>1. Still(F, attempt.quietFrom, attempt.links[F])
    BY <1>14
  <2>2. attempt.links[F] \in Nat
    BY <1>2
  <2>3. attempt.links[F] >= attempt.quietFrom /\ attempt.links[F] <= Len(log)
        /\ \A m \in Messages : Rests(m, F, attempt.quietFrom, attempt.links[F])
    BY <2>1, <2>2, <1>2 DEF Still
  <2>4. attempt.links[F] # 0
    BY <2>2, <2>3, <1>2
  <2>5. named = {m \in Messages : ~Rests(m, F, attempt.links[F], Len(log))}
    BY <2>4, NamedSince DEF named
  <2> QED BY <2>3, <2>5
<1>17. ASSUME NEW f \in attempt.folders, f \notin attempt.todo \/ f = F PROVE Gathered(f)'
  <2>1. CASE f = F
    <3>1. attempt.full => \A m \in Messages : log[Len(log)].place[m] = F => m \in attempt.hints \cup named
      BY <1>15
    <3>2. ASSUME ~attempt.full, NEW m \in Messages \ (attempt.hints \cup named)
          PROVE  Rests(m, F, attempt.quietFrom, Len(log))
      <4>1. Rests(m, F, attempt.quietFrom, attempt.links[F]) /\ Rests(m, F, attempt.links[F], Len(log))
        BY <3>2, <1>16
      <4>2. attempt.links[F] \in Nat
        BY <1>2, <1>3
      <4>3. PICK a \in Nat, b \in Nat, c \in Nat :
              a = attempt.quietFrom /\ b = attempt.links[F] /\ c = Len(log)
        BY <1>1, <1>2, <4>2
      <4>4. Rests(m, F, a, c)
        BY <4>1, <4>3, RestsOn
      <4> QED BY <4>3, <4>4
    <3>3. ~attempt.full => \A m \in Messages \ (attempt.hints \cup named) :
             Rests(m, F, attempt.quietFrom, Len(log))'
      BY <3>2, <1>12, <1>9, <1>4
    <3>4. PICK n \in Nat : n = Len(log)
      BY <1>1
    <3>5. ~attempt.full => \A m \in Messages \ (attempt.hints \cup named) :
             Rests(m, F, attempt.quietFrom, attempt.links[F])'
      BY <3>3, <3>4, <1>4, <1>11
    <3>6. attempt'.startedAt <= attempt'.links[F] /\ attempt'.links[F] <= Len(log')
      BY <1>1, <1>2, <1>4, <1>9, <1>11
    <3>7. ~attempt'.full => attempt'.quietFrom <= attempt'.links[F]
      BY <1>2, <1>9, <1>11
    <3>8. attempt'.full => \A m \in Messages : log'[attempt'.links[F]].place[m] = F => m \in attempt'.hints
      BY <3>1, <1>4, <1>9, <1>11
    <3> QED BY <2>1, <3>5, <3>6, <3>7, <3>8, <1>9 DEF Gathered
  <2>2. CASE f # F
    <3>1. Gathered(f) /\ attempt'.links[f] = attempt.links[f]
      BY <2>2, <1>2, <1>11, <1>14, <1>17
    <3>2. ~attempt.full => \A m \in Messages \ attempt.hints :
            Rests(m, f, attempt.quietFrom, attempt.links[f])'
      BY <3>1, <1>9, <1>12 DEF Gathered
    <3> QED BY <3>1, <3>2, <1>4, <1>9 DEF Gathered
  <2> QED BY <2>1, <2>2
<1>18. NothingYet'
  BY <1>9, <1>14 DEF NothingYet
<1>19. OutlookStartInv'
  BY <1>1, <1>2, <1>4, <1>7, <1>9 DEF OutlookInv, OutlookStartInv
<1>20. OutlookReadableInv'
  <2> SUFFICES ASSUME Len(log) = attempt.startedAt,
                      NEW m \in attempt.hints \cup named
               PROVE  log[Len(log)].place[m] \in Folders \/ (~attempt.full /\ m \in attempt.left \cup gone)
    BY <1>2, <1>4, <1>9 DEF OutlookReadableInv, Untold
  <2>1. CASE m \in attempt.hints
    <3>1. m # NoMessage
      BY <2>1, <1>1, SourcesAssumption DEF OutlookAttempts
    <3> QED BY <2>1, <3>1, <1>1 DEF OutlookInv, OutlookReadableInv, Untold
  <2>2. CASE m \in named
    BY <2>2, <1>2, <1>3, <1>6, <1>15
  <2> QED BY <2>1, <2>2
<1>21. OutlookStagedInv'
  <2>1. \A f \in attempt'.folders \ attempt'.todo : Gathered(f)'
    BY <1>9, <1>17
  <2>2. ~attempt.full => \A f \in attempt.todo \ {F} :
           Still(f, attempt.quietFrom, attempt.links[f])'
    BY <1>2, <1>9, <1>11, <1>13, <1>14
  <2>3. attempt'.full => \A f \in attempt'.todo : attempt'.links[f] = 0
    BY <1>2, <1>9, <1>11, <1>14
  <2>4. attempt'.pc # "inventory"
    BY <1>7, <1>9
  <2> QED BY <2>1, <2>2, <2>3, <2>4, <1>9, <1>18 DEF OutlookStagedInv
<1>22. OutlookReadingInv'
  <2> SUFFICES ASSUME place = "resolve" PROVE OutlookReadingInv'
    BY <1>7, <1>9 DEF OutlookReadingInv, Reading
  <2>1. \A f \in attempt'.folders : Gathered(f)'
    BY <1>7, <1>9, <1>17
  <2>2. \A f \in attempt'.folders :
          attempt'.startedAt <= attempt'.links[f] /\ attempt'.links[f] <= Len(log')
    BY <2>1 DEF Gathered
  <2>3. (\A f \in attempt'.folders : Still(f, attempt.links[f], Len(log))') => Told(Shown, ShownBefore)'
    <3> SUFFICES ASSUME \A f \in attempt'.folders : Still(f, attempt.links[f], Len(log))'
                 PROVE  Told(Shown, ShownBefore)'
      OBVIOUS
    <3>1. OutlookLogInv'
      BY <1>4, OutlookLogKept DEF OutlookInv
    <3>2. attempt'.startedAt >= 1 /\ attempt'.pc # "full"
      BY <1>2, <1>9
    <3>3. ~attempt'.full => attempt'.quietFrom \in 1..Len(log')
      BY <1>1, <1>2, <1>4, <1>9
    <3>4. (/\ OutlookLogInv /\ attempt \in OutlookAttempts /\ attempt.startedAt >= 1
           /\ ~attempt.full => attempt.quietFrom \in 1..Len(log)
           /\ NothingYet /\ attempt.pc # "full"
           /\ \A f \in attempt.folders : Gathered(f)
           /\ \A f \in attempt.folders : Still(f, attempt.links[f], Len(log))
           => Told(Shown, ShownBefore))'
      BY Gathering, PTL
    <3> QED BY <3>1, <3>2, <3>3, <3>4, <2>1, <1>8, <1>18
  <2> QED BY <2>2, <2>3, <1>9 DEF OutlookReadingInv
<1>23. OutlookCheckingInv'
  BY <1>7, <1>9 DEF OutlookCheckingInv, Checking
<1> QED BY <1>4, <1>8, <1>19, <1>20, <1>21, <1>22, <1>23, OutlookProceeds

LEMMA OutlookLookUp ==
  ASSUME OutlookInv, NEW m \in attempt.hints, Outlook!LookUp(m) PROVE OutlookInv'
<1>1. /\ attempt \in OutlookAttempts /\ Busy /\ attempt.pc = "resolve"
      /\ Len(log) \in Nat /\ Len(log) >= 1 /\ log[Len(log)] \in Mailboxes
  BY OutlookBusy DEF Outlook!LookUp
<1> DEFINE found == m \in retained
<1>2. /\ attempt' = [attempt EXCEPT !.pc = "light", !.hints = @ \ {m}, !.current = m, !.found = found]
      /\ log' = log /\ retained' = retained /\ Outlook!Proceed(attempt')
  BY DEF Outlook!LookUp, Outlook!Proceed
<1>3. m \in Messages /\ m # NoMessage /\ attempt.current = NoMessage /\ found \in BOOLEAN
  BY <1>1, SourcesAssumption DEF OutlookInv, OutlookStartInv, OutlookAttempts
<1>4. attempt' \in OutlookAttempts
  <2> HIDE DEF found
  <2> QED BY <1>1, <1>2, <1>3 DEF OutlookAttempts, OutlookPlaces
<1>5. /\ attempt'.pc = "light" /\ attempt'.folders = attempt.folders
      /\ attempt'.todo = attempt.todo /\ attempt'.links = attempt.links
      /\ attempt'.full = attempt.full /\ attempt'.lower = attempt.lower
      /\ attempt'.hints = attempt.hints \ {m}
      /\ attempt'.left = attempt.left /\ attempt'.current = m
      /\ attempt'.messages = attempt.messages /\ attempt'.removed = attempt.removed
      /\ attempt'.known = attempt.known /\ attempt'.startedAt = attempt.startedAt
      /\ attempt'.quietFrom = attempt.quietFrom
  <2> HIDE DEF found
  <2> QED BY <1>1, <1>2 DEF OutlookAttempts
<1>6. attempt'.found = found
  <2> HIDE DEF found
  <2> QED BY <1>1, <1>2 DEF OutlookAttempts
<1>7. (m \in retained => attempt'.found) /\ (attempt'.found => m \in retained)
  BY ONLY <1>6, Zenon
<1>8. \A f, j, k : Still(f, j, k)' <=> Still(f, j, k)
  BY <1>2, OutlookLogKept
<1>9. OutlookStartInv'
  BY <1>1, <1>2, <1>3, <1>5 DEF OutlookInv, OutlookStartInv
<1>10. OutlookReadableInv'
  BY <1>1, <1>2, <1>3, <1>5 DEF OutlookInv, OutlookReadableInv, Untold
<1>11. OutlookStagedInv' /\ OutlookCheckingInv'
  BY <1>5 DEF OutlookStagedInv, OutlookCheckingInv, Checking
<1>12. OutlookReadingInv'
  <2>1. Shown' = Shown /\ ShownBefore' = ShownBefore
    BY <1>2, <1>5 DEF Shown, ShownBefore, Outlook!ViewAt, Outlook!PlaceAt
  <2>2. Shown \subseteq Messages /\ ShownBefore \subseteq Messages
    BY DEF Shown, ShownBefore, Outlook!ViewAt
  <2>3. Told(Shown, ShownBefore) => Told(Shown, ShownBefore)'
    BY <1>1, <1>2, <1>3, <1>5, <2>1, <2>2, SourcesAssumption DEF Told, Untold
  <2>4. \A f \in attempt.folders : Still(f, attempt.links[f], Len(log))' => Still(f, attempt.links[f], Len(log))
    BY <1>2, <1>5, <1>8
  <2>5. m \in attempt.known => m \in retained
    BY <1>1 DEF OutlookInv, OutlookStartInv
  <2> QED BY <1>1, <1>2, <1>5, <1>7, <2>3, <2>4, <2>5 DEF OutlookInv, OutlookReadingInv, Reading
<1> QED BY <1>2, <1>4, <1>9, <1>10, <1>11, <1>12, OutlookProceeds

AllStill == \A f \in attempt.folders : Still(f, attempt.links[f], Len(log))

\* The message in hand is told of, or need not be.
LEMMA OutlookResolves ==
  ASSUME OutlookInv, attempt \in OutlookAttempts, Busy, attempt.pc \in {"light", "full"},
         NEW told \in SUBSET {attempt.current}, NEW gone \in SUBSET {attempt.current},
         AllStill => told \subseteq Shown \cap (InWindow(attempt.lower) \cup retained),
         gone \cap Shown = {}, gone \subseteq retained,
         attempt.current \in Shown \cap (InWindow(attempt.lower) \cup attempt.known) =>
           attempt.current \in told \/ ~AllStill,
         attempt.current \in attempt.known \ Shown => attempt.current \in gone \/ ~AllStill,
         Outlook!Resolve(told, gone)
  PROVE  OutlookInv'
<1>1. attempt.current \in Messages
  BY DEF OutlookInv, OutlookStartInv
<1>2. /\ attempt' = [attempt EXCEPT !.pc = "resolve", !.messages = @ \cup told,
             !.removed = @ \cup gone, !.current = NoMessage, !.found = FALSE, !.seen = 0]
      /\ log' = log /\ retained' = retained /\ Outlook!Proceed(attempt')
  BY DEF Outlook!Resolve, Outlook!Proceed
<1>3. attempt' \in OutlookAttempts
  BY <1>1, <1>2 DEF OutlookAttempts, OutlookPlaces
<1>4. /\ attempt'.pc = "resolve" /\ attempt'.folders = attempt.folders
      /\ attempt'.todo = attempt.todo /\ attempt'.links = attempt.links
      /\ attempt'.full = attempt.full /\ attempt'.lower = attempt.lower
      /\ attempt'.hints = attempt.hints
      /\ attempt'.left = attempt.left /\ attempt'.current = NoMessage
      /\ attempt'.messages = attempt.messages \cup told
      /\ attempt'.removed = attempt.removed \cup gone
      /\ attempt'.known = attempt.known /\ attempt'.startedAt = attempt.startedAt
      /\ attempt'.quietFrom = attempt.quietFrom
  BY <1>2 DEF OutlookAttempts
<1>5. \A f, j, k : Still(f, j, k)' <=> Still(f, j, k)
  BY <1>2, OutlookLogKept
<1>6. OutlookStartInv'
  BY <1>2, <1>4 DEF OutlookInv, OutlookStartInv
<1>7. OutlookReadableInv'
  BY <1>2, <1>4 DEF OutlookInv, OutlookReadableInv, Untold
<1>8. OutlookStagedInv' /\ OutlookCheckingInv'
  BY <1>4 DEF OutlookStagedInv, OutlookCheckingInv, Checking
<1>9. OutlookReadingInv'
  <2>1. Shown' = Shown /\ ShownBefore' = ShownBefore
    BY <1>2, <1>4 DEF Shown, ShownBefore, Outlook!ViewAt, Outlook!PlaceAt
  <2>2. Told(Shown, ShownBefore) /\ AllStill => Told(Shown, ShownBefore)'
    <3> SUFFICES ASSUME Told(Shown, ShownBefore), AllStill PROVE Told(Shown, ShownBefore)'
      OBVIOUS
    <3>1. /\ attempt.messages \subseteq Shown \cap (InWindow(attempt.lower) \cup retained)
          /\ attempt.removed \cap Shown = {} /\ attempt.removed \subseteq retained
          /\ attempt.full => Shown \cap InWindow(attempt.lower) \subseteq attempt.messages \cup Untold
      BY DEF Told
    <3>2. ~attempt.full =>
            /\ (Shown \ ShownBefore) \cap (InWindow(attempt.lower) \cup attempt.known)
                 \subseteq attempt.messages \cup Untold
            /\ (ShownBefore \ Shown) \cap attempt.known \subseteq attempt.removed \cup Untold
      BY DEF Told
    <3>3. /\ attempt'.messages \subseteq Shown \cap (InWindow(attempt.lower) \cup retained)
          /\ attempt'.removed \cap Shown = {} /\ attempt'.removed \subseteq retained
      BY <3>1, <1>4
    <3>4. Untold = attempt.hints \cup {attempt.current} /\ Untold' = attempt.hints \cup {NoMessage}
      BY <1>4 DEF Untold
    <3>5. attempt.full => Shown \cap InWindow(attempt.lower) \subseteq attempt'.messages \cup Untold'
      BY <3>1, <3>4, <1>4
    <3>6. ~attempt.full =>
            (Shown \ ShownBefore) \cap (InWindow(attempt.lower) \cup attempt.known)
                 \subseteq attempt'.messages \cup Untold'
      BY <3>2, <3>4, <1>4
    <3>7. ~attempt.full =>
            (ShownBefore \ Shown) \cap attempt.known \subseteq attempt'.removed \cup Untold'
      BY <3>2, <3>4, <1>4
    <3> QED BY <3>3, <3>5, <3>6, <3>7, <2>1, <1>2, <1>4 DEF Told
  <2>3. \A f \in attempt.folders : Still(f, attempt.links[f], Len(log))' => Still(f, attempt.links[f], Len(log))
    BY <1>2, <1>4, <1>5
  <2>4. (\A f \in attempt'.folders : Still(f, attempt.links[f], Len(log))') => AllStill
    BY <2>3, <1>4 DEF AllStill
  <2>5. AllStill => Told(Shown, ShownBefore)
    BY DEF AllStill, OutlookInv, OutlookReadingInv, Reading
  <2> QED BY <2>2, <2>4, <2>5, <1>2, <1>4 DEF OutlookInv, OutlookReadingInv, Reading
<1> QED BY <1>2, <1>3, <1>6, <1>7, <1>8, <1>9, OutlookProceeds

\* A request that refuses.
LEMMA OutlookRefuses ==
  ASSUME OutlookInv, attempt \in OutlookAttempts, Busy, attempt.pc # "inventory",
         Len(log) > attempt.startedAt, Outlook!Goto("refused")
  PROVE  OutlookInv'
<1>1. /\ attempt' = [attempt EXCEPT !.pc = "refused"]
      /\ log' = log /\ retained' = retained /\ Outlook!Proceed(attempt')
  BY DEF Outlook!Goto, Outlook!Proceed
<1>2. attempt' \in OutlookAttempts
  BY <1>1 DEF OutlookAttempts, OutlookPlaces
<1>3. /\ attempt'.pc = "refused" /\ attempt'.folders = attempt.folders
      /\ attempt'.todo = attempt.todo /\ attempt'.full = attempt.full
      /\ attempt'.lower = attempt.lower
      /\ attempt'.known = attempt.known /\ attempt'.startedAt = attempt.startedAt
      /\ attempt'.quietFrom = attempt.quietFrom
  BY <1>1 DEF OutlookAttempts
<1>4. OutlookStartInv'
  BY <1>1, <1>3 DEF OutlookInv, OutlookStartInv
<1>5. OutlookReadableInv' /\ OutlookStagedInv' /\ OutlookReadingInv' /\ OutlookCheckingInv'
  BY <1>3 DEF OutlookReadableInv, OutlookStagedInv, OutlookReadingInv, OutlookCheckingInv,
     Reading, Checking
<1> QED BY <1>1, <1>2, <1>4, <1>5, OutlookProceeds

LEMMA OutlookReadLight == ASSUME OutlookInv, Outlook!ReadLight PROVE OutlookInv'
<1>1. /\ attempt \in OutlookAttempts /\ Busy /\ attempt.pc = "light"
      /\ Len(log) \in Nat /\ Len(log) >= 1 /\ log[Len(log)] \in Mailboxes
  BY OutlookBusy DEF Outlook!ReadLight
<1>2. PICK m \in Messages : m = attempt.current
  BY <1>1 DEF OutlookInv, OutlookStartInv
<1>3. /\ m \in attempt.known => attempt.found
      /\ attempt.found => m \in retained
      /\ attempt.found \in BOOLEAN /\ attempt.folders \subseteq Folders
      /\ attempt.known \subseteq retained /\ m # NoMessage
  BY <1>1, <1>2, SourcesAssumption
     DEF OutlookInv, OutlookReadingInv, Reading, OutlookAttempts, OutlookStartInv
<1> DEFINE gone == Outlook!IfFound(m)
<1>4. /\ gone \subseteq {m} /\ gone \subseteq retained /\ (m \in attempt.known => m \in gone)
  <2>1. attempt.found => gone = {m}
    BY DEF Outlook!IfFound
  <2>2. ~attempt.found => gone = {}
    BY DEF Outlook!IfFound
  <2> HIDE DEF gone
  <2> QED BY <2>1, <2>2, <1>3
<1>5. m \in Shown <=> Outlook!InScope(m)
  BY <1>2 DEF Shown, Outlook!ViewAt, Outlook!InScope, Outlook!PlaceNow, Outlook!PlaceAt, Outlook!Now
<1>6. m \in InWindow(attempt.lower) <=> m \in Outlook!InWindow(attempt.lower)
  BY DEF InWindow, Outlook!InWindow
<1> HIDE DEF gone
<1>7. ASSUME Outlook!Resolve({}, gone), m \notin Shown PROVE OutlookInv'
  <2>1. {} \in SUBSET {attempt.current} /\ gone \in SUBSET {attempt.current}
    BY <1>2, <1>4
  <2> QED BY <2>1, <1>1, <1>2, <1>4, <1>7, OutlookResolves
<1>8. CASE Outlook!ReadMissing(m)
  <2>1. m \notin Shown /\ log[Len(log)].place[m] \notin Folders
    BY <1>3, <1>5, <1>8 DEF Outlook!ReadMissing, Outlook!Exists, Outlook!InScope, Outlook!PlaceNow,
       Outlook!PlaceAt, Outlook!Now
  <2>2. CASE Outlook!Tombstoned(m)
    BY <2>1, <2>2, <1>7, <1>8 DEF Outlook!ReadMissing, gone
  <2>3. CASE ~Outlook!Tombstoned(m)
    <3>1. ~(~attempt.full /\ m \in attempt.left)
      BY <2>3 DEF Outlook!Tombstoned
    <3>2. m \in Untold \ {NoMessage}
      BY <1>2, <1>3 DEF Untold
    <3>3. Len(log) # attempt.startedAt
      BY <2>1, <3>1, <3>2, <1>1 DEF OutlookInv, OutlookReadableInv
    <3>4. Len(log) > attempt.startedAt
      <4>1. attempt.startedAt \in 1..Len(log)
        BY <1>1 DEF OutlookInv, OutlookStartInv
      <4> QED BY <3>3, <4>1, <1>1
    <3>5. Outlook!Goto("refused")
      BY <2>3, <1>8 DEF Outlook!ReadMissing
    <3> QED BY <3>4, <3>5, <1>1, OutlookRefuses
  <2> QED BY <2>2, <2>3
<1>9. CASE Outlook!ReadOutside(m)
  BY <1>5, <1>7, <1>9 DEF Outlook!ReadOutside, gone
<1>10. CASE Outlook!ReadOlder(m)
  <2>1. m \notin InWindow(attempt.lower) /\ m \notin attempt.known /\ m \in Shown
    BY <1>3, <1>5, <1>6, <1>10 DEF Outlook!ReadOlder, Outlook!Wanted
  <2>2. Outlook!Resolve({}, {})
    BY <1>10 DEF Outlook!ReadOlder
  <2> QED BY <2>1, <2>2, <1>1, <1>2, OutlookResolves
<1>11. CASE Outlook!ReadInScope(m)
  <2>1. /\ attempt' = [attempt EXCEPT !.pc = "full", !.found = FALSE, !.seen = Len(log)]
        /\ log' = log /\ retained' = retained /\ Outlook!Proceed(attempt')
    BY <1>11 DEF Outlook!ReadInScope, Outlook!Proceed, Outlook!Now
  <2>2. m \in Shown \cap (InWindow(attempt.lower) \cup retained)
    BY <1>3, <1>5, <1>6, <1>11 DEF Outlook!ReadInScope, Outlook!Wanted
  <2>3. attempt' \in OutlookAttempts
    BY <1>1, <2>1 DEF OutlookAttempts, OutlookPlaces
  <2>4. /\ attempt'.pc = "full" /\ attempt'.folders = attempt.folders
        /\ attempt'.todo = attempt.todo /\ attempt'.links = attempt.links
        /\ attempt'.full = attempt.full /\ attempt'.lower = attempt.lower
        /\ attempt'.hints = attempt.hints /\ attempt'.seen = Len(log)
        /\ attempt'.left = attempt.left /\ attempt'.current = attempt.current
        /\ attempt'.messages = attempt.messages /\ attempt'.removed = attempt.removed
        /\ attempt'.known = attempt.known /\ attempt'.startedAt = attempt.startedAt
        /\ attempt'.quietFrom = attempt.quietFrom
    BY <1>1, <2>1 DEF OutlookAttempts
  <2>5. \A f, j, k : Still(f, j, k)' <=> Still(f, j, k)
    BY <2>1, OutlookLogKept
  <2>6. OutlookStartInv'
    BY <1>1, <1>2, <2>1, <2>4 DEF OutlookInv, OutlookStartInv
  <2>7. OutlookReadableInv'
    BY <1>1, <2>1, <2>4 DEF OutlookInv, OutlookReadableInv, Untold
  <2>8. OutlookStagedInv' /\ OutlookCheckingInv'
    BY <2>4 DEF OutlookStagedInv, OutlookCheckingInv, Checking
  <2>9. OutlookReadingInv'
    <3>1. Shown' = Shown /\ ShownBefore' = ShownBefore
      BY <2>1, <2>4 DEF Shown, ShownBefore, Outlook!ViewAt, Outlook!PlaceAt
    <3>2. Told(Shown, ShownBefore) => Told(Shown, ShownBefore)'
      BY <1>2, <2>1, <2>2, <2>4, <3>1 DEF Told, Untold
    <3>3. \A f \in attempt.folders : Still(f, attempt.links[f], Len(log))' => Still(f, attempt.links[f], Len(log))
      BY <2>1, <2>4, <2>5
    <3> QED BY <1>1, <2>1, <2>4, <3>2, <3>3 DEF OutlookInv, OutlookReadingInv, Reading
  <2> QED BY <2>1, <2>3, <2>6, <2>7, <2>8, <2>9, OutlookProceeds
<1> QED BY <1>2, <1>8, <1>9, <1>10, <1>11 DEF Outlook!ReadLight

LEMMA OutlookReadFull == ASSUME OutlookInv, Outlook!ReadFull PROVE OutlookInv'
<1>1. /\ attempt \in OutlookAttempts /\ Busy /\ attempt.pc = "full"
      /\ Len(log) \in Nat /\ Len(log) >= 1 /\ log[Len(log)] \in Mailboxes
  BY OutlookBusy DEF Outlook!ReadFull
<1>2. CASE \E k \in (attempt.seen + 1)..Outlook!Now : attempt.current \in log[k].touched
  <2>1. PICK k \in (attempt.seen + 1)..Len(log) : TRUE
    BY <1>2 DEF Outlook!Now
  <2>2. attempt.seen >= attempt.startedAt /\ attempt.seen \in Nat /\ attempt.startedAt \in Nat
    BY <1>1 DEF OutlookInv, OutlookStartInv, OutlookAttempts
  <2>3. Len(log) > attempt.startedAt
    BY <2>1, <2>2, <1>1
  <2>4. Outlook!Goto("refused")
    BY <1>2 DEF Outlook!ReadFull
  <2> QED BY <2>3, <2>4, <1>1, OutlookRefuses
<1>3. CASE ~\E k \in (attempt.seen + 1)..Outlook!Now : attempt.current \in log[k].touched
  <2>1. Outlook!Resolve({attempt.current}, {})
    BY <1>3 DEF Outlook!ReadFull
  <2>2. AllStill => Told(Shown, ShownBefore)
    BY <1>1 DEF AllStill, OutlookInv, OutlookReadingInv, Reading
  <2>3. AllStill => attempt.current \in Shown \cap (InWindow(attempt.lower) \cup retained)
    BY <1>1, <2>2 DEF Told
  <2>4. attempt.current \in attempt.known \ Shown => ~AllStill
    BY <2>3
  <2>5. {attempt.current} \in SUBSET {attempt.current} /\ {} \in SUBSET {attempt.current}
    OBVIOUS
  <2> QED BY <2>1, <2>3, <2>4, <2>5, <1>1, OutlookResolves
<1> QED BY <1>2, <1>3

LEMMA OutlookResolved == ASSUME OutlookInv, Outlook!Resolved PROVE OutlookInv'
<1>1. /\ attempt \in OutlookAttempts /\ Busy /\ attempt.pc = "resolve"
      /\ Len(log) \in Nat /\ Len(log) >= 1 /\ log[Len(log)] \in Mailboxes
  BY OutlookBusy DEF Outlook!Resolved
<1>2. /\ attempt' = [attempt EXCEPT !.pc = "quiet", !.todo = attempt.folders]
      /\ attempt.hints = {}
      /\ log' = log /\ retained' = retained /\ Outlook!Proceed(attempt')
  BY DEF Outlook!Resolved, Outlook!Proceed
<1>3. attempt' \in OutlookAttempts
  BY <1>1, <1>2 DEF OutlookAttempts, OutlookPlaces
<1>4. /\ attempt'.pc = "quiet" /\ attempt'.folders = attempt.folders
      /\ attempt'.todo = attempt.folders /\ attempt'.links = attempt.links
      /\ attempt'.full = attempt.full /\ attempt'.lower = attempt.lower
      /\ attempt'.hints = {} /\ attempt'.current = attempt.current
      /\ attempt'.messages = attempt.messages /\ attempt'.removed = attempt.removed
      /\ attempt'.known = attempt.known /\ attempt'.startedAt = attempt.startedAt
      /\ attempt'.quietFrom = attempt.quietFrom
  BY <1>1, <1>2 DEF OutlookAttempts
<1>5. \A f, j, k : Still(f, j, k)' <=> Still(f, j, k)
  BY <1>2, OutlookLogKept
<1>6. OutlookStartInv'
  BY <1>1, <1>2, <1>4 DEF OutlookInv, OutlookStartInv
<1>7. OutlookReadableInv' /\ OutlookStagedInv' /\ OutlookCheckingInv'
  BY <1>4 DEF OutlookReadableInv, OutlookStagedInv, OutlookCheckingInv, Checking
<1>8. OutlookReadingInv'
  <2>1. Shown' = Shown /\ ShownBefore' = ShownBefore
    BY <1>2, <1>4 DEF Shown, ShownBefore, Outlook!ViewAt, Outlook!PlaceAt
  <2>2. Told(Shown, ShownBefore) => Told(Shown, ShownBefore)'
    BY <1>1, <1>2, <1>4, <2>1 DEF Told, Untold
  <2>3. \A f \in attempt.folders : Still(f, attempt.links[f], Len(log))' => Still(f, attempt.links[f], Len(log))
    BY <1>2, <1>4, <1>5
  <2> QED BY <1>1, <1>2, <1>4, <2>2, <2>3 DEF OutlookInv, OutlookReadingInv, Reading
<1> QED BY <1>2, <1>3, <1>6, <1>7, <1>8, OutlookProceeds

LEMMA OutlookVerify == ASSUME OutlookInv, Outlook!Verify PROVE OutlookInv'
<1>1. /\ attempt \in OutlookAttempts /\ Busy /\ attempt.pc = "verify"
      /\ Len(log) \in Nat /\ Len(log) >= 1 /\ log[Len(log)] \in Mailboxes
  BY OutlookBusy DEF Outlook!Verify
<1>2. CASE log[Len(log)].normal # attempt.folders
  <2>1. Outlook!Goto("refused")
    BY <1>2 DEF Outlook!Verify, Outlook!Now
  <2>2. attempt.startedAt \in 1..Len(log) /\ Len(log) # attempt.startedAt
    BY <1>1, <1>2 DEF OutlookInv, OutlookStartInv
  <2>3. Len(log) > attempt.startedAt
    BY <2>2, <1>1
  <2> QED BY <2>1, <2>3, <1>1, OutlookRefuses
<1>3. CASE log[Len(log)].normal = attempt.folders
  <2>1. /\ attempt' = [attempt EXCEPT !.pc = "done"]
        /\ log' = log /\ retained' = retained /\ Outlook!Proceed(attempt')
    BY <1>3 DEF Outlook!Verify, Outlook!Now, Outlook!Goto, Outlook!Proceed
  <2>2. attempt' \in OutlookAttempts
    BY <1>1, <2>1 DEF OutlookAttempts, OutlookPlaces
  <2>3. /\ attempt'.pc = "done" /\ attempt'.folders = attempt.folders
        /\ attempt'.todo = attempt.todo /\ attempt'.links = attempt.links
        /\ attempt'.full = attempt.full /\ attempt'.lower = attempt.lower
        /\ attempt'.hints = attempt.hints /\ attempt'.current = attempt.current
        /\ attempt'.messages = attempt.messages /\ attempt'.removed = attempt.removed
        /\ attempt'.known = attempt.known /\ attempt'.startedAt = attempt.startedAt
        /\ attempt'.quietFrom = attempt.quietFrom /\ attempt'.quietAt = attempt.quietAt
    BY <1>1, <2>1 DEF OutlookAttempts
  <2>4. \A f, j, k : Still(f, j, k)' <=> Still(f, j, k)
    BY <2>1, OutlookLogKept
  <2>5. OutlookStartInv'
    BY <1>1, <2>1, <2>3 DEF OutlookInv, OutlookStartInv
  <2>6. OutlookReadableInv' /\ OutlookStagedInv' /\ OutlookReadingInv'
    BY <2>3 DEF OutlookReadableInv, OutlookStagedInv, OutlookReadingInv, Reading
  <2>7. OutlookCheckingInv'
    <3>1. attempt.todo = {} /\ 1 \in attempt.folders
      BY <1>1 DEF OutlookInv, OutlookCheckingInv, OutlookStartInv
    <3>2. Checking
      BY <1>1, <3>1 DEF Checking
    <3>3. ShownQuiet' = ShownQuiet /\ ShownBefore' = ShownBefore
      BY <2>1, <2>3 DEF ShownQuiet, ShownBefore, Outlook!ViewAt, Outlook!PlaceAt
    <3>4. Told(ShownQuiet, ShownBefore) => Told(ShownQuiet, ShownBefore)'
      BY <1>1, <2>1, <2>3, <3>3 DEF Told, Untold
    <3>5. \A f \in attempt.folders : Still(f, attempt.quietAt, attempt.links[f]) =>
              Still(f, attempt.quietAt, attempt.links[f])'
      BY <2>3, <2>4
    <3> QED BY <1>1, <2>1, <2>3, <3>1, <3>2, <3>4, <3>5 DEF OutlookInv, OutlookCheckingInv
  <2> QED BY <2>1, <2>2, <2>5, <2>6, <2>7, OutlookProceeds
<1> QED BY <1>2, <1>3

LEMMA OutlookQuietDelta == ASSUME OutlookInv, Outlook!QuietDelta PROVE OutlookInv'
<1>1. /\ attempt \in OutlookAttempts /\ Busy /\ attempt.pc = "quiet"
      /\ Len(log) \in Nat /\ Len(log) >= 1 /\ log[Len(log)] \in Mailboxes
  BY OutlookBusy DEF Outlook!QuietDelta
<1>2. /\ attempt.todo \subseteq Folders /\ attempt.todo # {} /\ attempt.todo \subseteq attempt.folders
      /\ attempt.folders \subseteq Folders /\ attempt.links \in [Folders -> Nat]
      /\ attempt.startedAt \in Nat /\ attempt.startedAt >= 1 /\ attempt.startedAt <= Len(log)
      /\ attempt.current = NoMessage /\ attempt.quietAt \in Nat
  BY <1>1 DEF OutlookInv, OutlookStartInv, OutlookAttempts
<1>3. PICK F \in attempt.todo : F = Outlook!NextFolder
  BY <1>2, LeastFolder
<1>4. attempt.todo = attempt.folders => Reading
  BY <1>1 DEF Reading
<1>5. attempt.todo # attempt.folders => Checking
  BY <1>1 DEF Checking
<1>6. PICK link \in Nat : link = attempt.links[F]
  BY <1>2, <1>3
<1>7. attempt.startedAt <= link /\ link <= Len(log)
  <2>1. CASE attempt.todo = attempt.folders
    BY <2>1, <1>1, <1>3, <1>4, <1>6 DEF OutlookInv, OutlookReadingInv
  <2>2. CASE attempt.todo # attempt.folders
    <3>1. /\ attempt.startedAt <= link /\ link <= attempt.quietAt /\ attempt.quietAt <= Len(log)
      BY <2>2, <1>1, <1>3, <1>5, <1>6 DEF OutlookInv, OutlookCheckingInv
    <3> QED BY <3>1, <1>1, <1>2
  <2> QED BY <2>1, <2>2
<1>8. link # 0
  BY <1>2, <1>7
<1>9. Outlook!Named(F) = {m \in Messages : ~Rests(m, F, link, Len(log))}
  BY <1>6, <1>8, NamedSince
<1>10. CASE Outlook!Named(F) # {}
  <2>1. PICK m \in Messages : ~Rests(m, F, link, Len(log))
    BY <1>9, <1>10
  <2>2. PICK i \in (link + 1)..Len(log) : TRUE
    BY <2>1 DEF Rests
  <2>3. Len(log) > attempt.startedAt
    BY <2>2, <1>1, <1>2, <1>7
  <2>4. Outlook!Goto("refused")
    BY <1>3, <1>10 DEF Outlook!QuietDelta, Outlook!Quiet
  <2> QED BY <2>3, <2>4, <1>1, OutlookRefuses
<1>11. CASE Outlook!Named(F) = {}
  <2> DEFINE moment == IF attempt.todo = attempt.folders THEN Len(log) ELSE attempt.quietAt
             place == IF attempt.todo = {F} THEN "verify" ELSE "quiet"
  <2>1. /\ attempt' = [attempt EXCEPT !.quietAt = moment, !.links[F] = Len(log),
                         !.todo = @ \ {F}, !.pc = place]
        /\ log' = log /\ retained' = retained /\ Outlook!Proceed(attempt')
    BY <1>3, <1>11 DEF Outlook!QuietDelta, Outlook!Quiet, Outlook!Proceed, Outlook!Now, Outlook!Last
  <2>2. /\ attempt.todo = attempt.folders => moment = Len(log)
        /\ attempt.todo # attempt.folders => moment = attempt.quietAt
        /\ moment \in Nat
    BY <1>1, <1>2
  <2>3. /\ place = "verify" => attempt.todo \ {F} = {}
        /\ place = "quiet" => attempt.todo \ {F} # {}
        /\ place \in {"verify", "quiet"}
    BY <1>3
  <2> HIDE DEF moment, place
  <2>4. attempt' \in OutlookAttempts
    <3>1. [attempt.links EXCEPT ![F] = Len(log)] \in [Folders -> Nat]
      BY <1>1, <1>2, <1>3
    <3>2. place \in OutlookPlaces
      BY <2>3 DEF OutlookPlaces
    <3>3. attempt.todo \ {F} \in SUBSET Folders
      BY <1>2
    <3> QED BY <1>1, <2>1, <2>2, <3>1, <3>2, <3>3 DEF OutlookAttempts
  <2>5. /\ attempt'.pc = place /\ attempt'.folders = attempt.folders
        /\ attempt'.todo = attempt.todo \ {F}
        /\ attempt'.full = attempt.full /\ attempt'.lower = attempt.lower
        /\ attempt'.hints = attempt.hints /\ attempt'.current = attempt.current
        /\ attempt'.messages = attempt.messages /\ attempt'.removed = attempt.removed
        /\ attempt'.known = attempt.known /\ attempt'.startedAt = attempt.startedAt
        /\ attempt'.quietFrom = attempt.quietFrom /\ attempt'.quietAt = moment
        /\ attempt'.links = [attempt.links EXCEPT ![F] = Len(log)]
    BY <1>1, <2>1 DEF OutlookAttempts
  <2>6. attempt'.links[F] = Len(log) /\ \A f \in Folders \ {F} : attempt'.links[f] = attempt.links[f]
    BY <1>2, <1>3, <2>5
  <2>7. \A f, j, k : Still(f, j, k)' <=> Still(f, j, k)
    BY <2>1, OutlookLogKept
  <2>8. \A m \in Messages : Rests(m, F, link, Len(log))
    BY <1>9, <1>11
  <2>9. PICK n \in Nat : n = Len(log)
    BY <1>1
  <2>10. PICK q \in Nat : q = moment
    BY <2>2
  <2>11. link <= q /\ q <= n /\ attempt.startedAt <= q
    <3>1. CASE attempt.todo = attempt.folders
      BY <3>1, <1>2, <1>7, <2>2, <2>9, <2>10
    <3>2. CASE attempt.todo # attempt.folders
      BY <3>2, <1>1, <1>3, <1>5, <1>6, <2>2, <2>9, <2>10 DEF OutlookInv, OutlookCheckingInv
    <3> QED BY <3>1, <3>2
  <2>12. Still(F, link, q) /\ Still(F, q, n)
    <3>1. ASSUME NEW m \in Messages PROVE Rests(m, F, link, q) /\ Rests(m, F, q, n)
      <4>1. Rests(m, F, link, n)
        BY <2>8, <2>9
      <4>2. link \in Int /\ q \in Int /\ n \in Int /\ link <= link /\ n <= n
        OBVIOUS
      <4>3. Rests(m, F, link, q)
        BY <4>1, <4>2, <2>11, RestsWithin
      <4>4. Rests(m, F, q, n)
        BY <4>1, <4>2, <2>11, RestsWithin
      <4> QED BY <4>3, <4>4
    <3> QED BY <3>1, <2>9, <2>11 DEF Still
  <2>13. OutlookStartInv'
    BY <1>1, <1>2, <2>1, <2>3, <2>5 DEF OutlookInv, OutlookStartInv
  <2>14. OutlookReadableInv' /\ OutlookStagedInv' /\ OutlookReadingInv'
    <3>1. attempt.todo \ {F} # attempt.folders
      BY <1>2, <1>3
    <3> QED BY <3>1, <2>3, <2>5 DEF OutlookReadableInv, OutlookStagedInv, OutlookReadingInv, Reading
  <2>15. attempt.hints = {}
    BY <1>1, <1>4, <1>5 DEF OutlookInv, OutlookReadingInv, OutlookCheckingInv
  <2>16. ASSUME NEW f \in attempt.todo \ {F}
         PROVE  attempt.startedAt <= attempt.links[f] /\ attempt.links[f] <= q
    <3>1. CASE attempt.todo = attempt.folders
      BY <3>1, <1>1, <1>2, <1>4, <2>2, <2>10 DEF OutlookInv, OutlookReadingInv
    <3>2. CASE attempt.todo # attempt.folders
      BY <3>2, <1>1, <1>5, <2>2, <2>10 DEF OutlookInv, OutlookCheckingInv
    <3> QED BY <3>1, <3>2
  <2>17. ASSUME NEW f \in attempt.folders \ (attempt.todo \ {F})
         PROVE  Still(f, attempt.quietAt, attempt.links[f])'
    <3>1. CASE f = F
      <4>1. Still(F, q, n)'
        BY <2>7, <2>12
      <4> QED BY <3>1, <4>1, <2>1, <2>5, <2>6, <2>9, <2>10
    <3>2. CASE f # F
      <4>1. attempt.todo # attempt.folders
        BY <2>17, <3>2
      <4>2. Still(f, attempt.quietAt, attempt.links[f])
        BY <2>17, <3>2, <4>1, <1>1, <1>5 DEF OutlookInv, OutlookCheckingInv
      <4>3. attempt'.links[f] = attempt.links[f] /\ moment = attempt.quietAt
        BY <2>2, <2>6, <2>17, <3>2, <4>1, <1>2
      <4>4. PICK k : k = attempt.links[f]
        OBVIOUS
      <4>5. Still(f, q, k)'
        BY <4>2, <4>3, <4>4, <2>7, <2>10
      <4>6. k = attempt'.links[f] /\ q = attempt'.quietAt
        BY <4>3, <4>4, <2>5, <2>10
      <4> QED BY <4>5, <4>6
    <3> QED BY <3>1, <3>2
  <2>18. (\A f \in attempt.todo \ {F} : Still(f, attempt.links[f], q))
           => Told(ShownQuiet, ShownBefore)'
    <3> SUFFICES ASSUME \A f \in attempt.todo \ {F} : Still(f, attempt.links[f], q)
                 PROVE  Told(ShownQuiet, ShownBefore)'
      OBVIOUS
    <3>1. \A f \in attempt.todo : Still(f, attempt.links[f], q)
      BY <2>12, <1>6
    <3>2. ShownBefore' = ShownBefore
      BY <2>1, <2>5 DEF ShownBefore, Outlook!ViewAt, Outlook!PlaceAt
    <3>3. CASE attempt.todo = attempt.folders
      <4>1. Told(Shown, ShownBefore)
        BY <3>1, <3>3, <1>1, <1>4, <2>2, <2>10 DEF OutlookInv, OutlookReadingInv
      <4>2. ShownQuiet' = Shown
        BY <3>3, <2>1, <2>2, <2>5 DEF ShownQuiet, Shown, Outlook!ViewAt, Outlook!PlaceAt
      <4> QED BY <3>2, <4>1, <4>2, <1>1, <2>1, <2>3, <2>5 DEF Told, Untold
    <3>4. CASE attempt.todo # attempt.folders
      <4>1. Told(ShownQuiet, ShownBefore)
        BY <3>1, <3>4, <1>1, <1>5, <2>2, <2>10 DEF OutlookInv, OutlookCheckingInv
      <4>2. ShownQuiet' = ShownQuiet
        BY <3>4, <2>1, <2>2, <2>5 DEF ShownQuiet, Shown, Outlook!ViewAt, Outlook!PlaceAt
      <4> QED BY <3>2, <4>1, <4>2, <1>1, <2>1, <2>3, <2>5 DEF Told, Untold
    <3> QED BY <3>3, <3>4
  <2>19. OutlookCheckingInv'
    <3>1. attempt'.pc \in {"verify", "done"} => attempt'.todo = {}
      BY <2>3, <2>5
    <3>2. attempt'.startedAt <= attempt'.quietAt /\ attempt'.quietAt <= Len(log')
      BY <2>1, <2>5, <2>9, <2>10, <2>11
    <3>3. \A f \in attempt'.todo :
             attempt'.startedAt <= attempt'.links[f] /\ attempt'.links[f] <= attempt'.quietAt
      BY <1>2, <2>5, <2>6, <2>10, <2>16
    <3>4. \A f \in attempt'.folders \ attempt'.todo : Still(f, attempt.quietAt, attempt.links[f])'
      BY <2>5, <2>17
    <3>5. (\A f \in attempt'.todo : Still(f, attempt.links[f], attempt.quietAt)')
             => Told(ShownQuiet, ShownBefore)'
      <4> SUFFICES ASSUME \A f \in attempt'.todo : Still(f, attempt.links[f], attempt.quietAt)'
                   PROVE  Told(ShownQuiet, ShownBefore)'
        OBVIOUS
      <4>1. ASSUME NEW f \in attempt.todo \ {F} PROVE Still(f, attempt.links[f], q)
        <5>1. PICK k : k = attempt.links[f]
          OBVIOUS
        <5>2. attempt'.links[f] = k /\ attempt'.quietAt = q /\ f \in attempt'.todo
          BY <5>1, <1>2, <2>5, <2>6, <2>10
        <5>3. Still(f, k, q)'
          BY <5>2
        <5>4. Still(f, k, q)
          BY <5>3, <2>7
        <5> QED BY <5>1, <5>4
      <4> QED BY <4>1, <2>18
    <3> QED BY <3>1, <3>2, <3>3, <3>4, <3>5, <2>5, <2>15 DEF OutlookCheckingInv
  <2> QED BY <2>1, <2>4, <2>13, <2>14, <2>19, OutlookProceeds
<1> QED BY <1>10, <1>11

LEMMA OutlookBegins ==
  ASSUME OutlookInv,
         (\E since \in Lowers : Outlook!BeginFull(since))
           \/ (\E cursor \in cursors : Outlook!BeginDelta(cursor))
  PROVE  OutlookInv'
<1>1. CASE \E since \in Lowers : Outlook!BeginFull(since)
  <2>1. PICK since \in Lowers : Outlook!BeginFull(since)
    BY <1>1
  <2>2. PICK vector \in [Folders -> Nat] : vector = Outlook!NoLinks /\ \A f \in Folders : vector[f] = 0
    <3>1. Outlook!NoLinks \in [Folders -> Nat]
      BY DEF Outlook!NoLinks
    <3>2. \A f \in Folders : Outlook!NoLinks[f] = 0
      BY DEF Outlook!NoLinks
    <3> QED BY <3>1, <3>2
  <2>3. Outlook!Called(TRUE, since, {}, vector, 0)
    BY <2>1, <2>2 DEF Outlook!BeginFull
  <2>4. 0 \in Nat /\ {} \in SUBSET Folders
    OBVIOUS
  <2> QED BY <2>2, <2>3, <2>4, OutlookStarts
<1>2. CASE \E cursor \in cursors : Outlook!BeginDelta(cursor)
  <2>1. PICK cursor \in cursors : Outlook!BeginDelta(cursor)
    BY <1>2
  <2>2. /\ cursor \in OutlookCursors /\ cursor.position >= 1 /\ cursor.position <= Len(log)
        /\ \A f \in cursor.folders : Still(f, cursor.position, cursor.links[f])
    BY <2>1 DEF OutlookInv, OutlookStoreInv
  <2>3. /\ cursor.lower \in Lowers /\ cursor.folders \in SUBSET Folders
        /\ cursor.links \in [Folders -> Nat] /\ cursor.position \in Nat
    BY <2>2 DEF OutlookCursors
  <2>4. Outlook!Called(FALSE, cursor.lower, cursor.folders, cursor.links, cursor.position)
    BY <2>1 DEF Outlook!BeginDelta
  <2> QED BY <2>2, <2>3, <2>4, OutlookStarts
<1> QED BY <1>1, <1>2

LEMMA OutlookEnds == ASSUME OutlookInv, Outlook!CommitAnswer \/ Outlook!Abandon PROVE OutlookInv'
<1>1. ~Busy'
  BY DEF Outlook!CommitAnswer, Outlook!Abandon, Outlook!Commit, Outlook!Proceed, Outlook!NoAttempt,
         NoAttempt, Busy
<1>2. log' = log
  BY DEF Outlook!CommitAnswer, Outlook!Abandon, Outlook!Commit, Outlook!Proceed
<1>3. OutlookLogInv' /\ \A f, j, k : Still(f, j, k)' <=> Still(f, j, k)
  BY <1>2, OutlookLogKept DEF OutlookInv
<1>4. OutlookTypeInv'
  BY <1>1 DEF OutlookTypeInv, Busy
<1>5. OutlookStoreInv'
  <2>1. CASE Outlook!Abandon
    BY <2>1, <1>2, <1>3 DEF OutlookInv, OutlookStoreInv, Outlook!Abandon, Outlook!Proceed
  <2>2. CASE Outlook!CommitAnswer
    <3>1. /\ attempt \in OutlookAttempts /\ Busy /\ attempt.pc = "done"
          /\ Len(log) \in Nat /\ Len(log) >= 1 /\ log[Len(log)] \in Mailboxes
      BY <2>2, OutlookBusy DEF Outlook!CommitAnswer, Outlook!Commit
    <3> DEFINE new == [folders |-> attempt.folders, lower |-> attempt.lower,
                       position |-> attempt.quietAt,
                       links |-> [f \in Folders |-> IF f \in attempt.folders THEN attempt.links[f] ELSE 0]]
    <3>2. retained' = retained \cup attempt.messages /\ cursors' = cursors \cup {new}
      BY <2>2 DEF Outlook!CommitAnswer, Outlook!Commit
    <3>3. /\ attempt.messages \subseteq Messages /\ attempt.folders \subseteq Folders
          /\ attempt.links \in [Folders -> Nat] /\ attempt.quietAt \in Nat
          /\ attempt.startedAt \in Nat
      BY <3>1 DEF OutlookAttempts
    <3>4. /\ attempt.startedAt <= attempt.quietAt /\ attempt.quietAt <= Len(log)
          /\ \A f \in attempt.folders : Still(f, attempt.quietAt, attempt.links[f])
          /\ attempt.startedAt \in 1..Len(log)
      BY <3>1 DEF OutlookInv, OutlookCheckingInv, OutlookStartInv, Checking
    <3>5. new \in OutlookCursors
      BY <3>1, <3>3 DEF OutlookCursors, OutlookAttempts
    <3>6. /\ new.folders = attempt.folders /\ new.position = attempt.quietAt
          /\ \A f \in attempt.folders : new.links[f] = attempt.links[f]
      BY <3>3
    <3> HIDE DEF new
    <3>7. new.position >= 1 /\ new.position <= Len(log)
      BY <3>1, <3>3, <3>4, <3>6
    <3>8. \A f \in new.folders : Still(f, new.position, new.links[f])
      BY <3>4, <3>6
    <3>9. PICK c \in OutlookCursors : c = new
      BY <3>5
    <3>10. \A f \in c.folders : Still(f, c.position, c.links[f])'
      BY <3>8, <3>9, <1>3
    <3>11. ASSUME NEW d \in cursors
           PROVE  d.position >= 1 /\ d.position <= Len(log)
                    /\ \A f \in d.folders : Still(f, d.position, d.links[f])'
      BY <1>3 DEF OutlookInv, OutlookStoreInv
    <3>12. cursors' \subseteq OutlookCursors /\ retained' \subseteq Messages
      BY <3>2, <3>3, <3>5 DEF OutlookInv, OutlookStoreInv
    <3>13. \A d \in cursors \cup {c} :
             d.position >= 1 /\ d.position <= Len(log)
               /\ \A f \in d.folders : Still(f, d.position, d.links[f])'
      BY <3>7, <3>9, <3>10, <3>11
    <3>14. cursors' = cursors \cup {c}
      BY <3>2, <3>9
    <3> QED BY <1>2, <3>12, <3>13, <3>14 DEF OutlookStoreInv
  <2> QED BY <2>1, <2>2
<1> QED BY <1>1, <1>3, <1>4, <1>5 DEF OutlookInv, OutlookStartInv, OutlookReadableInv,
     OutlookStagedInv, OutlookReadingInv, OutlookCheckingInv

\* The store may grow beside the attempt, or nothing happen at all.
LEMMA OutlookBeside ==
  ASSUME OutlookInv, log' = log, cursors' = cursors, attempt' = attempt,
         retained \subseteq retained', retained' \subseteq Messages
  PROVE  OutlookInv'
<1>1. \A m, f, j, k : Rests(m, f, j, k)' <=> Rests(m, f, j, k)
  BY OutlookLogKept
<1>2. OutlookLogInv' /\ \A f, j, k : Still(f, j, k)' <=> Still(f, j, k)
  BY OutlookLogKept DEF OutlookInv
<1>3. OutlookStoreInv' /\ OutlookTypeInv'
  BY <1>2 DEF OutlookInv, OutlookStoreInv, OutlookTypeInv
<1>4. OutlookStartInv'
  BY DEF OutlookInv, OutlookStartInv, Busy
<1>5. OutlookReadableInv'
  BY DEF OutlookInv, OutlookReadableInv, Busy, Untold
<1>6. OutlookStagedInv'
  BY <1>1, <1>2 DEF OutlookInv, OutlookStagedInv, Busy, NothingYet, Gathered
<1>7. /\ Shown' = Shown /\ ShownBefore' = ShownBefore /\ ShownQuiet' = ShownQuiet
  BY DEF Shown, ShownBefore, ShownQuiet, Outlook!ViewAt, Outlook!PlaceAt
<1>8. Told(Shown, ShownBefore) => Told(Shown, ShownBefore)'
  BY <1>7 DEF Told, Untold
<1>9. Told(ShownQuiet, ShownBefore) => Told(ShownQuiet, ShownBefore)'
  BY <1>7 DEF Told, Untold
<1>10. OutlookReadingInv'
  BY <1>2, <1>8 DEF OutlookInv, OutlookReadingInv, Busy, Reading
<1>11. OutlookCheckingInv'
  BY <1>2, <1>9 DEF OutlookInv, OutlookCheckingInv, Busy, Checking
<1> QED BY <1>2, <1>3, <1>4, <1>5, <1>6, <1>10, <1>11 DEF OutlookInv

LEMMA OutlookChanges ==
  ASSUME OutlookInv,
         \/ \E m \in Messages, place \in Folders \cup {Outlook!Gone} : Outlook!Move(m, place)
         \/ \E m \in Messages : Outlook!Send(m)
         \/ \E f \in Folders : Outlook!Toggle(f)
  PROVE  OutlookInv'
<1> DEFINE last == log[Len(log)]
<1>1. last \in Mailboxes /\ 1 \in last.normal
  <2>1. log \in Seq(Mailboxes) /\ Len(log) \in 1..Len(log)
    BY DEF OutlookInv, OutlookLogInv
  <2> QED BY <2>1 DEF OutlookInv, OutlookLogInv
<1>2. /\ last.place \in [Messages -> Spots] /\ last.drafts \subseteq Messages
      /\ last.normal \subseteq Folders
  BY <1>1 DEF Mailboxes
<1>3. CASE \E m \in Messages, place \in Folders \cup {Outlook!Gone} : Outlook!Move(m, place)
  <2>1. PICK m \in Messages, place \in Folders \cup {Outlook!Gone} : Outlook!Move(m, place)
    BY <1>3
  <2> DEFINE drafts == last.drafts \ (IF place = Outlook!Gone THEN {m} ELSE {})
             new == [place |-> [last.place EXCEPT ![m] = place], drafts |-> drafts,
                     normal |-> last.normal, touched |-> {m}]
  <2>2. Outlook!Changes(new)
    BY <2>1 DEF Outlook!Move, Outlook!Changed, Outlook!Now
  <2>3. place \in Spots
    BY DEF Spots
  <2>4. \A o \in Messages \ {m} : o \in drafts <=> o \in last.drafts
    OBVIOUS
  <2>5. drafts \subseteq Messages
    BY <1>2
  <2> HIDE DEF drafts, last
  <2>6. new \in Mailboxes
    BY <1>2, <2>3, <2>5 DEF Mailboxes
  <2>7. /\ new.touched = {m} /\ new.normal = last.normal /\ new.drafts = drafts
        /\ \A o \in Messages \ {m} : new.place[o] = last.place[o]
    BY <1>2
  <2> HIDE DEF new
  <2> QED BY <1>1, <2>2, <2>4, <2>6, <2>7, OutlookGrows DEF last
<1>4. CASE \E m \in Messages : Outlook!Send(m)
  <2>1. PICK m \in Messages : Outlook!Send(m)
    BY <1>4
  <2> DEFINE new == [place |-> last.place, drafts |-> last.drafts \ {m},
                     normal |-> last.normal, touched |-> {m}]
  <2>2. Outlook!Changes(new)
    BY <2>1 DEF Outlook!Send, Outlook!Changed, Outlook!Now
  <2> HIDE DEF last
  <2>3. new \in Mailboxes
    BY <1>2 DEF Mailboxes
  <2>4. /\ new.touched = {m} /\ new.normal = last.normal /\ new.drafts = last.drafts \ {m}
        /\ new.place = last.place
    OBVIOUS
  <2> HIDE DEF new
  <2> QED BY <1>1, <2>2, <2>3, <2>4, OutlookGrows DEF last
<1>5. CASE \E f \in Folders : Outlook!Toggle(f)
  <2>1. PICK f \in Folders : Outlook!Toggle(f)
    BY <1>5
  <2> DEFINE normal == IF f \in last.normal THEN last.normal \ {f} ELSE last.normal \cup {f}
             new == [place |-> last.place, drafts |-> last.drafts, normal |-> normal, touched |-> {}]
  <2>2. Outlook!Changes(new) /\ f # 1
    BY <2>1 DEF Outlook!Toggle, Outlook!Changed, Outlook!Now
  <2> HIDE DEF last
  <2>3. normal \subseteq Folders /\ 1 \in normal
    BY <1>1, <1>2, <2>2
  <2> HIDE DEF normal
  <2>4. new \in Mailboxes
    BY <1>2, <2>3 DEF Mailboxes
  <2>5. /\ new.touched = {} /\ new.normal = normal /\ new.drafts = last.drafts
        /\ new.place = last.place
    OBVIOUS
  <2> HIDE DEF new
  <2> QED BY <1>1, <2>2, <2>3, <2>4, <2>5, OutlookGrows DEF last
<1> QED BY <1>3, <1>4, <1>5

LEMMA OutlookNext == ASSUME OutlookInv, Outlook!Next PROVE OutlookInv'
<1>1. CASE (\E since \in Lowers : Outlook!BeginFull(since))
             \/ (\E cursor \in cursors : Outlook!BeginDelta(cursor))
  BY <1>1, OutlookBegins
<1>2. CASE Outlook!Step
  <2>1. CASE Outlook!Inventory
    BY <2>1, OutlookInventory
  <2>2. CASE Outlook!StagedDelta
    BY <2>2, OutlookStagedDelta
  <2>3. CASE Outlook!At("resolve") /\ \E m \in attempt.hints : Outlook!LookUp(m)
    BY <2>3, OutlookLookUp
  <2>4. CASE Outlook!ReadLight
    BY <2>4, OutlookReadLight
  <2>5. CASE Outlook!ReadFull
    BY <2>5, OutlookReadFull
  <2>6. CASE Outlook!Resolved
    BY <2>6, OutlookResolved
  <2>7. CASE Outlook!QuietDelta
    BY <2>7, OutlookQuietDelta
  <2>8. CASE Outlook!Verify
    BY <2>8, OutlookVerify
  <2> QED BY <1>2, <2>1, <2>2, <2>3, <2>4, <2>5, <2>6, <2>7, <2>8 DEF Outlook!Step
<1>3. CASE Outlook!CommitAnswer \/ Outlook!Abandon
  BY <1>3, OutlookEnds
<1>4. CASE \E m \in Messages : Outlook!Retain(m)
  <2>1. PICK m \in Messages : Outlook!Retain(m)
    BY <1>4
  <2>2. log' = log /\ cursors' = cursors /\ attempt' = attempt /\ retained' = retained \cup {m}
    BY <2>1 DEF Outlook!Retain, Outlook!Retains
  <2>3. retained' \subseteq Messages
    BY <2>2 DEF OutlookInv, OutlookStoreInv
  <2> QED BY <2>2, <2>3, OutlookBeside
<1>5. CASE \/ \E m \in Messages, place \in Folders \cup {Outlook!Gone} : Outlook!Move(m, place)
           \/ \E m \in Messages : Outlook!Send(m)
           \/ \E f \in Folders : Outlook!Toggle(f)
  BY <1>5, OutlookChanges
<1> QED BY <1>1, <1>2, <1>3, <1>4, <1>5 DEF Outlook!Next

LEMMA OutlookKept == ASSUME OutlookInv, UNCHANGED vars PROVE OutlookInv'
<1>1. log' = log /\ cursors' = cursors /\ attempt' = attempt /\ retained' = retained
  BY DEF vars
<1>2. retained' \subseteq Messages
  BY <1>1 DEF OutlookInv, OutlookStoreInv
<1> QED BY <1>1, <1>2, OutlookBeside

LEMMA OutlookAnswers ==
  ASSUME OutlookInv, At("done")
  PROVE  KeepsContract(attempt.quietAt, Outlook!ViewAt(attempt.quietFrom, attempt.folders),
                       Outlook!ViewAt(attempt.quietAt, attempt.folders))
<1>1. /\ attempt \in OutlookAttempts /\ Busy /\ attempt.pc = "done"
      /\ Len(log) \in Nat /\ Len(log) >= 1 /\ log[Len(log)] \in Mailboxes
  BY OutlookBusy DEF At, Outlook!At
<1>2. attempt.todo = {} /\ 1 \in attempt.folders /\ attempt.current = NoMessage
  BY <1>1 DEF OutlookInv, OutlookCheckingInv, OutlookStartInv
<1>3. attempt.hints = {} /\ Told(ShownQuiet, ShownBefore)
  BY <1>1, <1>2 DEF OutlookInv, OutlookCheckingInv, Checking
<1> DEFINE old == ShownBefore
           shown == ShownQuiet
           told == attempt.messages
           gone == attempt.removed
           given == [position |-> attempt.quietAt, messages |-> told, removed |-> gone]
<1>4. /\ old \subseteq Messages /\ shown \subseteq Messages /\ told \subseteq Messages
      /\ gone \subseteq Messages /\ NoMessage \notin Messages
  BY <1>1, SourcesAssumption DEF ShownBefore, ShownQuiet, Outlook!ViewAt, OutlookAttempts
<1>5. Untold \cap Messages = {}
  BY <1>2, <1>3, <1>4 DEF Untold
<1>6. /\ told \subseteq shown \cap (InWindow(attempt.lower) \cup retained)
      /\ gone \cap shown = {} /\ gone \subseteq retained
  BY <1>3 DEF Told
<1>7. CASE attempt.full
  <2>1. shown \cap InWindow(attempt.lower) \subseteq told
    BY <1>3, <1>4, <1>5, <1>7 DEF Told
  <2> DEFINE older == told \cap retained
  <2>2. older \in SUBSET retained /\ gone \in SUBSET retained
    BY <1>6
  <2>3. told = shown \cap (InWindow(attempt.lower) \cup older) /\ gone = gone \ shown
    BY <1>6, <2>1
  <2>4. given = FullAnswer(attempt.quietAt, shown, attempt.lower, older, gone)
    BY <2>3 DEF FullAnswer
  <2> HIDE DEF older
  <2>5. given \in FullAnswers(attempt.quietAt, shown, attempt.lower, retained)
    BY <2>2, <2>4 DEF FullAnswers
  <2> QED BY <1>7, <2>5 DEF KeepsContract, ShownQuiet
<1>8. CASE ~attempt.full
  <2>1. /\ (shown \ old) \cap (InWindow(attempt.lower) \cup attempt.known) \subseteq told
        /\ (old \ shown) \cap attempt.known \subseteq gone
    BY <1>3, <1>4, <1>5, <1>8 DEF Told
  <2> DEFINE hints == told \cup gone \cup (old \ shown) \cup (shown \ old)
             more == told \cap retained
  <2>2. hints \in Hints(old, shown)
    BY <1>4 DEF Hints
  <2>3. more \in SUBSET retained /\ gone \in SUBSET Messages
    BY <1>4
  <2>4. told = hints \cap shown \cap (InWindow(attempt.lower) \cup attempt.known \cup more)
    BY <1>6, <2>1
  <2>5. gone = (hints \ shown) \cap (attempt.known \cup gone)
    BY <1>6, <2>1
  <2> HIDE DEF hints, more
  <2>6. given = DeltaAnswer(attempt.quietAt, shown, attempt.lower, attempt.known, hints, more, gone)
    BY <2>4, <2>5 DEF DeltaAnswer
  <2>7. given \in DeltaAnswers(attempt.quietAt, old, shown, attempt.lower, attempt.known, retained)
    BY <2>2, <2>3, <2>6 DEF DeltaAnswers
  <2> QED BY <1>8, <2>7 DEF KeepsContract, ShownQuiet, ShownBefore
<1> QED BY <1>7, <1>8

LEMMA OutlookRefusals == ASSUME OutlookInv, At("refused") PROVE Now > attempt.startedAt
<1>1. Busy /\ attempt.pc = "refused"
  BY OutlookBusy DEF At, Outlook!At
<1> QED BY <1>1 DEF OutlookInv, OutlookStartInv, Now

(***************************************************************************)
(* Either source.                                                          *)
(***************************************************************************)

SourcesInv == \/ provider = "gmail" /\ GmailInv
              \/ provider = "outlook" /\ OutlookInv

LEMMA SourcesInvariant == Spec => []SourcesInv
<1>1. Init => SourcesInv
  BY GmailInitial, OutlookInitial DEF Init, SourcesInv
<1>2. SourcesInv /\ [Next]_<<vars, provider>> => SourcesInv'
  <2> SUFFICES ASSUME SourcesInv, [Next]_<<vars, provider>> PROVE SourcesInv'
    OBVIOUS
  <2>1. provider' = provider
    BY DEF Next
  <2>2. CASE provider = "gmail" /\ GmailInv
    <3>1. GmailInv'
      BY <2>2, GmailNext, GmailKept DEF Next
    <3> QED BY <2>1, <2>2, <3>1 DEF SourcesInv
  <2>3. CASE provider = "outlook" /\ OutlookInv
    <3>1. OutlookInv'
      BY <2>3, OutlookNext, OutlookKept DEF Next
    <3> QED BY <2>1, <2>3, <3>1 DEF SourcesInv
  <2> QED BY <2>2, <2>3 DEF SourcesInv
<1> QED BY <1>1, <1>2, PTL DEF Spec

\* sync of gmail.py and outlook.py: for every mailbox, whatever happens in it between
\* any two requests and whatever other runs commit meanwhile, a completed answer is one
\* that the contract of MailSource allows.
THEOREM AnswersKeepContract == Spec => []AnswerKeepsContract
<1>1. SourcesInv => AnswerKeepsContract
  <2> SUFFICES ASSUME SourcesInv, At("done") PROVE AnswerKeepsContract
    BY DEF AnswerKeepsContract
  <2>1. CASE provider = "gmail" /\ GmailInv
    BY <2>1, GmailAnswers DEF AnswerKeepsContract
  <2>2. CASE provider = "outlook" /\ OutlookInv
    BY <2>2, OutlookAnswers DEF AnswerKeepsContract
  <2> QED BY <2>1, <2>2 DEF SourcesInv
<1> QED BY <1>1, SourcesInvariant, PTL

\* sync gives up on its own only if the mailbox has changed since it was called.
THEOREM RefusalsNeedChange == Spec => []RefusalNeedsChange
<1>1. SourcesInv => RefusalNeedsChange
  BY GmailRefuses, OutlookRefusals DEF SourcesInv, RefusalNeedsChange
<1> QED BY <1>1, SourcesInvariant, PTL

-----------------------------------------------------------------------------
(* The HTTP clients: one attempt of the Gmail client.                        *)

\* What a response may take is the tightest of three limits, counted from what the
\* attempt had received when the body began.
GmailBudget ==
  /\ limit <= ClientLimit /\ limit <= ResponseLimit /\ limit <= AttemptLimit - (received - taken)
  /\ limit \in {ClientLimit, ResponseLimit, AttemptLimit - (received - taken)}

\* While a body is read it is within its budget; a read is issued only while the
\* bytes taken are within what is read of a body of its status.
GmailBodyInv ==
  /\ taken <= request.size /\ taken <= received
  /\ phase \in {"token", "opening"} => taken = 0
  /\ phase \in {"body", "reading"} => GmailBudget /\ taken <= limit
  /\ phase = "reading" => taken <= GmailHttp!ReadLimit

GmailHttpTypeInv ==
  /\ clock \in Nat /\ requests \in Nat /\ received \in Nat /\ taken \in Nat /\ limit \in Nat
  /\ deadline \in Nat /\ request \in GmailHttp!Requests
  /\ phase \in {"ready", "token", "opening", "body", "reading", "over"}

GmailHttpInv == GmailHttpTypeInv /\ GmailBodyInv

\* What the properties say of the attempt, where the client is Gmail's.
GmailWhole ==
  phase = "ready" /\ requests > 0 /\ answer.code = "OK" =>
    /\ request.status = 200 /\ request.valid /\ taken = request.size
    /\ taken <= ResponseLimit /\ taken <= ClientLimit /\ received <= AttemptLimit
    /\ answer.at < AttemptSeconds

GmailTooLarge ==
  \/ requests > MaxRequests
  \/ request.size > ResponseLimit \/ request.size > ClientLimit
  \/ (received - taken) + request.size > AttemptLimit

GmailDue == phase = "over" /\ answer.code = "UNSUPPORTED_CAPABILITY" => GmailTooLarge

GmailClientInv == GmailHttpInv /\ GmailWhole /\ GmailDue

LEMMA GmailRequests ==
  ASSUME NEW r \in GmailHttp!Requests
  PROVE  r.size \in Nat /\ r.status \in GmailHttp!Statuses
  BY AttemptAssumption DEF GmailHttp!Requests

LEMMA GmailConstants ==
  /\ ResponseLimit \in Nat \ {0} /\ AttemptLimit \in Nat \ {0} /\ ChunkLimit \in Nat \ {0}
  /\ MaxRequests \in Nat \ {0} /\ AttemptSeconds \in Nat \ {0} /\ RequestSeconds \in Nat \ {0}
  /\ ClientLimit \in Nat \ {0} /\ DiagnosticLimit \in Nat \ {0}
  BY AttemptAssumption, ClientAssumption

\* No status of an error is taken for an answer or for an overflow.
LEMMA GmailErrorCodes ==
  ASSUME NEW whole \in BOOLEAN, request.status # 200
  PROVE  GmailHttp!ErrorCode(whole) \notin {"OK", "UNSUPPORTED_CAPABILITY"}
  BY DEF GmailHttp!ErrorCode

\* A body is an answer only in time, and if it is a valid success.
LEMMA GmailOutcomes ==
  ASSUME NEW whole \in BOOLEAN, clock \in Nat
  PROVE  /\ GmailHttp!Outcome(whole) # "UNSUPPORTED_CAPABILITY"
         /\ GmailHttp!Outcome(whole) = "OK" =>
              request.status = 200 /\ request.valid /\ clock < AttemptSeconds
  <1>1. CASE request.status # 200
    BY <1>1, GmailErrorCodes DEF GmailHttp!Outcome
  <1>2. CASE request.status = 200
    BY <1>2, GmailConstants DEF GmailHttp!Outcome, GmailHttp!BodyCode
  <1> QED
    BY <1>1, <1>2

\* What an ending leaves behind.
LEMMA GmailConcludes ==
  ASSUME NEW code, GmailHttp!Conclude(code)
  PROVE  /\ answer'.code = code /\ answer'.at = clock
         /\ phase' \in {"ready", "over"}
         /\ code = "OK" => phase' = "ready"
         /\ phase' = "over" => code # "OK"
  BY DEF GmailHttp!Conclude, GmailHttp!Continuable

\* A failure that is no overflow concerns neither property.
LEMMA GmailPlainFailure ==
  ASSUME GmailClientInv, NEW code, GmailHttp!Conclude(code), code \notin {"OK", "UNSUPPORTED_CAPABILITY"},
         UNCHANGED <<clock, requests, received, request, deadline, taken, limit>>
  PROVE  GmailClientInv'
  <1>1. answer'.code = code /\ phase' \in {"ready", "over"}
    BY GmailConcludes
  <1>2. GmailHttpTypeInv' /\ GmailBodyInv'
    BY <1>1 DEF GmailClientInv, GmailHttpInv, GmailHttpTypeInv, GmailBodyInv
  <1>3. GmailWhole' /\ GmailDue'
    BY <1>1 DEF GmailWhole, GmailDue
  <1> QED
    BY <1>2, <1>3 DEF GmailClientInv, GmailHttpInv

LEMMA GmailAskStep ==
  ASSUME GmailClientInv, GmailHttp!Ask
  PROVE  GmailClientInv'
  <1>1. CASE clock >= AttemptSeconds /\ GmailHttp!Conclude("TIMEOUT") /\ UNCHANGED <<requests, request, deadline, taken>>
    BY <1>1, GmailPlainFailure DEF GmailHttp!Ask
  <1>2. ASSUME NEW r \in GmailHttp!Requests, GmailHttp!Issue(r) PROVE GmailClientInv'
    <2>1. requests' = requests + 1 /\ request' = r /\ taken' = 0 /\ deadline' \in Nat
      BY <1>2, GmailConstants DEF GmailHttp!Issue, GmailHttp!Least, GmailClientInv, GmailHttpInv, GmailHttpTypeInv
    <2>2. UNCHANGED <<clock, received, limit>>
      BY DEF GmailHttp!Ask
    <2>3. \/ requests' > MaxRequests /\ GmailHttp!Conclude("UNSUPPORTED_CAPABILITY")
          \/ phase' = "token" /\ UNCHANGED answer
          \/ clock >= AttemptSeconds /\ GmailHttp!Conclude("TIMEOUT") /\ UNCHANGED <<requests, request, deadline, taken>>
      BY DEF GmailHttp!Ask
    <2>4. CASE requests' > MaxRequests /\ GmailHttp!Conclude("UNSUPPORTED_CAPABILITY")
      <3>1. answer'.code = "UNSUPPORTED_CAPABILITY" /\ phase' \in {"ready", "over"}
        BY <2>4, GmailConcludes
      <3>2. GmailHttpTypeInv' /\ GmailBodyInv'
        BY <2>1, <2>2, <3>1, GmailRequests DEF GmailClientInv, GmailHttpInv, GmailHttpTypeInv, GmailBodyInv
      <3>3. GmailWhole' /\ GmailDue'
        BY <2>4, <3>1 DEF GmailWhole, GmailDue, GmailTooLarge
      <3> QED
        BY <3>2, <3>3 DEF GmailClientInv, GmailHttpInv
    <2>5. CASE phase' = "token"
      <3>1. GmailHttpTypeInv' /\ GmailBodyInv'
        BY <2>1, <2>2, <2>5, GmailRequests DEF GmailClientInv, GmailHttpInv, GmailHttpTypeInv, GmailBodyInv
      <3>2. GmailWhole' /\ GmailDue'
        BY <2>5 DEF GmailWhole, GmailDue
      <3> QED
        BY <3>1, <3>2 DEF GmailClientInv, GmailHttpInv
    <2> QED
      BY <1>1, <2>3, <2>4, <2>5
  <1> QED
    BY <1>1, <1>2 DEF GmailHttp!Ask

LEMMA GmailOpenStep ==
  ASSUME GmailClientInv, GmailHttp!Open
  PROVE  GmailClientInv'
  <1> DEFINE allowed == GmailHttp!Allowance
  <1>1. phase = "opening" /\ taken = 0 /\ UNCHANGED <<clock, requests, received, request, deadline, taken>>
    BY DEF GmailHttp!Open, GmailClientInv, GmailHttpInv, GmailBodyInv
  <1>2. clock \in Nat /\ requests \in Nat /\ received \in Nat /\ request.size \in Nat /\ request \in GmailHttp!Requests
    BY GmailRequests DEF GmailClientInv, GmailHttpInv, GmailHttpTypeInv
  <1>3. CASE received > AttemptLimit
    <2>1. GmailHttp!Conclude("UNSUPPORTED_CAPABILITY") /\ UNCHANGED limit
      BY <1>3 DEF GmailHttp!Open
    <2>2. answer'.code = "UNSUPPORTED_CAPABILITY" /\ phase' \in {"ready", "over"}
      BY <2>1, GmailConcludes
    <2>3. GmailHttpTypeInv' /\ GmailBodyInv'
      BY <1>1, <2>1, <2>2 DEF GmailClientInv, GmailHttpInv, GmailHttpTypeInv, GmailBodyInv
    <2>4. (received - taken) + request.size > AttemptLimit
      BY <1>1, <1>2, <1>3, GmailConstants
    <2>5. GmailWhole' /\ GmailDue'
      BY <1>1, <2>2, <2>4 DEF GmailWhole, GmailDue, GmailTooLarge
    <2> QED
      BY <2>3, <2>5 DEF GmailClientInv, GmailHttpInv
  <1>4. CASE ~(received > AttemptLimit)
    <2>1. limit' = allowed /\ phase' = "body"
      BY <1>4 DEF GmailHttp!Open
    <2>2. /\ allowed \in Nat /\ allowed <= ClientLimit /\ allowed <= ResponseLimit /\ allowed <= AttemptLimit - received
          /\ allowed \in {ClientLimit, ResponseLimit, AttemptLimit - received}
      BY <1>2, <1>4, GmailConstants DEF GmailHttp!Allowance, GmailHttp!Least
    <2> HIDE DEF allowed
    <2>3. GmailHttpTypeInv'
      BY <1>1, <2>1, <2>2 DEF GmailClientInv, GmailHttpInv, GmailHttpTypeInv
    <2>4. received' - taken' = received /\ taken' <= limit' /\ taken' <= request.size /\ taken' <= received
      BY <1>1, <1>2, <2>1, <2>2
    <2>5. GmailBudget'
      BY <2>1, <2>2, <2>4 DEF GmailBudget
    <2>6. GmailBodyInv'
      BY <1>1, <2>1, <2>4, <2>5 DEF GmailBodyInv
    <2>7. GmailWhole' /\ GmailDue'
      BY <2>1 DEF GmailWhole, GmailDue
    <2> QED
      BY <2>3, <2>6, <2>7 DEF GmailClientInv, GmailHttpInv
  <1> QED
    BY <1>3, <1>4

LEMMA GmailNextReadStep ==
  ASSUME GmailClientInv, GmailHttp!NextRead
  PROVE  GmailClientInv'
  <1>1. phase = "body" /\ UNCHANGED <<clock, requests, received, request, deadline, limit, taken>>
    BY DEF GmailHttp!NextRead
  <1>2. clock \in Nat /\ deadline \in Nat /\ taken \in Nat /\ limit \in Nat /\ taken <= limit
    BY <1>1 DEF GmailClientInv, GmailHttpInv, GmailHttpTypeInv, GmailBodyInv
  <1>3. GmailHttp!ReadLimit \in Nat
    BY <1>2, GmailConstants DEF GmailHttp!ReadLimit, GmailHttp!Least
  <1>4. \/ taken > GmailHttp!ReadLimit /\ GmailHttp!Conclude(GmailHttp!Outcome(FALSE))
        \/ taken <= GmailHttp!ReadLimit /\ GmailHttp!Conclude("TIMEOUT")
        \/ taken <= GmailHttp!ReadLimit /\ phase' = "reading" /\ UNCHANGED answer
    <2>1. CASE taken > GmailHttp!ReadLimit
      <3>1. ~(taken <= GmailHttp!ReadLimit)
        BY <1>2, <1>3, <2>1
      <3> QED
        BY <2>1, <3>1, Zenon DEF GmailHttp!NextRead
    <2>2. CASE taken <= GmailHttp!ReadLimit /\ clock >= deadline
      <3>1. ~(taken > GmailHttp!ReadLimit) /\ ~(clock < deadline)
        BY <1>2, <1>3, <2>2
      <3> QED
        BY <2>2, <3>1, Zenon DEF GmailHttp!NextRead
    <2>3. CASE taken <= GmailHttp!ReadLimit /\ clock < deadline
      <3>1. ~(taken > GmailHttp!ReadLimit) /\ ~(clock >= deadline)
        BY <1>2, <1>3, <2>3
      <3> QED
        BY <2>3, <3>1, Zenon DEF GmailHttp!NextRead
    <2>4. \/ taken > GmailHttp!ReadLimit
          \/ taken <= GmailHttp!ReadLimit /\ clock >= deadline
          \/ taken <= GmailHttp!ReadLimit /\ clock < deadline
      BY <1>2, <1>3
    <2> QED
      BY <2>1, <2>2, <2>3, <2>4, Zenon
  <1>5. CASE taken > GmailHttp!ReadLimit
    <2>1. GmailHttp!Conclude(GmailHttp!Outcome(FALSE))
      <3>1. ~(taken <= GmailHttp!ReadLimit)
        BY <1>2, <1>3, <1>5
      <3> QED
        BY <1>4, <3>1, Zenon
    <2>2. request.status # 200
      BY <1>2, <1>5 DEF GmailHttp!ReadLimit
    <2>3. GmailHttp!Outcome(FALSE) \notin {"OK", "UNSUPPORTED_CAPABILITY"}
      BY <1>2, <2>2, GmailOutcomes
    <2> QED
      BY <1>1, <2>1, <2>3, GmailPlainFailure
  <1>6. CASE taken <= GmailHttp!ReadLimit /\ GmailHttp!Conclude("TIMEOUT")
    BY <1>1, <1>6, GmailPlainFailure
  <1>7. CASE taken <= GmailHttp!ReadLimit /\ phase' = "reading"
    <2>1. GmailHttpTypeInv'
      BY <1>1, <1>7 DEF GmailClientInv, GmailHttpInv, GmailHttpTypeInv
    <2>2. GmailBudget' /\ GmailHttp!ReadLimit' = GmailHttp!ReadLimit
      BY <1>1 DEF GmailClientInv, GmailHttpInv, GmailBodyInv, GmailBudget, GmailHttp!ReadLimit, GmailHttp!Least
    <2>3. GmailBodyInv'
      BY <1>1, <1>2, <1>7, <2>2 DEF GmailClientInv, GmailHttpInv, GmailBodyInv
    <2>4. GmailWhole' /\ GmailDue'
      BY <1>7 DEF GmailWhole, GmailDue
    <2> QED
      BY <2>1, <2>3, <2>4 DEF GmailClientInv, GmailHttpInv
  <1> QED
    BY <1>4, <1>5, <1>6, <1>7

\* The bytes of a chunk: within the body, and none only where the body ends.
LEMMA GmailChunk ==
  ASSUME GmailClientInv, phase = "reading",
         NEW n \in 0 .. GmailHttp!Least(GmailHttp!AtMost, request.size - taken),
         n = 0 => taken = request.size \/ GmailHttp!AtMost = 0
  PROVE  n \in Nat /\ taken + n <= request.size /\ (n = 0 => taken = request.size)
  <1>1. taken \in Nat /\ request.size \in Nat /\ limit \in Nat /\ taken <= request.size /\ taken <= GmailHttp!ReadLimit
    BY GmailRequests DEF GmailClientInv, GmailHttpInv, GmailHttpTypeInv, GmailBodyInv
  <1>2. GmailHttp!ReadLimit \in Nat
    BY <1>1, GmailConstants DEF GmailHttp!ReadLimit, GmailHttp!Least
  <1>3. GmailHttp!AtMost \in Nat \ {0}
    BY <1>1, <1>2, GmailConstants DEF GmailHttp!AtMost, GmailHttp!Least
  <1>4. GmailHttp!Least(GmailHttp!AtMost, request.size - taken) <= request.size - taken
        /\ GmailHttp!Least(GmailHttp!AtMost, request.size - taken) \in Nat
    BY <1>1, <1>3 DEF GmailHttp!Least
  <1> QED
    BY <1>1, <1>3, <1>4

LEMMA GmailReceiveStep ==
  ASSUME GmailClientInv, GmailHttp!Receive
  PROVE  GmailClientInv'
  <1>1. phase = "reading" /\ UNCHANGED <<clock, requests, request, deadline, limit>>
    BY DEF GmailHttp!Receive
  <1>2. /\ clock \in Nat /\ deadline \in Nat /\ requests \in Nat /\ received \in Nat /\ taken \in Nat /\ limit \in Nat
        /\ request \in GmailHttp!Requests /\ request.size \in Nat /\ taken <= received /\ taken <= limit /\ GmailBudget
    BY <1>1, GmailRequests DEF GmailClientInv, GmailHttpInv, GmailHttpTypeInv, GmailBodyInv
  <1>3. PICK n \in 0 .. GmailHttp!Least(GmailHttp!AtMost, request.size - taken) :
          /\ n = 0 => taken = request.size \/ GmailHttp!AtMost = 0
          /\ taken' = taken + n /\ received' = received + n
          /\ CASE GmailHttp!Exceeded(taken + n) -> GmailHttp!Conclude("UNSUPPORTED_CAPABILITY")
               [] ~GmailHttp!Exceeded(taken + n) /\ clock >= deadline -> GmailHttp!Conclude("TIMEOUT")
               [] ~GmailHttp!Exceeded(taken + n) /\ clock < deadline ->
                    IF n = 0 THEN GmailHttp!Conclude(GmailHttp!Outcome(TRUE))
                             ELSE phase' = "body" /\ UNCHANGED answer
    BY DEF GmailHttp!Receive
  <1>4. n \in Nat /\ taken + n <= request.size /\ (n = 0 => taken = request.size)
    BY <1>1, <1>3, GmailChunk
  <1>5. /\ taken' \in Nat /\ received' \in Nat /\ taken' <= received' /\ taken' <= request'.size
        /\ received' - taken' = received - taken
    BY <1>1, <1>2, <1>3, <1>4
  <1>6. GmailBudget'
    BY <1>1, <1>2, <1>5 DEF GmailBudget
  <1>7. ASSUME phase' \in {"ready", "over", "body"}, phase' = "body" => taken' <= limit
        PROVE  GmailHttpInv'
    <2>1. GmailHttpTypeInv'
      BY <1>1, <1>2, <1>5, <1>7 DEF GmailHttpTypeInv
    <2>2. GmailBodyInv'
      BY <1>1, <1>5, <1>6, <1>7 DEF GmailBodyInv
    <2> QED
      BY <2>1, <2>2 DEF GmailHttpInv
  <1>8. CASE GmailHttp!Exceeded(taken + n)
    <2>1. GmailHttp!Conclude("UNSUPPORTED_CAPABILITY")
      BY <1>3, <1>8, Zenon
    <2>2. answer'.code = "UNSUPPORTED_CAPABILITY" /\ phase' \in {"ready", "over"}
      BY <2>1, GmailConcludes
    <2>3. taken + n > limit
      BY <1>8 DEF GmailHttp!Exceeded
    <2>4. \/ request.size > ClientLimit \/ request.size > ResponseLimit
          \/ (received - taken) + request.size > AttemptLimit
      BY <1>2, <1>4, <2>3, GmailConstants DEF GmailBudget
    <2>5. GmailWhole' /\ GmailDue'
      BY <1>1, <1>5, <2>2, <2>4 DEF GmailWhole, GmailDue, GmailTooLarge
    <2> QED
      BY <1>7, <2>2, <2>5 DEF GmailClientInv
  <1>9. CASE ~GmailHttp!Exceeded(taken + n) /\ clock >= deadline
    <2>1. GmailHttp!Conclude("TIMEOUT")
      <3>1. ~(clock < deadline)
        BY <1>2, <1>9
      <3> QED
        BY <1>3, <1>9, <3>1, Zenon
    <2>2. answer'.code = "TIMEOUT" /\ phase' \in {"ready", "over"}
      BY <2>1, GmailConcludes
    <2>3. GmailWhole' /\ GmailDue'
      BY <2>2 DEF GmailWhole, GmailDue
    <2> QED
      BY <1>7, <2>2, <2>3 DEF GmailClientInv
  <1>10. CASE ~GmailHttp!Exceeded(taken + n) /\ clock < deadline
    <2>1. IF n = 0 THEN GmailHttp!Conclude(GmailHttp!Outcome(TRUE)) ELSE phase' = "body" /\ UNCHANGED answer
      <3>1. ~(clock >= deadline)
        BY <1>2, <1>10
      <3> QED
        BY <1>3, <1>10, <3>1, Zenon
    <2>2. taken' <= limit /\ taken' \in Nat
      BY <1>2, <1>3, <1>4, <1>10 DEF GmailHttp!Exceeded
    <2>3. CASE n # 0
      <3>1. phase' = "body"
        BY <2>1, <2>3
      <3>2. GmailWhole' /\ GmailDue'
        BY <3>1 DEF GmailWhole, GmailDue
      <3> QED
        BY <1>7, <2>2, <3>1, <3>2 DEF GmailClientInv
    <2>4. CASE n = 0
      <3> DEFINE code == GmailHttp!Outcome(TRUE)
      <3>1. GmailHttp!Conclude(code)
        BY <2>1, <2>4, Zenon
      <3>2. /\ code # "UNSUPPORTED_CAPABILITY"
            /\ code = "OK" => request.status = 200 /\ request.valid /\ clock < AttemptSeconds
        BY <1>2, GmailOutcomes
      <3> HIDE DEF code
      <3>3. answer'.code = code /\ answer'.at = clock /\ phase' \in {"ready", "over"}
        BY <3>1, GmailConcludes
      <3>4. taken' = request'.size /\ request' = request
        BY <1>1, <1>2, <1>3, <1>4, <2>4
      <3>5. taken' <= ResponseLimit /\ taken' <= ClientLimit /\ received' <= AttemptLimit
        <4>1. limit <= ClientLimit /\ limit <= ResponseLimit /\ limit <= AttemptLimit - (received - taken)
          BY <1>2 DEF GmailBudget
        <4>2. received' = (received - taken) + taken'
          BY <1>2, <1>3, <1>4
        <4>3. taken' <= limit /\ {taken', limit, taken, received} \subseteq Nat
          BY <1>2, <2>2
        <4>4. {ClientLimit, ResponseLimit, AttemptLimit} \subseteq Nat
          BY GmailConstants
        <4> QED
          BY <4>1, <4>2, <4>3, <4>4
      <3>6. GmailWhole'
        BY <3>2, <3>3, <3>4, <3>5 DEF GmailWhole
      <3>7. GmailDue'
        BY <3>2, <3>3 DEF GmailDue
      <3> QED
        BY <1>7, <3>3, <3>6, <3>7 DEF GmailClientInv
    <2> QED
      BY <2>3, <2>4
  <1> QED
    BY <1>2, <1>8, <1>9, <1>10

\* Steps without a chunk, and the end of an attempt.
LEMMA GmailOtherSteps ==
  ASSUME GmailClientInv,
         \/ GmailHttp!TokenDelays \/ GmailHttp!Authorize \/ GmailHttp!OpenFails
         \/ GmailHttp!ReadFails \/ GmailHttp!Tick \/ UNCHANGED httpVars
  PROVE  GmailClientInv'
  <1>1. ASSUME NEW code, GmailHttp!Conclude(code), code \notin {"OK", "UNSUPPORTED_CAPABILITY"},
               UNCHANGED <<clock, requests, received, request, deadline, limit, taken>>
        PROVE  GmailClientInv'
    BY <1>1, GmailPlainFailure
  <1>2. CASE GmailHttp!TokenDelays
    BY <1>2 DEF GmailHttp!TokenDelays, GmailClientInv, GmailHttpInv, GmailHttpTypeInv, GmailBodyInv, GmailWhole, GmailDue
  <1>3. CASE GmailHttp!Authorize
    <2>1. CASE GmailHttp!Conclude("AUTH_REQUIRED")
      BY <1>1, <1>3, <2>1 DEF GmailHttp!Authorize
    <2>2. CASE phase' = "opening" /\ UNCHANGED answer
      BY <1>3, <2>2 DEF GmailHttp!Authorize, GmailClientInv, GmailHttpInv, GmailHttpTypeInv, GmailBodyInv, GmailWhole, GmailDue
    <2> QED
      BY <1>3, <2>1, <2>2 DEF GmailHttp!Authorize
  <1>4. CASE GmailHttp!OpenFails
    <2>1. PICK code \in {"TIMEOUT", "UNAVAILABLE"} : GmailHttp!Conclude(code)
      BY <1>4 DEF GmailHttp!OpenFails
    <2> QED
      BY <1>1, <1>4, <2>1 DEF GmailHttp!OpenFails
  <1>5. CASE GmailHttp!ReadFails
    <2>1. CASE request.status = 200
      <3>1. PICK code \in {"TIMEOUT", "UNAVAILABLE"} : GmailHttp!Conclude(code)
        BY <1>5, <2>1 DEF GmailHttp!ReadFails
      <3> QED
        BY <1>1, <1>5, <3>1 DEF GmailHttp!ReadFails
    <2>2. CASE request.status # 200
      <3>1. GmailHttp!Conclude(GmailHttp!ErrorCode(FALSE))
        BY <1>5, <2>2 DEF GmailHttp!ReadFails
      <3>2. GmailHttp!ErrorCode(FALSE) \notin {"OK", "UNSUPPORTED_CAPABILITY"}
        BY <2>2, GmailErrorCodes
      <3> QED
        BY <1>1, <1>5, <3>1, <3>2 DEF GmailHttp!ReadFails
    <2> QED
      BY <2>1, <2>2
  <1>6. CASE GmailHttp!Tick
    <2>1. clock' = clock + 1 /\ UNCHANGED <<requests, received, phase, request, deadline, limit, taken, answer>>
      BY <1>6 DEF GmailHttp!Tick
    <2>2. GmailHttpTypeInv'
      BY <2>1 DEF GmailClientInv, GmailHttpInv, GmailHttpTypeInv
    <2>3. GmailBodyInv'
      BY <2>1 DEF GmailClientInv, GmailHttpInv, GmailBodyInv, GmailBudget, GmailHttp!ReadLimit, GmailHttp!Least
    <2>4. GmailWhole' /\ GmailDue'
      BY <2>1 DEF GmailClientInv, GmailWhole, GmailDue, GmailTooLarge
    <2> QED
      BY <2>2, <2>3, <2>4 DEF GmailClientInv, GmailHttpInv
  <1>7. CASE UNCHANGED httpVars
    <2>1. UNCHANGED <<clock, requests, received, phase, request, deadline, limit, taken, answer>>
      BY <1>7 DEF httpVars
    <2> QED
      BY <2>1 DEF GmailClientInv, GmailHttpInv, GmailHttpTypeInv, GmailBodyInv, GmailBudget,
         GmailHttp!ReadLimit, GmailHttp!Least, GmailWhole, GmailDue, GmailTooLarge
  <1> QED
    BY <1>2, <1>3, <1>4, <1>5, <1>6, <1>7

LEMMA GmailClientStep ==
  ASSUME GmailClientInv, GmailHttp!Next \/ UNCHANGED httpVars
  PROVE  GmailClientInv'
  BY GmailAskStep, GmailOpenStep, GmailNextReadStep, GmailReceiveStep, GmailOtherSteps DEF GmailHttp!Next

LEMMA GmailClientStarts ==
  ASSUME GmailHttp!Init
  PROVE  GmailClientInv
  <1>1. /\ clock = 0 /\ requests = 0 /\ received = 0 /\ phase = "ready" /\ deadline = 0 /\ limit = 0 /\ taken = 0
        /\ request \in GmailHttp!Requests /\ request.size \in Nat
    BY GmailRequests DEF GmailHttp!Init, GmailHttp!HttpBeginning
  <1> QED
    BY <1>1 DEF GmailClientInv, GmailHttpInv, GmailHttpTypeInv, GmailBodyInv, GmailWhole, GmailDue

-----------------------------------------------------------------------------
(* One attempt of the Graph client.                                         *)

\* The bytes taken are within the body and, until the attempt is over, within the
\* limit of a response and the budget of the attempt; a body is decoded only when it
\* was read to its end.
GraphBodyInv ==
  /\ taken <= request.size /\ taken <= received
  /\ phase # "over" => taken <= ResponseLimit /\ received <= AttemptLimit
  /\ phase = "opening" => taken = 0
  /\ phase = "decoding" => taken = request.size

GraphHttpTypeInv ==
  /\ clock \in Nat /\ requests \in Nat /\ received \in Nat /\ taken \in Nat
  /\ deadline \in Nat /\ request \in GraphHttp!Requests
  /\ phase \in {"starting", "ready", "opening", "body", "reading", "decoding", "over"}

GraphHttpInv == GraphHttpTypeInv /\ GraphBodyInv

\* What the properties say of the attempt, where the client is Graph's.
GraphWhole ==
  phase = "ready" /\ requests > 0 /\ answer.code = "OK" =>
    /\ request.status = 200 /\ request.body = "plain" /\ taken = request.size
    /\ taken <= ResponseLimit /\ received <= AttemptLimit
    /\ answer.at < deadline

GraphTooLarge ==
  \/ requests > MaxRequests
  \/ request.size > ResponseLimit
  \/ (received - taken) + request.size > AttemptLimit

GraphRefusable ==
  \/ GraphTooLarge
  \/ request.status = 200 /\ (request.size = 0 \/ request.body # "plain")
  \/ request.status = 400 \/ request.body = "malformed"

GraphDue == phase = "over" /\ answer.code = "INVALID_RESPONSE" => GraphRefusable

\* No request is out before the credentials are there.
GraphFirst == phase = "starting" => requests = 0

GraphClientInv == GraphHttpInv /\ GraphWhole /\ GraphDue /\ GraphFirst

LEMMA GraphRequests ==
  ASSUME NEW r \in GraphHttp!Requests
  PROVE  r.size \in Nat /\ r.status \in GraphHttp!Statuses
  BY AttemptAssumption DEF GraphHttp!Requests

\* No status of an error is an answer, and only a bad request is an invalid one.
LEMMA GraphErrorCodes ==
  ASSUME request \in GraphHttp!Requests, request.status # 200
  PROVE  /\ GraphHttp!ErrorCode # "OK"
         /\ GraphHttp!ErrorCode = "INVALID_RESPONSE" => request.status = 400
  <1>1. request.status \in {400, 401, 403, 404, 410, 429, 501, 503, 504}
    BY GraphRequests DEF GraphHttp!Statuses
  <1> QED
    BY <1>1 DEF GraphHttp!ErrorCode

\* A body is an answer only in time, and if it is a plain success.
LEMMA GraphOutcomes ==
  ASSUME clock \in Nat, deadline \in Nat, request \in GraphHttp!Requests
  PROVE  /\ GraphHttp!Outcome = "OK" =>
              request.status = 200 /\ request.body = "plain" /\ clock < deadline
         /\ GraphHttp!Outcome = "INVALID_RESPONSE" => GraphRefusable
  <1>1. CASE request.size > 0 /\ request.body = "malformed"
    BY <1>1 DEF GraphHttp!Outcome, GraphRefusable
  <1>2. CASE ~(request.size > 0 /\ request.body = "malformed") /\ clock >= deadline
    <2>1. GraphHttp!Outcome = "TIMEOUT"
      BY <1>2 DEF GraphHttp!Outcome
    <2> QED
      BY <2>1
  <1>3. CASE ~(request.size > 0 /\ request.body = "malformed") /\ clock < deadline /\ request.status # 200
    <2>1. ~(clock >= deadline)
      BY <1>3
    <2>2. GraphHttp!Outcome = GraphHttp!ErrorCode
      BY <1>3, <2>1 DEF GraphHttp!Outcome
    <2> QED
      BY <1>3, <2>2, GraphErrorCodes DEF GraphRefusable
  <1>4. CASE ~(request.size > 0 /\ request.body = "malformed") /\ clock < deadline /\ request.status = 200
    <2>1. ~(clock >= deadline)
      BY <1>4
    <2>2. GraphHttp!Outcome = (IF request.size > 0 /\ request.body = "plain" THEN "OK" ELSE "INVALID_RESPONSE")
      BY <1>4, <2>1 DEF GraphHttp!Outcome
    <2>3. request.size \in Nat
      BY GraphRequests
    <2> QED
      BY <1>4, <2>2, <2>3 DEF GraphRefusable
  <1> QED
    BY <1>1, <1>2, <1>3, <1>4

\* What an ending leaves behind.
LEMMA GraphConcludes ==
  ASSUME NEW code, GraphHttp!Conclude(code)
  PROVE  /\ answer'.code = code /\ answer'.at = clock
         /\ phase' \in {"ready", "over"}
         /\ code = "OK" => phase' = "ready"
         /\ phase' = "ready" => code \in {"OK", "NOT_FOUND"}
  BY DEF GraphHttp!Conclude, GraphHttp!Continuable

\* A failure that is not an invalid answer concerns neither property.
LEMMA GraphPlainFailure ==
  ASSUME GraphClientInv, NEW code, GraphHttp!Conclude(code), code \notin {"OK", "INVALID_RESPONSE"},
         phase # "over",
         UNCHANGED <<clock, requests, received, request, deadline, taken>>
  PROVE  GraphClientInv'
  <1>1. answer'.code = code /\ phase' \in {"ready", "over"}
    BY GraphConcludes
  <1>2. GraphHttpTypeInv' /\ GraphBodyInv'
    BY <1>1 DEF GraphClientInv, GraphHttpInv, GraphHttpTypeInv, GraphBodyInv
  <1>3. GraphWhole' /\ GraphDue' /\ GraphFirst'
    BY <1>1 DEF GraphWhole, GraphDue, GraphFirst
  <1> QED
    BY <1>2, <1>3 DEF GraphClientInv, GraphHttpInv

LEMMA GraphBeginStep ==
  ASSUME GraphClientInv, GraphHttp!Begin
  PROVE  GraphClientInv'
  <1>1. phase = "starting" /\ requests = 0 /\ UNCHANGED <<clock, requests, received, request, deadline, limit, taken>>
    BY DEF GraphHttp!Begin, GraphClientInv, GraphFirst
  <1>2. ASSUME NEW code \in {"AUTH_REQUIRED", "PERMISSION_DENIED"}, GraphHttp!Conclude(code) PROVE GraphClientInv'
    BY <1>1, <1>2, GraphPlainFailure
  <1>3. CASE GraphHttp!Conclude("TIMEOUT")
    BY <1>1, <1>3, GraphPlainFailure
  <1>4. CASE phase' = "ready" /\ UNCHANGED answer
    <2>1. GraphHttpTypeInv' /\ GraphBodyInv'
      BY <1>1, <1>4 DEF GraphClientInv, GraphHttpInv, GraphHttpTypeInv, GraphBodyInv
    <2>2. GraphWhole' /\ GraphDue' /\ GraphFirst'
      BY <1>1, <1>4 DEF GraphWhole, GraphDue, GraphFirst
    <2> QED
      BY <2>1, <2>2 DEF GraphClientInv, GraphHttpInv
  <1> QED
    BY <1>2, <1>3, <1>4 DEF GraphHttp!Begin

LEMMA GraphAskStep ==
  ASSUME GraphClientInv, GraphHttp!Ask
  PROVE  GraphClientInv'
  <1>0. phase = "ready" /\ UNCHANGED <<clock, received, limit>>
    BY DEF GraphHttp!Ask
  <1>1. CASE clock >= AttemptSeconds /\ GraphHttp!Conclude("TIMEOUT") /\ UNCHANGED <<requests, request, deadline, taken>>
    BY <1>0, <1>1, GraphPlainFailure
  <1>2. ASSUME NEW r \in GraphHttp!Requests, GraphHttp!Issue(r) PROVE GraphClientInv'
    <2>1. requests' = requests + 1 /\ request' = r /\ taken' = 0 /\ deadline' \in Nat
      BY <1>2, GmailConstants DEF GraphHttp!Issue, GraphHttp!Least, GraphClientInv, GraphHttpInv, GraphHttpTypeInv
    <2>2. r.size \in Nat /\ received \in Nat /\ requests \in Nat /\ received <= AttemptLimit /\ ResponseLimit \in Nat
      BY <1>0, GraphRequests, GmailConstants DEF GraphClientInv, GraphHttpInv, GraphHttpTypeInv, GraphBodyInv
    <2>3. \/ requests' > MaxRequests /\ GraphHttp!Conclude("INVALID_RESPONSE")
          \/ phase' = "opening" /\ UNCHANGED answer
          \/ clock >= AttemptSeconds /\ GraphHttp!Conclude("TIMEOUT") /\ UNCHANGED <<requests, request, deadline, taken>>
      BY DEF GraphHttp!Ask
    <2>4. ASSUME phase' \in {"ready", "over", "opening"} PROVE GraphHttpInv' /\ GraphFirst'
      <3>1. GraphHttpTypeInv'
        BY <1>0, <2>1, <2>2, <2>4 DEF GraphClientInv, GraphHttpInv, GraphHttpTypeInv
      <3>2. GraphBodyInv' /\ GraphFirst'
        BY <1>0, <2>1, <2>2, <2>4 DEF GraphBodyInv, GraphFirst
      <3> QED
        BY <3>1, <3>2 DEF GraphHttpInv
    <2>5. CASE requests' > MaxRequests /\ GraphHttp!Conclude("INVALID_RESPONSE")
      <3>1. answer'.code = "INVALID_RESPONSE" /\ phase' \in {"ready", "over"}
        BY <2>5, GraphConcludes
      <3>2. GraphWhole' /\ GraphDue'
        BY <2>5, <3>1 DEF GraphWhole, GraphDue, GraphRefusable, GraphTooLarge
      <3> QED
        BY <2>4, <3>1, <3>2 DEF GraphClientInv
    <2>6. CASE phase' = "opening"
      <3>1. GraphWhole' /\ GraphDue'
        BY <2>6 DEF GraphWhole, GraphDue
      <3> QED
        BY <2>4, <2>6, <3>1 DEF GraphClientInv
    <2> QED
      BY <1>1, <2>3, <2>5, <2>6
  <1> QED
    BY <1>1, <1>2 DEF GraphHttp!Ask

LEMMA GraphOpenedStep ==
  ASSUME GraphClientInv, GraphHttp!Opened
  PROVE  GraphClientInv'
  <1>1. phase = "opening" /\ UNCHANGED <<clock, requests, received, request, deadline, limit, taken>>
    BY DEF GraphHttp!Opened
  <1>2. CASE GraphHttp!Conclude("TIMEOUT")
    BY <1>1, <1>2, GraphPlainFailure
  <1>3. CASE request.body = "malformed" /\ GraphHttp!Conclude("INVALID_RESPONSE")
    <2>1. answer'.code = "INVALID_RESPONSE" /\ phase' \in {"ready", "over"}
      BY <1>3, GraphConcludes
    <2>2. GraphHttpTypeInv' /\ GraphBodyInv'
      BY <1>1, <2>1 DEF GraphClientInv, GraphHttpInv, GraphHttpTypeInv, GraphBodyInv
    <2>3. GraphWhole' /\ GraphDue' /\ GraphFirst'
      BY <1>1, <1>3, <2>1 DEF GraphWhole, GraphDue, GraphFirst, GraphRefusable
    <2> QED
      BY <2>2, <2>3 DEF GraphClientInv, GraphHttpInv
  <1>4. CASE phase' = "body" /\ UNCHANGED answer
    BY <1>1, <1>4 DEF GraphClientInv, GraphHttpInv, GraphHttpTypeInv, GraphBodyInv, GraphWhole, GraphDue, GraphFirst
  <1> QED
    BY <1>2, <1>3, <1>4 DEF GraphHttp!Opened

LEMMA GraphReceiveStep ==
  ASSUME GraphClientInv, GraphHttp!Receive
  PROVE  GraphClientInv'
  <1>1. phase = "reading" /\ UNCHANGED <<clock, requests, request, deadline, limit>>
    BY DEF GraphHttp!Receive
  <1>2. /\ clock \in Nat /\ deadline \in Nat /\ requests \in Nat /\ received \in Nat /\ taken \in Nat
        /\ request \in GraphHttp!Requests /\ request.size \in Nat /\ taken <= received /\ taken <= request.size
        /\ taken <= ResponseLimit /\ received <= AttemptLimit
    BY <1>1, GraphRequests DEF GraphClientInv, GraphHttpInv, GraphHttpTypeInv, GraphBodyInv
  <1>3. PICK n \in 0 .. GraphHttp!Least(GraphHttp!AtMost, request.size - taken) :
          /\ n = 0 => taken = request.size
          /\ taken' = taken + n /\ received' = received + n
          /\ CASE clock >= deadline -> GraphHttp!Conclude("TIMEOUT")
               [] clock < deadline /\ GraphHttp!Exceeds(n) -> GraphHttp!Conclude("INVALID_RESPONSE")
               [] clock < deadline /\ ~GraphHttp!Exceeds(n) ->
                    phase' = (IF n = 0 THEN "decoding" ELSE "body") /\ UNCHANGED answer
    BY DEF GraphHttp!Receive
  <1>4. GraphHttp!Remaining \in Nat /\ GraphHttp!Remaining \in {ResponseLimit - taken, AttemptLimit - received}
        /\ GraphHttp!Remaining <= ResponseLimit - taken /\ GraphHttp!Remaining <= AttemptLimit - received
    BY <1>2, GmailConstants DEF GraphHttp!Remaining, GraphHttp!Least
  <1>5. n \in Nat /\ n <= request.size - taken
    <2>1. GraphHttp!AtMost \in Nat
      BY <1>4, GmailConstants DEF GraphHttp!AtMost, GraphHttp!Least
    <2>2. GraphHttp!Least(GraphHttp!AtMost, request.size - taken) <= request.size - taken
          /\ GraphHttp!Least(GraphHttp!AtMost, request.size - taken) \in Nat
      BY <1>2, <2>1 DEF GraphHttp!Least
    <2> QED
      BY <1>2, <1>3, <2>2
  <1>6. /\ taken' \in Nat /\ received' \in Nat /\ taken' <= received' /\ taken' <= request'.size
        /\ received' - taken' = received - taken
    BY <1>1, <1>2, <1>3, <1>5
  <1>7. ASSUME phase' \in {"ready", "over", "body", "decoding"},
               phase' # "over" => taken' <= ResponseLimit /\ received' <= AttemptLimit,
               phase' = "decoding" => taken' = request.size
        PROVE  GraphHttpInv' /\ GraphFirst'
    <2>1. GraphHttpTypeInv'
      BY <1>1, <1>2, <1>6, <1>7 DEF GraphHttpTypeInv
    <2>2. GraphBodyInv' /\ GraphFirst'
      BY <1>1, <1>6, <1>7 DEF GraphBodyInv, GraphFirst
    <2> QED
      BY <2>1, <2>2 DEF GraphHttpInv
  <1>8. CASE clock >= deadline
    <2>1. GraphHttp!Conclude("TIMEOUT")
      <3>1. ~(clock < deadline)
        BY <1>2, <1>8
      <3> QED
        BY <1>3, <1>8, <3>1, Zenon
    <2>2. answer'.code = "TIMEOUT" /\ phase' = "over"
      BY <2>1, GraphConcludes
    <2>3. GraphWhole' /\ GraphDue'
      BY <2>2 DEF GraphWhole, GraphDue
    <2> QED
      BY <1>7, <2>2, <2>3 DEF GraphClientInv
  <1>9. CASE clock < deadline /\ GraphHttp!Exceeds(n)
    <2>1. GraphHttp!Conclude("INVALID_RESPONSE")
      <3>1. ~(clock >= deadline)
        BY <1>2, <1>9
      <3> QED
        BY <1>3, <1>9, <3>1, Zenon
    <2>2. answer'.code = "INVALID_RESPONSE" /\ phase' = "over"
      BY <2>1, GraphConcludes
    <2>3. n > GraphHttp!Remaining
      BY <1>9 DEF GraphHttp!Exceeds
    <2>4. request.size > ResponseLimit \/ (received - taken) + request.size > AttemptLimit
      BY <1>2, <1>4, <1>5, <2>3, GmailConstants
    <2>5. GraphWhole' /\ GraphDue'
      BY <1>1, <1>6, <2>2, <2>4 DEF GraphWhole, GraphDue, GraphRefusable, GraphTooLarge
    <2> QED
      BY <1>7, <2>2, <2>5 DEF GraphClientInv
  <1>10. CASE clock < deadline /\ ~GraphHttp!Exceeds(n)
    <2>1. phase' = (IF n = 0 THEN "decoding" ELSE "body") /\ UNCHANGED answer
      <3>1. ~(clock >= deadline)
        BY <1>2, <1>10
      <3> QED
        BY <1>3, <1>10, <3>1, Zenon
    <2>2. n <= GraphHttp!Remaining
      BY <1>4, <1>5, <1>10 DEF GraphHttp!Exceeds
    <2>3. taken' <= ResponseLimit /\ received' <= AttemptLimit
      BY <1>2, <1>3, <1>4, <1>5, <2>2, GmailConstants
    <2>4. phase' = "decoding" => taken' = request.size
      BY <1>2, <1>3, <1>5, <2>1
    <2>5. GraphWhole' /\ GraphDue'
      BY <2>1 DEF GraphWhole, GraphDue
    <2> QED
      BY <1>7, <2>1, <2>3, <2>4, <2>5 DEF GraphClientInv
  <1> QED
    BY <1>2, <1>8, <1>9, <1>10

LEMMA GraphDecodeStep ==
  ASSUME GraphClientInv, GraphHttp!Decode
  PROVE  GraphClientInv'
  <1> DEFINE code == GraphHttp!Outcome
  <1>1. phase = "decoding" /\ GraphHttp!Conclude(code) /\ UNCHANGED <<clock, requests, received, request, deadline, limit, taken>>
    BY DEF GraphHttp!Decode
  <1>2. /\ clock \in Nat /\ deadline \in Nat /\ request \in GraphHttp!Requests
        /\ taken = request.size /\ taken <= ResponseLimit /\ received <= AttemptLimit
    BY <1>1 DEF GraphClientInv, GraphHttpInv, GraphHttpTypeInv, GraphBodyInv
  <1>3. /\ code = "OK" => request.status = 200 /\ request.body = "plain" /\ clock < deadline
        /\ code = "INVALID_RESPONSE" => GraphRefusable
    BY <1>2, GraphOutcomes
  <1> HIDE DEF code
  <1>4. answer'.code = code /\ answer'.at = clock /\ phase' \in {"ready", "over"}
    BY <1>1, GraphConcludes
  <1>5. GraphHttpTypeInv' /\ GraphBodyInv'
    BY <1>1, <1>4 DEF GraphClientInv, GraphHttpInv, GraphHttpTypeInv, GraphBodyInv
  <1>6. GraphWhole'
    BY <1>1, <1>2, <1>3, <1>4 DEF GraphWhole
  <1>7. GraphRefusable' = GraphRefusable
    BY <1>1 DEF GraphRefusable, GraphTooLarge
  <1>8. GraphDue' /\ GraphFirst'
    BY <1>3, <1>4, <1>7 DEF GraphDue, GraphFirst
  <1> QED
    BY <1>5, <1>6, <1>8 DEF GraphClientInv, GraphHttpInv

\* Steps without a chunk or an answer.
LEMMA GraphOtherSteps ==
  ASSUME GraphClientInv,
         GraphHttp!TransportFails \/ GraphHttp!NextRead \/ GraphHttp!Tick \/ UNCHANGED httpVars
  PROVE  GraphClientInv'
  <1>1. CASE GraphHttp!TransportFails
    <2>1. PICK code \in {"TIMEOUT", "UNAVAILABLE"} : GraphHttp!Conclude(code)
      BY <1>1 DEF GraphHttp!TransportFails
    <2>2. phase # "over" /\ UNCHANGED <<clock, requests, received, request, deadline, taken>>
      BY <1>1 DEF GraphHttp!TransportFails
    <2> QED
      BY <2>1, <2>2, GraphPlainFailure
  <1>2. CASE GraphHttp!NextRead
    <2>1. phase = "body" /\ UNCHANGED <<clock, requests, received, request, deadline, limit, taken>>
      BY <1>2 DEF GraphHttp!NextRead
    <2>2. CASE GraphHttp!Conclude("TIMEOUT")
      BY <2>1, <2>2, GraphPlainFailure
    <2>3. CASE phase' = "reading" /\ UNCHANGED answer
      BY <2>1, <2>3 DEF GraphClientInv, GraphHttpInv, GraphHttpTypeInv, GraphBodyInv, GraphWhole, GraphDue, GraphFirst
    <2> QED
      BY <1>2, <2>2, <2>3 DEF GraphHttp!NextRead
  <1>3. CASE GraphHttp!Tick
    <2>1. clock' = clock + 1 /\ UNCHANGED <<requests, received, phase, request, deadline, limit, taken, answer>>
      BY <1>3 DEF GraphHttp!Tick
    <2>2. GraphHttpTypeInv' /\ GraphBodyInv'
      BY <2>1 DEF GraphClientInv, GraphHttpInv, GraphHttpTypeInv, GraphBodyInv
    <2>3. GraphWhole' /\ GraphDue' /\ GraphFirst'
      BY <2>1 DEF GraphClientInv, GraphWhole, GraphDue, GraphFirst, GraphRefusable, GraphTooLarge
    <2> QED
      BY <2>2, <2>3 DEF GraphClientInv, GraphHttpInv
  <1>4. CASE UNCHANGED httpVars
    <2>1. UNCHANGED <<clock, requests, received, phase, request, deadline, limit, taken, answer>>
      BY <1>4 DEF httpVars
    <2> QED
      BY <2>1 DEF GraphClientInv, GraphHttpInv, GraphHttpTypeInv, GraphBodyInv, GraphWhole, GraphDue, GraphFirst,
         GraphRefusable, GraphTooLarge
  <1> QED
    BY <1>1, <1>2, <1>3, <1>4

LEMMA GraphClientStep ==
  ASSUME GraphClientInv, GraphHttp!Next \/ UNCHANGED httpVars
  PROVE  GraphClientInv'
  BY GraphBeginStep, GraphAskStep, GraphOpenedStep, GraphReceiveStep, GraphDecodeStep, GraphOtherSteps DEF GraphHttp!Next

LEMMA GraphClientStarts ==
  ASSUME GraphHttp!Init
  PROVE  GraphClientInv
  <1>1. /\ clock = 0 /\ requests = 0 /\ received = 0 /\ phase = "starting" /\ deadline = 0 /\ limit = 0 /\ taken = 0
        /\ request \in GraphHttp!Requests /\ request.size \in Nat
    BY GraphRequests DEF GraphHttp!Init, GraphHttp!HttpBeginning
  <1> QED
    BY <1>1, GmailConstants DEF GraphClientInv, GraphHttpInv, GraphHttpTypeInv, GraphBodyInv, GraphWhole, GraphDue, GraphFirst

-----------------------------------------------------------------------------
(* Either client.                                                           *)

ClientInv == \/ client = "gmail" /\ GmailClientInv
             \/ client = "graph" /\ GraphClientInv

LEMMA ClientInductive == ClientSpec => []ClientInv
  <1>1. ClientInit => ClientInv
    BY GmailClientStarts, GraphClientStarts DEF ClientInit, ClientInv
  <1>2. ASSUME ClientInv, [ClientNext]_<<httpVars, client>> PROVE ClientInv'
    <2>1. UNCHANGED client
      BY <1>2 DEF ClientNext
    <2>2. CASE client = "gmail"
      <3>1. GmailHttp!Next \/ UNCHANGED httpVars
        BY <1>2, <2>2 DEF ClientNext
      <3> QED
        BY <1>2, <2>1, <2>2, <3>1, GmailClientStep DEF ClientInv
    <2>3. CASE client = "graph"
      <3>1. GraphHttp!Next \/ UNCHANGED httpVars
        BY <1>2, <2>3 DEF ClientNext
      <3> QED
        BY <1>2, <2>1, <2>3, <3>1, GraphClientStep DEF ClientInv
    <2> QED
      BY <1>2, <2>2, <2>3 DEF ClientInv
  <1> QED
    BY <1>1, <1>2, PTL DEF ClientSpec

\* An answer of either client is the whole body of a success, within every limit and
\* in time: for every limit, every size and every order of chunks, delays and failures.
THEOREM AnswersWhole == ClientSpec => []AnswersAreWhole
  <1>1. ClientInv => AnswersAreWhole
    BY DEF ClientInv, GmailClientInv, GmailWhole, GraphClientInv, GraphWhole, AnswersAreWhole,
       Answered, Usable, WithinClient
  <1> QED
    BY <1>1, ClientInductive, PTL

\* An attempt is refused for its size only where a body or the requests exceed a limit.
THEOREM RefusalsDue == ClientSpec => []RefusalIsDue
  <1>1. ASSUME ClientInv PROVE RefusalIsDue
    <2>1. CASE client = "gmail" /\ GmailClientInv
      <3>1. GmailTooLarge => TooLarge
        <4>1. request.size > ClientLimit => ~(request.size <= ClientLimit)
          <5>1. request.size \in Nat
            BY <2>1, GmailRequests DEF GmailClientInv, GmailHttpInv, GmailHttpTypeInv
          <5> QED
            BY <5>1, GmailConstants
        <4> QED
          BY <2>1, <4>1, Zenon DEF GmailTooLarge, TooLarge, WithinClient
      <3>2. phase = "over" /\ answer.code = "UNSUPPORTED_CAPABILITY" => TooLarge
        BY <2>1, <3>1, Zenon DEF GmailClientInv, GmailDue
      <3>3. client # "graph"
        BY <2>1
      <3> QED
        BY <3>2, <3>3, Zenon DEF RefusalIsDue
    <2>2. CASE client = "graph" /\ GraphClientInv
      <3>1. GraphTooLarge => TooLarge
        BY DEF GraphTooLarge, TooLarge
      <3>2. Usable <=> request.body = "plain"
        BY <2>2 DEF Usable
      <3>3. phase = "over" /\ answer.code = "INVALID_RESPONSE" =>
              \/ TooLarge
              \/ request.status = 200 /\ (request.size = 0 \/ ~Usable)
              \/ request.status = 400 \/ request.body = "malformed"
        BY <2>2, <3>1, <3>2, Zenon DEF GraphClientInv, GraphDue, GraphRefusable
      <3>4. client # "gmail"
        BY <2>2
      <3> QED
        BY <3>3, <3>4, Zenon DEF RefusalIsDue
    <2> QED
      BY <1>1, <2>1, <2>2 DEF ClientInv
  <1> QED
    BY <1>1, ClientInductive, PTL
=============================================================================
