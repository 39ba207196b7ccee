---------------------- MODULE BookingRepositoryProofs ----------------------
(***************************************************************************)
(* What TLAPS proves of BookingRepository for every set of coupons, mail,  *)
(* policies and callers, every largest sequence number and every way       *)
(* sequence numbers may repeat: no coupon shows a stale projection, a      *)
(* conflict never heals, what a table row claims can be traced to the rows *)
(* it rests on, one history has one outcome, that outcome is what the      *)
(* history says when read as a whole, and what is shown is written in some *)
(* retained mail.                                                          *)
(***************************************************************************)
EXTENDS BookingTexts, FiniteSetTheorems, TLAPS

\* A conflicting history conflicts however much is added to it.
LEMMA ConflictGrows ==
  ASSUME NEW D, NEW E, D \subseteq E, Conflict(D)
  PROVE  Conflict(E)
<1>1. CASE \E e \in D : e.issues
  BY <1>1 DEF Conflict
<1>2. CASE Collide(D)
  BY <1>2 DEF Conflict, Collide
<1>3. CASE \E d, e \in D : Contradicts(D, d, e)
  <2>1. PICK d \in D, e \in D : Contradicts(D, d, e)
    BY <1>3
  <2>2. Contradicts(E, d, e)
    BY <2>1 DEF Contradicts, Attributed
  <2> QED BY <2>2 DEF Conflict
<1> QED BY <1>1, <1>2, <1>3 DEF Conflict

\* The reason is shown exactly when the history conflicts.
LEMMA ConflictShown ==
  ASSUME NEW s, NEW E, NEW row, NEW family
  PROVE  "CONFLICTING_EVENT_HISTORY" \in Constrain(Project(s, E, row), family).reasons <=> Conflict(E)
<1> DEFINE p == Project(s, E, row)
<1>1. "CONFLICTING_EVENT_HISTORY" \in p.reasons <=> Conflict(E)
  <2>1. CASE Conflict(E)
    BY <2>1 DEF Project, Unresolved
  <2>2. CASE ~Conflict(E) /\ Selected(s, E, row) = Broken
    BY <2>2 DEF Project, Unresolved
  <2>3. CASE ~Conflict(E) /\ Selected(s, E, row) # Broken
    BY <2>3 DEF Project
  <2> QED BY <2>1, <2>2, <2>3
<1> HIDE DEF p
<1>2. "CONFLICTING_EVENT_HISTORY" \in Constrain(p, family).reasons <=> "CONFLICTING_EVENT_HISTORY" \in p.reasons
  BY DEF Constrain, Unresolved
<1> QED BY <1>1, <1>2 DEF p

-----------------------------------------------------------------------------
(* No segment is left behind.                                               *)

\* Every coupon that has events shows one of the projections a commit may choose.
LEMMA ShownProjects ==
  ASSUME NEW known, NEW shown \in Shown(known), NEW s \in Segments
  PROVE  IF known[s] = {} THEN shown[s] = current[s] ELSE shown[s] \in Projections(known, s)
<1> DEFINE choices == [t \in Segments |-> IF t \in Projected(known) THEN Projections(known, t) ELSE {current[t]}]
<1>1. shown[s] \in choices[s]
  BY DEF Shown
<1>2. s \in Projected(known) <=> known[s] # {}
  BY DEF Projected
<1> QED BY <1>1, <1>2

\* Events are never forgotten.
LEMMA EventsGrow ==
  ASSUME NEW s \in Segments, [Next]_vars
  PROVE  events[s] \subseteq events'[s]
<1>1. CASE UNCHANGED vars
  BY <1>1 DEF vars
<1>2. CASE Next
  <2>1. PICK batch \in Batches, p \in Policies, travelers \in Callers : CommitSync(batch, p, travelers)
    BY <1>2 DEF Next
  <2> QED BY <2>1 DEF CommitSync, Learned
<1> QED BY <1>1, <1>2

\* The events after a step, and what the coupons show of them.
LEMMA StepProjects ==
  ASSUME CurrentIsProjection, [Next]_vars
  PROVE  CurrentIsProjection'
<1>1. CASE UNCHANGED vars
  BY <1>1 DEF vars, CurrentIsProjection, Projections, Family
<1>2. CASE Next
  <2>1. PICK batch \in Batches, p \in Policies, travelers \in Callers : CommitSync(batch, p, travelers)
    BY <1>2 DEF Next
  <2>2. current' \in Shown(events')
    BY <2>1 DEF CommitSync
  <2> SUFFICES ASSUME NEW s \in Segments
               PROVE  IF events'[s] = {} THEN current'[s] = NoProjection
                      ELSE current'[s] \in Projections(events', s)
    BY DEF CurrentIsProjection, Projections, Family
  <2>3. IF events'[s] = {} THEN current'[s] = current[s] ELSE current'[s] \in Projections(events', s)
    BY <2>2, ShownProjects
  <2>4. events'[s] = {} => current[s] = NoProjection
    BY <1>2, EventsGrow DEF CurrentIsProjection
  <2> QED BY <2>3, <2>4
<1> QED BY <1>1, <1>2

\* CurrentIsProjection holds in every reachable state: a synchronization
\* reprojects every coupon, also those its mail says nothing about.
THEOREM NoneLeftBehind == Spec => []CurrentIsProjection
<1>1. Init => CurrentIsProjection
  BY DEF Init, CurrentIsProjection
<1>2. CurrentIsProjection /\ [Next]_vars => CurrentIsProjection'
  BY StepProjects
<1> QED BY <1>1, <1>2, PTL DEF Spec

-----------------------------------------------------------------------------
(* A conflict never heals.                                                  *)

LEMMA ShowsConflict ==
  ASSUME CurrentIsProjection, NEW s \in Segments
  PROVE  "CONFLICTING_EVENT_HISTORY" \in current[s].reasons <=> events[s] # {} /\ Conflict(events[s])
<1>1. CASE events[s] = {}
  BY <1>1 DEF CurrentIsProjection, NoProjection
<1>2. CASE events[s] # {}
  <2>1. PICK row \in Rows(events[s]) : current[s] = Constrain(Project(s, events[s], row), Family(events, s))
    BY <1>2 DEF CurrentIsProjection, Projections
  <2> QED BY <1>2, <2>1, ConflictShown
<1> QED BY <1>1, <1>2

\* ConflictPermanent: once a coupon shows CONFLICTING_EVENT_HISTORY it always
\* does, because events are only added and a conflict survives additions.
THEOREM ConflictsStay == Spec => ConflictPermanent
<1>1. ASSUME CurrentIsProjection, CurrentIsProjection', [Next]_vars, NEW s \in Segments,
             "CONFLICTING_EVENT_HISTORY" \in current[s].reasons
      PROVE  "CONFLICTING_EVENT_HISTORY" \in current'[s].reasons
  <2>1. events[s] # {} /\ Conflict(events[s])
    BY <1>1, ShowsConflict
  <2>2. events[s] \subseteq events'[s]
    BY <1>1, EventsGrow
  <2>3. events'[s] # {} /\ Conflict(events'[s])
    BY <2>1, <2>2, ConflictGrows
  <2>4. PICK row \in Rows(events'[s]) : current'[s] = Constrain(Project(s, events'[s], row), Family(events', s))
    BY <1>1, <2>3 DEF CurrentIsProjection, Projections, Family
  <2> QED BY <2>3, <2>4, ConflictShown
<1>2. CurrentIsProjection /\ CurrentIsProjection' /\ [Next]_vars =>
        [\A s \in Segments : "CONFLICTING_EVENT_HISTORY" \in current[s].reasons =>
           "CONFLICTING_EVENT_HISTORY" \in current'[s].reasons]_vars
  BY <1>1
<1> QED BY <1>2, NoneLeftBehind, PTL DEF Spec, ConflictPermanent

-----------------------------------------------------------------------------
(* What a row claims can be traced.                                         *)

\* Each pair of the evidence is a coupon and an event of it.
LEMMA SupportingPairs ==
  ASSUME NEW known, NEW T, NEW x
  PROVE  x \in Supporting(known, T) <=> \E t \in T : \E e \in known[t] : x = <<t, e>>
BY DEF Supporting

LEMMA EvidencePairs ==
  ASSUME NEW known, NEW s \in Segments, NEW x \in RevisionEvidence(known, s)
  PROVE  x[1] \in Segments /\ x[2] \in known[x[1]]
<1>1. PICK T \in SUBSET Segments : x \in Supporting(known, T)
  BY DEF RevisionEvidence
<1>2. PICK t \in T : \E e \in known[t] : x = <<t, e>>
  BY <1>1, SupportingPairs
<1> QED BY <1>2

\* The invariant: rows are traceable, what is stored is mail, events are never
\* the absence of one, and evidence names coupons.
TraceInv ==
  /\ Traceable
  /\ stored \subseteq Messages
  /\ \A s \in Segments : NoEvent \notin events[s]
  /\ \A r \in revisions : \A x \in r.evidence : x[1] \in Segments

LEMMA StepTraces ==
  ASSUME TraceInv, [Next]_vars
  PROVE  TraceInv'
<1>1. CASE UNCHANGED vars
  BY <1>1 DEF vars, TraceInv, Traceable
<1>2. CASE Next
  <2>1. PICK batch \in Batches, p \in Policies, travelers \in Callers : CommitSync(batch, p, travelers)
    BY <1>2 DEF Next
  <2> DEFINE mail == stored \cup batch
             eligible == Eligible(mail, p, travelers)
  <2>2. /\ Unchanged(eligible, p)
        /\ stored' = mail
        /\ link' = [m \in Messages |-> IF m \in eligible THEN Reading[p][m] ELSE link[m]]
        /\ events' = Learned(eligible, p)
        /\ revisions' = Recorded(events', current')
    BY <2>1 DEF CommitSync
  <2>3. \A m \in eligible : m \in mail /\ Reading[p][m] # NoEvent
    BY DEF Eligible
  <2> HIDE DEF eligible
  <2>4. \A s \in Segments : events'[s] = events[s] \cup {Reading[p][m] : m \in {m \in eligible : SegmentOf[m] = s}}
    BY <2>2 DEF Learned
  <2>5. \A s \in Segments : NoEvent \notin events'[s]
    BY <2>3, <2>4 DEF TraceInv
  <2>6. stored' \subseteq Messages
    BY <2>2, BatchAssumption DEF TraceInv
  <2>7. ASSUME NEW m \in Messages, link'[m] # NoEvent
        PROVE  m \in stored' /\ link'[m] \in events'[SegmentOf[m]]
    <3>1. SegmentOf[m] \in Segments
      BY MessageAssumption
    <3>2. CASE m \in eligible
      BY <2>2, <2>3, <2>4, <3>1, <3>2
    <3>3. CASE m \notin eligible
      BY <2>2, <2>4, <2>7, <3>1, <3>3 DEF TraceInv, Traceable
    <3> QED BY <3>2, <3>3
  <2>8. ASSUME NEW s \in Segments, NEW e \in events'[s]
        PROVE  \E m \in stored' : SegmentOf[m] = s /\ link'[m] = e
    <3>1. CASE e \in events[s]
      <4>1. PICK m \in stored : SegmentOf[m] = s /\ link[m] = e
        BY <3>1 DEF TraceInv, Traceable
      <4>2. e # NoEvent /\ m \in Messages
        BY <3>1, <4>1 DEF TraceInv
      <4>3. m \in eligible => Reading[p][m] = e
        BY <2>2, <4>1, <4>2 DEF Unchanged
      <4> QED BY <2>2, <4>1, <4>2, <4>3
    <3>2. CASE e \notin events[s]
      <4>1. PICK m \in eligible : SegmentOf[m] = s /\ e = Reading[p][m]
        BY <2>4, <2>8, <3>2
      <4>2. m \in stored' /\ m \in Messages
        BY <2>2, <2>3, <2>6
      <4> QED BY <2>2, <4>1, <4>2
    <3> QED BY <3>1, <3>2
  <2>9. ASSUME NEW s \in Segments, events'[s] # {}
        PROVE  \E r \in revisions' : r.segment = s /\ r.projection = current'[s]
    <3>1. s \in Projected(events')
      BY <2>9 DEF Projected
    <3> DEFINE new == [segment |-> s, projection |-> current'[s], evidence |-> RevisionEvidence(events', s)]
    <3>2. (\E r \in revisions : r.segment = s /\ r.projection = current'[s]) \/ new \in revisions'
      BY <2>2, <3>1 DEF Recorded
    <3>3. revisions \subseteq revisions'
      BY <2>2 DEF Recorded
    <3>4. new.segment = s /\ new.projection = current'[s]
      OBVIOUS
    <3> HIDE DEF new
    <3> QED BY <3>2, <3>3, <3>4
  <2>10. ASSUME NEW r \in revisions', NEW x \in r.evidence
        PROVE  x[1] \in Segments /\ x[2] \in events'[x[1]]
    <3>1. CASE r \in revisions
      BY <2>4, <2>10, <3>1 DEF TraceInv, Traceable
    <3>2. CASE r \notin revisions
      <4>1. PICK s \in Segments : r.evidence = RevisionEvidence(events', s)
        BY <2>2, <3>2 DEF Recorded, Projected
      <4> QED BY <2>10, <4>1, EvidencePairs
    <3> QED BY <3>1, <3>2
  <2> QED BY <2>5, <2>6, <2>7, <2>8, <2>9, <2>10 DEF TraceInv, Traceable
<1> QED BY <1>1, <1>2

\* Traceable: events keep their mail and mail its event, a coupon shows a
\* revision that was written, and the evidence of every revision is there.
THEOREM EverythingTraceable == Spec => []Traceable
<1>1. Init => TraceInv
  BY BatchAssumption DEF Init, TraceInv, Traceable
<1>2. TraceInv /\ [Next]_vars => TraceInv'
  BY StepTraces
<1>3. TraceInv => Traceable
  BY DEF TraceInv
<1> QED BY <1>1, <1>2, <1>3, PTL DEF Spec

-----------------------------------------------------------------------------
(* A revision can be audited.                                               *)

\* What RevisionsExplained says of one revision.
Explained(r) ==
  LET own == {x[2] : x \in {x \in r.evidence : x[1] = r.segment}}
      family == {x[2] : x \in r.evidence}
  IN \E row \in Rows(own) : r.projection = Constrain(Project(r.segment, own, row), family)

\* The evidence recorded for a coupon holds its own events, and collides just
\* when its booking does.
LEMMA EvidenceSuffices ==
  ASSUME NEW known, NEW s \in Segments
  PROVE  /\ {x[2] : x \in {x \in RevisionEvidence(known, s) : x[1] = s}} = known[s]
         /\ Collide({x[2] : x \in RevisionEvidence(known, s)}) <=> Collide(Family(known, s))
<1> DEFINE own == {x[2] : x \in {x \in RevisionEvidence(known, s) : x[1] = s}}
           all == {x[2] : x \in RevisionEvidence(known, s)}
<1>1. PICK T \in SUBSET Segments :
        /\ s \in T
        /\ RevisionEvidence(known, s) = Supporting(known, T)
        /\ IF Collide(Family(known, s)) THEN T = {t \in Segments : Sibling(s, t)} ELSE T = {s}
  BY DEF RevisionEvidence, Sibling
<1>2. ASSUME NEW e
      PROVE  e \in own <=> e \in known[s]
  <2>1. ASSUME e \in own PROVE e \in known[s]
    <3>1. PICK x \in Supporting(known, T) : x[1] = s /\ x[2] = e
      BY <1>1, <2>1
    <3> QED BY <3>1, SupportingPairs
  <2>2. ASSUME e \in known[s] PROVE e \in own
    <3>1. <<s, e>> \in Supporting(known, T)
      BY <1>1, <2>2, SupportingPairs
    <3> QED BY <1>1, <3>1
  <2> QED BY <2>1, <2>2
<1>3. ASSUME NEW e
      PROVE  e \in all <=> \E t \in T : e \in known[t]
  <2>1. ASSUME e \in all PROVE \E t \in T : e \in known[t]
    <3>1. PICK x \in Supporting(known, T) : x[2] = e
      BY <1>1, <2>1
    <3> QED BY <3>1, SupportingPairs
  <2>2. ASSUME NEW t \in T, e \in known[t] PROVE e \in all
    <3>1. <<t, e>> \in Supporting(known, T)
      BY <2>2, SupportingPairs
    <3> QED BY <1>1, <3>1
  <2> QED BY <2>1, <2>2
<1>4. Collide(all) <=> Collide(Family(known, s))
  <2>1. CASE Collide(Family(known, s))
    <3>1. all = Family(known, s)
      BY <1>1, <1>3, <2>1 DEF Family
    <3> QED BY <2>1, <3>1
  <2>2. CASE ~Collide(Family(known, s))
    <3>1. all \subseteq Family(known, s)
      BY <1>1, <1>3, <2>2 DEF Family, Sibling
    <3> QED BY <2>2, <3>1 DEF Collide
  <2> QED BY <2>1, <2>2
<1> QED BY <1>2, <1>4

\* RevisionsExplained: the evidence linked to a revision when it was written
\* yields its projection ever after.
THEOREM RevisionsAuditable == Spec => []RevisionsExplained
<1>1. Init => RevisionsExplained
  BY DEF Init, RevisionsExplained
<1>2. ASSUME RevisionsExplained, [Next]_vars
      PROVE  RevisionsExplained'
  <2>1. CASE UNCHANGED vars
    BY <1>2, <2>1 DEF vars, RevisionsExplained
  <2>2. CASE Next
    <3>1. PICK batch \in Batches, p \in Policies, travelers \in Callers : CommitSync(batch, p, travelers)
      BY <2>2 DEF Next
    <3>2. current' \in Shown(events') /\ revisions' = Recorded(events', current')
      BY <3>1 DEF CommitSync
    <3> SUFFICES ASSUME NEW r \in revisions'
                 PROVE  Explained(r)
      BY DEF RevisionsExplained, Explained
    <3>3. CASE r \in revisions
      BY <1>2, <3>3 DEF RevisionsExplained, Explained
    <3>4. CASE r \notin revisions
      <4>1. PICK s \in Projected(events') :
              r = [segment |-> s, projection |-> current'[s], evidence |-> RevisionEvidence(events', s)]
        BY <3>2, <3>4 DEF Recorded
      <4>2. s \in Segments /\ events'[s] # {}
        BY <4>1 DEF Projected
      <4>3. current'[s] \in Projections(events', s)
        BY <3>2, <4>2, ShownProjects
      <4>4. PICK row \in Rows(events'[s]) :
              current'[s] = Constrain(Project(s, events'[s], row), Family(events', s))
        BY <4>3 DEF Projections
      <4>5. r.segment = s /\ r.projection = current'[s] /\ r.evidence = RevisionEvidence(events', s)
        BY <4>1
      <4> DEFINE own == {x[2] : x \in {x \in r.evidence : x[1] = r.segment}}
                 family == {x[2] : x \in r.evidence}
      <4>6. own = events'[s] /\ (Collide(family) <=> Collide(Family(events', s)))
        BY <4>2, <4>5, EvidenceSuffices
      <4>7. r.projection = Constrain(Project(r.segment, own, row), family)
        BY <4>4, <4>5, <4>6 DEF Constrain
      <4> QED BY <4>4, <4>6, <4>7 DEF Explained
    <3> QED BY <3>3, <3>4
  <2> QED BY <1>2, <2>1, <2>2
<1> QED BY <1>1, <1>2, PTL DEF Spec

-----------------------------------------------------------------------------
(* Induction over sequence numbers.                                         *)

\* A nonempty set of naturals has a least element.
LEMMA LeastNumber ==
  ASSUME NEW T \in SUBSET Nat, T # {}
  PROVE  \E m \in T : \A n \in T : m <= n
<1> DEFINE R == OpToRel(<, Nat)
<1>1. IsWellFoundedOn(R, Nat)
  BY NatLessThanWellFounded
<1>2. \A x, y \in Nat : x < y => <<x, y>> \in R
  BY DEF OpToRel
<1> HIDE DEF R
<1>3. PICK m \in T : \A n \in T : ~(<<n, m>> \in R)
  BY <1>1, WFMin
<1>4. \A n \in T : ~(n < m)
  BY <1>2, <1>3
<1> QED BY <1>4

\* A set that holds 0 and the successor of each natural in it holds them all.
LEMMA Induct ==
  ASSUME NEW T, 0 \in T, \A n \in Nat : n \in T => n + 1 \in T
  PROVE  Nat \subseteq T
<1> SUFFICES ASSUME Nat \ T # {} PROVE FALSE
  OBVIOUS
<1>1. PICK m \in Nat \ T : \A n \in Nat \ T : m <= n
  BY LeastNumber
<1>2. m # 0 /\ m - 1 \in Nat /\ m - 1 \in T
  BY <1>1
<1> QED BY <1>2, <1>1

\* Some sequence number of a history is the largest.
LEMMA Largest ==
  ASSUME NEW S \in SUBSET (-1..MaxSequence), S # {}
  PROVE  \E m \in S : \A n \in S : n <= m
<1> DEFINE T == {k \in Nat : MaxSequence - k \in S}
<1> USE SequenceAssumption
<1>1. PICK n \in S : TRUE
  OBVIOUS
<1>2. MaxSequence - n \in T
  BY <1>1
<1>3. PICK k \in T : \A j \in T : k <= j
  BY <1>2, LeastNumber
<1>4. ASSUME NEW j \in S PROVE j <= MaxSequence - k
  <2>1. MaxSequence - j \in T
    OBVIOUS
  <2> QED BY <1>3, <2>1
<1>5. MaxSequence - k \in S
  BY <1>3
<1> QED BY <1>4, <1>5

LEMMA MaxIsLargest ==
  ASSUME NEW S \in SUBSET (-1..MaxSequence), S # {}
  PROVE  Max(S) \in S /\ \A n \in S : n <= Max(S)
<1>1. \E m \in S : \A n \in S : m >= n
  BY Largest, SequenceAssumption
<1>2. Max(S) \in S /\ \A n \in S : Max(S) >= n
  BY <1>1 DEF Max
<1> QED BY <1>2, SequenceAssumption

-----------------------------------------------------------------------------
(* The walk over the barrier.                                               *)

\* What the walk holds after sequence number n, given what it held before.
Onward(row, n, selected) == IF n \in DOMAIN row THEN Cross(selected, row[n]) ELSE selected

\* A function with the walk's states, up to sequence number n.
Steps(row, n, g) ==
  g[-1] = NoEvent /\ \A k \in 0..n : g[k] = Onward(row, k, g[k - 1])

LEMMA StepsExist ==
  ASSUME NEW row, NEW n \in Nat
  PROVE  \E g : Steps(row, n, g)
<1> DEFINE T == {k \in Nat : \E g : Steps(row, k, g)}
<1>1. 0 \in T
  <2> DEFINE g == [k \in {-1, 0} |-> IF k = -1 THEN NoEvent ELSE Onward(row, 0, NoEvent)]
  <2>1. Steps(row, 0, g)
    BY DEF Steps
  <2> QED BY <2>1
<1>2. ASSUME NEW k \in Nat, k \in T PROVE k + 1 \in T
  <2>1. PICK g : Steps(row, k, g)
    BY <1>2
  <2> DEFINE h == [j \in -1..(k + 1) |-> IF j <= k THEN g[j] ELSE Onward(row, k + 1, g[k])]
  <2>2. h[-1] = NoEvent
    BY <2>1 DEF Steps
  <2>3. ASSUME NEW j \in 0..(k + 1) PROVE h[j] = Onward(row, j, h[j - 1])
    BY <2>1 DEF Steps
  <2>4. Steps(row, k + 1, h)
    BY <2>2, <2>3 DEF Steps
  <2> QED BY <2>4
<1> HIDE DEF T
<1>3. n \in T
  BY <1>1, <1>2, Induct
<1> QED BY <1>3 DEF T

\* The recursion of Walk is well defined: it steps from NoEvent through every
\* sequence number in order.
LEMMA WalkSteps ==
  ASSUME NEW row
  PROVE  \E g : Steps(row, MaxSequence, g) /\ Walk(row) = g[MaxSequence]
<1> DEFINE Equation(g) == g = [n \in -1..MaxSequence |->
                               IF n = -1 THEN NoEvent
                               ELSE IF n \in DOMAIN row THEN Cross(g[n - 1], row[n])
                               ELSE g[n - 1]]
<1> USE SequenceAssumption
<1>1. \E g : Equation(g)
  <2>1. PICK g : Steps(row, MaxSequence, g)
    BY StepsExist
  <2> DEFINE h == [n \in -1..MaxSequence |-> g[n]]
  <2>2. ASSUME NEW n \in -1..MaxSequence
        PROVE  h[n] = IF n = -1 THEN NoEvent
                      ELSE IF n \in DOMAIN row THEN Cross(h[n - 1], row[n])
                      ELSE h[n - 1]
    BY <2>1 DEF Steps, Onward
  <2>3. Equation(h)
    BY <2>2
  <2> QED BY <2>3
<1> DEFINE h == CHOOSE g : Equation(g)
<1>2. Equation(h)
  BY <1>1, Zenon
<1>3. Walk(row) = h[MaxSequence]
  BY Zenon DEF Walk
<1> HIDE DEF h
<1>4. h[-1] = NoEvent
  BY <1>2
<1>5. ASSUME NEW n \in 0..MaxSequence PROVE h[n] = Onward(row, n, h[n - 1])
  BY <1>2 DEF Onward
<1>6. Steps(row, MaxSequence, h)
  BY <1>4, <1>5 DEF Steps
<1> QED BY <1>3, <1>6

-----------------------------------------------------------------------------
(* What the walk finds.                                                     *)

\* A history that carries authority and does not contradict itself.
Orderly(E) == E \subseteq BookingEvent /\ Attributed(E) /\ ~Conflict(E)

\* One lifetime, and one event for each sequence number.
LEMMA OrderlyEvents ==
  ASSUME NEW E, Orderly(E)
  PROVE  /\ \A e \in E : e.authority \in Authority /\ e.authority.sequence \in 0..MaxSequence
         /\ \A e \in E : ~e.issues /\ e # Broken
         /\ \A d, e \in E : d.authority.lifetime = e.authority.lifetime
         /\ \A d, e \in E : d.authority.sequence = e.authority.sequence => d = e
<1>1. ASSUME NEW e \in E PROVE e \in BookingEvent /\ e.authority \in Authority
  BY DEF Orderly, Attributed, BookingEvent
<1>2. ASSUME NEW e \in E PROVE e.authority.sequence \in 0..MaxSequence
  BY <1>1 DEF Authority
<1>3. ASSUME NEW e \in E PROVE ~e.issues /\ e # Broken
  <2>1. e.kind \in Kinds
    BY <1>1 DEF BookingEvent
  <2>2. Broken.kind = "INVALID"
    BY DEF Broken, NoEvent
  <2> QED BY <2>1, <2>2 DEF Orderly, Conflict, Kinds
<1>4. ASSUME NEW d \in E, NEW e \in E PROVE d.authority.lifetime = e.authority.lifetime
  BY DEF Orderly, Conflict, Collide, Attributed
<1>5. ASSUME NEW d \in E, NEW e \in E, d.authority.sequence = e.authority.sequence
      PROVE  d = e
  <2>1. Fact(d) = Fact(e)
    BY <1>5 DEF Orderly, Conflict, Contradicts
  <2>2. d.authority = e.authority
    BY <1>1, <1>4, <1>5 DEF Authority
  <2>3. d.issues = FALSE /\ e.issues = FALSE
    BY <1>1, <1>3 DEF BookingEvent
  <2> QED BY <1>1, <2>1, <2>2, <2>3 DEF Fact, BookingEvent
<1> QED BY <1>1, <1>2, <1>3, <1>4, <1>5

\* The events up to a sequence number.
UpTo(E, n) == {e \in E : e.authority.sequence <= n}

\* The walk broke at a reinstatement that does not find what it names cancelled.
BrokeJustly(s, E, n) == \E r \in UpTo(E, n) : IsReinstatement(r) /\ ~FindsCancelled(s, E, r)

\* The walk holds the last cancellation, not reinstated, or the newest event when
\* the last cancellation was reinstated.
HoldsCancellation(E, n, h) ==
  /\ LastCancellation(UpTo(E, n), h)
  /\ \A r \in UpTo(E, n) : IsReinstatement(r) => r.authority.sequence < h.authority.sequence

HoldsNewest(E, n, h) ==
  /\ ~IsCancellation(h)
  /\ h \in UpTo(E, n) \/ (UpTo(E, n) = {} /\ h = NoEvent)
  /\ \A x \in UpTo(E, n) : x.authority.sequence <= h.authority.sequence
  /\ \A c \in UpTo(E, n) : LastCancellation(UpTo(E, n), c) => \E r \in UpTo(E, n) : Names(r, c)

Found(s, E, n, h) ==
  \/ h = Broken /\ BrokeJustly(s, E, n)
  \/ /\ h # Broken
     /\ ~BrokeJustly(s, E, n)
     /\ HoldsCancellation(E, n, h) \/ HoldsNewest(E, n, h)

\* One sequence number further.
LEMMA FoundFurther ==
  ASSUME NEW s, NEW E, Orderly(E), NEW row \in Rows(E),
         \A e \in E : IsReinstatement(e) => Linked(s, E, e),
         NEW n \in 0..MaxSequence, NEW h, Found(s, E, n - 1, h)
  PROVE  Found(s, E, n, Onward(row, n, h))
<1> USE SequenceAssumption
<1> DEFINE old == UpTo(E, n - 1)
           new == UpTo(E, n)
<1>1. /\ \A e \in E : e.authority.sequence \in 0..MaxSequence /\ e # Broken
      /\ \A d, e \in E : d.authority.lifetime = e.authority.lifetime
      /\ \A d, e \in E : d.authority.sequence = e.authority.sequence => d = e
  BY OrderlyEvents
<1>2. DOMAIN row = {e.authority.sequence : e \in E} /\ \A k \in DOMAIN row : row[k] \in E /\ row[k].authority.sequence = k
  BY DEF Rows
<1>3. CASE n \notin DOMAIN row
  <2>1. old = new
    <3>1. \A e \in E : e.authority.sequence # n
      BY <1>2, <1>3
    <3> QED BY <1>1, <3>1 DEF UpTo
  <2>2. Onward(row, n, h) = h
    BY <1>3 DEF Onward
  <2> QED BY <2>1, <2>2 DEF Found, BrokeJustly, HoldsCancellation, HoldsNewest
<1>4. CASE n \in DOMAIN row
  <2> DEFINE e == row[n]
  <2>1. e \in E /\ e.authority.sequence = n
    BY <1>2, <1>4
  <2>2. \A x \in E : x \in new <=> x \in old \/ x = e
    BY <1>1, <2>1 DEF UpTo
  <2>3. \A x \in old : x \in E /\ x.authority.sequence < n
    BY <1>1 DEF UpTo
  <2>4. e \in new /\ old \subseteq new /\ new \subseteq E
    BY <2>1, <2>2 DEF UpTo
  <2>5. Onward(row, n, h) = Cross(h, e)
    BY <1>4 DEF Onward
  <2> HIDE DEF e, old, new
  <2>6. CASE h = Broken
    <3>1. BrokeJustly(s, E, n)
      BY <2>4, <2>6 DEF Found, BrokeJustly, old, new
    <3>2. Cross(h, e) = Broken
      BY <2>6 DEF Cross
    <3> QED BY <2>5, <3>1, <3>2 DEF Found
  <2>7. CASE h # Broken /\ IsCancellation(e)
    <3>1. Cross(h, e) = e
      BY <2>7 DEF Cross
    <3>2. ~IsReinstatement(e)
      BY <2>1, <2>7 DEF Linked
    <3>3. ~BrokeJustly(s, E, n)
      BY <2>2, <2>4, <2>7, <3>2 DEF Found, BrokeJustly, old, new
    <3>4. HoldsCancellation(E, n, e)
      <4>1. LastCancellation(new, e)
        BY <1>1, <2>1, <2>2, <2>3, <2>4, <2>7 DEF LastCancellation
      <4>2. \A r \in new : IsReinstatement(r) => r.authority.sequence < e.authority.sequence
        BY <2>1, <2>2, <2>3, <2>4, <3>2
      <4> QED BY <4>1, <4>2 DEF HoldsCancellation, new
    <3> QED BY <1>1, <2>1, <2>5, <3>1, <3>3, <3>4 DEF Found
  <2>8. CASE h # Broken /\ ~IsCancellation(e) /\ ~IsReinstatement(e)
    <3>1. ~BrokeJustly(s, E, n)
      BY <2>2, <2>4, <2>8 DEF Found, BrokeJustly, old, new
    <3>2. CASE IsCancellation(h)
      <4>1. Cross(h, e) = h
        BY <2>8, <3>2 DEF Cross
      <4>2. HoldsCancellation(E, n - 1, h)
        BY <2>8, <3>2 DEF Found, HoldsNewest
      <4>3. LastCancellation(new, h)
        BY <2>2, <2>4, <2>8, <4>2 DEF HoldsCancellation, LastCancellation, old
      <4>4. \A r \in new : IsReinstatement(r) => r.authority.sequence < h.authority.sequence
        BY <2>2, <2>4, <2>8, <4>2 DEF HoldsCancellation, old
      <4> QED BY <2>5, <2>8, <3>1, <4>1, <4>3, <4>4 DEF Found, HoldsCancellation, new
    <3>3. CASE ~IsCancellation(h)
      <4>1. Cross(h, e) = e
        BY <2>8, <3>3 DEF Cross
      <4>2. HoldsNewest(E, n - 1, h)
        BY <2>8, <3>3 DEF Found, HoldsCancellation, LastCancellation
      <4>3. \A x \in new : x.authority.sequence <= e.authority.sequence
        BY <1>1, <2>1, <2>2, <2>3, <2>4
      <4>4. ASSUME NEW c \in new, LastCancellation(new, c) PROVE \E r \in new : Names(r, c)
        <5>1. c \in old /\ LastCancellation(old, c)
          BY <2>2, <2>4, <2>8, <4>4 DEF LastCancellation
        <5> QED BY <2>4, <4>2, <5>1 DEF HoldsNewest, old
      <4>5. HoldsNewest(E, n, e)
        BY <2>4, <2>8, <4>3, <4>4 DEF HoldsNewest, new
      <4> QED BY <1>1, <2>1, <2>5, <3>1, <4>1, <4>5 DEF Found
    <3> QED BY <3>2, <3>3
  <2>9. CASE h # Broken /\ ~IsCancellation(e) /\ IsReinstatement(e)
    <3>1. /\ e.reinstatement.segment = s
          /\ Older(e.reinstatement.authority, e.authority)
          /\ \E c \in E : IsCancellation(c) /\ c.authority = e.reinstatement.authority
      BY <2>1, <2>9 DEF Linked
    <3>2. CASE IsCancellation(h) /\ e.reinstatement.authority = h.authority
      <4>1. Cross(h, e) = e
        BY <2>9, <3>2 DEF Cross
      <4>2. HoldsCancellation(E, n - 1, h)
        BY <2>9, <3>2 DEF Found, HoldsNewest
      <4>3. h \in old /\ h \in E
        BY <2>3, <4>2 DEF HoldsCancellation, LastCancellation, old
      <4>4. ASSUME NEW x \in E, Older(h.authority, x.authority), Older(x.authority, e.authority)
            PROVE  ~IsCancellation(x) /\ ~IsReinstatement(x)
        <5>1. x.authority.sequence < n /\ h.authority.sequence < x.authority.sequence
          BY <2>1, <4>4 DEF Older
        <5>2. x \in old
          BY <1>1, <5>1 DEF old, UpTo
        <5> QED BY <1>1, <4>2, <4>3, <5>1, <5>2 DEF HoldsCancellation, LastCancellation, old
      <4>5. FindsCancelled(s, E, e)
        BY <2>9, <3>1, <3>2, <4>3, <4>4 DEF FindsCancelled, Names
      <4>6. ~BrokeJustly(s, E, n)
        BY <2>2, <2>4, <2>9, <4>5 DEF Found, BrokeJustly, old, new
      <4>7. \A x \in new : x.authority.sequence <= e.authority.sequence
        BY <1>1, <2>1, <2>2, <2>3, <2>4
      <4>8. ASSUME NEW c \in new, LastCancellation(new, c) PROVE Names(e, c)
        <5>1. c \in old /\ LastCancellation(old, c)
          BY <2>2, <2>4, <2>9, <4>8 DEF LastCancellation
        <5>2. c.authority.sequence = h.authority.sequence
          BY <1>1, <2>3, <4>2, <4>3, <5>1 DEF HoldsCancellation, LastCancellation, old
        <5>3. c = h
          BY <1>1, <2>3, <4>3, <5>1, <5>2
        <5> QED BY <2>9, <3>2, <5>3 DEF Names
      <4>9. HoldsNewest(E, n, e)
        BY <2>4, <2>9, <4>7, <4>8 DEF HoldsNewest, new
      <4> QED BY <1>1, <2>1, <2>5, <4>1, <4>6, <4>9 DEF Found
    <3>3. CASE ~(IsCancellation(h) /\ e.reinstatement.authority = h.authority)
      <4>1. Cross(h, e) = Broken
        BY <2>9, <3>3 DEF Cross
      <4>2. ASSUME FindsCancelled(s, E, e) PROVE FALSE
        <5>1. PICK c \in E : /\ IsCancellation(c) /\ Names(e, c) /\ Older(c.authority, e.authority)
                             /\ \A x \in E : Older(c.authority, x.authority) /\ Older(x.authority, e.authority) =>
                                  ~IsCancellation(x) /\ ~IsReinstatement(x)
          BY <4>2 DEF FindsCancelled
        <5>2. c \in old
          BY <1>1, <2>1, <5>1 DEF Older, old, UpTo
        <5>3. \A x \in old : c.authority.sequence < x.authority.sequence => ~IsCancellation(x) /\ ~IsReinstatement(x)
          BY <1>1, <2>1, <2>3, <5>1, <5>2 DEF Older
        <5>4. CASE IsCancellation(h)
          <6>1. HoldsCancellation(E, n - 1, h)
            BY <2>9, <5>4 DEF Found, HoldsNewest
          <6>2. h \in old /\ h \in E /\ c.authority.sequence <= h.authority.sequence
            BY <2>3, <5>1, <5>2, <6>1 DEF HoldsCancellation, LastCancellation, old
          <6>3. c # h
            BY <3>3, <5>1, <5>4 DEF Names
          <6>4. c.authority.sequence # h.authority.sequence
            BY <1>1, <6>2, <6>3
          <6> QED BY <1>1, <5>3, <5>4, <6>2, <6>4
        <5>5. CASE ~IsCancellation(h)
          <6>1. HoldsNewest(E, n - 1, h) /\ ~BrokeJustly(s, E, n - 1)
            BY <2>9, <5>5 DEF Found, HoldsCancellation, LastCancellation
          <6>2. LastCancellation(old, c)
            BY <1>1, <2>3, <5>1, <5>2, <5>3 DEF LastCancellation
          <6>3. PICK r \in old : Names(r, c)
            BY <5>2, <6>1, <6>2 DEF HoldsNewest, old
          <6>4. FindsCancelled(s, E, r)
            BY <6>1, <6>3 DEF BrokeJustly, Names, old
          <6>5. c.authority.sequence < r.authority.sequence
            BY <6>3, <6>4 DEF FindsCancelled, Names, Older
          <6> QED BY <5>3, <6>3, <6>5 DEF Names
        <5> QED BY <5>4, <5>5
      <4>3. BrokeJustly(s, E, n)
        BY <2>4, <2>9, <4>2 DEF BrokeJustly, new
      <4> QED BY <2>5, <4>1, <4>3 DEF Found
    <3> QED BY <3>2, <3>3
  <2> QED BY <2>6, <2>7, <2>8, <2>9
<1> QED BY <1>3, <1>4

\* The walk through a whole history.
LEMMA WalkFinds ==
  ASSUME NEW s, NEW E, Orderly(E), NEW row \in Rows(E),
         \A e \in E : IsReinstatement(e) => Linked(s, E, e)
  PROVE  Found(s, E, MaxSequence, Walk(row)) /\ UpTo(E, MaxSequence) = E
<1> USE SequenceAssumption
<1>1. PICK g : Steps(row, MaxSequence, g) /\ Walk(row) = g[MaxSequence]
  BY WalkSteps
<1> DEFINE T == {k \in Nat : k <= MaxSequence => Found(s, E, k, g[k])}
<1>2. UpTo(E, -1) = {} /\ UpTo(E, MaxSequence) = E
  BY OrderlyEvents DEF UpTo
<1>3. Found(s, E, -1, NoEvent)
  <2>1. NoEvent # Broken /\ ~IsCancellation(NoEvent)
    BY DEF NoEvent, Broken, IsCancellation
  <2> QED BY <1>2, <2>1 DEF Found, BrokeJustly, HoldsNewest
<1>4. \A k \in 0..MaxSequence : Found(s, E, k - 1, g[k - 1]) => Found(s, E, k, g[k])
  BY <1>1, FoundFurther DEF Steps
<1>5. 0 \in T
  <2>1. Found(s, E, 0 - 1, g[0 - 1])
    BY <1>1, <1>3 DEF Steps
  <2> QED BY <1>4, <2>1
<1>6. ASSUME NEW k \in Nat, k \in T PROVE k + 1 \in T
  <2>1. k + 1 <= MaxSequence => Found(s, E, (k + 1) - 1, g[(k + 1) - 1])
    BY <1>6
  <2> QED BY <1>4, <2>1
<1> HIDE DEF T
<1>7. MaxSequence \in T
  BY <1>5, <1>6, Induct
<1> QED BY <1>1, <1>2, <1>7 DEF T

-----------------------------------------------------------------------------
(* What a coupon shows.                                                     *)

\* The invariant: what is known of a coupon are events of its booking's mail.
EventsTyped ==
  /\ stored \subseteq Messages
  /\ \A s \in Segments : events[s] \subseteq BookingEvent

LEMMA EventsTypedAlways == Spec => []EventsTyped
<1>1. Init => EventsTyped
  BY BatchAssumption DEF Init, EventsTyped
<1>2. ASSUME EventsTyped, [Next]_vars PROVE EventsTyped'
  <2>1. CASE UNCHANGED vars
    BY <1>2, <2>1 DEF vars, EventsTyped
  <2>2. CASE Next
    <3>1. PICK batch \in Batches, p \in Policies, travelers \in Callers : CommitSync(batch, p, travelers)
      BY <2>2 DEF Next
    <3> DEFINE eligible == Eligible(stored \cup batch, p, travelers)
    <3>2. stored' = stored \cup batch /\ events' = Learned(eligible, p)
      BY <3>1 DEF CommitSync
    <3>3. \A m \in eligible : m \in Messages /\ Reading[p][m] \in BookingEvent
      BY <1>2, BatchAssumption, ReadingAssumption DEF Eligible, EventsTyped
    <3>4. stored' \subseteq Messages
      BY <1>2, <3>2, BatchAssumption DEF EventsTyped
    <3> HIDE DEF eligible
    <3>5. \A s \in Segments : events'[s] \subseteq BookingEvent
      BY <1>2, <3>2, <3>3 DEF Learned, EventsTyped
    <3> QED BY <3>4, <3>5 DEF EventsTyped
  <2> QED BY <1>2, <2>1, <2>2
<1> QED BY <1>1, <1>2, PTL DEF Spec

\* The sequence numbers of a history, and the newest row of it.
LEMMA NewestRow ==
  ASSUME NEW E \in SUBSET BookingEvent, E # {}, NEW row \in Rows(E)
  PROVE  /\ row[Max(DOMAIN row)] \in E
         /\ \A e \in E : /\ e.authority.sequence \in -1..MaxSequence
                         /\ e.authority.sequence <= row[Max(DOMAIN row)].authority.sequence
<1>1. ASSUME NEW e \in E PROVE e.authority.sequence \in -1..MaxSequence
  <2>1. e.authority \in Authority \cup {NoAuthority}
    BY DEF BookingEvent
  <2> QED BY <2>1, SequenceAssumption DEF Authority, NoAuthority
<1>2. DOMAIN row = {e.authority.sequence : e \in E} /\ \A k \in DOMAIN row : row[k] \in E /\ row[k].authority.sequence = k
  BY DEF Rows
<1>3. DOMAIN row \in SUBSET (-1..MaxSequence) /\ DOMAIN row # {}
  BY <1>1, <1>2
<1>4. Max(DOMAIN row) \in DOMAIN row /\ \A n \in DOMAIN row : n <= Max(DOMAIN row)
  BY <1>3, MaxIsLargest
<1> QED BY <1>1, <1>2, <1>4

\* Every history has rows.
LEMMA RowsExist ==
  ASSUME NEW E
  PROVE  Rows(E) # {}
<1> DEFINE numbers == {e.authority.sequence : e \in E}
           row == [n \in numbers |-> CHOOSE e \in E : e.authority.sequence = n]
<1>1. \A n \in numbers : row[n] \in E /\ row[n].authority.sequence = n
  OBVIOUS
<1>2. row \in [numbers -> E]
  BY <1>1
<1>3. row \in Rows(E)
  BY <1>1, <1>2 DEF Rows
<1> QED BY <1>3

\* OrderIrrelevant for one history: where nothing contradicts, rows of one sequence
\* number state the same, so any of them gives the same projection.
LEMMA OneProjection ==
  ASSUME NEW s, NEW E \in SUBSET BookingEvent, E # {}, NEW a \in Rows(E), NEW b \in Rows(E)
  PROVE  Project(s, E, a) = Project(s, E, b)
<1>1. CASE Conflict(E)
  BY <1>1 DEF Project
<1>2. CASE ~Conflict(E) /\ Attributed(E)
  <2>1. Orderly(E)
    BY <1>2 DEF Orderly
  <2>2. /\ DOMAIN a = {e.authority.sequence : e \in E} /\ \A k \in DOMAIN a : a[k] \in E /\ a[k].authority.sequence = k
        /\ DOMAIN b = {e.authority.sequence : e \in E} /\ \A k \in DOMAIN b : b[k] \in E /\ b[k].authority.sequence = k
    BY DEF Rows
  <2>3. \A k \in DOMAIN a : a[k] = b[k]
    BY <2>1, <2>2, OrderlyEvents
  <2>4. a = b
    BY <2>2, <2>3 DEF Rows
  <2> QED BY <2>4
<1>3. CASE ~Conflict(E) /\ ~Attributed(E)
  <2> DEFINE x == Selected(s, E, a)
             y == Selected(s, E, b)
  <2>1. \A d, e \in E : Fact(d) = Fact(e)
    BY <1>3 DEF Conflict, Contradicts
  <2>2. \A d \in E : d # Broken
    BY DEF BookingEvent, Kinds, Broken, NoEvent
  <2>3. (x = Broken /\ y = Broken) \/ (x \in E /\ y \in E)
    BY <1>3, NewestRow DEF Selected
  <2>4. CASE x = Broken /\ y = Broken
    BY <2>4 DEF Project
  <2>5. CASE x \in E /\ y \in E
    <3>1. x.kind = y.kind /\ x.schedule = y.schedule
      BY <2>1, <2>5 DEF Fact
    <3>2. IsCancellation(x) <=> IsCancellation(y)
      BY <3>1 DEF IsCancellation
    <3>3. x # Broken /\ y # Broken
      BY <2>2, <2>5
    <3> HIDE DEF x, y
    <3>4. Project(s, E, a) = [status |-> IF IsCancellation(x) THEN "CANCELLED" ELSE "BOOKED",
                              schedule |-> x.schedule, reasons |-> {}, authority |-> NoAuthority]
      BY <1>3, <3>3 DEF Project, x
    <3>5. Project(s, E, b) = [status |-> IF IsCancellation(y) THEN "CANCELLED" ELSE "BOOKED",
                              schedule |-> y.schedule, reasons |-> {}, authority |-> NoAuthority]
      BY <1>3, <3>3 DEF Project, y
    <3> QED BY <3>1, <3>2, <3>4, <3>5
  <2> QED BY <2>3, <2>4, <2>5
<1> QED BY <1>1, <1>2, <1>3

\* OrderIrrelevant: neither the order in which mail was read nor the order in
\* which equal rows come out of the table shows in a projection.
THEOREM OneHistoryOneOutcome == Spec => []OrderIrrelevant
<1>1. EventsTyped => OrderIrrelevant
  <2> SUFFICES ASSUME EventsTyped, NEW s \in Segments, events[s] # {}
               PROVE  Cardinality(Projections(events, s)) = 1
    BY DEF OrderIrrelevant
  <2>1. PICK row \in Rows(events[s]) : TRUE
    BY RowsExist
  <2>2. \A other \in Rows(events[s]) : Project(s, events[s], other) = Project(s, events[s], row)
    BY OneProjection DEF EventsTyped
  <2>3. Projections(events, s) = {Constrain(Project(s, events[s], row), Family(events, s))}
    BY <2>2 DEF Projections
  <2> QED BY <2>3, FS_Singleton
<1> QED BY <1>1, EventsTypedAlways, PTL

-----------------------------------------------------------------------------
(* What a coupon shows is what its history says.                            *)

\* Barrier or none, the event selected from an orderly history is the one a walk
\* through it would hold.
LEMMA SelectedFound ==
  ASSUME NEW s, NEW E, Orderly(E), E # {}, NEW row \in Rows(E)
  PROVE  Found(s, E, MaxSequence, Selected(s, E, row)) /\ UpTo(E, MaxSequence) = E
<1> DEFINE x == Selected(s, E, row)
<1>1. UpTo(E, MaxSequence) = E
  BY OrderlyEvents, SequenceAssumption DEF UpTo
<1>2. CASE ~Barrier(E)
  <2>1. x = row[Max(DOMAIN row)]
    BY <1>2 DEF Selected
  <2>2. x \in E /\ \A e \in E : e.authority.sequence <= x.authority.sequence
    BY <2>1, NewestRow DEF Orderly
  <2>3. x # Broken
    BY <2>2, OrderlyEvents
  <2>4. HoldsNewest(E, MaxSequence, x)
    BY <1>1, <1>2, <2>2 DEF HoldsNewest, Barrier, LastCancellation
  <2>5. ~BrokeJustly(s, E, MaxSequence)
    BY <1>1, <1>2 DEF BrokeJustly, Barrier
  <2> QED BY <1>1, <2>3, <2>4, <2>5 DEF Found
<1>3. CASE Barrier(E) /\ \A e \in E : IsReinstatement(e) => Linked(s, E, e)
  <2>1. x = Walk(row)
    BY <1>3 DEF Selected, Orderly
  <2> QED BY <1>3, <2>1, WalkFinds
<1>4. CASE Barrier(E) /\ ~\A e \in E : IsReinstatement(e) => Linked(s, E, e)
  <2>1. x = Broken
    BY <1>4 DEF Selected, Orderly
  <2>2. PICK e \in E : IsReinstatement(e) /\ ~Linked(s, E, e)
    BY <1>4
  <2>3. ~FindsCancelled(s, E, e)
    BY <2>2 DEF FindsCancelled, Linked, Names
  <2>4. BrokeJustly(s, E, MaxSequence)
    BY <1>1, <2>2, <2>3 DEF BrokeJustly
  <2> QED BY <1>1, <2>1, <2>4 DEF Found
<1> QED BY <1>2, <1>3, <1>4

\* Without authority all documents state the same, and none may be a reinstatement.
LEMMA SelectedUnordered ==
  ASSUME NEW s, NEW E \in SUBSET BookingEvent, E # {}, ~Attributed(E), ~Conflict(E), NEW row \in Rows(E)
  PROVE  /\ \A d, e \in E : Fact(d) = Fact(e)
         /\ IF \E r \in E : IsReinstatement(r) THEN Selected(s, E, row) = Broken
            ELSE Selected(s, E, row) \in E /\ Selected(s, E, row) # Broken
<1>1. \A d, e \in E : Fact(d) = Fact(e)
  BY DEF Conflict, Contradicts
<1>2. \A d \in E : d # Broken
  BY DEF BookingEvent, Kinds, Broken, NoEvent
<1>3. CASE \E r \in E : IsReinstatement(r)
  BY <1>1, <1>3 DEF Selected, Barrier
<1>4. CASE ~\E r \in E : IsReinstatement(r)
  <2>1. Selected(s, E, row) = row[Max(DOMAIN row)]
    BY <1>4 DEF Selected
  <2> QED BY <1>1, <1>2, <1>4, <2>1, NewestRow
<1> QED BY <1>3, <1>4

\* The projection of a history says of each event what the verdict does.
LEMMA ProjectionIsVerdict ==
  ASSUME NEW s, NEW E \in SUBSET BookingEvent, NEW row \in Rows(E), NEW e \in E
  PROVE  /\ Verdict(s, E, e) \in {"UNRESOLVED", "PASSED OVER", "CANCELLED", "BOOKED"}
         /\ Verdict(s, E, e) = "UNRESOLVED" => Project(s, E, row).status = "UNRESOLVED"
         /\ Verdict(s, E, e) \in {"CANCELLED", "BOOKED"} =>
              /\ Project(s, E, row).status = Verdict(s, E, e)
              /\ Project(s, E, row).schedule = e.schedule
<1> DEFINE x == Selected(s, E, row)
           p == Project(s, E, row)
           v == Verdict(s, E, e)
<1>1. v \in {"UNRESOLVED", "PASSED OVER", "CANCELLED", "BOOKED"}
  BY DEF Verdict
<1>2. CASE Conflict(E)
  <2>1. v = "UNRESOLVED"
    BY <1>2 DEF Verdict
  <2>2. p.status = "UNRESOLVED"
    BY <1>2 DEF Project, Unresolved
  <2> QED BY <2>1, <2>2
<1>3. ASSUME ~Conflict(E), x = Broken
      PROVE  p.status = "UNRESOLVED"
  BY <1>3 DEF Project, Unresolved
<1>4. ASSUME ~Conflict(E), x # Broken
      PROVE  p.status = (IF IsCancellation(x) THEN "CANCELLED" ELSE "BOOKED") /\ p.schedule = x.schedule
  BY <1>4 DEF Project
<1>5. CASE ~Conflict(E) /\ Attributed(E)
  <2>1. Orderly(E)
    BY <1>5 DEF Orderly
  <2>2. Found(s, E, MaxSequence, x) /\ UpTo(E, MaxSequence) = E
    BY <2>1, SelectedFound
  <2>3. \A c, d \in E : c.authority.sequence = d.authority.sequence => c = d
    BY <2>1, OrderlyEvents
  <2>4. \A d \in E : d.authority.sequence \in 0..MaxSequence
    BY <2>1, OrderlyEvents
  <2> HIDE DEF x, p, v
  <2>5. CASE BrokeJustly(s, E, MaxSequence)
    <3>1. x = Broken
      BY <2>2, <2>5 DEF Found
    <3>2. v = "UNRESOLVED"
      BY <2>2, <2>5 DEF v, Verdict, BrokeJustly
    <3> QED BY <1>3, <1>5, <3>1, <3>2 DEF v, p
  <2>6. CASE ~BrokeJustly(s, E, MaxSequence)
    <3>1. \A r \in E : IsReinstatement(r) => FindsCancelled(s, E, r)
      BY <2>2, <2>6 DEF BrokeJustly
    <3>2. x # Broken
      BY <2>2, <2>6 DEF Found
    <3>3. CASE HoldsCancellation(E, MaxSequence, x)
      <4>1. LastCancellation(E, x) /\ \A r \in E : IsReinstatement(r) => r.authority.sequence < x.authority.sequence
        BY <2>2, <3>3 DEF HoldsCancellation
      <4>2. ASSUME NEW r \in E, Names(r, x) PROVE FALSE
        <5>1. x.authority.sequence < r.authority.sequence
          BY <3>1, <4>2 DEF FindsCancelled, Names, Older
        <5> QED BY <2>4, <4>1, <4>2, <5>1 DEF Names, LastCancellation
      <4>3. v = IF LastCancellation(E, e) THEN "CANCELLED" ELSE "PASSED OVER"
        <5>1. \E c \in E : LastCancellation(E, c) /\ ~\E r \in E : Names(r, c)
          BY <4>1, <4>2 DEF LastCancellation
        <5> QED BY <1>5, <3>1, <5>1 DEF v, Verdict
      <4>4. LastCancellation(E, e) => e = x
        BY <2>3, <2>4, <4>1 DEF LastCancellation
      <4>5. p.status = "CANCELLED" /\ p.schedule = x.schedule
        BY <1>4, <1>5, <3>2, <4>1 DEF LastCancellation
      <4> QED BY <4>3, <4>4, <4>5 DEF v, p
    <3>4. CASE HoldsNewest(E, MaxSequence, x)
      <4>1. x \in E /\ ~IsCancellation(x) /\ \A d \in E : d.authority.sequence <= x.authority.sequence
        BY <2>2, <3>4 DEF HoldsNewest
      <4>2. ~\E c \in E : LastCancellation(E, c) /\ ~\E r \in E : Names(r, c)
        BY <2>2, <3>4 DEF HoldsNewest
      <4>3. v = IF \E d \in E : d.authority.sequence > e.authority.sequence THEN "PASSED OVER"
                ELSE IF IsCancellation(e) THEN "CANCELLED" ELSE "BOOKED"
        BY <1>5, <3>1, <4>2 DEF v, Verdict, LastCancellation
      <4>4. ~(\E d \in E : d.authority.sequence > e.authority.sequence) => e = x
        <5>1. ASSUME ~(\E d \in E : d.authority.sequence > e.authority.sequence) PROVE e = x
          <6>1. e.authority.sequence = x.authority.sequence
            BY <2>4, <4>1, <5>1
          <6> QED BY <2>3, <4>1, <6>1
        <5> QED BY <5>1
      <4>5. p.status = "BOOKED" /\ p.schedule = x.schedule
        BY <1>4, <1>5, <3>2, <4>1
      <4> QED BY <4>1, <4>3, <4>4, <4>5 DEF v, p
    <3> QED BY <2>2, <3>2, <3>3, <3>4 DEF Found
  <2> QED BY <2>5, <2>6
<1>6. CASE ~Conflict(E) /\ ~Attributed(E)
  <2>1. /\ \A d, f \in E : Fact(d) = Fact(f)
        /\ IF \E r \in E : IsReinstatement(r) THEN x = Broken ELSE x \in E /\ x # Broken
    BY <1>6, SelectedUnordered
  <2> HIDE DEF x, p, v
  <2>2. CASE \E r \in E : IsReinstatement(r)
    <3>1. v = "UNRESOLVED"
      BY <1>6, <2>2 DEF v, Verdict
    <3> QED BY <1>3, <1>6, <2>1, <2>2, <3>1 DEF v, p
  <2>3. CASE ~\E r \in E : IsReinstatement(r)
    <3>1. v = IF \E d \in E : d.authority.sequence > e.authority.sequence THEN "PASSED OVER"
              ELSE IF IsCancellation(e) THEN "CANCELLED" ELSE "BOOKED"
      BY <1>6, <2>3 DEF v, Verdict
    <3>2. Fact(x) = Fact(e)
      BY <2>1, <2>3
    <3>3. x.schedule = e.schedule /\ (IsCancellation(x) <=> IsCancellation(e))
      BY <3>2 DEF Fact, IsCancellation
    <3> QED BY <1>4, <1>6, <2>1, <2>3, <3>1, <3>3 DEF v, p
  <2> QED BY <2>2, <2>3
<1> QED BY <1>1, <1>2, <1>5, <1>6

\* CurrentIsVerdict: the walk over the barrier shows what the history says when
\* read as a whole, for every history and every number of cancellations and
\* reinstatements in it.
THEOREM VerdictShown == Spec => []CurrentIsVerdict
<1>1. EventsTyped /\ CurrentIsProjection => CurrentIsVerdict
  <2> SUFFICES ASSUME EventsTyped, CurrentIsProjection, NEW s \in Segments, NEW e \in events[s]
               PROVE  LET verdict == Verdict(s, events[s], e)
                      IN IF Collide(Family(events, s)) THEN current[s].status \in {"CANCELLED", "UNRESOLVED"}
                         ELSE CASE verdict = "UNRESOLVED" -> current[s].status = "UNRESOLVED"
                                [] verdict = "PASSED OVER" -> TRUE
                                [] OTHER -> current[s].status = verdict /\ current[s].schedule = e.schedule
    BY DEF CurrentIsVerdict
  <2>1. PICK row \in Rows(events[s]) : current[s] = Constrain(Project(s, events[s], row), Family(events, s))
    BY DEF CurrentIsProjection, Projections
  <2> DEFINE p == Project(s, events[s], row)
             verdict == Verdict(s, events[s], e)
  <2>2. /\ verdict \in {"UNRESOLVED", "PASSED OVER", "CANCELLED", "BOOKED"}
        /\ verdict = "UNRESOLVED" => p.status = "UNRESOLVED"
        /\ verdict \in {"CANCELLED", "BOOKED"} => p.status = verdict /\ p.schedule = e.schedule
    BY ProjectionIsVerdict DEF EventsTyped
  <2> HIDE DEF p, verdict
  <2>3. CASE Collide(Family(events, s))
    <3>1. current[s] = IF p.status # "CANCELLED" THEN Unresolved(p.reasons \cup {"BOOKING_LIFETIME_COLLISION"}) ELSE p
      BY <2>1, <2>3 DEF Constrain, p
    <3>2. current[s].status \in {"CANCELLED", "UNRESOLVED"}
      BY <3>1 DEF Unresolved
    <3> QED BY <2>3, <3>2
  <2>4. CASE ~Collide(Family(events, s))
    <3>1. current[s] = p
      BY <2>1, <2>4 DEF Constrain, p
    <3> QED BY <2>2, <2>4, <3>1 DEF verdict
  <2> QED BY <2>3, <2>4
<1> QED BY <1>1, EventsTypedAlways, NoneLeftBehind, PTL

\* ReadyIsSafe: what the read path hands to planning belongs to one lifetime,
\* has no two claims for one sequence number, and no cancellation of it stands.
THEOREM ReadyAlwaysSafe == Spec => []ReadyIsSafe
<1>1. EventsTyped /\ CurrentIsProjection => ReadyIsSafe
  <2> SUFFICES ASSUME EventsTyped, CurrentIsProjection, NEW s \in Segments, PlanningReady(Published(s))
               PROVE  /\ \A t, u \in {t \in Segments : Sibling(s, t)} :
                           \A d \in events[t], e \in events[u] : ~Collide({d, e})
                      /\ \A d, e \in events[s] : d.authority.sequence = e.authority.sequence => Fact(d) = Fact(e)
                      /\ \A c \in events[s] : IsCancellation(c) =>
                           \E r, last \in events[s] :
                             /\ IsCancellation(last) /\ r.reinstatement = [authority |-> last.authority, segment |-> s]
                             /\ c.authority.sequence <= last.authority.sequence
                             /\ last.authority.sequence < r.authority.sequence
                             /\ r.authority.sequence <= Published(s).authority.sequence
    BY DEF ReadyIsSafe
  <2> DEFINE E == events[s]
             family == Family(events, s)
  <2>1. E \in SUBSET BookingEvent
    BY DEF EventsTyped
  <2>2. ~Collide(family) /\ Published(s) = current[s]
    BY DEF PlanningReady, Published, Constrain, Unresolved
  <2>3. E # {}
    BY <2>2 DEF CurrentIsProjection, PlanningReady, NoProjection
  <2>4. PICK row \in Rows(E) : current[s] = Constrain(Project(s, E, row), family)
    BY <2>3 DEF CurrentIsProjection, Projections
  <2> DEFINE x == Selected(s, E, row)
             p == Project(s, E, row)
  <2>5. Published(s) = p
    BY <2>2, <2>4 DEF Constrain
  <2>6. p.status = "BOOKED"
    BY <2>5 DEF PlanningReady
  <2>7. ~Conflict(E) /\ x # Broken
    BY <2>6 DEF Project, Unresolved
  <2>8. ~IsCancellation(x) /\ p.authority = IF Attributed(E) THEN x.authority ELSE NoAuthority
    BY <2>6, <2>7 DEF Project
  <2>9. \A t, u \in {t \in Segments : Sibling(s, t)} : \A d \in events[t], e \in events[u] : ~Collide({d, e})
    <3>1. \A t \in {t \in Segments : Sibling(s, t)} : events[t] \subseteq family
      BY DEF Family
    <3> QED BY <2>2, <3>1 DEF Collide
  <2>10. \A d, e \in E : d.authority.sequence = e.authority.sequence => Fact(d) = Fact(e)
    BY <2>7 DEF Conflict, Contradicts
  <2>11. ASSUME NEW c \in E, IsCancellation(c)
         PROVE  \E r, last \in E :
                  /\ IsCancellation(last) /\ r.reinstatement = [authority |-> last.authority, segment |-> s]
                  /\ c.authority.sequence <= last.authority.sequence
                  /\ last.authority.sequence < r.authority.sequence
                  /\ r.authority.sequence <= Published(s).authority.sequence
    <3>1. Attributed(E)
      <4> SUFFICES ASSUME ~Attributed(E) PROVE FALSE
        OBVIOUS
      <4>1. x \in E /\ Fact(x) = Fact(c)
        BY <2>1, <2>3, <2>7, SelectedUnordered
      <4> QED BY <2>8, <2>11, <4>1 DEF Fact, IsCancellation
    <3>2. Orderly(E)
      BY <2>1, <2>7, <3>1 DEF Orderly
    <3>3. Found(s, E, MaxSequence, x) /\ UpTo(E, MaxSequence) = E
      BY <2>3, <3>2, SelectedFound
    <3>4. HoldsNewest(E, MaxSequence, x) /\ ~BrokeJustly(s, E, MaxSequence)
      BY <2>7, <2>8, <3>3 DEF Found, HoldsCancellation, LastCancellation
    <3> DEFINE numbers == {d.authority.sequence : d \in {d \in E : IsCancellation(d)}}
    <3>5. \A d \in E : d.authority.sequence \in 0..MaxSequence
      BY <3>2, OrderlyEvents
    <3>6. numbers \in SUBSET (-1..MaxSequence) /\ c.authority.sequence \in numbers
      BY <2>11, <3>5, SequenceAssumption
    <3>7. PICK n \in numbers : \A m \in numbers : m <= n
      BY <3>6, Largest
    <3>8. PICK last \in E : IsCancellation(last) /\ last.authority.sequence = n
      OBVIOUS
    <3>9. LastCancellation(E, last)
      BY <3>7, <3>8 DEF LastCancellation
    <3>10. PICK r \in E : Names(r, last)
      BY <3>3, <3>4, <3>9 DEF HoldsNewest
    <3>11. FindsCancelled(s, E, r)
      BY <3>3, <3>4, <3>10 DEF BrokeJustly, Names
    <3>12. r.reinstatement.authority = last.authority /\ r.reinstatement.segment = s /\ r.reinstatement # NoReinstatement
      BY <3>10, <3>11 DEF FindsCancelled, Names, IsReinstatement
    <3>13. r.reinstatement \in Reinstatement
      BY <2>1, <3>12 DEF BookingEvent
    <3>14. r.reinstatement = [authority |-> last.authority, segment |-> s]
      BY <3>12, <3>13 DEF Reinstatement
    <3>15. last.authority.sequence < r.authority.sequence
      BY <3>11, <3>12 DEF FindsCancelled, Names, Older
    <3>16. r.authority.sequence <= x.authority.sequence
      BY <3>3, <3>4 DEF HoldsNewest
    <3>17. Published(s).authority = x.authority
      BY <2>5, <2>8, <3>1
    <3>18. c.authority.sequence <= last.authority.sequence
      BY <2>11, <3>9 DEF LastCancellation
    <3> QED BY <3>8, <3>14, <3>15, <3>16, <3>17, <3>18
  <2> HIDE DEF E
  <2> QED BY <2>9, <2>10, <2>11 DEF E
<1> QED BY <1>1, EventsTypedAlways, NoneLeftBehind, PTL

-----------------------------------------------------------------------------
(* What is shown is written in some retained mail.                           *)

LEMMA ValuesFinite ==
  ASSUME NEW text, NEW label, IsFiniteSet(text.lines)
  PROVE  IsFiniteSet(Values(text, label))
<1> DEFINE own == {line \in text.lines : line[1] = label}
           f == [line \in own |-> line[2]]
           T == {line[2] : line \in own}
<1>1. IsFiniteSet(own)
  BY FS_Subset
<1>2. f \in Surjection(own, T)
  BY DEF Surjection
<1> HIDE DEF f
<1>3. IsFiniteSet(T)
  BY <1>1, <1>2, FS_Surjection
<1> QED BY <1>3 DEF Values

\* Where all parts agree, the value stated is the only one.
LEMMA StatedAlone ==
  ASSUME NEW text, NEW label, IsFiniteSet(text.lines), Unanimous(text, label)
  PROVE  Values(text, label) = {Stated(text, label)}
<1>1. PICK x : Values(text, label) = {x}
  BY ValuesFinite, FS_Singleton DEF Unanimous
<1> QED BY <1>1 DEF Stated

\* What an event repeats of the text it was read from.
Repeats(e, text) ==
  \E template \in Registry :
    /\ text.subject \in DOMAIN template.subjects /\ text.sender = template.sender
    /\ \E p \in Policies : template.rule \in DOMAIN Grants[p]
    /\ Values(text, "Event") = {template.subjects[text.subject]}
    /\ Values(text, "Event") = {e.kind}
    /\ Values(text, "Segment reference") = {Coupon(text)}
    /\ Values(text, "Itinerary") = {e.schedule}
    /\ e.authority # NoAuthority =>
         /\ Values(text, "Booking lifetime") = {e.authority.lifetime}
         /\ Values(text, "Airline sequence") = {e.authority.sequence}

LEMMA OrderRepeats ==
  ASSUME NEW text, IsFiniteSet(text.lines), AuthorityOf(text) # NoAuthority
  PROVE  /\ Values(text, "Booking lifetime") = {AuthorityOf(text).lifetime}
         /\ Values(text, "Airline sequence") = {AuthorityOf(text).sequence}
<1>1. OrderIsClear(text) /\ AuthorityOf(text) = Order(text)
  BY DEF AuthorityOf
<1>2. Unanimous(text, "Booking lifetime") /\ Unanimous(text, "Airline sequence")
  BY <1>1 DEF OrderIsClear, OrderLabels
<1>3. /\ Order(text).lifetime = Stated(text, "Booking lifetime")
      /\ Order(text).sequence = Stated(text, "Airline sequence")
  BY DEF Order
<1> QED BY <1>1, <1>2, <1>3, StatedAlone

LEMMA EventRepeats ==
  ASSUME NEW p \in Policies, NEW text, IsFiniteSet(text.lines), EventOf(p, text) # NoEvent
  PROVE  Identified(text) /\ Repeats(EventOf(p, text), text)
<1> DEFINE e == EventOf(p, text)
<1>1. Granted(p, text) /\ Identified(text)
  BY DEF EventOf
<1>2. e = IF p \in Ordering THEN OrderedEvent(text) ELSE PlainEvent(text)
  BY <1>1 DEF EventOf
<1>3. PICK template \in Reads(text) : template.rule \in DOMAIN Grants[p]
  BY <1>1 DEF Granted
<1>4. template \in Matching(text) /\ Readable(template, text)
  BY <1>3 DEF Reads
<1>5. template \in Registry /\ text.subject \in DOMAIN template.subjects /\ text.sender = template.sender
  BY <1>4 DEF Matching, Readable
<1>6. /\ Unanimous(text, "Event") /\ Unanimous(text, "Itinerary")
      /\ Stated(text, "Event") = template.subjects[text.subject]
  BY <1>4 DEF Readable, Announced
<1>7. Values(text, "Event") = {Stated(text, "Event")} /\ Values(text, "Itinerary") = {Stated(text, "Itinerary")}
  BY <1>6, StatedAlone
<1>8. Values(text, "Segment reference") = {Coupon(text)}
  <2> DEFINE V == Values(text, "Segment reference")
  <2>1. V # {} /\ IsFiniteSet(V) /\ Cardinality(V) <= 1
    BY <1>1, <1>4, ValuesFinite DEF Identified, Readable, ExtractionLabels
  <2> HIDE DEF V
  <2>2. Cardinality(V) \in Nat /\ Cardinality(V) # 0
    BY <2>1, FS_CardinalityType, FS_EmptySet
  <2>3. Cardinality(V) = 1
    BY <2>1, <2>2
  <2> QED BY <2>3, StatedAlone DEF Unanimous, Coupon, V
<1>9. e.kind = Stated(text, "Event") /\ e.schedule = Stated(text, "Itinerary")
      /\ e.authority \in {NoAuthority, AuthorityOf(text)}
  BY <1>2 DEF OrderedEvent, PlainEvent
<1> HIDE DEF e
<1>10. e.authority # NoAuthority =>
         /\ Values(text, "Booking lifetime") = {e.authority.lifetime}
         /\ Values(text, "Airline sequence") = {e.authority.sequence}
  BY <1>9, OrderRepeats
<1>11. Repeats(e, text)
  BY <1>3, <1>5, <1>6, <1>7, <1>8, <1>9, <1>10 DEF Repeats
<1> QED BY <1>1, <1>11 DEF e

\* What mail is linked to is what some policy read from it.
LinksAreReadings == \A m \in Messages : link[m] = NoEvent \/ \E p \in Policies : link[m] = Reading[p][m]

LEMMA LinksAreReadingsAlways == Spec => []LinksAreReadings
<1>1. Init => LinksAreReadings
  BY DEF Init, LinksAreReadings
<1>2. ASSUME LinksAreReadings, [Next]_vars PROVE LinksAreReadings'
  <2>1. CASE UNCHANGED vars
    BY <1>2, <2>1 DEF vars, LinksAreReadings
  <2>2. CASE Next
    <3>1. PICK batch \in Batches, p \in Policies, travelers \in Callers : CommitSync(batch, p, travelers)
      BY <2>2 DEF Next
    <3> QED BY <1>2, <3>1 DEF CommitSync, LinksAreReadings
  <2> QED BY <1>2, <2>1, <2>2
<1> QED BY <1>1, <1>2, PTL DEF Spec

\* A coupon that is not unresolved shows an event of its own.
LEMMA ShownIsEvent ==
  ASSUME EventsTyped, CurrentIsProjection, NEW s \in Segments, current[s].status \in {"BOOKED", "CANCELLED"}
  PROVE  \E e \in events[s] :
           /\ current[s].status = "CANCELLED" <=> IsCancellation(e)
           /\ current[s].schedule = e.schedule
           /\ current[s].authority \in {NoAuthority, e.authority}
<1> DEFINE E == events[s]
<1>1. E # {} /\ E \in SUBSET BookingEvent
  BY DEF EventsTyped, CurrentIsProjection, NoProjection
<1>2. PICK row \in Rows(E) : current[s] = Constrain(Project(s, E, row), Family(events, s))
  BY <1>1 DEF CurrentIsProjection, Projections
<1> DEFINE x == Selected(s, E, row)
           p == Project(s, E, row)
<1>3. current[s] = p
  BY <1>2 DEF Constrain, Unresolved
<1>4. ~Conflict(E) /\ x # Broken
  BY <1>3 DEF Project, Unresolved
<1>5. /\ p.status = IF IsCancellation(x) THEN "CANCELLED" ELSE "BOOKED"
      /\ p.schedule = x.schedule
      /\ p.authority = IF Attributed(E) THEN x.authority ELSE NoAuthority
  BY <1>4 DEF Project
<1>6. x \in E
  <2>1. CASE ~Attributed(E)
    BY <1>1, <1>4, <2>1, SelectedUnordered
  <2>2. CASE Attributed(E)
    <3>1. Orderly(E)
      BY <1>1, <1>4, <2>2 DEF Orderly
    <3>2. Found(s, E, MaxSequence, x) /\ UpTo(E, MaxSequence) = E
      BY <1>1, <3>1, SelectedFound
    <3> QED BY <1>1, <1>4, <3>2 DEF Found, HoldsCancellation, HoldsNewest, LastCancellation
  <2> QED BY <2>1, <2>2
<1> HIDE DEF x, p
<1>7. current[s].status = "CANCELLED" <=> IsCancellation(x)
  BY <1>3, <1>5
<1> QED BY <1>3, <1>5, <1>6, <1>7

\* ShownIsWritten: what a coupon shows, some retained mail from the sender of a
\* granted template says in so many words and in all of its parts, however many
\* messages, policies and callers came before.
THEOREM ShownWritten == Spec => []ShownIsWritten
<1>1. EventsTyped /\ CurrentIsProjection /\ Traceable /\ LinksAreReadings => ShownIsWritten
  <2> SUFFICES ASSUME EventsTyped, CurrentIsProjection, Traceable, LinksAreReadings,
                      NEW s \in Segments, current[s].status \in {"BOOKED", "CANCELLED"}
               PROVE  \E m \in stored : \E template \in Registry :
                        LET text == TextOf[m]
                            authority == current[s].authority
                        IN /\ text.subject \in DOMAIN template.subjects /\ text.sender = template.sender
                           /\ \E p \in Policies : template.rule \in DOMAIN Grants[p]
                           /\ Values(text, "Event") = {template.subjects[text.subject]}
                           /\ current[s].status = "CANCELLED" <=> "CANCELLATION" \in Values(text, "Event")
                           /\ Values(text, "Segment reference") = {s}
                           /\ Values(text, "Itinerary") = {current[s].schedule}
                           /\ authority # NoAuthority =>
                                /\ Values(text, "Booking lifetime") = {authority.lifetime}
                                /\ Values(text, "Airline sequence") = {authority.sequence}
    BY DEF ShownIsWritten
  <2>1. PICK e \in events[s] : /\ current[s].status = "CANCELLED" <=> IsCancellation(e)
                               /\ current[s].schedule = e.schedule
                               /\ current[s].authority \in {NoAuthority, e.authority}
    BY ShownIsEvent
  <2>2. PICK m \in stored : SegmentOf[m] = s /\ link[m] = e
    BY <2>1 DEF Traceable
  <2>3. m \in Messages /\ e # NoEvent
    BY <2>1 DEF EventsTyped, BookingEvent, Kinds, NoEvent
  <2>4. PICK p \in Policies : e = Reading[p][m]
    BY <2>2, <2>3 DEF LinksAreReadings
  <2> DEFINE text == TextOf[m]
  <2>5. e = EventOf(p, text)
    BY <2>3, <2>4, ReadingIsOfTexts
  <2>6. Identified(text) /\ Repeats(e, text)
    BY <2>3, <2>5, TextAssumption, EventRepeats
  <2>7. s = Coupon(text)
    BY <2>2, <2>3, <2>6, CouponIsOfTexts
  <2> HIDE DEF text
  <2>8. PICK template \in Registry :
          /\ text.subject \in DOMAIN template.subjects /\ text.sender = template.sender
          /\ \E q \in Policies : template.rule \in DOMAIN Grants[q]
          /\ Values(text, "Event") = {template.subjects[text.subject]}
          /\ Values(text, "Event") = {e.kind}
          /\ Values(text, "Segment reference") = {Coupon(text)}
          /\ Values(text, "Itinerary") = {e.schedule}
          /\ e.authority # NoAuthority =>
               /\ Values(text, "Booking lifetime") = {e.authority.lifetime}
               /\ Values(text, "Airline sequence") = {e.authority.sequence}
    BY <2>6 DEF Repeats
  <2>9. current[s].status = "CANCELLED" <=> "CANCELLATION" \in Values(text, "Event")
    BY <2>1, <2>8 DEF IsCancellation
  <2> QED BY <2>1, <2>7, <2>8, <2>9 DEF text
<1> QED BY <1>1, EventsTypedAlways, NoneLeftBehind, EverythingTraceable, LinksAreReadingsAlways, PTL
=============================================================================
