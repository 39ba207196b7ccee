-------------------------- MODULE EvidenceStoreProofs --------------------------
(***************************************************************************)
(* Proofs about EvidenceStore, for any number of sessions, names, rows and *)
(* instants.                                                               *)
(*                                                                         *)
(* The properties are not inductive by themselves.  A row is explained by  *)
(* the observation it was made from, so the invariant says what every      *)
(* observation a session holds and every row of the store went through     *)
(* before it got there.                                                    *)
(***************************************************************************)
EXTENDS EvidenceStore, TLAPS

\* Every observation a session holds was accepted for it at some time.
HeldWereAccepted ==
  \A s \in Sessions : \A t \in Tables : available[s][t] # None =>
    /\ available[s][t].kind = t
    /\ \E asOf \in Times : Accepts(s, available[s][t], asOf)

\* Every row is filed under the segment of its observation, if that has one.
RowsAreFiled ==
  \A o \in Observations : stored[o] # None =>
    /\ stored[o].observation.observed <= stored[o].retrieved
    /\ stored[o].observation.segment \in {stored[o].segment, None}

IInv == TypeOK /\ HeldWereAccepted /\ RowsAreFiled

Promises == ReadyOnEvidence /\ AcknowledgedIsStored /\ RetrievalsExplained

\* A call that is accepted leaves the row it was made with, whether or not
\* the name was taken.
LEMMA InsertedIsNew ==
  ASSUME NEW old, NEW new, Compatible(old, new)
  PROVE  Inserted(old, new) = new
BY DEF Compatible, Inserted

\* What one accepted store leaves of the other rows and of its own.
LEMMA StoreObservationKeeps ==
  ASSUME TypeOK, NEW session \in Sessions, NEW name \in Observations, NEW reading \in Offered,
         NEW segment \in Segments \cup {None}, NEW retrieved \in Times,
         reading.kind = "TRAFFIC" => reading.segment = None,
         StoreObservation(session, name, reading, segment, retrieved)
  PROVE  /\ UNCHANGED <<available, attempts>>
         /\ \/ /\ answer' = [answer EXCEPT ![session] = Idle]
               /\ UNCHANGED stored
            \/ \E row \in Rows :
                 /\ stored[name] \in {None, row}
                 /\ stored' = [stored EXCEPT ![name] = row]
                 /\ answer' = [answer EXCEPT ![session] = [call |-> "stored", name |-> name, row |-> row]]
                 /\ row.observation.observed <= row.retrieved
                 /\ row.observation.segment \in {row.segment, None}
<1> DEFINE row == [observation |-> reading, segment |-> BoundSegment(reading, segment), retrieved |-> retrieved]
<1>1. row \in Rows
  <2>1. reading.segment \in Segments \cup {None}
    BY OfferedAssumption DEF Readings
  <2>2. BoundSegment(reading, segment) \in Segments \cup {None}
    BY <2>1 DEF BoundSegment
  <2> QED BY <2>2 DEF Rows
<1>2. CASE Storable(reading, segment, retrieved) /\ Compatible(stored[name], row)
  <2>1. /\ stored' = [stored EXCEPT ![name] = Inserted(@, row)]
        /\ answer' = [answer EXCEPT ![session] = [call |-> "stored", name |-> name, row |-> row]]
        /\ UNCHANGED <<available, attempts>>
    BY <1>2 DEF StoreObservation
  <2>2. Inserted(stored[name], row) = row
    BY <1>2, InsertedIsNew
  <2>3. stored' = [stored EXCEPT ![name] = row]
    BY <2>1, <2>2 DEF TypeOK
  <2>4. row.observation.observed <= row.retrieved
    BY <1>2 DEF Storable
  <2>5. row.observation.segment \in {row.segment, None}
    BY DEF BoundSegment
  <2>6. stored[name] \in {None, row}
    BY <1>2 DEF Compatible
  <2> QED BY <1>1, <2>1, <2>3, <2>4, <2>5, <2>6
<1>3. CASE ~(Storable(reading, segment, retrieved) /\ Compatible(stored[name], row))
  BY <1>3 DEF StoreObservation
<1> QED BY <1>2, <1>3

\* A store by a session is a store of an observation that names a segment
\* unless it is a location's or not the host's.
LEMMA StoreKeeps ==
  ASSUME IInv, NEW session \in Sessions, Store(session)
  PROVE  /\ UNCHANGED <<available, attempts>>
         /\ \/ /\ answer' = [answer EXCEPT ![session] = Idle]
               /\ UNCHANGED stored
            \/ \E name \in Observations, row \in Rows :
                 /\ stored[name] \in {None, row}
                 /\ stored' = [stored EXCEPT ![name] = row]
                 /\ answer' = [answer EXCEPT ![session] = [call |-> "stored", name |-> name, row |-> row]]
                 /\ row.observation.observed <= row.retrieved
                 /\ row.observation.segment \in {row.segment, None}
<1>1. PICK name \in Observations, segment \in Segments \cup {None}, retrieved \in Times :
        \/ \E table \in Tables : /\ available[session][table] # None
                                 /\ StoreObservation(session, name, available[session][table], segment, retrieved)
        \/ \E reading \in Offered :
             /\ reading.kind \in Results /\ WellFormed(reading)
             /\ StoreObservation(session, name, reading, segment, retrieved)
  BY DEF Store
<1>2. \E reading \in Offered : /\ reading.kind = "TRAFFIC" => reading.segment = None
                               /\ StoreObservation(session, name, reading, segment, retrieved)
  <2>1. CASE \E table \in Tables : /\ available[session][table] # None
                                   /\ StoreObservation(session, name, available[session][table], segment, retrieved)
    <3>1. PICK table \in Tables :
            /\ available[session][table] # None
            /\ StoreObservation(session, name, available[session][table], segment, retrieved)
      BY <2>1
    <3>2. available[session][table] \in Offered
      BY <3>1 DEF IInv, TypeOK
    <3>3. available[session][table].kind # "TRAFFIC"
      BY <3>1, KindsAssumption DEF IInv, HeldWereAccepted, HostTables
    <3> QED BY <3>1, <3>2, <3>3
  <2>2. CASE \E reading \in Offered :
               /\ reading.kind \in Results /\ WellFormed(reading)
               /\ StoreObservation(session, name, reading, segment, retrieved)
    BY <2>2 DEF WellFormed
  <2> QED BY <1>1, <2>1, <2>2
<1>3. PICK reading \in Offered : /\ reading.kind = "TRAFFIC" => reading.segment = None
                                 /\ StoreObservation(session, name, reading, segment, retrieved)
  BY <1>2
<1>4. TypeOK
  BY DEF IInv
<1> QED BY <1>3, <1>4, StoreObservationKeeps

\* What a recorded retrieval leaves.
LEMMA RecordKeeps ==
  ASSUME TypeOK, NEW session \in Sessions, RecordRetrieval(session)
  PROVE  /\ UNCHANGED <<available, stored>>
         /\ \/ /\ answer' = [answer EXCEPT ![session] = Idle]
               /\ UNCHANGED attempts
            \/ \E name \in Attempts, row \in RetrievalRows :
                 /\ Obtained(row)
                 /\ attempts[name] \in {None, row}
                 /\ attempts' = [attempts EXCEPT ![name] = row]
                 /\ answer' = [answer EXCEPT ![session] = [call |-> "recorded", name |-> name, row |-> row]]
<1>1. PICK name \in Attempts, row \in RetrievalRows :
        IF Obtained(row) /\ Compatible(attempts[name], row)
        THEN /\ attempts' = [attempts EXCEPT ![name] = Inserted(@, row)]
             /\ answer' = [answer EXCEPT ![session] = [call |-> "recorded", name |-> name, row |-> row]]
             /\ UNCHANGED <<available, stored>>
        ELSE /\ answer' = [answer EXCEPT ![session] = Idle]
             /\ UNCHANGED <<available, stored, attempts>>
  BY DEF RecordRetrieval
<1>2. CASE Obtained(row) /\ Compatible(attempts[name], row)
  <2>1. Inserted(attempts[name], row) = row
    BY <1>2, InsertedIsNew
  <2>2. attempts' = [attempts EXCEPT ![name] = row]
    BY <1>1, <1>2, <2>1 DEF TypeOK
  <2>3. attempts[name] \in {None, row}
    BY <1>2 DEF Compatible
  <2> QED BY <1>1, <1>2, <2>2, <2>3
<1>3. CASE ~(Obtained(row) /\ Compatible(attempts[name], row))
  BY <1>1, <1>3
<1> QED BY <1>2, <1>3

LEMMA InvariantInit == Init => IInv /\ Promises
<1> SUFFICES ASSUME Init PROVE IInv /\ Promises
  OBVIOUS
<1>1. TypeOK
  BY DEF Init, TypeOK, Idle, Answers
<1>2. HeldWereAccepted /\ RowsAreFiled
  BY DEF Init, HeldWereAccepted, RowsAreFiled
<1>3. Promises
  BY DEF Init, Idle, Promises, ReadyOnEvidence, AcknowledgedIsStored, RetrievalsExplained
<1> QED BY <1>1, <1>2, <1>3 DEF IInv

\* Parsing changes what a session holds, and nothing else.
LEMMA ParsePreserves ==
  ASSUME IInv, Promises, NEW session \in Sessions, ParseHostRow(session)
  PROVE  IInv' /\ Promises'
<1>1. PICK table \in Tables, reading \in Offered, asOf \in Times :
        /\ reading.kind = table /\ Accepts(session, reading, asOf)
        /\ available' = [available EXCEPT ![session][table] = reading]
        /\ UNCHANGED <<stored, attempts, answer>>
  BY DEF ParseHostRow
<1>2. TypeOK'
  BY <1>1 DEF IInv, TypeOK
<1>3. HeldWereAccepted'
  <2> SUFFICES ASSUME NEW s \in Sessions, NEW t \in Tables, available'[s][t] # None
               PROVE  /\ available'[s][t].kind = t
                      /\ \E at \in Times : Accepts(s, available'[s][t], at)
    BY DEF HeldWereAccepted, Accepts, WellFormed, Authorized
  <2>1. CASE s = session /\ t = table
    BY <1>1, <2>1 DEF IInv, TypeOK
  <2>2. CASE ~(s = session /\ t = table)
    <3>1. available'[s][t] = available[s][t]
      BY <1>1, <2>2 DEF IInv, TypeOK
    <3> QED BY <3>1 DEF IInv, HeldWereAccepted
  <2> QED BY <2>1, <2>2
<1>4. RowsAreFiled'
  BY <1>1 DEF IInv, RowsAreFiled
<1>5. Promises'
  BY <1>1 DEF Promises, ReadyOnEvidence, AcknowledgedIsStored, RetrievalsExplained, Authorized
<1> QED BY <1>2, <1>3, <1>4, <1>5 DEF IInv

\* A session that is not asked for more input was given what it holds.
LEMMA ReadyPreserves ==
  ASSUME IInv, Promises, NEW session \in Sessions, RequiredHostInput(session)
  PROVE  IInv' /\ Promises'
<1>1. PICK required \in SUBSET Tables, asOf \in Times :
        /\ Missing(session, required, asOf) = {}
        /\ answer' = [answer EXCEPT ![session] =
             [call |-> "ready", at |-> asOf, used |-> Restrict(available[session], required)]]
        /\ UNCHANGED <<available, stored, attempts>>
  BY DEF RequiredHostInput
<1> DEFINE used == Restrict(available[session], required)
<1>2. \A t \in required : /\ used[t] = available[session][t]
                          /\ used[t] \in Offered /\ used[t] # None
                          /\ used[t].segment \in {SegmentOf[session], None}
                          /\ Fresh(used[t], asOf)
  <2> SUFFICES ASSUME NEW t \in required
               PROVE  /\ used[t] = available[session][t]
                      /\ used[t] \in Offered /\ used[t] # None
                      /\ used[t].segment \in {SegmentOf[session], None}
                      /\ Fresh(used[t], asOf)
    OBVIOUS
  <2>1. t \notin Missing(session, required, asOf)
    BY <1>1
  <2>2. /\ available[session][t] # None
        /\ available[session][t].segment \in {SegmentOf[session], None}
        /\ Fresh(available[session][t], asOf)
    BY <2>1 DEF Missing
  <2>3. used[t] = available[session][t]
    BY DEF Restrict
  <2> QED BY <2>2, <2>3 DEF IInv, TypeOK
<1>3. used \in [required -> Offered]
  BY <1>2 DEF Restrict
<1>4. TypeOK'
  <2>1. [call |-> "ready", at |-> asOf, used |-> used] \in Answers
    BY <1>3 DEF Answers
  <2> QED BY <1>1, <2>1 DEF IInv, TypeOK
<1>5. HeldWereAccepted' /\ RowsAreFiled'
  BY <1>1 DEF IInv, HeldWereAccepted, RowsAreFiled, Accepts, WellFormed, Authorized
<1>6. ReadyOnEvidence'
  <2> SUFFICES ASSUME NEW s \in Sessions, answer'[s].call = "ready", NEW t \in DOMAIN answer'[s].used
               PROVE  LET reading == answer'[s].used[t] IN
                        /\ reading.kind = t /\ reading.by = "HOST"
                        /\ reading.segment = SegmentOf[s] \/ (t = "LOCATION" /\ reading.segment = None)
                        /\ Authorized(s, reading)
                        /\ answer'[s].at - reading.observed \in 0..MaxAge
    BY DEF ReadyOnEvidence, Authorized
  <2>1. CASE s = session
    <3>1. answer'[s] = [call |-> "ready", at |-> asOf, used |-> used]
      BY <1>1, <2>1 DEF IInv, TypeOK
    <3>2. t \in required /\ t \in Tables
      BY <1>3, <3>1
    <3>3. PICK at \in Times : Accepts(s, used[t], at)
      BY <1>2, <2>1, <3>2 DEF IInv, HeldWereAccepted
    <3>4. used[t].kind = t
      BY <1>2, <2>1, <3>2 DEF IInv, HeldWereAccepted
    <3>5. used[t].by = "HOST"
      BY <3>2, <3>3, <3>4 DEF Accepts, WellFormed
    <3>6. used[t].segment = SegmentOf[s] \/ (t = "LOCATION" /\ used[t].segment = None)
      BY <3>3, <3>4 DEF Accepts
    <3>7. Authorized(s, used[t])
      BY <3>3 DEF Accepts
    <3>8. asOf - used[t].observed \in 0..MaxAge
      BY <1>2, <3>2 DEF Fresh
    <3> QED BY <3>1, <3>4, <3>5, <3>6, <3>7, <3>8
  <2>2. CASE s # session
    <3>1. answer'[s] = answer[s]
      BY <1>1, <2>2 DEF IInv, TypeOK
    <3> QED BY <3>1 DEF Promises, ReadyOnEvidence
  <2> QED BY <2>1, <2>2
<1>7. AcknowledgedIsStored'
  <2> SUFFICES ASSUME NEW s \in Sessions
               PROVE  /\ answer'[s].call = "stored" => stored'[answer'[s].name] = answer'[s].row
                      /\ answer'[s].call = "recorded" => attempts'[answer'[s].name] = answer'[s].row
    BY DEF AcknowledgedIsStored
  <2>1. CASE s = session
    BY <1>1, <2>1 DEF IInv, TypeOK
  <2>2. CASE s # session
    BY <1>1, <2>2 DEF IInv, TypeOK, Promises, AcknowledgedIsStored
  <2> QED BY <2>1, <2>2
<1>8. RetrievalsExplained'
  BY <1>1 DEF Promises, RetrievalsExplained
<1> QED BY <1>4, <1>5, <1>6, <1>7, <1>8 DEF IInv, Promises

\* A session that is told anything but that it is ready leaves what the others
\* are ready with.
LEMMA OtherAnswersPreserveReady ==
  ASSUME IInv, Promises, NEW session \in Sessions, NEW told \in Answers,
         answer' = [answer EXCEPT ![session] = told], told.call # "ready"
  PROVE  ReadyOnEvidence'
<1> SUFFICES ASSUME NEW s \in Sessions, answer'[s].call = "ready"
             PROVE  answer'[s] = answer[s]
  BY DEF Promises, ReadyOnEvidence, Authorized
<1> QED BY DEF IInv, TypeOK

\* A store adds a row, or changes nothing but what its caller is told.
LEMMA StorePreserves ==
  ASSUME IInv, Promises, NEW session \in Sessions, Store(session)
  PROVE  IInv' /\ Promises'
<1>1. UNCHANGED <<available, attempts>>
  BY StoreKeeps
<1>2. HeldWereAccepted'
  BY <1>1 DEF IInv, HeldWereAccepted, Accepts, WellFormed, Authorized
<1>3. CASE answer' = [answer EXCEPT ![session] = Idle] /\ UNCHANGED stored
  <2>1. TypeOK'
    BY <1>1, <1>3 DEF IInv, TypeOK, Idle, Answers
  <2>2. RowsAreFiled'
    BY <1>3 DEF IInv, RowsAreFiled
  <2>3. ReadyOnEvidence'
    <3>1. Idle \in Answers /\ Idle.call # "ready"
      BY DEF Idle, Answers
    <3> QED BY <1>3, <3>1, OtherAnswersPreserveReady
  <2>4. AcknowledgedIsStored'
    BY <1>1, <1>3 DEF IInv, TypeOK, Promises, AcknowledgedIsStored, Idle
  <2>5. RetrievalsExplained'
    BY <1>1, <1>3 DEF Promises, RetrievalsExplained
  <2> QED BY <1>2, <2>1, <2>2, <2>3, <2>4, <2>5 DEF IInv, Promises
<1>4. CASE \E name \in Observations, row \in Rows :
             /\ stored[name] \in {None, row}
             /\ stored' = [stored EXCEPT ![name] = row]
             /\ answer' = [answer EXCEPT ![session] = [call |-> "stored", name |-> name, row |-> row]]
             /\ row.observation.observed <= row.retrieved
             /\ row.observation.segment \in {row.segment, None}
  <2>1. PICK name \in Observations, row \in Rows :
             /\ stored[name] \in {None, row}
             /\ stored' = [stored EXCEPT ![name] = row]
             /\ answer' = [answer EXCEPT ![session] = [call |-> "stored", name |-> name, row |-> row]]
             /\ row.observation.observed <= row.retrieved
             /\ row.observation.segment \in {row.segment, None}
    BY <1>4
  <2> DEFINE told == [call |-> "stored", name |-> name, row |-> row]
  <2>2. TypeOK'
    <3>1. told \in Answers
      BY DEF Answers
    <3> QED BY <1>1, <2>1, <3>1 DEF IInv, TypeOK
  <2>3. \A o \in Observations : stored'[o] = IF o = name THEN row ELSE stored[o]
    BY <2>1 DEF IInv, TypeOK
  <2>4. \A o \in Observations : stored[o] # None => stored'[o] = stored[o]
    BY <2>1, <2>3
  <2>5. RowsAreFiled'
    <3> SUFFICES ASSUME NEW o \in Observations, stored'[o] # None
                 PROVE  /\ stored'[o].observation.observed <= stored'[o].retrieved
                        /\ stored'[o].observation.segment \in {stored'[o].segment, None}
      BY DEF RowsAreFiled
    <3> QED BY <2>1, <2>3 DEF IInv, RowsAreFiled
  <2>6. ReadyOnEvidence'
    <3>1. told \in Answers /\ told.call # "ready"
      BY DEF Answers
    <3> HIDE DEF told
    <3>2. answer' = [answer EXCEPT ![session] = told]
      BY <2>1 DEF told
    <3> QED BY <3>1, <3>2, OtherAnswersPreserveReady
  <2>7. AcknowledgedIsStored'
    <3> SUFFICES ASSUME NEW s \in Sessions
                 PROVE  /\ answer'[s].call = "stored" => stored'[answer'[s].name] = answer'[s].row
                        /\ answer'[s].call = "recorded" => attempts'[answer'[s].name] = answer'[s].row
      BY DEF AcknowledgedIsStored
    <3>1. CASE s = session
      BY <2>1, <2>3, <3>1 DEF IInv, TypeOK
    <3>2. CASE s # session
      <4>1. answer'[s] = answer[s] /\ answer[s] \in Answers
        BY <2>1, <3>2 DEF IInv, TypeOK
      <4>2. answer[s].call = "recorded" => attempts'[answer[s].name] = answer[s].row
        BY <1>1 DEF Promises, AcknowledgedIsStored
      <4>3. ASSUME answer[s].call = "stored"
            PROVE  stored'[answer[s].name] = answer[s].row
        <5>1. answer[s].name \in Observations /\ answer[s].row \in Rows
          BY <4>1, <4>3 DEF Answers
        <5>2. stored[answer[s].name] = answer[s].row
          BY <4>3 DEF Promises, AcknowledgedIsStored
        <5> QED BY <2>4, <5>1, <5>2, NoneAssumption
      <4> QED BY <4>1, <4>2, <4>3
    <3> QED BY <3>1, <3>2
  <2>8. RetrievalsExplained'
    <3> SUFFICES ASSUME NEW a \in Attempts, attempts[a] # None, attempts[a].brought \in Observations
                 PROVE  stored'[attempts[a].brought] = stored[attempts[a].brought] /\ stored[attempts[a].brought] # None
      BY <1>1 DEF Promises, RetrievalsExplained
    <3>1. attempts[a].brought \in Observations
      BY DEF IInv, TypeOK, RetrievalRows
    <3>2. stored[attempts[a].brought] # None
      BY DEF Promises, RetrievalsExplained
    <3> QED BY <2>4, <3>1, <3>2
  <2> QED BY <1>2, <2>2, <2>5, <2>6, <2>7, <2>8 DEF IInv, Promises
<1> QED BY <1>3, <1>4, StoreKeeps

\* A recorded retrieval was explained by the row it names when it was recorded.
LEMMA RecordPreserves ==
  ASSUME IInv, Promises, NEW session \in Sessions, RecordRetrieval(session)
  PROVE  IInv' /\ Promises'
<1>0. TypeOK
  BY DEF IInv
<1>1. UNCHANGED <<available, stored>>
  BY <1>0, RecordKeeps
<1>2. HeldWereAccepted' /\ RowsAreFiled'
  BY <1>1 DEF IInv, HeldWereAccepted, RowsAreFiled, Accepts, WellFormed, Authorized
<1>3. CASE answer' = [answer EXCEPT ![session] = Idle] /\ UNCHANGED attempts
  <2>1. TypeOK'
    BY <1>1, <1>3 DEF IInv, TypeOK, Idle, Answers
  <2>2. ReadyOnEvidence'
    <3>1. Idle \in Answers /\ Idle.call # "ready"
      BY DEF Idle, Answers
    <3> QED BY <1>3, <3>1, OtherAnswersPreserveReady
  <2>3. AcknowledgedIsStored'
    BY <1>1, <1>3 DEF IInv, TypeOK, Promises, AcknowledgedIsStored, Idle
  <2>4. RetrievalsExplained'
    BY <1>1, <1>3 DEF Promises, RetrievalsExplained
  <2> QED BY <1>2, <2>1, <2>2, <2>3, <2>4 DEF IInv, Promises
<1>4. CASE \E name \in Attempts, row \in RetrievalRows :
             /\ Obtained(row)
             /\ attempts[name] \in {None, row}
             /\ attempts' = [attempts EXCEPT ![name] = row]
             /\ answer' = [answer EXCEPT ![session] = [call |-> "recorded", name |-> name, row |-> row]]
  <2>1. PICK name \in Attempts, row \in RetrievalRows :
             /\ Obtained(row)
             /\ attempts[name] \in {None, row}
             /\ attempts' = [attempts EXCEPT ![name] = row]
             /\ answer' = [answer EXCEPT ![session] = [call |-> "recorded", name |-> name, row |-> row]]
    BY <1>4
  <2> DEFINE told == [call |-> "recorded", name |-> name, row |-> row]
  <2>2. TypeOK'
    <3>1. told \in Answers
      BY DEF Answers
    <3> QED BY <1>1, <2>1, <3>1 DEF IInv, TypeOK
  <2>3. \A a \in Attempts : attempts'[a] = IF a = name THEN row ELSE attempts[a]
    BY <2>1 DEF IInv, TypeOK
  <2>4. ReadyOnEvidence'
    <3>1. told \in Answers /\ told.call # "ready"
      BY DEF Answers
    <3> HIDE DEF told
    <3>2. answer' = [answer EXCEPT ![session] = told]
      BY <2>1 DEF told
    <3> QED BY <3>1, <3>2, OtherAnswersPreserveReady
  <2>5. AcknowledgedIsStored'
    <3> SUFFICES ASSUME NEW s \in Sessions
                 PROVE  /\ answer'[s].call = "stored" => stored'[answer'[s].name] = answer'[s].row
                        /\ answer'[s].call = "recorded" => attempts'[answer'[s].name] = answer'[s].row
      BY DEF AcknowledgedIsStored
    <3>1. CASE s = session
      BY <2>1, <2>3, <3>1 DEF IInv, TypeOK
    <3>2. CASE s # session
      <4>1. answer'[s] = answer[s] /\ answer[s] \in Answers
        BY <2>1, <3>2 DEF IInv, TypeOK
      <4>2. answer[s].call = "stored" => stored'[answer[s].name] = answer[s].row
        BY <1>1 DEF Promises, AcknowledgedIsStored
      <4>3. ASSUME answer[s].call = "recorded"
            PROVE  attempts'[answer[s].name] = answer[s].row
        <5>1. answer[s].name \in Attempts /\ answer[s].row \in RetrievalRows
          BY <4>1, <4>3 DEF Answers
        <5>2. attempts[answer[s].name] = answer[s].row
          BY <4>3 DEF Promises, AcknowledgedIsStored
        <5> QED BY <2>1, <2>3, <5>1, <5>2, NoneAssumption
      <4> QED BY <4>1, <4>2, <4>3
    <3> QED BY <3>1, <3>2
  <2>6. RetrievalsExplained'
    <3> SUFFICES ASSUME NEW a \in Attempts, attempts'[a] # None, attempts'[a].brought \in Observations
                 PROVE  LET found == stored[attempts'[a].brought] IN
                          /\ found # None
                          /\ found.observation.kind = attempts'[a].kind
                          /\ attempts'[a].segment = found.segment
                          /\ found.observation.segment \in {found.segment, None}
                          /\ found.observation.observed <= found.retrieved
                          /\ found.retrieved <= attempts'[a].at
      BY <1>1 DEF RetrievalsExplained
    <3>1. CASE a = name
      <4>1. attempts'[a] = row
        BY <2>3, <3>1
      <4>2. row.brought \in Observations
        BY <4>1 DEF RetrievalRows
      <4>3. LET found == stored[row.brought] IN
              /\ found # None /\ found.segment = row.segment
              /\ found.observation.kind = row.kind /\ found.retrieved <= row.at
        BY <2>1, <4>1 DEF Obtained
      <4> QED BY <4>1, <4>2, <4>3 DEF IInv, RowsAreFiled
    <3>2. CASE a # name
      BY <2>3, <3>2 DEF Promises, RetrievalsExplained
    <3> QED BY <3>1, <3>2
  <2> QED BY <1>2, <2>2, <2>4, <2>5, <2>6 DEF IInv, Promises
<1> QED BY <1>0, <1>3, <1>4, RecordKeeps

\* A process that ends forgets what it held and what it was told.
LEMMA CrashPreserves ==
  ASSUME IInv, Promises, NEW session \in Sessions, Crash(session)
  PROVE  IInv' /\ Promises'
<1> USE DEF Crash
<1>1. TypeOK'
  BY DEF IInv, TypeOK, Idle, Answers
<1>2. HeldWereAccepted'
  <2> SUFFICES ASSUME NEW s \in Sessions, NEW t \in Tables, available'[s][t] # None
               PROVE  available'[s][t] = available[s][t]
    BY DEF IInv, HeldWereAccepted, Accepts, WellFormed, Authorized
  <2> QED BY DEF IInv, TypeOK
<1>3. RowsAreFiled'
  BY DEF IInv, RowsAreFiled
<1>4. ReadyOnEvidence'
  <2>1. Idle \in Answers /\ Idle.call # "ready"
    BY DEF Idle, Answers
  <2> QED BY <2>1, OtherAnswersPreserveReady
<1>5. AcknowledgedIsStored'
  BY DEF IInv, TypeOK, Promises, AcknowledgedIsStored, Idle
<1>6. RetrievalsExplained'
  BY DEF Promises, RetrievalsExplained
<1> QED BY <1>1, <1>2, <1>3, <1>4, <1>5, <1>6 DEF IInv, Promises

LEMMA InvariantStep == IInv /\ Promises /\ [Next]_vars => IInv' /\ Promises'
<1> SUFFICES ASSUME IInv, Promises, [Next]_vars PROVE IInv' /\ Promises'
  OBVIOUS
<1>1. ASSUME NEW session \in Sessions, Step(session) PROVE IInv' /\ Promises'
  BY <1>1, ParsePreserves, ReadyPreserves, StorePreserves, RecordPreserves, CrashPreserves DEF Step
<1>2. CASE UNCHANGED vars
  BY <1>2 DEF vars, IInv, TypeOK, HeldWereAccepted, RowsAreFiled, Accepts, WellFormed, Authorized,
              Promises, ReadyOnEvidence, AcknowledgedIsStored, RetrievalsExplained
<1> QED BY <1>1, <1>2 DEF Next

LEMMA Invariance == Spec => [](IInv /\ Promises)
BY InvariantInit, InvariantStep, PTL DEF Spec

\* Every variable keeps its type, and so every row its columns.
THEOREM TypeCorrect == Spec => []TypeOK
<1>1. IInv /\ Promises => TypeOK
  BY DEF IInv
<1> QED BY <1>1, Invariance, PTL

\* Every session is ready on its own, fresh, host-read evidence only, whatever
\* rows it was offered and in whatever order.
THEOREM SessionsAreReadyOnEvidence == Spec => []ReadyOnEvidence
<1>1. IInv /\ Promises => ReadyOnEvidence
  BY DEF Promises
<1> QED BY <1>1, Invariance, PTL

\* Whatever a session was told is stored stays stored as it said.
THEOREM AcknowledgedStays == Spec => []AcknowledgedIsStored
<1>1. IInv /\ Promises => AcknowledgedIsStored
  BY DEF Promises
<1> QED BY <1>1, Invariance, PTL

\* Every successful retrieval is explained by evidence that preceded it.
THEOREM RetrievalsAreExplained == Spec => []RetrievalsExplained
<1>1. IInv /\ Promises => RetrievalsExplained
  BY DEF Promises
<1> QED BY <1>1, Invariance, PTL
=============================================================================
