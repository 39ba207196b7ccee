----------------------------- MODULE EvidenceStore -----------------------------
(***************************************************************************)
(* Sessions that turn rows read by a host, and the results of providers,   *)
(* into evidence (travel_agent/live/observations.py), keep it in the       *)
(* database they share (travel_agent/live/repository.py), and ask the host *)
(* again for what is missing or too old.                                   *)
(*                                                                         *)
(* A call on the repository is one transaction.  Its caller gives it every *)
(* time and name it uses: nothing orders the times of two calls, a call    *)
(* whose answer was lost is made again with the same values or with newer  *)
(* ones, and two sessions may use the same name.  A call that finds the    *)
(* database locked is one not made.  The values read, the names of their   *)
(* sources and V8 segment ids are left out, and so are checks of types.    *)
(***************************************************************************)
EXTENDS Integers, Functions

CONSTANTS
  Sessions, Segments,
  SegmentOf,      \* of each session, the segment it plans
  AirportOf,      \* of each session, the airport of that segment
  PermissionsOf,  \* of each session, the location permissions it was given
  Airports, Permissions,
  Tables,         \* the host tables in use, a subset of HostTables
  Results,        \* the kinds of provider results in use, a subset of ProviderKinds
  Offered,        \* the rows hosts offer and the results providers give
  Observations,   \* names of observations
  Attempts,       \* names of retrieval attempts
  Accounts,       \* the providers, with their accounts, that retrievals ask
  Errors,         \* the typed errors of a retrieval that failed
  Times, MaxAge,  \* instants, and the age in them after which evidence is stale
  None            \* no segment, no row

HostTables == {"SECURITY", "PARKING", "RIDESHARE", "LOCATION"}
ProviderKinds == {"FLIGHT", "TRAFFIC"}
Kinds == Tables \cup Results

ASSUME SessionsAssumption ==
  /\ SegmentOf \in [Sessions -> Segments] /\ AirportOf \in [Sessions -> Airports]
  /\ PermissionsOf \in [Sessions -> SUBSET Permissions]
ASSUME KindsAssumption == Tables \subseteq HostTables /\ Results \subseteq ProviderKinds
ASSUME TimesAssumption == Times \subseteq Int /\ MaxAge \in Nat

VARIABLES
  available,   \* of each session and table, the observation it holds, or None
  stored,      \* live_observations: of each name, its row, or None
  attempts,    \* retrieval_attempts: of each name, its row, or None
  answer       \* of each session, what its last call was told

vars == <<available, stored, attempts, answer>>

\* What a host says it read, or a provider answered.  place is the airport the
\* observation names, or the permission a location was read under.
Readings == [kind : Kinds, segment : Segments \cup {None}, place : Airports \cup Permissions,
             observed : Times, by : {"HOST", "PROVIDER", "SIMULATED"}]

ASSUME OfferedAssumption == Offered \subseteq Readings

Rows == [observation : Offered, segment : Segments \cup {None}, retrieved : Times]

\* What a retrieval brought: the observation stored under a name, or an error.
RetrievalRows == [account : Accounts, kind : Kinds, segment : Segments \cup {None}, at : Times,
                  brought : Observations \cup Errors]

ASSUME NoneAssumption == None \notin Segments \cup Observations \cup Offered \cup Rows \cup RetrievalRows
ASSUME ErrorsAssumption == Errors \cap Observations = {}

Answers ==
  [call : {"none"}]
    \cup [call : {"stored"}, name : Observations, row : Rows]
    \cup [call : {"recorded"}, name : Attempts, row : RetrievalRows]
    \cup UNION {[call : {"ready"}, at : Times, used : [required -> Offered]] : required \in SUBSET Tables}

TypeOK ==
  /\ available \in [Sessions -> [Tables -> Offered \cup {None}]]
  /\ stored \in [Observations -> Rows \cup {None}]
  /\ attempts \in [Attempts -> RetrievalRows \cup {None}]
  /\ answer \in [Sessions -> Answers]

\* A session that has not called, or was refused.
Idle == [call |-> "none"]

Init ==
  /\ available = [s \in Sessions |-> [t \in Tables |-> None]]
  /\ stored = [o \in Observations |-> None]
  /\ attempts = [a \in Attempts |-> None]
  /\ answer = [s \in Sessions |-> Idle]

(***************************************************************************)
(* Observations                                                            *)
(***************************************************************************)
\* The checks of a typed observation: what the host reads is the host's, and
\* about a segment unless it is a location.
WellFormed(reading) ==
  /\ reading.kind \in Tables => reading.by = "HOST"
  /\ reading.segment = None => reading.kind \in {"LOCATION", "TRAFFIC"}
  /\ reading.kind = "TRAFFIC" => reading.segment = None
  /\ reading.place \in IF reading.kind = "LOCATION" THEN Permissions ELSE Airports

\* The session's own airport, and a permission that the session has.
Authorized(session, reading) ==
  IF reading.kind = "LOCATION" THEN reading.place \in PermissionsOf[session]
                               ELSE reading.place = AirportOf[session]

\* Mutant: an observation from the future is taken for a new one.
NotStale(reading, asOf) == reading.by # "SIMULATED" /\ asOf - reading.observed <= MaxAge

\* parse_host_row, called with the session's own segment, airport and permissions
Accepts(session, reading, asOf) ==
  /\ WellFormed(reading)
  /\ reading.observed <= asOf
  /\ reading.segment = SegmentOf[session] \/ (reading.kind = "LOCATION" /\ reading.segment = None)
  /\ Authorized(session, reading)

Fresh(reading, asOf) ==
  /\ reading.by # "SIMULATED"
  /\ asOf - reading.observed \in 0..MaxAge

\* A row of a host is parsed, and takes the place of the one the session held.
ParseHostRow(session) ==
  \E table \in Tables, reading \in Offered, asOf \in Times :
    /\ reading.kind = table /\ Accepts(session, reading, asOf)
    /\ available' = [available EXCEPT ![session][table] = reading]
    /\ UNCHANGED <<stored, attempts, answer>>

\* required_host_input: the tables the host is asked for
Missing(session, required, asOf) ==
  {table \in required :
     LET held == available[session][table] IN
       \/ held = None
       \/ held.segment \notin {SegmentOf[session], None}
       \/ ~Fresh(held, asOf)}

\* Nothing is missing: the session plans with what it holds.
RequiredHostInput(session) ==
  \E required \in SUBSET Tables \ {{}}, asOf \in Times :
    /\ Missing(session, required, asOf) = {}
    /\ answer' = [answer EXCEPT ![session] =
         [call |-> "ready", at |-> asOf, used |-> Restrict(available[session], required)]]
    /\ UNCHANGED <<available, stored, attempts>>

(***************************************************************************)
(* The repository                                                          *)
(***************************************************************************)
\* The segment a row is filed under: the observation's own, or for what names
\* none and is not the host's, the caller's.
BoundSegment(reading, segment) ==
  IF reading.kind = "TRAFFIC" THEN segment ELSE reading.segment

Storable(reading, segment, retrieved) ==
  /\ segment # None => BoundSegment(reading, segment) = segment
  /\ reading.kind # "LOCATION" => BoundSegment(reading, segment) # None
  /\ reading.observed <= retrieved

\* Mutant: a name that is taken is taken for a retry.
Retried(old, new) == TRUE

\* A name that is taken may only be used again for the same row, ...
Compatible(old, new) == old \in {None, new}

\* ... which is then not written again.
Inserted(old, new) == IF old = None THEN new ELSE old

StoreObservation(session, name, reading, segment, retrieved) ==
  LET row == [observation |-> reading, segment |-> BoundSegment(reading, segment), retrieved |-> retrieved]
  IN IF Storable(reading, segment, retrieved) /\ Compatible(stored[name], row)
     THEN /\ stored' = [stored EXCEPT ![name] = Inserted(@, row)]
          /\ answer' = [answer EXCEPT ![session] = [call |-> "stored", name |-> name, row |-> row]]
          /\ UNCHANGED <<available, attempts>>
     ELSE /\ answer' = [answer EXCEPT ![session] = Idle]
          /\ UNCHANGED <<available, stored, attempts>>

\* A session stores a row it has parsed, or what a provider answered it.
Store(session) ==
  \E name \in Observations, segment \in Segments \cup {None}, retrieved \in Times :
    \/ \E table \in Tables : /\ available[session][table] # None
                             /\ StoreObservation(session, name, available[session][table], segment, retrieved)
    \/ \E reading \in Offered :
         /\ reading.kind \in Results /\ WellFormed(reading)
         /\ StoreObservation(session, name, reading, segment, retrieved)

\* What a retrieval says it obtained is there, is of that kind and segment, and
\* had been retrieved by then.
Obtained(row) ==
  row.brought \in Observations =>
    LET found == stored[row.brought] IN
      /\ found # None
      /\ found.segment = row.segment /\ found.observation.kind = row.kind
      /\ found.retrieved <= row.at

RecordRetrieval(session) ==
  \E name \in Attempts, row \in RetrievalRows :
    IF Obtained(row) /\ Compatible(attempts[name], row)
    THEN /\ attempts' = [attempts EXCEPT ![name] = Inserted(@, row)]
         /\ answer' = [answer EXCEPT ![session] = [call |-> "recorded", name |-> name, row |-> row]]
         /\ UNCHANGED <<available, stored>>
    ELSE /\ answer' = [answer EXCEPT ![session] = Idle]
         /\ UNCHANGED <<available, stored, attempts>>

\* The process of a session ends, at any point; the database stays.
Crash(session) ==
  /\ available' = [available EXCEPT ![session] = [t \in Tables |-> None]]
  /\ answer' = [answer EXCEPT ![session] = Idle]
  /\ UNCHANGED <<stored, attempts>>

Step(session) ==
  \/ ParseHostRow(session) \/ RequiredHostInput(session)
  \/ Store(session) \/ RecordRetrieval(session)
  \/ Crash(session)

Next == \E session \in Sessions : Step(session)

Spec == Init /\ [][Next]_vars

(***************************************************************************)
(* Properties                                                              *)
(***************************************************************************)
\* A session that is not asked for more host input plans with evidence a host
\* read for it: of every required table it holds an observation of its own
\* airport or under its own permission, of its own segment or of none, no older
\* than MaxAge and not from the future at the time of the decision, however
\* many rows it was offered and whatever the time each of them was parsed at.
ReadyOnEvidence ==
  \A s \in Sessions : answer[s].call = "ready" =>
    \A table \in DOMAIN answer[s].used :
      LET reading == answer[s].used[table] IN
        /\ reading.kind = table /\ reading.by = "HOST"
        /\ reading.segment = SegmentOf[s] \/ (table = "LOCATION" /\ reading.segment = None)
        /\ Authorized(s, reading)
        /\ answer[s].at - reading.observed \in 0..MaxAge

\* What a session was told is stored is stored as it said, for as long as it
\* remembers: a second session, a retry after a lost answer or one with newer
\* times neither replaces the row nor is told that its own was kept.
AcknowledgedIsStored ==
  \A s \in Sessions :
    /\ answer[s].call = "stored" => stored[answer[s].name] = answer[s].row
    /\ answer[s].call = "recorded" => attempts[answer[s].name] = answer[s].row

\* A retrieval that succeeded is explained by the evidence it names, for ever:
\* evidence of that kind and segment, observed before it was retrieved and
\* retrieved before the attempt.
RetrievalsExplained ==
  \A a \in Attempts : attempts[a] # None /\ attempts[a].brought \in Observations =>
    LET found == stored[attempts[a].brought] IN
      /\ found # None
      /\ found.observation.kind = attempts[a].kind
      /\ attempts[a].segment = found.segment
      /\ found.observation.segment \in {found.segment, None}
      /\ found.observation.observed <= found.retrieved
      /\ found.retrieved <= attempts[a].at
=============================================================================
