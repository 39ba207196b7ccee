--------------------------- MODULE MCEvidenceStore ---------------------------
(* A small instance of EvidenceStore: two sessions plan one segment and share *)
(* one name of an observation and one of a retrieval, which may ask either of *)
(* two accounts and fail with either of two errors.  Rows may concern another *)
(* segment, another airport, or a permission nobody gave.                     *)
EXTENDS EvidenceStore, TLC

CONSTANTS s1, s2, own, other, ATL, BOS, granted, foreign, o1, r1, a1, a2, e1, e2

MCSessions == {s1, s2}
MCSegments == {own, other}
MCAirports == {ATL, BOS}
MCPermissions == {granted, foreign}
MCAccounts == {a1, a2}
MCErrors == {e1, e2}
MCSegmentOf == [s \in MCSessions |-> own]
MCAirportOf == [s \in MCSessions |-> ATL]
MCPermissionsOf == [s \in MCSessions |-> {granted}]
MCTables == {"SECURITY", "LOCATION"}
MCResults == {"TRAFFIC"}
MCTimes == 0..1

Security(segment, place, observed, by) ==
  [kind |-> "SECURITY", segment |-> segment, place |-> place, observed |-> observed, by |-> by]
Location(segment, place, observed) ==
  [kind |-> "LOCATION", segment |-> segment, place |-> place, observed |-> observed, by |-> "HOST"]
Traffic(observed, by) ==
  [kind |-> "TRAFFIC", segment |-> None, place |-> ATL, observed |-> observed, by |-> by]

MCOffered ==
  {Security(own, ATL, t, "HOST") : t \in MCTimes}
    \cup {Security(own, ATL, 0, "SIMULATED"), Security(own, BOS, 0, "HOST"), Security(other, ATL, 0, "HOST")}
    \cup {Location(None, granted, t) : t \in MCTimes}
    \cup {Location(other, granted, 0), Location(None, foreign, 0), Traffic(1, "SIMULATED")}

\* Sessions, accounts and errors differ in nothing but their names.
Symmetry == Permutations(MCSessions) \cup Permutations(MCAccounts) \cup Permutations(MCErrors)
=============================================================================
