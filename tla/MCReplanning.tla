---------------------------- MODULE MCReplanning ----------------------------
(***************************************************************************)
(* Snapshots for TLC: a base, what differs from it in one field, and what  *)
(* differs in two of the fields that the rules relate to one another.      *)
(* Thresholds are two minutes, and three for the departure, so that every  *)
(* number is below, at or above its threshold.                             *)
(***************************************************************************)
EXTENDS Replanning, FiniteSets, TLC

MCPolicy == [traffic |-> 2, rideshare |-> 2, security |-> 2, schedule |-> 3]

MCBase ==
    [departure |-> 20, cancelled |-> FALSE, terminal |-> "A", gate |-> "A1",
     road_minutes |-> 3, rideshare_pickup_minutes |-> 1, rideshare_travel_minutes |-> 3,
     security_minutes |-> 2, active_window_conflicts |-> {},
     selected_parking_available |-> TRUE, missing_required |-> {}]

MCRelated ==
    {[MCBase EXCEPT !.departure = d, !.road_minutes = r] :
        d \in {17, 18, 22, 23}, r \in {Unknown, 4, 5}}
    \cup {[MCBase EXCEPT !.rideshare_pickup_minutes = p, !.rideshare_travel_minutes = r] :
        p \in {Unknown, 1, 2}, r \in {Unknown, 3, 4, 5}}
    \cup {[MCBase EXCEPT !.security_minutes = s, !.road_minutes = r] :
        s \in {Unknown, 1, 3, 4}, r \in {Unknown, 1, 3, 4}}
    \cup {[MCBase EXCEPT !.terminal = t, !.gate = g] :
        t \in {Unknown, "A", "B"}, g \in {Unknown, "A1", "A2"}}

MCOther ==
    {[MCBase EXCEPT !.departure = d] : d \in {17, 18, 22, 23}}
    \cup {[MCBase EXCEPT !.cancelled = TRUE, !.terminal = t] : t \in {"A", "B"}}
    \cup {[MCBase EXCEPT !.active_window_conflicts = c] : c \in {{"c"}, {"d"}, {"c", "d"}}}
    \cup {[MCBase EXCEPT !.selected_parking_available = p, !.road_minutes = r] :
        p \in {FALSE, Unknown}, r \in {3, 5}}
    \cup {[MCBase EXCEPT !.missing_required = {"flight"}, !.road_minutes = r] : r \in {3, 5}}

MCSnapshots == {MCBase} \cup MCRelated \cup MCOther
MCPlans == {MCBase} \cup MCOther
=============================================================================
