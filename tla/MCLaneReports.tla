--------------------------- MODULE MCLaneReports ---------------------------
(* LaneReports for TLC: the scenarios, each a budget of outside events. *)
EXTENDS LaneReports, TLC

Scenario(b) == b @@ [k \in Kind |-> 0]

Scenarios ==
  { Scenario([turn |-> 3, send |-> 1]),
    Scenario([turn |-> 2, tell |-> 1, restart |-> 1]),
    Scenario([turn |-> 2, exit |-> 1, return |-> 1, restart |-> 1]),
    Scenario([turn |-> 2, send |-> 1, wait |-> 1]),
    Scenario([turn |-> 1, wait |-> 1, settled |-> 1, exit |-> 1, end |-> 2]),
    Scenario([exit |-> 2, return |-> 1, wait |-> 1, settled |-> 1]),
    Scenario([turn |-> 2, send |-> 2, restart |-> 1]),
    Scenario([turn |-> 1, watch |-> 1, end |-> 1, block |-> 1, party |-> 1, restart |-> 1]) }

=============================================================================
