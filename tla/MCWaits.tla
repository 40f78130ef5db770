------------------------------ MODULE MCWaits ------------------------------
(* Waits for TLC: the scenarios, each a budget of outside events. *)
EXTENDS Waits, TLC

Scenario(b) == b @@ [k \in Kind |-> 0]

Scenarios ==
  { Scenario([arm |-> 2, change |-> 2, cancel |-> 1, restart |-> 1]),
    Scenario([arm |-> 2, change |-> 1, deadline |-> 1, end |-> 1]),
    Scenario([arm |-> 1, change |-> 2, deadline |-> 1, poll |-> 2, cancel |-> 1]),
    Scenario([arm |-> 1, change |-> 1, end |-> 1, restart |-> 1, poll |-> 1]),
    Scenario([arm |-> 2, change |-> 2, end |-> 1]),
    Scenario([arm |-> 3, cancel |-> 1, end |-> 1]),
    Scenario([arm |-> 1, change |-> 1, end |-> 2]) }

(* For the disagreements: Ends only. *)
KeptScenarios == {Scenario([arm |-> 1, end |-> 2])}

=============================================================================
