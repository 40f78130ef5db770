------------------------------ MODULE MCDeploy ------------------------------
(* Deploy for TLC: three commits in a line and one beside them, two units,
   the scenarios, and what deploys ask for. *)
EXTENDS Deploy, TLC

CONSTANTS web, worker, c1, c2, c3, side

MCAncestors == (c1 :> {c1}) @@ (c2 :> {c1, c2}) @@ (c3 :> {c1, c2, c3}) @@ (side :> {c1, c2, side})
MCBefore == (web :> c1) @@ (worker :> None)

Ask(sha, units, pageToo, opsToo) ==
  [sha |-> sha, back |-> FALSE, units |-> units, page |-> pageToo, ops |-> opsToo]

MCWants ==
  { Ask(c3, {web, worker}, FALSE, TRUE), Ask(c2, {worker}, TRUE, FALSE),
    Ask(side, {worker}, FALSE, FALSE), [Ask(c1, {}, TRUE, TRUE) EXCEPT !.back = TRUE] }

Scenario(b) == b @@ [k \in Kind |-> 0]

Scenarios ==
  { Scenario([calls |-> 3, kills |-> 1]),
    Scenario([calls |-> 2, kills |-> 1, faults |-> 1, refusals |-> 1]),
    Scenario([calls |-> 1, faults |-> 2, restarts |-> 1]),
    Scenario([calls |-> 2, reboots |-> 1]),
    Scenario([calls |-> 1, reboots |-> 1, faults |-> 1, asks |-> 1]) }

(* For the disagreement: a page alone, then the backend. *)
PageWants == {Ask(c3, {}, TRUE, FALSE), Ask(c2, {web}, FALSE, FALSE)}
PageScenarios == {Scenario([calls |-> 2])}

=============================================================================
