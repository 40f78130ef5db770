---------------------------- MODULE MCPlacement ----------------------------
(* Placement for TLC: this computer, a container in its room, and a VM. *)
EXTENDS Placement, TLC

CONSTANTS local, box, vm, a, b, a1, a2, b1

MCOrder == <<local, vm, box>>
MCRooms == {[hosts |-> {local, box}, size |-> 1], [hosts |-> {vm}, size |-> 1]}
MCNeeds == [r \in Request |-> 1]
AttemptSymmetry == Permutations({a1, a2})

Sent == a1 :> a @@ a2 :> a @@ b1 :> b

Scenario(s) == s @@ [k \in Kind |-> 0]

Scenarios ==
  { Scenario([dry |-> 1, exit |-> 2, return |-> 2]),
    Scenario([restart |-> 1, exit |-> 1, return |-> 1, link |-> 1]),
    Scenario([power |-> 2, exit |-> 1, return |-> 1]),
    Scenario([link |-> 2, retire |-> 1, dry |-> 1]),
    Scenario([again |-> 1, exit |-> 1]),
    Scenario([late |-> 1, restart |-> 1]) }

(* For the disagreements: a create is sent again, or handled late; an agent
   that exited is replaced. *)
AgainScenarios == {Scenario([again |-> 1])}
LateScenarios == {Scenario([late |-> 1])}
RespawnScenarios == {Scenario([exit |-> 1, return |-> 1, dry |-> 2])}

-----------------------------------------------------------------------------
(* "A placed root holds its needs on that host from the decision until the  *)
(* Tether that owns it says it is gone, ended or its agent exited"          *)
(* (docs/api-v1.md:1065), also after a retry or a create handled late.      *)
AlwaysBooked ==
  \A r \in Request, h \in Host :
    root[r][h] = "live" /\ host[h] # "retired" =>
      (book[r] # None /\ book[r].host = h) \/ intent[r] = h

(* The same of a root placed on this computer, also after the owner replaced *)
(* its agent, whose exit had released the reservation.                      *)
ReplacedIsBooked ==
  \A r \in Request :
    root[r][Local] \in {"live", "unplaced"} /\ intent[r] = Local =>
      book[r] # None /\ book[r].host = Local
=============================================================================
