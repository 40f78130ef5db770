--------------------------- MODULE AgentAdmission ---------------------------
(***************************************************************************)
(* Who may start another agent (packages/tether/src/lifecycle/             *)
(* agent-admission.ts and its callers in engine.ts), with the emergency    *)
(* ceiling set: attaches, recoveries and replacements of many sessions ask *)
(* for a slot, one decision at a time scans the host's pane scopes, and a  *)
(* launch holds its slot until its agent is seen or LAUNCH_SETTLE_MS pass. *)
(*                                                                         *)
(* A launch and the scope its agent runs in are one thing.  A decision is  *)
(* as many steps as it has awaits: it begins, visits one listed scope at a *)
(* time, and is taken.  Memory, pressure and the host's verdict are a      *)
(* choice of the decision; the ceiling is the part that depends on state.  *)
(* A session that asks again is another launch.                            *)
(***************************************************************************)
EXTENDS Naturals, Sequences, FiniteSets

CONSTANTS Launches,     \* bound: agents ever started, by Tether or by hand
          NoLaunch,     \* no launch
          MaxActive     \* limits.maxActiveAgents

ASSUME AdmissionAssumption ==
  /\ IsFiniteSet(Launches)
  /\ NoLaunch \notin Launches
  /\ MaxActive \in Nat \ {0}

VARIABLES launch,    \* what became of each launch
          replaces,  \* AdmissionRequest.replacingScope
          line,      \* the promise chain `tail`: launches that wait to be decided
          turn,      \* the launch that is decided
          todo,      \* scopes its walk has listed and not yet visited
          seen,      \* scopes in which it saw an agent
          slot,      \* the reservation of each launch; "settled": committed
                     \* LAUNCH_SETTLE_MS ago
          escaped    \* history: launches the ceiling makes no promise about

admissionVars == <<launch, replaces, line, turn, todo, seen, slot, escaped>>
scanVars == <<line, turn, todo, seen>>
slotVars == <<slot, escaped>>

Is(l, states) == launch[l] \in states
Becomes(l, state) == launch' = [launch EXCEPT ![l] = state]

(* A scope in which a walk finds an agent: Tether's, the owner's own in a  *)
(* shell, or what a replacement has left and not drained yet.              *)
Visible == {"agent", "own", "left"}

AdmissionInit ==
  /\ launch = [l \in Launches |-> "none"]
  /\ replaces = [l \in Launches |-> NoLaunch]
  /\ line = <<>> /\ turn = NoLaunch /\ todo = {} /\ seen = {}
  /\ slot = [l \in Launches |-> "none"] /\ escaped = {}

-----------------------------------------------------------------------------
(* reserve: it waits for the decisions asked for before it.                *)

Asks(l, r) ==
  /\ Is(l, {"none"}) /\ Becomes(l, "asked")
  /\ replaces' = [replaces EXCEPT ![l] = r]
  /\ line' = Append(line, l)
  /\ UNCHANGED <<turn, todo, seen, slotVars>>

Reserve(l) == Asks(l, NoLaunch)

(* The lifecycle lock of the session: one replacement of it at a time.     *)
ReserveReplacement(l, r) ==
  /\ Is(r, {"sent", "agent", "own"})
  /\ \A m \in Launches :
       replaces[m] = r => ~Is(m, {"asked", "deciding", "walking", "admitted"})
  /\ Asks(l, r)

-----------------------------------------------------------------------------
(* decide.                                                                 *)

Freed(S) == [l \in Launches |-> IF l \in S THEN "none" ELSE slot[l]]
Settled == {l \in Launches : slot[l] = "settled"}

(* pruneSettled; a launch that is not to be seen by now is not counted.    *)
BeginDecision ==
  /\ turn = NoLaunch /\ line # <<>>
  /\ turn' = Head(line) /\ line' = Tail(line)
  /\ Becomes(turn', "deciding")
  /\ slot' = Freed(Settled)
  /\ escaped' = escaped \cup {l \in Settled : Is(l, {"sent"})}
  /\ UNCHANGED <<replaces, todo, seen>>

(* The scopes are listed; a gate that waits for its launch may have one.   *)
ListScopes ==
  /\ turn # NoLaunch /\ Is(turn, {"deciding"}) /\ Becomes(turn, "walking")
  /\ \E gates \in SUBSET {l \in Launches : Is(l, {"admitted"})} :
       todo' = gates \cup {l \in Launches : Is(l, Visible \cup {"sent"})}
  /\ UNCHANGED <<replaces, line, turn, seen, slotVars>>

Visit(l) ==
  /\ l \in todo /\ todo' = todo \ {l}
  /\ seen' = IF Is(l, Visible) THEN seen \cup {l} ELSE seen
  /\ UNCHANGED <<launch, replaces, line, turn, slotVars>>

Undecided == turn # NoLaunch /\ Is(turn, {"deciding", "walking"})
Walking == turn # NoLaunch /\ Is(turn, {"walking"})
Walked == Walking /\ todo = {}

(* activeCount: launches in flight that are not visible as agents yet.     *)
Committed == {l \in Launches : slot[l] \in {"committed", "settled"}}
Pending == {l \in Launches : slot[l] = "pending"}

(* Mutant: a slot that settled during the walk is not counted any more.    *)
InFlightUnsettled(r) ==
  Pending \cup {l \in Committed \ (seen \cup {r}) : slot[l] # "settled"}
InFlight(r) == Pending \cup (Committed \ (seen \cup {r}))
ActiveCount(r) == Cardinality(seen \ {r}) + Cardinality(InFlight(r))

Over == turn' = NoLaunch /\ todo' = {} /\ seen' = {}

Admitted(slots) ==
  /\ Becomes(turn, "admitted")
  /\ slot' = [slots EXCEPT ![turn] = "pending"]
  /\ Over
  /\ UNCHANGED <<replaces, line>>

(* Mutant: a deferred launch does not let the next one in the line go on.  *)
DeniedLocked(slots) ==
  /\ Becomes(turn, "denied")
  /\ slot' = slots
  /\ turn' = turn /\ todo' = {} /\ seen' = {}
  /\ UNCHANGED <<replaces, line, escaped>>
Denied(slots) ==
  /\ Becomes(turn, "denied")
  /\ slot' = slots
  /\ Over
  /\ UNCHANGED <<replaces, line, escaped>>

Counted == Freed(Committed \cap seen)

Admit ==
  /\ Walked
  /\ ActiveCount(replaces[turn]) < MaxActive
  /\ Admitted(Counted)
  /\ UNCHANGED escaped

(* Pressure, the host's verdict, or the ceiling.                           *)
Defer == Walked /\ Denied(Counted)

(* The scopes cannot be read: with a ceiling, the launch is deferred.      *)
ScanFails == Undecided /\ ~Walked /\ Denied(slot)

(* AICO_AGENT_ADMISSION_OVERRIDE is set: whatever the scan says or fails.  *)
Override ==
  /\ Undecided
  /\ Admitted(IF Walked THEN Counted ELSE slot)
  /\ escaped' = escaped \cup {turn}

-----------------------------------------------------------------------------
(* The launch, under its ticket.                                           *)

(* What the pane ran is killed when it is respawned for its replacement;   *)
(* what is left in its scope is drained after the launch.                  *)
Dispatched(l) ==
  launch' = [m \in Launches |-> IF m = l THEN "sent"
                                ELSE IF m = replaces[l] /\ Is(m, Visible \cup {"sent"})
                                  THEN "left" ELSE launch[m]]

(* The line is sent and the ticket committed in one go.                    *)
Commit(l) ==
  /\ Is(l, {"admitted"}) /\ Dispatched(l)
  /\ slot' = [slot EXCEPT ![l] = "committed"]
  /\ UNCHANGED <<replaces, scanVars, escaped>>

(* The spec of a replacement, with its delivery, is built after the ticket *)
(* was handed out and before the try whose finally releases it: where that *)
(* throws, the slot stays with a launch that came to nothing.              *)
DeliveryThrows(l) ==
  /\ Is(l, {"admitted"}) /\ replaces[l] # NoLaunch
  /\ Becomes(l, "over")
  /\ UNCHANGED <<replaces, scanVars, slotVars>>

(* The launch is given up later, before its line is sent: finally, release.*)
ReleaseSlot(l) ==
  /\ Is(l, {"admitted"}) /\ Becomes(l, "over")
  /\ slot' = [slot EXCEPT ![l] = "none"]
  /\ UNCHANGED <<replaces, scanVars, escaped>>

(* The send command fails after it took effect: released all the same.     *)
ReleaseLate(l) ==
  /\ Is(l, {"admitted"}) /\ Dispatched(l)
  /\ slot' = [slot EXCEPT ![l] = "none"]
  /\ escaped' = escaped \cup {l}
  /\ UNCHANGED <<replaces, scanVars>>

(* Date.now() - committedAt reaches LAUNCH_SETTLE_MS.                      *)
Settles(l) ==
  /\ slot[l] = "committed"
  /\ slot' = [slot EXCEPT ![l] = "settled"]
  /\ UNCHANGED <<launch, replaces, scanVars, escaped>>

-----------------------------------------------------------------------------
(* The agents.                                                             *)

AgentShows(l) ==
  /\ Is(l, {"sent"}) /\ Becomes(l, "agent")
  /\ UNCHANGED <<replaces, scanVars, slotVars>>

StartedByHand(l) ==
  /\ Is(l, {"none"}) /\ Becomes(l, "own")
  /\ UNCHANGED <<replaces, scanVars, slotVars>>

AgentEnds(l) ==
  /\ Is(l, Visible \cup {"sent"}) /\ Becomes(l, "over")
  /\ UNCHANGED <<replaces, scanVars, slotVars>>

-----------------------------------------------------------------------------
Deciding ==
  \/ BeginDecision \/ ListScopes \/ (\E l \in Launches : Visit(l))
  \/ Admit \/ Defer \/ ScanFails \/ Override

AdmissionNext ==
  \/ Deciding
  \/ \E l \in Launches :
       \/ Reserve(l) \/ \E r \in Launches : ReserveReplacement(l, r)
       \/ DeliveryThrows(l) \/ Commit(l) \/ ReleaseSlot(l) \/ ReleaseLate(l) \/ Settles(l)
       \/ AgentShows(l) \/ StartedByHand(l) \/ AgentEnds(l)

AdmissionSpec == AdmissionInit /\ [][AdmissionNext]_admissionVars
AdmissionFairSpec == AdmissionSpec /\ WF_admissionVars(Deciding)

-----------------------------------------------------------------------------
AdmissionTypeOK ==
  /\ launch \in [Launches -> Visible \cup {"none", "asked", "deciding",
                   "walking", "denied", "admitted", "sent", "over"}]
  /\ replaces \in [Launches -> Launches \cup {NoLaunch}]
  /\ line \in Seq(Launches)
  /\ turn \in Launches \cup {NoLaunch}
  /\ todo \subseteq Launches /\ seen \subseteq Launches
  /\ slot \in [Launches -> {"none", "pending", "committed", "settled"}]
  /\ escaped \subseteq Launches

(* Agents Tether admitted that run or are about to, but for what the       *)
(* launch under way replaces.                                              *)
Load ==
  {l \in Launches : Is(l, {"admitted", "sent", "agent"}) /\ l \notin escaped}
Replaced ==
  {r \in Launches : \E m \in Launches :
     replaces[m] = r /\ Is(m, {"admitted"}) /\ m \notin escaped}

(* "concurrent starts cannot both take the final ceiling slot": admitted   *)
(* agents stay within the emergency ceiling, whatever appears, ends or is  *)
(* replaced while a decision walks the scopes - if each agent shows within *)
(* LAUNCH_SETTLE_MS, no send fails late, and nobody overrides.             *)
Ceiling == Cardinality(Load \ Replaced) <= MaxActive

(* Every launch that asks gets its answer, also behind one that was        *)
(* deferred or whose scan failed.                                          *)
AskedIsAnswered ==
  \A l \in Launches :
    Is(l, {"asked", "deciding", "walking"}) ~> ~Is(l, {"asked", "deciding", "walking"})
=============================================================================
