---------------------------- MODULE LifecycleProofs ----------------------------
(***************************************************************************)
(* What the lifecycle engine promises for any launches, sessions, callers  *)
(* and bounds: that agent admission keeps its ceiling, and that the lock   *)
(* of a session forgets nobody.  AgentAdmission and LifecycleLock share    *)
(* no state; their theorems are one module as both are the engine's.       *)
(***************************************************************************)
EXTENDS AgentAdmission, LifecycleLock, FiniteSetTheorems, TLAPS

-----------------------------------------------------------------------------
(* AgentAdmission: the emergency ceiling holds for any number of launches   *)
(* and any ceiling.  A decision compares what its walk saw and what is in   *)
(* flight, so the argument is that every admitted agent is in one of the    *)
(* two: it holds a slot until it shows (Unslotted), and what has shown is   *)
(* seen or still to be visited by the walk (Scanned).                       *)

InProgress == {"asked", "deciding", "walking", "admitted"}
Started == {"sent", "agent", "own", "left", "over"}

(* A launch holds a slot from its decision to its commit, though a slot may *)
(* be left behind by one that came to nothing.                             *)
SlotFromDecision ==
  \A l \in Launches :
    /\ Is(l, {"admitted"}) => slot[l] = "pending"
    /\ slot[l] = "pending" => Is(l, {"admitted", "over"})

(* An admitted launch holds its slot until it is sent and its agent shows. *)
Unslotted ==
  \A l \in Load : slot[l] = "none" => Is(l, {"agent"})

(* An agent that holds no slot is seen or will be visited by the walk.     *)
Scanned ==
  Walking => \A l \in Load : slot[l] = "none" => l \in seen \cup todo

(* What a launch replaces was started before it.                           *)
ReplacesStarted ==
  \A l \in Launches :
    Is(l, InProgress) /\ replaces[l] # NoLaunch => Is(replaces[l], Started)

(* The ceiling makes its promise about every launch it decides about.      *)
NotEscaped ==
  \A l \in Launches :
    Is(l, {"none", "asked", "deciding", "walking", "denied"}) => l \notin escaped

(* A launch waits in the line once, until it is decided.                   *)
Lined ==
  /\ \A i \in 1..Len(line) : Is(line[i], {"asked"})
  /\ \A i, j \in 1..Len(line) : line[i] = line[j] => i = j

(* The walk saw agents where there were some.                              *)
SeenShown == \A l \in seen : Is(l, Started \ {"sent"})

Books ==
  /\ SlotFromDecision /\ Unslotted /\ Scanned
  /\ ReplacesStarted /\ NotEscaped /\ Lined /\ SeenShown

-----------------------------------------------------------------------------
(* The types are inductive: the launch that is decided comes from the line.*)
LEMMA AdmissionTypeStep == AdmissionTypeOK /\ [AdmissionNext]_admissionVars => AdmissionTypeOK'
<1> SUFFICES ASSUME AdmissionTypeOK, [AdmissionNext]_admissionVars PROVE AdmissionTypeOK'
  OBVIOUS
<1> USE DEF AdmissionTypeOK, Is, Becomes, Visible
<1>1. ASSUME NEW l \in Launches, NEW r \in Launches \cup {NoLaunch}, Asks(l, r)
      PROVE  AdmissionTypeOK'
  BY <1>1 DEF Asks, slotVars
<1>2. CASE BeginDecision
  <2>1. turn' \in Launches /\ line' \in Seq(Launches)
    BY <1>2 DEF BeginDecision
  <2> QED
    BY <1>2, <2>1 DEF BeginDecision, Freed, Settled
<1>3. CASE ListScopes
  BY <1>3 DEF ListScopes, slotVars
<1>4. ASSUME NEW l \in Launches, Visit(l) PROVE AdmissionTypeOK'
  BY <1>4 DEF Visit, slotVars
<1>5. CASE Admit
  BY <1>5 DEF Admit, Admitted, Over, Counted, Freed, Walked, Walking
<1>6. CASE Defer
  BY <1>6 DEF Defer, Denied, Over, Counted, Freed, Walked, Walking
<1>7. CASE ScanFails
  BY <1>7 DEF ScanFails, Denied, Over, Undecided, Walked, Walking
<1>8. CASE Override
  BY <1>8 DEF Override, Undecided, Admitted, Over, Counted, Freed, Walked, Walking
<1>9. ASSUME NEW l \in Launches, Commit(l) PROVE AdmissionTypeOK'
  BY <1>9 DEF Commit, Dispatched, scanVars
<1>10. ASSUME NEW l \in Launches, ReleaseSlot(l) \/ DeliveryThrows(l)
       PROVE  AdmissionTypeOK'
  BY <1>10 DEF ReleaseSlot, DeliveryThrows, scanVars, slotVars
<1>11. ASSUME NEW l \in Launches, ReleaseLate(l) PROVE AdmissionTypeOK'
  BY <1>11 DEF ReleaseLate, Dispatched, scanVars
<1>12. ASSUME NEW l \in Launches, Settles(l) PROVE AdmissionTypeOK'
  BY <1>12 DEF Settles, scanVars
<1>13. ASSUME NEW l \in Launches, AgentShows(l) \/ StartedByHand(l) \/ AgentEnds(l)
       PROVE  AdmissionTypeOK'
  BY <1>13 DEF AgentShows, StartedByHand, AgentEnds, scanVars, slotVars
<1>14. CASE UNCHANGED admissionVars
  BY <1>14 DEF admissionVars
<1> QED
  BY <1>1, <1>2, <1>3, <1>4, <1>5, <1>6, <1>7, <1>8, <1>9, <1>10, <1>11,
     <1>12, <1>13, <1>14
     DEF AdmissionNext, Deciding, Reserve, ReserveReplacement

(* Launches, slots, the line of decisions and the walk keep their types,   *)
(* for any set of launches and any ceiling.                                *)
THEOREM AdmissionTypeCorrect == AdmissionSpec => []AdmissionTypeOK
<1>1. AdmissionInit => AdmissionTypeOK
  BY DEF AdmissionInit, AdmissionTypeOK, Visible
<1>2. AdmissionTypeOK /\ [AdmissionNext]_admissionVars => AdmissionTypeOK'
  BY AdmissionTypeStep
<1> QED
  BY <1>1, <1>2, PTL DEF AdmissionSpec

-----------------------------------------------------------------------------
(* The line holds each launch that asked once.                             *)
LEMMA LinedStep == AdmissionTypeOK /\ Lined /\ [AdmissionNext]_admissionVars => Lined'
<1> SUFFICES ASSUME AdmissionTypeOK, Lined, [AdmissionNext]_admissionVars PROVE Lined'
  OBVIOUS
<1> USE AdmissionAssumption DEF AdmissionTypeOK, Lined, Is, Becomes, Visible
<1>1. ASSUME NEW l \in Launches, NEW r \in Launches \cup {NoLaunch}, Asks(l, r)
      PROVE  Lined'
  <2>1. /\ Len(line') = Len(line) + 1
        /\ \A i \in 1..Len(line) : line'[i] = line[i]
        /\ line'[Len(line) + 1] = l
    BY <1>1 DEF Asks
  <2>2. \A i \in 1..Len(line) : line[i] \in Launches /\ line[i] # l
    BY <1>1 DEF Asks
  <2> QED
    BY <1>1, <2>1, <2>2 DEF Asks
<1>2. CASE BeginDecision
  <2>1. /\ Len(line') = Len(line) - 1
        /\ \A i \in 1..Len(line') : line'[i] = line[i + 1]
        /\ Len(line) > 0 /\ turn' = line[1]
    BY <1>2 DEF BeginDecision
  <2>2. \A i \in 1..Len(line') : line[i + 1] \in Launches /\ line[i + 1] # turn'
    BY <2>1
  <2> QED
    BY <1>2, <2>1, <2>2 DEF BeginDecision
<1>3. ASSUME line' = line,
             \A l \in Launches : Is(l, {"asked"}) => launch'[l] = "asked"
      PROVE  Lined'
  BY <1>3
<1>4. CASE ListScopes \/ Admit \/ Defer \/ ScanFails \/ Override
  BY <1>3, <1>4 DEF ListScopes, Admit, Defer, ScanFails, Override, Admitted,
     Denied, Undecided, Walked, Walking
<1>5. ASSUME NEW l \in Launches,
             \/ Visit(l) \/ Commit(l) \/ ReleaseLate(l) \/ Settles(l)
             \/ ReleaseSlot(l) \/ DeliveryThrows(l)
      PROVE  Lined'
  BY <1>3, <1>5
     DEF Visit, Commit, ReleaseSlot, DeliveryThrows, ReleaseLate, Settles, Dispatched, scanVars
<1>6. ASSUME NEW l \in Launches, AgentShows(l) \/ StartedByHand(l) \/ AgentEnds(l)
      PROVE  Lined'
  BY <1>3, <1>6 DEF AgentShows, StartedByHand, AgentEnds, scanVars
<1>7. CASE UNCHANGED admissionVars
  BY <1>7 DEF admissionVars
<1> QED
  BY <1>1, <1>2, <1>4, <1>5, <1>6, <1>7
     DEF AdmissionNext, Deciding, Reserve, ReserveReplacement

(* What the ceiling rests on is inductive.                                 *)
LEMMA BooksStep == AdmissionTypeOK /\ Books /\ [AdmissionNext]_admissionVars => Books'
<1> SUFFICES ASSUME AdmissionTypeOK, Books, [AdmissionNext]_admissionVars PROVE Books'
  OBVIOUS
<1>0. Lined'
  BY LinedStep DEF Books
<1> USE AdmissionAssumption DEF AdmissionTypeOK, Books, Is, Becomes, Visible, Load,
      SlotFromDecision, Unslotted, Scanned, ReplacesStarted, NotEscaped, SeenShown,
      InProgress, Started, Walking
<1>1. ASSUME NEW l \in Launches, Reserve(l) PROVE Books'
  BY <1>0, <1>1 DEF Reserve, Asks, slotVars
<1>2. ASSUME NEW l \in Launches, NEW r \in Launches, ReserveReplacement(l, r)
      PROVE  Books'
  BY <1>0, <1>2 DEF ReserveReplacement, Asks, slotVars
<1>3. CASE BeginDecision
  <2>1. turn' \in Launches /\ launch[turn'] \in {"asked"}
    BY <1>3 DEF BeginDecision, Lined
  <2> QED
    BY <1>0, <1>3, <2>1 DEF BeginDecision, Freed, Settled
<1>4. CASE ListScopes
  BY <1>0, <1>4 DEF ListScopes, slotVars
<1>5. ASSUME NEW l \in Launches, Visit(l) PROVE Books'
  BY <1>0, <1>5 DEF Visit, slotVars
<1>6. CASE Admit
  BY <1>0, <1>6 DEF Admit, Admitted, Over, Counted, Committed, Freed, Walked
<1>7. CASE Defer
  BY <1>0, <1>7 DEF Defer, Denied, Over, Counted, Committed, Freed, Walked
<1>8. CASE ScanFails
  BY <1>0, <1>8 DEF ScanFails, Denied, Over, Undecided, Walked
<1>9. CASE Override
  BY <1>0, <1>9 DEF Override, Undecided, Admitted, Over, Counted, Committed, Freed, Walked
<1>10. ASSUME NEW l \in Launches, Commit(l) PROVE Books'
  BY <1>0, <1>10 DEF Commit, Dispatched, scanVars
<1>11. ASSUME NEW l \in Launches, ReleaseSlot(l) \/ DeliveryThrows(l) PROVE Books'
  BY <1>0, <1>11 DEF ReleaseSlot, DeliveryThrows, scanVars, slotVars
<1>12. ASSUME NEW l \in Launches, ReleaseLate(l) PROVE Books'
  BY <1>0, <1>12 DEF ReleaseLate, Dispatched, scanVars
<1>13. ASSUME NEW l \in Launches, Settles(l) PROVE Books'
  BY <1>0, <1>13 DEF Settles, scanVars
<1>14. ASSUME NEW l \in Launches, AgentShows(l) \/ StartedByHand(l) \/ AgentEnds(l)
       PROVE  Books'
  BY <1>0, <1>14 DEF AgentShows, StartedByHand, AgentEnds, scanVars, slotVars
<1>15. CASE UNCHANGED admissionVars
  BY <1>0, <1>15 DEF admissionVars
<1> QED
  BY <1>1, <1>2, <1>3, <1>4, <1>5, <1>6, <1>7, <1>8, <1>9, <1>10, <1>11,
     <1>12, <1>13, <1>14, <1>15 DEF AdmissionNext, Deciding
-----------------------------------------------------------------------------
Charged == Load \ Replaced

(* One more element makes a finite set larger by at most one.              *)
LEMMA OneMore ==
  ASSUME NEW S, NEW x, IsFiniteSet(S)
  PROVE  IsFiniteSet(S \cup {x}) /\ Cardinality(S \cup {x}) <= Cardinality(S) + 1
<1>1. Cardinality(S \cup {x}) = IF x \in S THEN Cardinality(S) ELSE Cardinality(S) + 1
  BY FS_AddElement
<1>2. IsFiniteSet(S \cup {x}) /\ Cardinality(S) \in Nat
  BY FS_AddElement, FS_CardinalityType
<1> QED
  BY <1>1, <1>2

(* A decision that walked all scopes has counted every charged agent but   *)
(* the one it replaces: it saw it, or it is in flight.                     *)
LEMMA EveryAgentIsCounted ==
  ASSUME AdmissionTypeOK, Books, Walked
  PROVE  Load \ {replaces[turn]}
           \subseteq (seen \ {replaces[turn]}) \cup InFlight(replaces[turn])
  BY DEF AdmissionTypeOK, Books, Unslotted, Scanned, Walked, Load, InFlight, Pending, Committed

(* Admission adds one launch to fewer than MaxActive agents.               *)
LEMMA AdmitKeepsCeiling == AdmissionTypeOK /\ Books /\ Admit => Ceiling'
<1> SUFFICES ASSUME AdmissionTypeOK, Books, Admit PROVE Ceiling'
  OBVIOUS
<1> DEFINE r == replaces[turn]
           counted == (seen \ {r}) \cup InFlight(r)
<1>1. Walked /\ turn \in Launches /\ turn # r
  BY AdmissionAssumption
     DEF Admit, Walked, Walking, AdmissionTypeOK, Books, ReplacesStarted, Is,
         InProgress, Started
<1>2. Charged' \subseteq (Load \ {r}) \cup {turn}
  <2>1. /\ launch' = [launch EXCEPT ![turn] = "admitted"]
        /\ replaces' = replaces /\ escaped' = escaped
    BY DEF Admit, Admitted, Becomes
  <2>2. turn \notin escaped
    BY <1>1 DEF Books, NotEscaped, Walked, Walking, Is
  <2>3. r # NoLaunch => r \in Replaced'
    BY <1>1, <2>1, <2>2, AdmissionAssumption DEF AdmissionTypeOK, Replaced, Is
  <2>4. Load' \subseteq Load \cup {turn}
    BY <1>1, <2>1 DEF AdmissionTypeOK, Load, Is
  <2>5. Load \subseteq Launches /\ NoLaunch \notin Launches
    BY AdmissionAssumption DEF Load
  <2> QED
    BY <1>1, <2>3, <2>4, <2>5 DEF Charged
<1>3. Load \ {r} \subseteq counted
  BY <1>1, EveryAgentIsCounted
<1>4. /\ IsFiniteSet(seen \ {r}) /\ IsFiniteSet(InFlight(r))
      /\ IsFiniteSet(counted)
  <2>1. seen \ {r} \in SUBSET Launches /\ InFlight(r) \in SUBSET Launches
        /\ counted \in SUBSET Launches
    BY DEF AdmissionTypeOK, InFlight, Pending, Committed
  <2> QED
    BY <2>1, FS_Subset, AdmissionAssumption
<1>5. Cardinality(counted) <= ActiveCount(r)
  <2>1. Cardinality(counted) =
          Cardinality(seen \ {r}) + Cardinality(InFlight(r))
            - Cardinality((seen \ {r}) \cap InFlight(r))
    BY <1>4, FS_Union
  <2>2. IsFiniteSet((seen \ {r}) \cap InFlight(r))
    BY <1>4, FS_Subset, (seen \ {r}) \cap InFlight(r) \in SUBSET (seen \ {r})
  <2>3. /\ Cardinality(seen \ {r}) \in Nat /\ Cardinality(InFlight(r)) \in Nat
        /\ Cardinality((seen \ {r}) \cap InFlight(r)) \in Nat
    BY <1>4, <2>2, FS_CardinalityType
  <2> HIDE DEF r, counted
  <2> QED
    BY <2>1, <2>3 DEF ActiveCount
<1>6. Cardinality(Charged') <= Cardinality(counted) + 1
  <2> HIDE DEF r, counted
  <2>1. Charged' \in SUBSET (counted \cup {turn})
    BY <1>2, <1>3
  <2>2. /\ IsFiniteSet(counted \cup {turn})
        /\ Cardinality(counted \cup {turn}) <= Cardinality(counted) + 1
    BY <1>4, OneMore
  <2>3. Cardinality(Charged') <= Cardinality(counted \cup {turn})
    BY <2>1, <2>2, FS_Subset
  <2>4. /\ Cardinality(Charged') \in Nat
        /\ Cardinality(counted \cup {turn}) \in Nat /\ Cardinality(counted) \in Nat
    BY <1>4, <2>1, <2>2, FS_Subset, FS_CardinalityType
  <2> QED
    BY <2>2, <2>3, <2>4
<1>7. ActiveCount(r) < MaxActive
  BY DEF Admit
<1>8. /\ Cardinality(Charged') \in Nat /\ Cardinality(counted) \in Nat
      /\ ActiveCount(r) \in Nat /\ MaxActive \in Nat
  <2>1. Charged' \in SUBSET Launches
    BY DEF Charged, Load
  <2>2. IsFiniteSet(Charged')
    BY <2>1, FS_Subset, AdmissionAssumption
  <2> QED
    BY <1>4, <2>2, FS_CardinalityType, AdmissionAssumption DEF ActiveCount
<1> HIDE DEF r, counted
<1> QED
  BY <1>5, <1>6, <1>7, <1>8 DEF Ceiling, Charged
(* No other step charges a launch, but for the agent that runs on when     *)
(* what should replace it is given up and was charged in its place.        *)
LEMMA ReleaseKeepsCeiling ==
  ASSUME AdmissionTypeOK, Books, Ceiling, NEW l \in Launches,
         ReleaseSlot(l) \/ DeliveryThrows(l)
  PROVE  Ceiling'
<1> DEFINE r == replaces[l]
<1>1. /\ launch' = [launch EXCEPT ![l] = "over"]
      /\ replaces' = replaces /\ escaped' = escaped /\ Is(l, {"admitted"})
  BY DEF ReleaseSlot, DeliveryThrows, slotVars, Becomes
<1>2. Load' = Load \ {l}
  BY <1>1 DEF AdmissionTypeOK, Load, Is
<1>3. IsFiniteSet(Charged) /\ IsFiniteSet(Charged')
  <2>1. Charged \in SUBSET Launches /\ Charged' \in SUBSET Launches
    BY DEF Charged, Load
  <2> QED
    BY <2>1, FS_Subset, AdmissionAssumption
<1>4. CASE l \in escaped
  <2>1. Charged' \in SUBSET Charged
    BY <1>1, <1>2, <1>4 DEF Charged, Replaced, Is, AdmissionTypeOK
  <2> QED
    BY <1>3, <2>1, FS_Subset, FS_CardinalityType, AdmissionAssumption DEF Ceiling, Charged
<1>5. CASE l \notin escaped
  <2>1. l \in Charged
    BY <1>1, <1>5, AdmissionAssumption
       DEF Charged, Load, Replaced, Books, ReplacesStarted, Is, AdmissionTypeOK,
           InProgress, Started
  <2>2. Charged' \in SUBSET ((Charged \ {l}) \cup {r})
    BY <1>1, <1>2, <1>5 DEF Charged, Replaced, Is, AdmissionTypeOK
  <2>3. /\ IsFiniteSet(Charged \ {l})
        /\ Cardinality(Charged \ {l}) = Cardinality(Charged) - 1
    BY <1>3, <2>1, FS_RemoveElement
  <2>4. /\ IsFiniteSet((Charged \ {l}) \cup {r})
        /\ Cardinality((Charged \ {l}) \cup {r}) <= Cardinality(Charged)
    <3> HIDE DEF r
    <3>1. Cardinality(Charged) \in Nat
      BY <1>3, FS_CardinalityType
    <3>2. /\ IsFiniteSet((Charged \ {l}) \cup {r})
          /\ Cardinality((Charged \ {l}) \cup {r}) <= Cardinality(Charged \ {l}) + 1
      BY <2>3, OneMore
    <3>3. Cardinality((Charged \ {l}) \cup {r}) \in Nat
      BY <3>2, FS_CardinalityType
    <3> QED
      BY <2>3, <3>1, <3>2, <3>3
  <2>5. Cardinality(Charged') <= Cardinality((Charged \ {l}) \cup {r})
    BY <2>2, <2>4, FS_Subset
  <2>6. /\ Cardinality(Charged') \in Nat /\ Cardinality(Charged) \in Nat
        /\ Cardinality((Charged \ {l}) \cup {r}) \in Nat
    BY <1>3, <2>4, FS_CardinalityType
  <2> QED
    BY <2>4, <2>5, <2>6, AdmissionAssumption DEF Ceiling, Charged
<1> QED
  BY <1>4, <1>5

(* A step that charges nobody keeps the ceiling.                           *)
LEMMA FewerKeepsCeiling == Ceiling /\ Charged' \subseteq Charged => Ceiling'
<1> SUFFICES ASSUME Ceiling, Charged' \subseteq Charged PROVE Ceiling'
  OBVIOUS
<1>1. Charged \in SUBSET Launches /\ Charged' \in SUBSET Charged
  BY DEF Charged, Load
<1>2. IsFiniteSet(Charged) /\ IsFiniteSet(Charged')
  BY <1>1, FS_Subset, AdmissionAssumption
<1>3. Cardinality(Charged') <= Cardinality(Charged)
  BY <1>1, <1>2, FS_Subset
<1>4. Cardinality(Charged) \in Nat /\ Cardinality(Charged') \in Nat
  BY <1>2, FS_CardinalityType
<1> QED
  BY <1>3, <1>4, AdmissionAssumption DEF Ceiling, Charged

LEMMA CeilingStep == AdmissionTypeOK /\ Books /\ Ceiling /\ [AdmissionNext]_admissionVars => Ceiling'
<1> SUFFICES ASSUME AdmissionTypeOK, Books, Ceiling, [AdmissionNext]_admissionVars PROVE Ceiling'
  OBVIOUS
<1> USE AdmissionAssumption DEF AdmissionTypeOK, Is, Becomes, Visible, Charged, Load, Replaced
<1>1. ASSUME NEW l \in Launches, NEW r \in Launches \cup {NoLaunch}, Asks(l, r)
      PROVE  Charged' \subseteq Charged
  BY <1>1 DEF Asks, slotVars
<1>2. ASSUME BeginDecision PROVE Charged' \subseteq Charged
  <2>1. turn' \in Launches /\ launch[turn'] = "asked"
    BY <1>2 DEF BeginDecision, Books, Lined
  <2> QED
    BY <1>2, <2>1 DEF BeginDecision, Settled
<1>3. ASSUME ListScopes \/ Defer \/ ScanFails PROVE Charged' \subseteq Charged
  BY <1>3 DEF ListScopes, Defer, ScanFails, Denied, Undecided, Walked, Walking, slotVars
<1>4. ASSUME Override PROVE Charged' \subseteq Charged
  BY <1>4 DEF Override, Undecided, Admitted, Walked, Walking
<1>5. ASSUME NEW l \in Launches, Visit(l) \/ Settles(l)
      PROVE  Charged' \subseteq Charged
  BY <1>5 DEF Visit, Settles, slotVars
<1>6. ASSUME NEW l \in Launches, Commit(l) \/ ReleaseLate(l)
      PROVE  Charged' \subseteq Charged
  BY <1>6 DEF Commit, ReleaseLate, Dispatched, Books, ReplacesStarted, InProgress, Started
<1>7. ASSUME NEW l \in Launches, AgentShows(l) \/ StartedByHand(l) \/ AgentEnds(l)
      PROVE  Charged' \subseteq Charged
  BY <1>7 DEF AgentShows, StartedByHand, AgentEnds, slotVars
<1>8. ASSUME UNCHANGED admissionVars PROVE Charged' \subseteq Charged
  BY <1>8 DEF admissionVars
<1> HIDE DEF Charged, Load, Replaced
<1> QED
  BY <1>1, <1>2, <1>3, <1>4, <1>5, <1>6, <1>7, <1>8,
     FewerKeepsCeiling, AdmitKeepsCeiling, ReleaseKeepsCeiling
     DEF AdmissionNext, Deciding, Reserve, ReserveReplacement

-----------------------------------------------------------------------------
LEMMA AdmissionInvariant == AdmissionSpec => [](AdmissionTypeOK /\ Books /\ Ceiling)
<1>1. AdmissionInit => AdmissionTypeOK /\ Books /\ Ceiling
  <2> SUFFICES ASSUME AdmissionInit PROVE AdmissionTypeOK /\ Books /\ Ceiling
    OBVIOUS
  <2>1. AdmissionTypeOK
    BY DEF AdmissionInit, AdmissionTypeOK, Visible
  <2>2. Books
    BY DEF AdmissionInit, Books, SlotFromDecision, Unslotted, Scanned, ReplacesStarted,
       NotEscaped, Lined, SeenShown, Load, Is, InProgress, Walking
  <2>3. Load \ Replaced = {}
    BY DEF AdmissionInit, Load, Is
  <2>4. Ceiling
    BY <2>3, FS_EmptySet, AdmissionAssumption DEF Ceiling
  <2> QED
    BY <2>1, <2>2, <2>4
<1>2. AdmissionTypeOK /\ Books /\ Ceiling /\ [AdmissionNext]_admissionVars
        => (AdmissionTypeOK /\ Books /\ Ceiling)'
  BY AdmissionTypeStep, BooksStep, CeilingStep
<1> QED
  BY <1>1, <1>2, PTL DEF AdmissionSpec

(* For any number of launches and any ceiling: however decisions, sends,   *)
(* replacements and agents interleave, no more agents are admitted than    *)
(* the ceiling allows.                                                     *)
THEOREM CeilingHolds == AdmissionSpec => []Ceiling
  BY AdmissionInvariant, PTL

-----------------------------------------------------------------------------
(* LifecycleLock: nobody who waits for the lock of a session is forgotten. *)

USE DEF Free, Active

(* The lock and who waits for it.                                          *)
LockInv ==
  /\ IntentServed
  /\ WaiterNotForgotten
  /\ DeferralHeld

(* A caller is what its answer says: it is asked for at one session only   *)
(* while it waits, and holds one lock only while it is served.             *)
AnswerInv ==
  /\ \A s \in Sessions : request[s] # None => answer[request[s]] = "waiting"
  /\ \A s \in Sessions : Active(s) => answer[owner[s]] = "served"
  /\ \A s, t \in Sessions : request[s] # None /\ request[s] = request[t] => s = t
  /\ \A s, t \in Sessions : Active(s) /\ owner[s] = owner[t] => s = t

(* What is known of an exited session: its marker; an event or the queue,  *)
(* while the watcher runs; and, once a pass has looked at it in its second *)
(* loop, that there is another pass to come.                               *)
ExitInv ==
  /\ watch.event => watch.on
  /\ \A s \in Sessions : session[s] = "exited" =>
       /\ watch.marker
       /\ watch.on => watch.event \/ queue.unresolved
       /\ watch.on /\ queue.pc = "verify" /\ s \notin queue.todo
            => watch.event \/ queue.dirty

IInv == TypeOK /\ LockInv /\ AnswerInv /\ ExitInv

-----------------------------------------------------------------------------
(* The operators of the queue.                                             *)

LEMMA QueuedType ==
  ASSUME NEW q \in Queue
  PROVE  /\ Queued(q) \in Queue
         /\ Queued(q).blockers = q.blockers
         /\ Queued(q).unresolved = q.unresolved
         /\ q.pc = "verify" => Queued(q).dirty
         /\ q.pc = "idle" => Queued(q).pc = "list"
         /\ Queued(q).pc = "verify" => q.pc = "verify" /\ Queued(q).todo = q.todo
         /\ q.dirty /\ q.pc # "idle" => Queued(q).dirty
  BY DEF Queued, Queue, QueueState

LEMMA ObservedType ==
  ASSUME NEW q \in Queue
  PROVE  /\ Observed(q) \in Queue
         /\ Observed(q).blockers = q.blockers
         /\ Observed(q).unresolved
         /\ Observed(q).pc = "verify" => Observed(q).dirty
<1>1. [q EXCEPT !.unresolved = TRUE] \in Queue
  BY DEF Queue, QueueState
<1>2. /\ [q EXCEPT !.unresolved = TRUE].blockers = q.blockers
      /\ [q EXCEPT !.unresolved = TRUE].unresolved
  BY DEF Queue, QueueState
<1> QED  BY <1>1, <1>2, QueuedType DEF Observed

(* No trigger makes the queue forget: neither that the server is           *)
(* unresolved, nor the follow-up a pass in its second loop has to make.    *)
Keeps(q, new) ==
  /\ new \in Queue
  /\ q.unresolved => new.unresolved
  /\ new.pc = "verify" => /\ q.pc = "verify" /\ new.todo = q.todo
                          /\ q.dirty => new.dirty

LEMMA RetriedType ==
  ASSUME NEW q \in Queue
  PROVE  Keeps(q, Retried(q)) /\ Retried(q).blockers = q.blockers
  BY QueuedType DEF Retried, Keeps, Queue, QueueState

LEMMA ObservedKeeps ==
  ASSUME NEW q \in Queue
  PROVE  Keeps(q, Observed(q))
<1>1. [q EXCEPT !.unresolved = TRUE] \in Queue
  BY DEF Queue, QueueState
<1>2. /\ [q EXCEPT !.unresolved = TRUE].pc = q.pc
      /\ [q EXCEPT !.unresolved = TRUE].todo = q.todo
      /\ [q EXCEPT !.unresolved = TRUE].dirty = q.dirty
  BY DEF Queue, QueueState
<1> QED  BY <1>1, <1>2, QueuedType, ObservedType DEF Observed, Keeps

LEMMA DeferralReleasedType ==
  ASSUME NEW q \in Queue
  PROVE  Keeps(q, DeferralReleased(q)) /\ DeferralReleased(q).blockers = {}
<1>1. CASE q.blockers = {}
  BY <1>1 DEF DeferralReleased, Keeps, Queue, QueueState
<1>2. CASE q.blockers # {}
  <2> DEFINE r == [q EXCEPT !.blockers = {}]
  <2>1. /\ r \in Queue /\ r.blockers = {} /\ r.pc = q.pc /\ r.todo = q.todo
        /\ r.dirty = q.dirty /\ r.unresolved = q.unresolved
    BY DEF Queue, QueueState
  <2>2. DeferralReleased(q) = Queued(r)
    BY <1>2 DEF DeferralReleased
  <2> HIDE DEF r
  <2>3. /\ Queued(r) \in Queue /\ Queued(r).blockers = {}
        /\ Queued(r).unresolved = r.unresolved
        /\ Queued(r).pc = "verify" => r.pc = "verify" /\ Queued(r).todo = r.todo
        /\ r.pc = "verify" => Queued(r).dirty
    BY <2>1, QueuedType
  <2> QED  BY <2>1, <2>2, <2>3 DEF Keeps
<1> QED  BY <1>1, <1>2

LEMMA DeferredType ==
  ASSUME NEW q \in Queue, NEW s \in Sessions
  PROVE  Keeps(q, Deferred(q, s)) /\ Deferred(q, s).blockers = q.blockers \cup {s}
  BY DEF Deferred, Keeps, Queue, QueueState

LEMMA ResolvedType ==
  ASSUME NEW q \in Queue, NEW ok \in BOOLEAN
  PROVE  /\ Resolved(q, ok) \in Queue
         /\ Resolved(q, ok).blockers = q.blockers
         /\ Resolved(q, ok).pc # "verify"
         /\ Resolved(q, ok).unresolved = ~(ok /\ ~q.dirty /\ q.blockers = {})
  BY DEF Resolved, Queue, QueueState

LEMMA VisitedType ==
  ASSUME NEW q \in Queue, NEW s \in Sessions, queue = q, NEW pc \in {"check", "verify"},
         q.pc # "idle"
  PROVE  /\ Visited(s, pc) \in Queue
         /\ Visited(s, pc).blockers = q.blockers
         /\ Visited(s, pc).unresolved = q.unresolved
         /\ Visited(s, pc).dirty = q.dirty
         /\ Visited(s, pc).pc = pc
         /\ Visited(s, pc).todo = q.todo \ {s}
  BY DEF Visited, Queue, QueueState

-----------------------------------------------------------------------------
(* The release of a lock.                                                  *)

Answers == {"idle", "waiting", "served", "ended", "blocked", "busy", "lost"}

LockType ==
  /\ owner \in [Sessions -> Holders \cup Callers]
  /\ attach \in [Sessions -> {"none", "waiting", "woken", "held"}]
  /\ pending \subseteq Sessions
  /\ request \in [Sessions -> Callers \cup {None}]
  /\ answer \in [Callers -> Answers]
  /\ queue \in Queue

(* What an operation that releases the lock of s tells its caller.         *)
Tells(s, told) ==
  \/ told = answer /\ ~Active(s)
  \/ Active(s) /\ \E x \in {"ended", "blocked"} : told = [answer EXCEPT ![owner[s]] = x]

LEMMA ReleaseStep ==
  ASSUME LockType, LockInv, AnswerInv,
         NEW s \in Sessions, ~Free(s),
         NEW q \in Queue,
         NEW told, Tells(s, told),
         ReleaseTelling(s, q, told)
  PROVE  LockType' /\ LockInv' /\ AnswerInv' /\ Keeps(q, queue')
<1> DEFINE c == IF s \in pending THEN request[s] ELSE None
<1> USE LockAssumption
<1>1. /\ attach' = [attach EXCEPT ![s] = Woken(@)]
      /\ pending' = pending \ {s}
      /\ owner' = [owner EXCEPT ![s] = IF c = None THEN "free" ELSE c]
      /\ request' = IF c = None THEN request ELSE [request EXCEPT ![s] = None]
      /\ answer' = IF c = None THEN told ELSE [told EXCEPT ![c] = "served"]
      /\ queue' = DeferralReleased(q)
  BY DEF ReleaseTelling
<1>2. Keeps(q, queue') /\ queue'.blockers = {}
  BY <1>1, DeferralReleasedType
<1>3. c # None => c \in Callers /\ answer[c] = "waiting" /\ s \in pending /\ c = request[s]
  BY DEF LockType, AnswerInv
<1>4. told \in [Callers -> Answers]
  BY DEF Tells, LockType, Answers
<1>5. c # None => told = answer /\ ~Active(s)
  BY <1>3 DEF Tells, LockInv, IntentServed
<1> HIDE DEF c
<1>6. LockType'
  <2>1. attach' \in [Sessions -> {"none", "waiting", "woken", "held"}]
    BY <1>1 DEF LockType, Woken
  <2>2. owner' \in [Sessions -> Holders \cup Callers]
    BY <1>1, <1>3 DEF LockType, Holders
  <2>3. pending' \subseteq Sessions /\ request' \in [Sessions -> Callers \cup {None}]
    BY <1>1, <1>3 DEF LockType
  <2>4. answer' \in [Callers -> Answers]
    BY <1>1, <1>3, <1>4 DEF Answers
  <2> QED  BY <2>1, <2>2, <2>3, <2>4, <1>2 DEF LockType, Keeps
<1>7. LockInv'
  <2>1. IntentServed'
    BY <1>1 DEF LockInv, IntentServed, LockType
  <2>2. WaiterNotForgotten'
    BY <1>1 DEF LockInv, WaiterNotForgotten, LockType, Woken
  <2>3. DeferralHeld'
    BY <1>2 DEF DeferralHeld
  <2> QED  BY <2>1, <2>2, <2>3 DEF LockInv
<1>8. AnswerInv'
  <2>1. CASE c = None
    <3>1. /\ owner' = [owner EXCEPT ![s] = "free"] /\ request' = request /\ answer' = told
      BY <2>1, <1>1
    <3>2. "free" \notin Callers
      BY DEF Holders
    <3>3. \A t \in Sessions : request[t] # None => answer'[request[t]] = "waiting"
      BY <3>1 DEF Tells, LockType, AnswerInv
    <3>4. \A t \in Sessions \ {s} : Active(t) => answer'[owner[t]] = "served"
      BY <3>1 DEF Tells, LockType, AnswerInv
    <3> QED  BY <3>1, <3>2, <3>3, <3>4 DEF AnswerInv, LockType
  <2>2. CASE c # None
    <3>1. /\ owner' = [owner EXCEPT ![s] = c] /\ request' = [request EXCEPT ![s] = None]
          /\ answer' = [answer EXCEPT ![c] = "served"]
          /\ c \in Callers /\ answer[c] = "waiting" /\ c = request[s]
      BY <2>2, <1>1, <1>3, <1>5
    <3>2. \A t \in Sessions \ {s} : request[t] # None =>
             request[t] # c /\ answer'[request[t]] = "waiting"
      BY <3>1, <2>2 DEF LockType, AnswerInv
    <3>3. \A t \in Sessions \ {s} : Active(t) => owner[t] # c /\ answer'[owner[t]] = "served"
      BY <3>1 DEF LockType, AnswerInv
    <3> QED  BY <3>1, <3>2, <3>3 DEF AnswerInv, LockType
  <2> QED  BY <2>1, <2>2
<1> QED  BY <1>2, <1>6, <1>7, <1>8

-----------------------------------------------------------------------------
(* The watcher is looked after.                                            *)

WatchType == [on : BOOLEAN, event : BOOLEAN, marker : BOOLEAN,
              revival : {"unused", "due", "used"}]

LEMMA EnsureStep ==
  ASSUME ExitInv, queue \in Queue, watch \in WatchType, faults \in 0..MaxFaults,
         NEW w \in WatchType,
         w.on = watch.on, w.event = watch.event, w.marker = watch.marker,
         NEW q \in Queue, Keeps(queue, q), q.blockers = queue.blockers,
         NEW r \in Queue, Keeps(queue, r), r.blockers = queue.blockers,
         watch.marker => r.unresolved /\ (r.pc = "verify" => r.dirty),
         Ensure(w, q, r), UNCHANGED session
  PROVE  /\ ExitInv' /\ queue' \in Queue /\ queue'.blockers = queue.blockers
         /\ watch' \in WatchType /\ faults' \in 0..MaxFaults
<1> USE LockAssumption
<1>1. CASE w.on /\ watch' = w /\ queue' = q /\ UNCHANGED faults
  BY <1>1 DEF ExitInv, Keeps, WatchType
<1>2. CASE ~w.on /\ watch' = w /\ queue' = q /\ Fault
  BY <1>2 DEF ExitInv, Keeps, WatchType, Fault
<1>3. CASE /\ ~w.on /\ watch' = [w EXCEPT !.on = TRUE] /\ queue' = r /\ UNCHANGED faults
  <2>1. /\ watch'.on /\ watch'.marker = watch.marker /\ watch' \in WatchType
    BY <1>3 DEF WatchType
  <2> QED  BY <1>3, <2>1 DEF ExitInv, Keeps
<1> QED  BY <1>1, <1>2, <1>3 DEF Ensure

(* Exits stay known when no session exits, the watcher is left alone or an *)
(* event is emitted, and the queue forgets nothing.                        *)
LEMMA ExitStep ==
  ASSUME ExitInv, watch \in WatchType,
         \A s \in Sessions : session'[s] = "exited" => session[s] = "exited",
         watch' \in {watch, Emitted(watch)},
         queue.unresolved => queue'.unresolved,
         queue'.pc = "verify" => /\ queue.pc = "verify" /\ queue'.todo = queue.todo
                                 /\ queue.dirty => queue'.dirty
  PROVE  ExitInv' /\ watch' \in WatchType
<1>1. CASE watch' = watch
  BY <1>1 DEF ExitInv
<1>2. CASE watch' = Emitted(watch)
  BY <1>2 DEF ExitInv, Emitted, WatchType
<1> QED  BY <1>1, <1>2

LEMMA ReconciledStep ==
  ASSUME TypeOK, NEW s \in Sessions, Reconciled(s)
  PROVE  /\ session' \in [Sessions -> {"running", "exited", "settled", "deleted"}]
         /\ faults' \in 0..MaxFaults
         /\ \A t \in Sessions : session'[t] = "exited" => session[t] = "exited"
  BY LockAssumption DEF TypeOK, Reconciled, Fault

-----------------------------------------------------------------------------
(* The invariant holds initially, and every step keeps it.                 *)

LEMMA Initially == Init => IInv
<1> SUFFICES ASSUME Init PROVE IInv
  OBVIOUS
<1> USE LockAssumption DEF Init
<1>1. TypeOK
  BY DEF TypeOK, Holders, NoQueue, Queue, QueueState
<1>2. LockInv
  BY DEF LockInv, IntentServed, WaiterNotForgotten, DeferralHeld, NoQueue
<1>3. AnswerInv
  BY DEF AnswerInv, Holders
<1>4. ExitInv
  BY DEF ExitInv
<1> QED  BY <1>1, <1>2, <1>3, <1>4 DEF IInv

(* The lock of s passes to a holder that is no End, while no attach of s   *)
(* waits to be woken.                                                      *)
LEMMA AcquireStep ==
  ASSUME IInv, NEW s \in Sessions, Free(s), NEW who \in Holders \ {"free"},
         Acquire(s, who),
         UNCHANGED <<pending, request, answer>>,
         attach' \in {attach, [attach EXCEPT ![s] = "held"]},
         queue' \in Queue, queue'.blockers = queue.blockers
  PROVE  LockType' /\ LockInv' /\ AnswerInv'
<1> USE LockAssumption
<1>1. LockType'
  BY DEF IInv, TypeOK, LockType, Acquire, Holders, Answers
<1>2. LockInv'
  <2>1. IntentServed'
    BY DEF IInv, TypeOK, LockInv, IntentServed, Acquire
  <2>2. WaiterNotForgotten'
    BY DEF IInv, TypeOK, LockInv, WaiterNotForgotten, Acquire
  <2>3. DeferralHeld'
    BY DEF IInv, TypeOK, LockInv, DeferralHeld, Acquire, Queue, QueueState
  <2> QED  BY <2>1, <2>2, <2>3 DEF LockInv
<1>3. AnswerInv'
  BY DEF IInv, TypeOK, AnswerInv, Acquire
<1> QED  BY <1>1, <1>2, <1>3

(* A step that leaves the lock alone and defers at most a held session.    *)
LEMMA LockKept ==
  ASSUME IInv, UNCHANGED lockVars, queue' \in Queue,
         \A s \in queue'.blockers : s \in queue.blockers \/ (s \in Sessions /\ ~Free(s))
  PROVE  LockType' /\ LockInv' /\ AnswerInv'
<1>1. LockType'
  BY DEF IInv, TypeOK, LockType, lockVars, endVars, Answers
<1>2. LockInv'
  BY DEF IInv, LockInv, IntentServed, WaiterNotForgotten, DeferralHeld, lockVars, endVars
<1>3. AnswerInv'
  BY DEF IInv, AnswerInv, lockVars, endVars
<1> QED  BY <1>1, <1>2, <1>3

LEMMA RetryStep ==
  ASSUME IInv, RetryUnresolved, UNCHANGED session
  PROVE  /\ ExitInv' /\ queue' \in Queue /\ queue'.blockers = queue.blockers
         /\ watch' \in WatchType /\ faults' \in 0..MaxFaults
<1> DEFINE a == Again(queue)
           b == Again(Seen(queue))
<1>1. queue \in Queue /\ watch \in WatchType /\ faults \in 0..MaxFaults
  BY DEF IInv, TypeOK, WatchType
<1>2. /\ a \in Queue /\ Keeps(queue, a) /\ a.blockers = queue.blockers
  BY <1>1, ObservedType, ObservedKeeps, RetriedType DEF Again, Keeps
<1>3. /\ b \in Queue /\ Keeps(queue, b) /\ b.blockers = queue.blockers
      /\ watch.marker => b.unresolved /\ (b.pc = "verify" => b.dirty)
  <2>1. CASE watch.marker
    <3> DEFINE o == Observed(queue)
    <3>1. b = Observed(o)
      BY <2>1 DEF Again, Seen
    <3>2. o \in Queue /\ Keeps(queue, o) /\ o.blockers = queue.blockers
      BY <1>1, ObservedType, ObservedKeeps
    <3> HIDE DEF o, b
    <3>3. Observed(o) \in Queue /\ Keeps(o, Observed(o)) /\ Observed(o).blockers = o.blockers
          /\ Observed(o).unresolved /\ (Observed(o).pc = "verify" => Observed(o).dirty)
      BY <3>2, ObservedType, ObservedKeeps
    <3> QED  BY <3>1, <3>2, <3>3 DEF Keeps
  <2>2. CASE ~watch.marker
    BY <2>2, <1>1, RetriedType DEF Again, Seen, Keeps
  <2> QED  BY <2>1, <2>2
<1>4. Ensure(watch, a, b)
  BY DEF RetryUnresolved
<1> HIDE DEF a, b
<1> QED  BY <1>1, <1>2, <1>3, <1>4, EnsureStep DEF IInv

(* A new watcher that finds the marker observes it.                        *)
LEMMA SeenStep ==
  ASSUME IInv, UNCHANGED session, NEW w \in WatchType,
         w.on = watch.on, w.event = watch.event, w.marker = watch.marker,
         Ensure(w, queue, Seen(queue))
  PROVE  /\ ExitInv' /\ queue' \in Queue /\ queue'.blockers = queue.blockers
         /\ watch' \in WatchType /\ faults' \in 0..MaxFaults
<1> DEFINE b == Seen(queue)
<1>1. queue \in Queue /\ watch \in WatchType /\ faults \in 0..MaxFaults
  BY DEF IInv, TypeOK, WatchType
<1>2. Keeps(queue, queue)
  BY <1>1 DEF Keeps
<1>3. /\ b \in Queue /\ Keeps(queue, b) /\ b.blockers = queue.blockers
      /\ watch.marker => b.unresolved /\ (b.pc = "verify" => b.dirty)
  BY <1>1, <1>2, ObservedType, ObservedKeeps DEF Seen
<1> HIDE DEF b
<1>4. Ensure(w, queue, b)
  BY DEF b
<1> QED  BY <1>1, <1>2, <1>3, <1>4, EnsureStep DEF IInv

-----------------------------------------------------------------------------
(* One lemma for each group of actions.                                    *)

SessionType == [Sessions -> {"running", "exited", "settled", "deleted"}]
StartupType == [pc : {"watch", "rows", "reconcile", "up"}, todo : SUBSET Sessions]
Bounds == /\ begun \in 0..MaxOps /\ faults \in 0..MaxFaults /\ crashes \in 0..MaxCrashes

LEMMA Parts ==
  TypeOK <=> /\ LockType /\ session \in SessionType /\ watch \in WatchType
             /\ startup \in StartupType /\ Bounds
  BY DEF TypeOK, LockType, SessionType, WatchType, StartupType, Bounds, Answers

LEMMA AttachStep ==
  ASSUME IInv, NEW s \in Sessions, AttachCall(s) \/ AttachRetry(s)
  PROVE  IInv'
<1> USE LockAssumption
<1>0. LockType /\ session \in SessionType /\ watch \in WatchType /\ startup \in StartupType
      /\ Bounds /\ queue \in Queue
  BY Parts DEF IInv, LockType
<1>1. /\ UNCHANGED <<session, endVars, startup, crashes>>
      /\ begun' \in 0..MaxOps
  BY <1>0 DEF AttachCall, AttachRetry, Begin, Bounds
<1>2. CASE Free(s) /\ AttachOwned(s) /\ RetryUnresolved
  <2>1. /\ ExitInv' /\ queue' \in Queue /\ queue'.blockers = queue.blockers
        /\ watch' \in WatchType /\ faults' \in 0..MaxFaults
    BY <1>1, <1>2, RetryStep
  <2>2. LockType' /\ LockInv' /\ AnswerInv'
    BY <1>1, <1>2, <2>1, AcquireStep DEF AttachOwned, Holders, endVars
  <2>3. TypeOK'
    BY <1>0, <1>1, <2>1, <2>2, Parts DEF Bounds, endVars, LockType, WatchType, TypeOK, SessionType, StartupType, Answers
  <2> QED  BY <2>1, <2>2, <2>3 DEF IInv
<1>3. CASE Free(s) /\ AttachOwned(s) /\ UNCHANGED <<queue, watch, faults>>
  <2>1. ExitInv'
    BY <1>1, <1>3 DEF IInv, ExitInv
  <2>2. LockType' /\ LockInv' /\ AnswerInv'
    BY <1>0, <1>1, <1>3, AcquireStep DEF AttachOwned, Holders, endVars
  <2>3. TypeOK'
    BY <1>0, <1>1, <1>3, <2>2 DEF Bounds, endVars, LockType, WatchType, TypeOK, SessionType, StartupType, Answers
  <2> QED  BY <2>1, <2>2, <2>3 DEF IInv
<1>4. CASE ~Free(s) /\ AttachWaits(s)
  <2>1. ExitInv'
    BY <1>1, <1>4 DEF IInv, ExitInv, AttachWaits
  <2>2. TypeOK'
    BY <1>0, <1>1, <1>4 DEF AttachWaits, Bounds, endVars, LockType, WatchType, TypeOK, SessionType, StartupType, Answers
  <2>3. LockInv'
    BY <1>0, <1>1, <1>4 DEF IInv, AttachWaits, LockInv, IntentServed, WaiterNotForgotten, DeferralHeld, LockType, endVars
  <2>4. AnswerInv'
    BY <1>1, <1>4 DEF IInv, AttachWaits, AnswerInv, endVars
  <2> QED  BY <2>1, <2>2, <2>3, <2>4 DEF IInv
<1> QED  BY <1>2, <1>3, <1>4 DEF AttachCall, AttachRetry

(* An operation other than the pass's own reconciliation gives up a lock.  *)
LEMMA FinishStep ==
  ASSUME IInv, NEW s \in Sessions, ~Free(s), NEW told, Tells(s, told),
         ReleaseTelling(s, queue, told),
         session' \in SessionType, watch' \in {watch, Emitted(watch)},
         \A t \in Sessions : session'[t] = "exited" => session[t] = "exited",
         startup' \in StartupType, Bounds'
  PROVE  IInv'
<1>0. LockType /\ watch \in WatchType /\ queue \in Queue
  BY Parts DEF IInv, LockType
<1>1. LockType' /\ LockInv' /\ AnswerInv' /\ Keeps(queue, queue')
  BY <1>0, ReleaseStep DEF IInv
<1>2. ExitInv' /\ watch' \in WatchType
  BY <1>0, <1>1, ExitStep DEF IInv, Keeps
<1>3. TypeOK'
  BY <1>1, <1>2 DEF TypeOK, LockType, SessionType, WatchType, StartupType, Bounds, Answers
<1> QED  BY <1>1, <1>2, <1>3 DEF IInv

LEMMA FinishesStep ==
  ASSUME IInv, NEW s \in Sessions, Finish(s)
  PROVE  IInv'
<1> USE LockAssumption
<1>0. LockType /\ session \in SessionType /\ watch \in WatchType /\ startup \in StartupType
      /\ Bounds /\ TypeOK
  BY Parts DEF IInv
<1>1. CASE AttachFinish(s)
  <2>1. ~Free(s) /\ Tells(s, answer)
    BY <1>1 DEF AttachFinish, Tells, Holders
  <2> QED  BY <1>0, <1>1, <2>1, FinishStep DEF AttachFinish, Release, Bounds, bounds
<1>2. CASE OperationFinish(s)
  <2>1. ~Free(s) /\ Tells(s, answer)
    BY <1>2 DEF OperationFinish, Tells, Holders
  <2> QED  BY <1>0, <1>2, <2>1, FinishStep DEF OperationFinish, Release, Bounds, bounds
<1>3. CASE RecoveryFinish(s)
  <2>1. ~Free(s) /\ Tells(s, answer)
    BY <1>3 DEF RecoveryFinish, Tells, Holders
  <2>2. /\ session' \in SessionType /\ faults' \in 0..MaxFaults
        /\ \A t \in Sessions : session'[t] = "exited" => session[t] = "exited"
    BY <1>0, <1>3, ReconciledStep DEF RecoveryFinish, SessionType
  <2> QED  BY <1>0, <1>3, <2>1, <2>2, FinishStep DEF RecoveryFinish, Release, Bounds
<1>4. CASE EndFinish(s)
  <2>1. ~Free(s) /\ Active(s)
    BY <1>4 DEF EndFinish, Holders
  <2>2. /\ session' \in SessionType /\ UNCHANGED <<watch, startup, bounds>>
        /\ \A t \in Sessions : session'[t] = "exited" => session[t] = "exited"
    BY <1>0, <1>4 DEF EndFinish, SessionType
  <2>3. PICK x \in {"ended", "blocked"} :
          ReleaseTelling(s, queue, [answer EXCEPT ![owner[s]] = x])
    BY <1>4 DEF EndFinish
  <2>4. Tells(s, [answer EXCEPT ![owner[s]] = x])
    BY <2>1 DEF Tells
  <2> QED  BY <1>0, <2>1, <2>2, <2>3, <2>4, FinishStep DEF Bounds, bounds
<1> QED  BY <1>1, <1>2, <1>3, <1>4 DEF Finish

(* A step on the lock alone, by a caller or a pass that takes it or defers.*)
LEMMA BeginStep ==
  ASSUME IInv, LockType', LockInv', AnswerInv', UNCHANGED <<session, watch>>,
         queue.unresolved => queue'.unresolved,
         queue'.pc = "verify" => /\ queue.pc = "verify" /\ queue'.todo = queue.todo
                                 /\ queue.dirty => queue'.dirty,
         startup' \in StartupType, Bounds'
  PROVE  IInv'
<1>1. ExitInv'
  BY DEF IInv, ExitInv
<1>2. TypeOK'
  BY DEF IInv, TypeOK, LockType, StartupType, Bounds, Answers
<1> QED  BY <1>1, <1>2 DEF IInv

LEMMA CallStep ==
  ASSUME IInv, NEW s \in Sessions, OperationBegins(s) \/ RecoveryBegins(s)
  PROVE  IInv'
<1> USE LockAssumption
<1>0. LockType /\ session \in SessionType /\ watch \in WatchType /\ startup \in StartupType
      /\ Bounds /\ queue \in Queue
  BY Parts DEF IInv, LockType
<1>1. /\ UNCHANGED <<session, attach, endVars, watch, startup, faults, crashes>>
      /\ begun' \in 0..MaxOps
  BY <1>0 DEF OperationBegins, RecoveryBegins, Begin, Bounds
<1>2. CASE /\ Free(s) /\ UNCHANGED queue
           /\ Acquire(s, "operation") \/ Acquire(s, "recovery")
  <2>1. LockType' /\ LockInv' /\ AnswerInv'
    BY <1>0, <1>1, <1>2, AcquireStep DEF Holders, endVars
  <2> QED  BY <1>0, <1>1, <1>2, <2>1, BeginStep DEF Bounds
<1>3. CASE /\ ~Free(s) /\ queue' = Deferred(queue, s) /\ UNCHANGED owner
  <2>1. Keeps(queue, queue') /\ queue'.blockers = queue.blockers \cup {s}
    BY <1>0, <1>3, DeferredType
  <2>2. LockType' /\ LockInv' /\ AnswerInv'
    BY <1>1, <1>3, <2>1, LockKept DEF Keeps, lockVars
  <2> QED  BY <1>0, <1>1, <2>1, <2>2, BeginStep DEF Bounds, Keeps
<1> QED  BY <1>2, <1>3 DEF OperationBegins, RecoveryBegins, Available

LEMMA EndCallStep ==
  ASSUME IInv, NEW c \in Callers, NEW s \in Sessions,
         EndRefused(c, s) \/ EndTaken(c, s) \/ EndWaits(c, s)
  PROVE  IInv'
<1> USE LockAssumption
<1>0. LockType /\ session \in SessionType /\ watch \in WatchType /\ startup \in StartupType
      /\ Bounds /\ queue \in Queue
  BY Parts DEF IInv, LockType
<1>1. /\ UNCHANGED <<session, attach, queue, watch, startup, bounds>> /\ answer[c] = "idle"
  BY DEF EndRefused, EndTaken, EndWaits, EndCalled
<1>2. \A t \in Sessions : request[t] # c /\ owner[t] # c
  BY <1>1 DEF IInv, AnswerInv
<1>3. LockType' /\ LockInv' /\ AnswerInv'
  <2>1. CASE EndRefused(c, s)
    <3>1. LockType'
      BY <2>1, <1>0 DEF EndRefused, LockType, Answered, Answers
    <3>2. LockInv'
      BY <2>1 DEF IInv, LockInv, IntentServed, WaiterNotForgotten, DeferralHeld, EndRefused
    <3>3. AnswerInv'
      BY <2>1, <1>0, <1>2 DEF IInv, EndRefused, AnswerInv, LockType, Answered
    <3> QED  BY <3>1, <3>2, <3>3
  <2>2. CASE EndTaken(c, s)
    <3>1. /\ owner' = [owner EXCEPT ![s] = c] /\ answer' = [answer EXCEPT ![c] = "served"]
          /\ pending' = pending \ {s} /\ request' = request /\ Free(s)
          /\ request[s] = None /\ c # "free"
      BY <2>2 DEF EndTaken, Acquire, Answered, Available, Holders
    <3>2. LockType'
      BY <3>1, <1>0, <1>1 DEF LockType, Answers
    <3>3. LockInv'
      BY <3>1, <1>0, <1>1 DEF IInv, LockInv, IntentServed, WaiterNotForgotten, DeferralHeld, LockType
    <3>4. AnswerInv'
      BY <3>1, <1>0, <1>2 DEF IInv, AnswerInv, LockType
    <3> QED  BY <3>2, <3>3, <3>4
  <2>3. CASE EndWaits(c, s)
    <3>1. /\ request' = [request EXCEPT ![s] = c] /\ answer' = [answer EXCEPT ![c] = "waiting"]
          /\ pending' = (IF Active(s) THEN pending ELSE pending \cup {s})
          /\ owner' = owner /\ ~Free(s)
      BY <2>3 DEF EndWaits, Answered
    <3>2. LockType'
      BY <3>1, <1>0, <1>1 DEF LockType, Answers
    <3>3. LockInv'
      BY <3>1, <1>0, <1>1 DEF IInv, LockInv, IntentServed, WaiterNotForgotten, DeferralHeld, LockType
    <3>4. AnswerInv'
      BY <3>1, <1>0, <1>2 DEF IInv, AnswerInv, LockType
    <3> QED  BY <3>2, <3>3, <3>4
  <2> QED  BY <2>1, <2>2, <2>3
<1> QED  BY <1>0, <1>1, <1>3, BeginStep DEF Bounds, bounds

LEMMA TimeoutStep ==
  ASSUME IInv, NEW s \in Sessions, EndTimeout(s)
  PROVE  IInv'
<1> USE LockAssumption
<1>0. LockType /\ session \in SessionType /\ watch \in WatchType /\ startup \in StartupType
      /\ Bounds /\ queue \in Queue
  BY Parts DEF IInv, LockType
<1>1. /\ UNCHANGED <<session, owner, attach, pending, queue, watch, startup, bounds>>
      /\ request' = [request EXCEPT ![s] = None]
      /\ answer' = [answer EXCEPT ![request[s]] = "busy"]
      /\ request[s] \in Callers /\ answer[request[s]] = "waiting"
  BY <1>0 DEF EndTimeout, Answered, LockType, IInv, AnswerInv
<1>2. LockType'
  BY <1>0, <1>1 DEF LockType, Answers
<1>3. LockInv'
  BY <1>1 DEF IInv, LockInv, IntentServed, WaiterNotForgotten, DeferralHeld
<1>4. AnswerInv'
  BY <1>0, <1>1 DEF IInv, AnswerInv, LockType
<1> QED  BY <1>0, <1>1, <1>2, <1>3, <1>4, BeginStep DEF Bounds, bounds

(* Steps that leave the lock alone.                                        *)
LEMMA WatchStep ==
  ASSUME IInv, UNCHANGED lockVars, ExitInv', queue' \in Queue,
         queue'.blockers = queue.blockers, watch' \in WatchType,
         session' \in SessionType, startup' \in StartupType, Bounds'
  PROVE  IInv'
<1>1. LockType' /\ LockInv' /\ AnswerInv'
  BY LockKept
<1>2. TypeOK'
  BY <1>1 DEF TypeOK, LockType, SessionType, StartupType, WatchType, Bounds, Answers
<1> QED  BY <1>1, <1>2 DEF IInv

LEMMA WatchingStep ==
  ASSUME IInv, DeliverEvent \/ WatcherRevival \/ WatcherFails \/ Diagnose
  PROVE  IInv'
<1> USE LockAssumption
<1>0. LockType /\ session \in SessionType /\ watch \in WatchType /\ startup \in StartupType
      /\ Bounds /\ queue \in Queue
  BY Parts DEF IInv, LockType
<1>1. CASE DeliverEvent
  <2>1. /\ watch' = [watch EXCEPT !.event = FALSE] /\ queue' = Observed(queue)
        /\ UNCHANGED <<session, lockVars, startup, bounds>>
    BY <1>1 DEF DeliverEvent
  <2>2. /\ queue' \in Queue /\ queue'.blockers = queue.blockers
        /\ queue'.unresolved /\ (queue'.pc = "verify" => queue'.dirty)
    BY <2>1, <1>0, ObservedType
  <2>3. ExitInv' /\ watch' \in WatchType
    BY <2>1, <2>2, <1>0 DEF IInv, ExitInv, WatchType
  <2> QED  BY <2>1, <2>2, <2>3, <1>0, WatchStep DEF Bounds, bounds
<1>2. CASE WatcherRevival
  <2> DEFINE w == [watch EXCEPT !.revival = "used"]
  <2>1. /\ w \in WatchType /\ w.on = watch.on /\ w.event = watch.event
        /\ w.marker = watch.marker
    BY <1>0 DEF WatchType
  <2>2. /\ Ensure(w, queue, Seen(queue))
        /\ UNCHANGED <<session, lockVars, startup, begun, crashes>>
    BY <1>2 DEF WatcherRevival
  <2> HIDE DEF w
  <2> QED  BY <2>1, <2>2, <1>0, SeenStep, WatchStep DEF Bounds
<1>3. CASE WatcherFails
  <2> DEFINE r == IF watch.revival = "unused" THEN "due" ELSE watch.revival
  <2>3. /\ faults' \in 0..MaxFaults
        /\ UNCHANGED <<session, lockVars, queue, startup, begun, crashes>>
        /\ watch' = [watch EXCEPT !.on = FALSE, !.event = FALSE, !.revival = r]
    BY <1>3, <1>0 DEF WatcherFails, Fault, Bounds
  <2>4. r \in {"unused", "due", "used"}
    BY <1>0 DEF WatchType
  <2> HIDE DEF r
  <2>1. /\ ~watch'.on /\ ~watch'.event /\ watch'.marker = watch.marker
        /\ watch' \in WatchType
    BY <2>3, <2>4, <1>0 DEF WatchType
  <2>2. ExitInv'
    BY <2>1, <2>3 DEF IInv, ExitInv
  <2> QED  BY <2>1, <2>2, <2>3, <1>0, WatchStep DEF Bounds
<1>4. CASE Diagnose
  <2>1. begun' \in 0..MaxOps /\ RetryUnresolved /\ UNCHANGED <<session, lockVars, startup, crashes>>
    BY <1>4, <1>0 DEF Diagnose, Begin, Bounds
  <2> QED  BY <2>1, <1>0, RetryStep, WatchStep DEF Bounds
<1> QED  BY <1>1, <1>2, <1>3, <1>4

(* A step of the pass that forgets nothing, or resolves the queue rightly. *)
LEMMA PassStep ==
  ASSUME IInv, Pass \/ PassThrows
  PROVE  IInv'
<1> USE LockAssumption
<1>0. /\ LockType /\ session \in SessionType /\ watch \in WatchType /\ startup \in StartupType
      /\ Bounds /\ queue \in Queue /\ TypeOK
  BY Parts DEF IInv, LockType
<1>1. CASE PassLists
  <2>1. /\ queue' \in Queue /\ queue'.blockers = queue.blockers
        /\ queue'.unresolved = queue.unresolved /\ queue'.pc # "verify"
        /\ UNCHANGED <<session, lockVars, watch, startup, bounds>>
    BY <1>1, <1>0 DEF PassLists, Loop, Queue, QueueState, Listed
  <2>2. LockType' /\ LockInv' /\ AnswerInv'
    BY <2>1, LockKept
  <2> QED  BY <2>1, <2>2, <1>0, BeginStep DEF Bounds, bounds
<1>2. ASSUME NEW s \in Sessions, PassChecks(s) PROVE IInv'
  <2>1. /\ queue' \in Queue
        /\ queue'.unresolved = queue.unresolved /\ queue'.pc # "verify"
        /\ UNCHANGED <<session, lockVars, watch, startup, bounds>>
        /\ \/ queue'.blockers = queue.blockers
           \/ ~Free(s) /\ queue'.blockers = queue.blockers \cup {s}
    BY <1>2, <1>0 DEF PassChecks, Loop, Queue, QueueState, Deferred, Visited
  <2>2. LockType' /\ LockInv' /\ AnswerInv'
    BY <2>1, LockKept
  <2> QED  BY <2>1, <2>2, <1>0, BeginStep DEF Bounds, bounds
<1>3. ASSUME NEW s \in Sessions, PassAcquires(s) PROVE IInv'
  <2>1. /\ queue' \in Queue
        /\ queue'.unresolved = queue.unresolved /\ queue'.pc # "verify"
        /\ UNCHANGED <<session, attach, endVars, watch, startup, bounds>>
    <3>1. UNCHANGED <<session, attach, endVars, watch, startup, bounds>> /\ queue.pc = "settle"
      BY <1>3 DEF PassAcquires, Loop
    <3>2. CASE queue' = [queue EXCEPT !.pc = "reconcile"]
      BY <3>1, <3>2, <1>0 DEF Queue, QueueState
    <3>3. CASE queue' = Deferred(Visited(s, "check"), s)
      BY <3>1, <3>3, <1>0 DEF Queue, QueueState, Deferred, Visited
    <3> QED  BY <1>3, <3>1, <3>2, <3>3 DEF PassAcquires
  <2>2. CASE Free(s) /\ Acquire(s, "reconcile") /\ queue'.blockers = queue.blockers
    <3>1. LockType' /\ LockInv' /\ AnswerInv'
      BY <2>1, <2>2, AcquireStep DEF Holders, endVars
    <3> QED  BY <2>1, <3>1, <1>0, BeginStep DEF Bounds, bounds
  <2>3. CASE ~Free(s) /\ queue'.blockers = queue.blockers \cup {s} /\ UNCHANGED owner
    <3>1. LockType' /\ LockInv' /\ AnswerInv'
      BY <2>1, <2>3, LockKept DEF lockVars
    <3> QED  BY <2>1, <3>1, <1>0, BeginStep DEF Bounds, bounds
  <2> QED  BY <1>3, <1>0, <2>2, <2>3 DEF PassAcquires, Available, Deferred, Visited, Queue, QueueState
<1>4. ASSUME NEW s \in Sessions, PassReconciles(s) PROVE IInv'
  <2> DEFINE q == Visited(s, "check")
  <2>1. /\ ~Free(s) /\ Tells(s, answer) /\ q.unresolved = queue.unresolved
        /\ q \in Queue /\ q.pc = "check" /\ q.blockers = queue.blockers
    BY <1>4, <1>0 DEF PassReconciles, Loop, Visited, Queue, QueueState, Tells, Holders
  <2>2. ReleaseTelling(s, q, answer) /\ UNCHANGED <<watch, startup, begun, crashes>>
    BY <1>4 DEF PassReconciles, Release
  <2>3. /\ session' \in SessionType /\ faults' \in 0..MaxFaults
        /\ \A t \in Sessions : session'[t] = "exited" => session[t] = "exited"
    BY <1>0, <1>4, ReconciledStep DEF PassReconciles, SessionType
  <2> HIDE DEF q
  <2>4. LockType' /\ LockInv' /\ AnswerInv' /\ Keeps(q, queue')
    BY <2>1, <2>2, <1>0, ReleaseStep DEF IInv
  <2>5. ExitInv'
    BY <2>1, <2>2, <2>3, <2>4, <1>0, ExitStep DEF IInv, Keeps
  <2>6. TypeOK'
    BY <2>2, <2>3, <2>4, <1>0 DEF TypeOK, LockType, SessionType, WatchType, StartupType, Bounds, Answers
  <2> QED  BY <2>4, <2>5, <2>6 DEF IInv
<1>5. CASE PassListsAgain
  <2>1. /\ queue' \in Queue /\ queue'.blockers = queue.blockers /\ queue'.todo = Listed
        /\ queue'.unresolved = queue.unresolved
        /\ UNCHANGED <<session, lockVars, watch, startup, bounds>>
    BY <1>5, <1>0 DEF PassListsAgain, Loop, Queue, QueueState, Listed
  <2>2. ExitInv'
    BY <2>1 DEF IInv, ExitInv, Listed
  <2> QED  BY <2>1, <2>2, <1>0, WatchStep DEF Bounds, bounds
<1>6. ASSUME NEW s \in Sessions, PassVerifies(s) PROVE IInv'
  <2>4. faults' \in 0..MaxFaults
    <3>1. faults' = faults \/ Fault
      BY <1>6 DEF PassVerifies
    <3> QED  BY <3>1, <1>0 DEF Fault, Bounds
  <2>1. /\ UNCHANGED <<session, lockVars, watch, startup, begun, crashes>>
        /\ faults' \in 0..MaxFaults /\ queue.pc = "verify"
    BY <1>6, <2>4 DEF PassVerifies, Loop
  <2>2. CASE queue' = Resolved(queue, FALSE)
    <3>1. /\ queue' \in Queue /\ queue'.blockers = queue.blockers
          /\ queue'.unresolved /\ queue'.pc # "verify"
      BY <2>2, <1>0, ResolvedType
    <3>2. ExitInv'
      BY <2>1, <3>1 DEF IInv, ExitInv
    <3> QED  BY <2>1, <3>1, <3>2, <1>0, WatchStep DEF Bounds
  <2>3. CASE session[s] # "exited" /\ queue' = Visited(s, "verify")
    <3>1. /\ queue' \in Queue /\ queue'.blockers = queue.blockers
          /\ queue'.unresolved = queue.unresolved /\ queue'.dirty = queue.dirty
          /\ queue'.todo = queue.todo \ {s}
      BY <2>1, <2>3, <1>0 DEF Visited, Queue, QueueState
    <3>2. ExitInv'
      BY <2>1, <2>3, <3>1 DEF IInv, ExitInv
    <3> QED  BY <2>1, <3>1, <3>2, <1>0, WatchStep DEF Bounds
  <2> QED  BY <1>6, <2>2, <2>3 DEF PassVerifies
<1>7. CASE PassEnds
  <2>1. /\ queue' = Resolved(queue, TRUE) /\ queue.pc = "verify" /\ queue.todo = {}
        /\ UNCHANGED <<session, lockVars, watch, startup, bounds>>
    BY <1>7 DEF PassEnds, Loop
  <2>2. /\ queue' \in Queue /\ queue'.blockers = queue.blockers /\ queue'.pc # "verify"
        /\ queue.dirty => queue'.unresolved
    BY <2>1, <1>0, ResolvedType
  <2>3. ExitInv'
    BY <2>1, <2>2 DEF IInv, ExitInv
  <2> QED  BY <2>1, <2>2, <2>3, <1>0, WatchStep DEF Bounds, bounds
<1>8. CASE PassThrows
  <2>1. /\ queue' = Resolved(queue, FALSE) /\ faults' \in 0..MaxFaults
        /\ UNCHANGED <<session, lockVars, watch, startup, begun, crashes>>
    BY <1>8, <1>0 DEF PassThrows, Fault, Bounds
  <2>2. /\ queue' \in Queue /\ queue'.blockers = queue.blockers /\ queue'.pc # "verify"
        /\ queue'.unresolved
    BY <2>1, <1>0, ResolvedType
  <2>3. ExitInv'
    BY <2>1, <2>2 DEF IInv, ExitInv
  <2> QED  BY <2>1, <2>2, <2>3, <1>0, WatchStep DEF Bounds
<1> QED  BY <1>1, <1>2, <1>3, <1>4, <1>5, <1>6, <1>7, <1>8 DEF Pass

LEMMA StartupStep ==
  ASSUME IInv, Startup
  PROVE  IInv'
<1> USE LockAssumption
<1>0. /\ LockType /\ session \in SessionType /\ watch \in WatchType /\ startup \in StartupType
      /\ Bounds /\ queue \in Queue /\ TypeOK
  BY Parts DEF IInv, LockType
<1>1. CASE StartupWatch
  <2>1. startup' \in StartupType
    BY <1>1 DEF StartupWatch, StartupType, Listed
  <2> QED  BY <1>0, <1>1, <2>1, SeenStep, WatchStep DEF StartupWatch, Bounds
<1>2. ASSUME NEW s \in Sessions, StartupAcquires(s) PROVE IInv'
  <2>1. /\ UNCHANGED <<session, attach, endVars, watch, bounds>> /\ startup' \in StartupType
    BY <1>2, <1>0 DEF StartupAcquires, StartupType
  <2>2. CASE Free(s) /\ Acquire(s, "startup") /\ UNCHANGED queue
    <3>1. LockType' /\ LockInv' /\ AnswerInv'
      BY <2>1, <2>2, <1>0, AcquireStep DEF Holders, endVars
    <3> QED  BY <2>1, <2>2, <3>1, <1>0, BeginStep DEF Bounds, bounds
  <2>3. CASE ~Free(s) /\ queue' = Deferred(queue, s) /\ UNCHANGED owner
    <3>1. Keeps(queue, queue') /\ queue'.blockers = queue.blockers \cup {s}
      BY <1>0, <2>3, DeferredType
    <3>2. LockType' /\ LockInv' /\ AnswerInv'
      BY <2>1, <2>3, <3>1, LockKept DEF Keeps, lockVars
    <3> QED  BY <2>1, <3>1, <3>2, <1>0, BeginStep DEF Bounds, bounds, Keeps
  <2> QED  BY <1>2, <2>2, <2>3 DEF StartupAcquires
<1>3. ASSUME NEW s \in Sessions, StartupReconciles(s) PROVE IInv'
  <2>1. /\ ~Free(s) /\ Tells(s, answer) /\ ReleaseTelling(s, queue, answer)
        /\ UNCHANGED <<watch, begun, crashes>> /\ startup' \in StartupType
    BY <1>3, <1>0 DEF StartupReconciles, Tells, Holders, Release, StartupType
  <2>2. /\ session' \in SessionType /\ faults' \in 0..MaxFaults
        /\ \A t \in Sessions : session'[t] = "exited" => session[t] = "exited"
    BY <1>0, <1>3, ReconciledStep DEF StartupReconciles, SessionType
  <2> QED  BY <2>1, <2>2, <1>0, FinishStep DEF Bounds
<1>4. CASE StartupEnds
  <2>1. UNCHANGED <<session, lockVars, queue, watch, bounds>> /\ startup' \in StartupType
    BY <1>4, <1>0 DEF StartupEnds, StartupType
  <2>2. ExitInv'
    BY <2>1 DEF IInv, ExitInv
  <2> QED  BY <2>1, <2>2, <1>0, WatchStep DEF Bounds, bounds
<1> QED  BY <1>1, <1>2, <1>3, <1>4 DEF Startup

LEMMA ExitsStep ==
  ASSUME IInv, NEW s \in Sessions, SessionExits(s)
  PROVE  IInv'
<1>0. /\ LockType /\ session \in SessionType /\ watch \in WatchType /\ startup \in StartupType
      /\ Bounds /\ queue \in Queue
  BY Parts DEF IInv, LockType
<1>1. /\ session' \in SessionType /\ UNCHANGED <<lockVars, queue, startup, bounds>>
      /\ watch' \in WatchType /\ watch'.on = watch.on /\ watch'.event = watch.on /\ watch'.marker
  BY <1>0 DEF SessionExits, SessionType, Emitted, WatchType
<1>2. ExitInv'
  BY <1>1 DEF ExitInv
<1> QED  BY <1>0, <1>1, <1>2, WatchStep DEF Bounds, bounds

LEMMA CrashStep ==
  ASSUME IInv, Crash
  PROVE  IInv'
<1> USE LockAssumption
<1>0. /\ LockType /\ session \in SessionType /\ watch \in WatchType /\ Bounds
  BY Parts DEF IInv
<1>1. LockType'
  BY <1>0 DEF Crash, LockType, Holders, Answers, NoQueue, Queue, QueueState
<1>2. LockInv'
  BY DEF Crash, LockInv, IntentServed, WaiterNotForgotten, DeferralHeld, NoQueue
<1>3. AnswerInv'
  BY <1>0 DEF Crash, AnswerInv, Holders
<1>4. ExitInv'
  BY <1>0 DEF Crash, IInv, ExitInv, NoQueue, WatchType
<1>5. TypeOK'
  BY <1>0, <1>1 DEF Crash, TypeOK, LockType, SessionType, WatchType, Bounds, Answers
<1> QED  BY <1>1, <1>2, <1>3, <1>4, <1>5 DEF IInv

LEMMA Inductive == IInv /\ [Next]_vars => IInv'
<1> SUFFICES ASSUME IInv, [Next]_vars PROVE IInv'
  OBVIOUS
<1>1. CASE Call
  BY <1>1, WatchingStep, AttachStep, CallStep, EndCallStep DEF Call
<1>2. CASE Locked
  BY <1>2, AttachStep, FinishesStep, TimeoutStep DEF Locked
<1>3. CASE Watching \/ WatcherFails
  BY <1>3, WatchingStep DEF Watching
<1>4. CASE Pass \/ PassThrows
  BY <1>4, PassStep
<1>5. CASE Startup
  BY <1>5, StartupStep
<1>6. CASE Crash
  BY <1>6, CrashStep
<1>7. CASE \E s \in Sessions : SessionExits(s)
  BY <1>7, ExitsStep
<1>8. CASE UNCHANGED vars
  <2>1. UNCHANGED <<session, lockVars, queue, watch, startup, bounds>>
    BY <1>8 DEF vars, lockVars, endVars, bounds
  <2>2. /\ LockType /\ session \in SessionType /\ watch \in WatchType /\ startup \in StartupType
        /\ Bounds /\ queue \in Queue
    BY Parts DEF IInv, LockType
  <2>3. ExitInv'
    BY <2>1 DEF IInv, ExitInv
  <2> QED  BY <2>1, <2>2, <2>3, WatchStep DEF Bounds, bounds
<1> QED  BY <1>1, <1>2, <1>3, <1>4, <1>5, <1>6, <1>7, <1>8 DEF Next

LEMMA Invariance == Spec => []IInv
  BY Initially, Inductive, PTL DEF Spec

-----------------------------------------------------------------------------
(* The state of the daemon and of its host is always of its type.          *)
THEOREM TypeCorrect == Spec => []TypeOK
<1>1. IInv => TypeOK
  BY DEF IInv
<1> QED  BY <1>1, Invariance, PTL

(* A pending End is never lost to a competitor: whoever holds the lock     *)
(* hands it over when it releases.                                         *)
THEOREM PendingEndIsNext == Spec => []IntentServed
<1>1. IInv => IntentServed
  BY DEF IInv, LockInv
<1> QED  BY <1>1, Invariance, PTL

(* No release of a lock goes by an attach that sleeps on it.               *)
THEOREM NoLostWakeup == Spec => []WaiterNotForgotten
<1>1. IInv => WaiterNotForgotten
  BY DEF IInv, LockInv
<1> QED  BY <1>1, Invariance, PTL

(* A deferred follow-up pass always has someone left to queue it.          *)
THEOREM DeferralHasReleaser == Spec => []DeferralHeld
<1>1. IInv => DeferralHeld
  BY DEF IInv, LockInv
<1> QED  BY <1>1, Invariance, PTL

(* Nobody who waits for a lock is forgotten at its release: the pending    *)
(* End, the sleeping attach and the deferred pass.                         *)
THEOREM NobodyForgotten == Spec => []Handover
BY PendingEndIsNext, NoLostWakeup, DeferralHasReleaser, PTL DEF Handover

(* An End that was answered busy is never carried out.                     *)
THEOREM BusyEndIsVoid == Spec => []BusyAppliesNothing
<1>1. IInv => BusyAppliesNothing
  <2>1. ASSUME IInv, NEW c \in Callers, answer[c] = "busy", NEW s \in Sessions
        PROVE  request[s] # c /\ owner[s] # c
    BY <2>1, LockAssumption DEF IInv, AnswerInv
  <2> QED  BY <2>1 DEF BusyAppliesNothing
<1> QED  BY <1>1, Invariance, PTL

(* An exited session is never forgotten while the watcher runs.            *)
THEOREM ExitsAreRemembered == Spec => []ExitRemembered
<1>1. IInv => ExitRemembered
  BY DEF IInv, ExitInv, ExitRemembered
<1> QED  BY <1>1, Invariance, PTL
=============================================================================
