-------------------------- MODULE PlacementProofs --------------------------
(***************************************************************************)
(* No two decisions of Placement take one room, and a reservation stays as *)
(* long as its create runs.  The argument is that decisions wait for one   *)
(* another (OneDecides), so that what a decision judged still holds when   *)
(* it reserves (FitsStill), and that each create that runs made its own    *)
(* reservation (OwnersHold, OneOwner), which no reconciliation looks at    *)
(* (FateOfPlacing) and no later decision overwrites (FreshDecision).       *)
(*                                                                         *)
(* A root that runs has its reservation, or is found by the next decision. *)
(* The argument is that a request whose create was sent once has one place *)
(* (OnceOf), that its intent stays while its root may come back (KnownAt), *)
(* and that what a root's Tether said of it stays good enough to release   *)
(* by, however late the reconciliation acts on it (FateHolds).             *)
(***************************************************************************)
EXTENDS Placement, FiniteSetTheorems, TLAPS

(* The constants, as the proofs use them. *)
LEMMA Constants ==
  /\ Of \in [Attempt -> Request]
  /\ Local \in Host
  /\ None \notin Host /\ None \notin Fate /\ None # "asked" /\ None \notin Booking
  /\ Order \in Seq(Host)
  /\ DryRun \notin ({"place"} \X Attempt) \union ({"restore", "done"} \X Request)
  BY PlacementAssumption DEF PlacementAssumption

LEMMA Sizes ==
  /\ Rooms \subseteq [hosts : SUBSET Host, size : Nat]
  /\ Needs \in [Request -> Nat]
  /\ IsFiniteSet(Request)
  BY PlacementAssumption DEF PlacementAssumption

-----------------------------------------------------------------------------
(* Types.                                                                  *)

LEMMA OffTyped == Off \in Pass
  <1>1. <<>> \in Seq(Host)
    OBVIOUS
  <1> QED
    BY <1>1 DEF Off, Pass

LEMMA InitTyped == Init => TypeOK
  <1> SUFFICES ASSUME Init PROVE TypeOK
    OBVIOUS
  <1>1. pass \in [Decision -> Pass]
    BY OffTyped DEF Init
  <1>2. call \in [Attempt -> Call]
    BY DEF Init, Call
  <1>3. left \in [Kind -> Nat]
    BY PlacementAssumption DEF Init, PlacementAssumption
  <1>4. queue \in Seq(Decision)
    BY DEF Init
  <1>5. book \in [Request -> Booking \union {None}] /\ intent \in [Request -> Host \union {None}]
    BY DEF Init
  <1>6. root \in [Request -> [Host -> Root]]
    BY DEF Init, Root
  <1>7. host \in [Host -> {"up", "away", "off", "retired"}] /\ late \subseteq Request \X Host
    BY DEF Init
  <1> QED
    BY <1>1, <1>2, <1>3, <1>4, <1>5, <1>6, <1>7 DEF TypeOK

(* The head of the queue stays where it is when a decision joins it. *)
LEMMA Joins ==
  ASSUME NEW q \in Seq(Decision), NEW d \in Decision
  PROVE  /\ Append(q, d) \in Seq(Decision) /\ Append(q, d) # <<>>
         /\ q # <<>> => Head(Append(q, d)) = Head(q)
  <1>1. Append(q, d) \in Seq(Decision) /\ Len(Append(q, d)) = Len(q) + 1
    OBVIOUS
  <1>2. Append(q, d) # <<>>
    <2>1. Len(<<>>) = 0 /\ Len(q) \in Nat
      OBVIOUS
    <2> QED
      BY <1>1, <2>1
  <1>3. q # <<>> => Head(Append(q, d)) = Head(q)
    BY <1>1, <1>2
  <1> QED
    BY <1>1, <1>2, <1>3

LEMMA FateTyped ==
  ASSUME TypeOK, NEW r \in Request
  PROVE  /\ FirstLook(r) \in Fate \union {"asked", None}
         /\ \A h \in Host : FateOf(root[r][h]) \in Fate
  <1>1. \A h \in Host : root[r][h] \in Root
    BY DEF TypeOK
  <1>2. \A x \in Root : FateOf(x) \in Fate
    BY DEF FateOf, Root, Fate
  <1>3. Local \in Host
    BY Constants
  <1> QED
    BY <1>1, <1>2, <1>3 DEF FirstLook, Fate

LEMMA ReconcileTyped ==
  ASSUME TypeOK, NEW d \in Decision, NEW hosts \in Seq(Host), Reconcile(d, hosts)
  PROVE  /\ pass' \in [Decision -> Pass]
         /\ pass'[d].at = "asking" /\ pass'[d].hosts = hosts
         /\ pass'[d].fate = [r \in Request |-> FirstLook(r)]
         /\ \A e \in Decision \ {d} : pass'[e] = pass[e]
  <1> DEFINE look == [r \in Request |-> FirstLook(r)]
             asks == [at |-> "asking", fate |-> look, hosts |-> hosts, fits |-> FALSE]
  <1>1. look \in [Request -> Fate \union {"asked", None}]
    BY FateTyped
  <1>3. asks \in Pass
    BY <1>1 DEF Pass
  <1>4. pass' = [pass EXCEPT ![d] = asks]
    BY DEF Reconcile
  <1> QED
    BY <1>3, <1>4 DEF TypeOK

LEMMA OverTyped ==
  ASSUME TypeOK, NEW d \in Decision, queue # <<>>, Over(d)
  PROVE  /\ pass' \in [Decision -> Pass] /\ queue' \in Seq(Decision)
         /\ pass'[d] = Off
         /\ \A e \in Decision \ {d} : pass'[e] = pass[e]
  BY OffTyped DEF TypeOK, Over

-----------------------------------------------------------------------------
(* What the proofs keep.                                                   *)

(* One decision at a time is under way: the first of the chain. *)
OneDecides == \A d \in Decision : pass[d].at # "off" => queue # <<>> /\ Head(queue) = d

(* A decision that judges has a host to judge. *)
HostsLeft ==
  \A d \in Decision : pass[d].at \in {"judging", "verdict"} => pass[d].hosts # <<>>

(* What was judged to fit still fits. *)
FitsStill ==
  \A d \in Decision :
    pass[d].at = "verdict" /\ pass[d].fits
      => d # DryRun /\ Fits(book, Head(pass[d].hosts), RequestOf(d))

Placing(r) == book[r] # None /\ book[r].state = "placing"

(* A create that runs and made its reservation. *)
Running(a) == call[a].owns /\ call[a].at \in {"creating", "sent", "handled"}

(* A create under way goes to a host. *)
HostChosen ==
  \A a \in Attempt : call[a].at \in {"creating", "sent", "handled"} => call[a].host \in Host

(* "`placing` while its create runs (never released then)" (hub/placement.ts). *)
OwnersHold ==
  \A a \in Attempt : Running(a) => Placing(Of[a]) /\ book[Of[a]].host = call[a].host

OneOwner ==
  \A a, b \in Attempt : Running(a) /\ Running(b) /\ Of[a] = Of[b] => a = b

DecidingOwnsNothing == \A a \in Attempt : call[a].at = "deciding" => ~call[a].owns

(* A request that is being decided on is in no create. *)
FreshDecision ==
  \A d \in ({"place"} \X Attempt) \union ({"restore"} \X Request) :
    pass[d].at # "off" => ~Placing(RequestOf(d))

(* Nobody is asked about the root of a create that runs. *)
FateOfPlacing ==
  \A d \in Decision, r \in Request : pass[d].at = "asking" /\ Placing(r) => pass[d].fate[r] = None

IInv ==
  /\ TypeOK /\ OneDecides /\ HostsLeft /\ FitsStill /\ HostChosen
  /\ OwnersHold /\ OneOwner /\ DecidingOwnsNothing /\ FreshDecision /\ FateOfPlacing

-----------------------------------------------------------------------------
(* Units.                                                                  *)

Taken(b, hosts) == UNION {Units(r) : r \in {q \in Request : b[q] # None /\ b[q].host \in hosts}}

LEMMA UnitsCount ==
  ASSUME NEW r \in Request
  PROVE  IsFiniteSet(Units(r)) /\ Cardinality(Units(r)) = Needs[r]
  <1>1. Needs[r] \in Nat
    BY Sizes
  <1>2. IsFiniteSet(1..Needs[r]) /\ Cardinality(1..Needs[r]) = Needs[r]
    BY <1>1, FS_Interval
  <1>3. IsFiniteSet({r}) /\ Cardinality({r}) = 1
    BY FS_Singleton
  <1>4. /\ IsFiniteSet({r} \X (1..Needs[r]))
        /\ Cardinality({r} \X (1..Needs[r])) = 1 * Needs[r]
    BY <1>2, <1>3, FS_Product
  <1> QED
    BY <1>1, <1>4 DEF Units

LEMMA TakenFinite ==
  ASSUME NEW b, NEW hosts
  PROVE  IsFiniteSet(Taken(b, hosts)) /\ Held(b, hosts) \in Nat
  <1> DEFINE there == {q \in Request : b[q] # None /\ b[q].host \in hosts}
             sets == {Units(r) : r \in there}
  <1>1. IsFiniteSet(there)
    BY Sizes, FS_Subset
  <1>2. IsFiniteSet(sets)
    <2> DEFINE f == [q \in there |-> Units(q)]
    <2>1. f \in Surjection(there, sets)
      BY DEF Surjection
    <2> HIDE DEF there, sets, f
    <2> QED
      BY <1>1, <2>1, FS_Surjection
  <1>3. \A u \in sets : IsFiniteSet(u)
    BY UnitsCount
  <1>4. IsFiniteSet(UNION sets)
    BY <1>2, <1>3, FS_UNION
  <1> QED
    BY <1>4, FS_CardinalityType DEF Taken, Held

(* One reservation made, or moved, takes no more than its needs. *)
LEMMA HeldGrows ==
  ASSUME NEW b, NEW c, NEW r \in Request, NEW hosts,
         \A q \in Request \ {r} : c[q] = b[q]
  PROVE  Held(c, hosts) <= Held(b, hosts) + Needs[r]
  <1>1. Taken(c, hosts) \subseteq Taken(b, hosts) \union Units(r)
    BY DEF Taken
  <1>2. /\ IsFiniteSet(Taken(b, hosts) \union Units(r))
        /\ Cardinality(Taken(b, hosts) \union Units(r))
             = Cardinality(Taken(b, hosts)) + Cardinality(Units(r))
               - Cardinality(Taken(b, hosts) \intersect Units(r))
    BY TakenFinite, UnitsCount, FS_Union
  <1>3. Cardinality(Taken(b, hosts) \intersect Units(r)) \in Nat
    BY TakenFinite, FS_Subset, FS_CardinalityType
  <1>4. Cardinality(Taken(c, hosts)) <= Cardinality(Taken(b, hosts) \union Units(r))
    BY <1>1, <1>2, FS_Subset
  <1>5. Held(b, hosts) = Cardinality(Taken(b, hosts)) /\ Held(c, hosts) = Cardinality(Taken(c, hosts))
    BY DEF Held, Taken
  <1>6. Held(b, hosts) \in Nat /\ Held(c, hosts) \in Nat /\ Needs[r] \in Nat
    BY TakenFinite, Sizes
  <1> QED
    BY <1>2, <1>3, <1>4, <1>5, <1>6, UnitsCount

(* Held only depends on which host each request is booked on. *)
LEMMA HeldSame ==
  ASSUME NEW b, NEW c, NEW hosts,
         \A q \in Request : (c[q] # None) <=> (b[q] # None),
         \A q \in Request : b[q] # None => c[q].host = b[q].host
  PROVE  Held(c, hosts) = Held(b, hosts)
  <1>0. \A q \in Request : (c[q] # None /\ c[q].host \in hosts) <=> (b[q] # None /\ b[q].host \in hosts)
    OBVIOUS
  <1>1. {q \in Request : c[q] # None /\ c[q].host \in hosts}
          = {q \in Request : b[q] # None /\ b[q].host \in hosts}
    BY <1>0, Zenon
  <1> QED
    BY <1>1 DEF Held

-----------------------------------------------------------------------------
(* Every step keeps the types.                                             *)

LEMMA DecisionsAre ==
  /\ \A a \in Attempt : <<"place", a>> \in Decision
  /\ \A r \in Request : <<"restore", r>> \in Decision /\ <<"done", r>> \in Decision
  /\ DryRun \in Decision
  /\ \A a \in Attempt : RequestOf(<<"place", a>>) = Of[a] /\ Of[a] \in Request
  /\ \A r \in Request : RequestOf(<<"restore", r>>) = r
  BY Constants DEF Decision, RequestOf

LEMMA TurnHas ==
  ASSUME TypeOK, NEW d \in Decision, Turn(d)
  PROVE  queue # <<>> /\ Head(queue) = d /\ pass[d].at = "off"
  BY DEF Turn, Off

LEMMA KnownTyped ==
  ASSUME TypeOK, NEW r \in Request, NEW known \in Known(r)
  PROVE  /\ known \in Host \union {None}
         /\ known = None => book[r] = None
  <1>1. book[r] # None => book[r].host \in Host
    BY DEF TypeOK, Booking
  <1> QED
    BY <1>1, Constants DEF Known

LEMMA DecideCreateTyped ==
  ASSUME TypeOK, NEW a \in Attempt, DecideCreate(a)
  PROVE  TypeOK'
  <1> DEFINE d == <<"place", a>>
             r == Of[a]
             named == call[a].host
  <1>1. d \in Decision /\ r \in Request
    BY DecisionsAre
  <1>2. queue # <<>>
    BY <1>1, TurnHas DEF DecideCreate
  <1>3. named \in Host \union {None}
    BY DEF TypeOK, Call
  <1>4. PICK known \in Known(r) :
          IF named # None /\ (host[named] = "retired" \/ known \notin {None, named}) THEN
            Over(d) /\ call' = [call EXCEPT ![a].at = "over"]
          ELSE IF known # None THEN
            Over(d) /\ call' = [call EXCEPT ![a].at = "creating", ![a].host = known]
          ELSE
            /\ Reconcile(d, IF named # None THEN <<named>> ELSE Order)
            /\ UNCHANGED <<queue, call>>
    BY DEF DecideCreate
  <1>5. known \in Host \union {None}
    BY <1>1, KnownTyped
  <1>6. UNCHANGED <<book, intent, root, host, late, left>>
    BY DEF DecideCreate
  <1>7. queue' \in Seq(Decision) /\ pass' \in [Decision -> Pass] /\ call' \in [Attempt -> Call]
    <2>1. CASE named # None /\ (host[named] = "retired" \/ known \notin {None, named})
      <3>1. Over(d) /\ call' = [call EXCEPT ![a].at = "over"]
        BY <1>4, <2>1
      <3>2. queue' \in Seq(Decision) /\ pass' \in [Decision -> Pass]
        BY <1>1, <1>2, <3>1, OverTyped
      <3>3. call' \in [Attempt -> Call]
        BY <3>1 DEF TypeOK, Call
      <3> QED
        BY <3>2, <3>3
    <2>2. CASE /\ ~(named # None /\ (host[named] = "retired" \/ known \notin {None, named}))
               /\ known # None
      <3>1. Over(d) /\ call' = [call EXCEPT ![a].at = "creating", ![a].host = known]
        BY <1>4, <2>2
      <3>2. queue' \in Seq(Decision) /\ pass' \in [Decision -> Pass]
        BY <1>1, <1>2, <3>1, OverTyped
      <3>3. call' \in [Attempt -> Call]
        BY <1>5, <3>1 DEF TypeOK, Call
      <3> QED
        BY <3>2, <3>3
    <2>3. CASE /\ ~(named # None /\ (host[named] = "retired" \/ known \notin {None, named}))
               /\ known = None
      <3>1. (IF named # None THEN <<named>> ELSE Order) \in Seq(Host)
        BY <1>3, Constants
      <3> QED
        BY <1>1, <1>4, <2>3, <3>1, ReconcileTyped DEF TypeOK
    <2> QED
      BY <2>1, <2>2, <2>3
  <1> QED
    BY <1>6, <1>7 DEF TypeOK

LEMMA RootTyped ==
  ASSUME TypeOK, NEW r \in Request, NEW h \in Host, NEW state \in Root,
         root' = [root EXCEPT ![r][h] = state]
  PROVE  root' \in [Request -> [Host -> Root]]
  <1>1. root[r] \in [Host -> Root]
    BY DEF TypeOK
  <1>2. [root[r] EXCEPT ![h] = state] \in [Host -> Root]
    BY <1>1
  <1>3. root' = [root EXCEPT ![r] = [root[r] EXCEPT ![h] = state]]
    OBVIOUS
  <1> QED
    BY <1>2, <1>3 DEF TypeOK

LEMMA ResumeTyped ==
  ASSUME TypeOK, NEW r \in Request, Resume(r)
  PROVE  root' \in [Request -> [Host -> Root]]
  <1> DEFINE state == IF root[r][Local] = "retained" THEN "returning" ELSE root[r][Local]
  <1>1. Local \in Host /\ state \in Root
    BY Constants DEF TypeOK, Root
  <1>2. root' = [root EXCEPT ![r][Local] = state]
    BY DEF Resume
  <1> HIDE DEF state
  <1> QED
    BY <1>1, <1>2, RootTyped

LEMMA DecideRestoreTyped ==
  ASSUME TypeOK, NEW r \in Request, DecideRestore(r)
  PROVE  TypeOK'
  <1> DEFINE d == <<"restore", r>>
  <1>0. d \in Decision /\ Local \in Host
    BY DecisionsAre, Constants
  <1>1. d \in Decision /\ queue # <<>> /\ Local \in Host /\ <<Local>> \in Seq(Host)
    BY <1>0, TurnHas DEF DecideRestore
  <1>2. CASE book[r] # None
    <2>1. queue' \in Seq(Decision) /\ pass' \in [Decision -> Pass]
      BY <1>1, <1>2, OverTyped DEF DecideRestore
    <2>2. root' \in [Request -> [Host -> Root]]
      BY <1>2, ResumeTyped DEF DecideRestore
    <2> QED
      BY <2>1, <2>2 DEF DecideRestore, TypeOK
  <1>3. CASE book[r] = None /\ intent[r] # Local
    BY <1>1, <1>3, OverTyped DEF DecideRestore, TypeOK
  <1>4. CASE book[r] = None /\ intent[r] = Local
    BY <1>1, <1>4, ReconcileTyped DEF DecideRestore, TypeOK
  <1> QED
    BY <1>2, <1>3, <1>4

LEMMA DecideOtherTyped ==
  ASSUME TypeOK, NEW d \in Decision, DecideOther(d)
  PROVE  TypeOK'
  <1>1. <<>> \in Seq(Host) /\ Order \in Seq(Host)
    BY Constants
  <1>2. pass' \in [Decision -> Pass]
    BY <1>1, ReconcileTyped DEF DecideOther
  <1> QED
    BY <1>2 DEF DecideOther, TypeOK

LEMMA FateArrivesTyped ==
  ASSUME TypeOK, NEW d \in Decision, NEW r \in Request, FateArrives(d, r)
  PROVE  /\ TypeOK'
         /\ \E f \in Fate : pass' = [pass EXCEPT ![d].fate[r] = f]
         /\ pass[d].fate[r] = "asked" /\ pass[d].at = "asking"
  <1>1. pass[d].fate[r] = "asked"
    BY DEF FateArrives
  <1>4. "unknown" \in Fate
    BY DEF Fate
  <1>5. FateOf(root[r][HostOf(r)]) \in Fate
    BY DEF FateOf, Fate
  <1>6. PICK f \in Fate : pass' = [pass EXCEPT ![d].fate[r] = f]
    BY <1>4, <1>5 DEF FateArrives
  <1>7. pass' \in [Decision -> Pass]
    BY <1>6 DEF TypeOK, Pass
  <1> QED
    BY <1>1, <1>6, <1>7 DEF FateArrives, TypeOK

LEMMA ReleasedTyped ==
  ASSUME TypeOK, NEW r \in Request, NEW fate \in Fate \union {"asked", None}
  PROVE  Released(r, fate) \in Booking \union {None}
  <1>1. intent[r] \in Host \union {None} /\ book[r] \in Booking \union {None}
    BY DEF TypeOK
  <1>2. intent[r] \notin {None, Local} => [host |-> intent[r], state |-> "held"] \in Booking
    BY <1>1 DEF Booking
  <1> QED
    BY <1>1, <1>2 DEF Released

LEMMA ReconciledTyped ==
  ASSUME TypeOK, OneDecides, NEW d \in Decision, Reconciled(d)
  PROVE  TypeOK'
  <1>1. queue # <<>>
    BY DEF Reconciled, OneDecides
  <1>2. \A r \in Request : pass[d].fate[r] \in Fate \union {"asked", None}
    BY DEF TypeOK, Pass
  <1>3. book' \in [Request -> Booking \union {None}]
    BY <1>2, ReleasedTyped DEF Reconciled
  <1>4. intent' \in [Request -> Host \union {None}]
    BY DEF Reconciled, TypeOK
  <1>5. queue' \in Seq(Decision) /\ pass' \in [Decision -> Pass]
    <2>1. CASE pass[d].hosts = <<>>
      BY <1>1, <2>1, OverTyped DEF Reconciled
    <2>2. CASE pass[d].hosts # <<>>
      <3>1. pass' = [pass EXCEPT ![d].at = "judging"] /\ queue' = queue
        BY <2>2 DEF Reconciled
      <3> QED
        BY <3>1 DEF TypeOK, Pass
    <2> QED
      BY <2>1, <2>2
  <1> QED
    BY <1>3, <1>4, <1>5 DEF Reconciled, TypeOK

LEMMA JudgeTyped ==
  ASSUME TypeOK, NEW d \in Decision, Judge(d)
  PROVE  TypeOK'
  <1>1. book' \in [Request -> Booking \union {None}]
    BY DEF Judge, Stopped, TypeOK
  <1>2. PICK fits \in BOOLEAN : pass' = [pass EXCEPT ![d].at = "verdict", ![d].fits = fits]
    BY DEF Judge
  <1>3. pass' \in [Decision -> Pass]
    <2>1. CASE fits = TRUE
      <3>1. pass' = [pass EXCEPT ![d].at = "verdict", ![d].fits = TRUE]
        BY <1>2, <2>1, Zenon
      <3>2. pass \in [Decision -> Pass]
        BY DEF TypeOK
      <3>3. [pass[d] EXCEPT !.at = "verdict", !.fits = TRUE] \in Pass
        BY <3>2 DEF Pass
      <3>4. pass' = [pass EXCEPT ![d] = [pass[d] EXCEPT !.at = "verdict", !.fits = TRUE]]
        BY <3>1
      <3> QED
        BY <3>2, <3>3, <3>4
    <2>2. CASE fits = FALSE
      <3>1. pass' = [pass EXCEPT ![d].at = "verdict", ![d].fits = FALSE]
        BY <1>2, <2>2, Zenon
      <3>2. pass \in [Decision -> Pass]
        BY DEF TypeOK
      <3>3. [pass[d] EXCEPT !.at = "verdict", !.fits = FALSE] \in Pass
        BY <3>2 DEF Pass
      <3>4. pass' = [pass EXCEPT ![d] = [pass[d] EXCEPT !.at = "verdict", !.fits = FALSE]]
        BY <3>1
      <3> QED
        BY <3>2, <3>3, <3>4
    <2> QED
      BY <2>1, <2>2
  <1> QED
    BY <1>1, <1>3 DEF Judge, TypeOK

LEMMA RefuseTyped ==
  ASSUME TypeOK, OneDecides, NEW d \in Decision, Refuse(d)
  PROVE  TypeOK'
  <1>1. queue # <<>> /\ pass[d].hosts \in Seq(Host)
    BY DEF Refuse, OneDecides, TypeOK, Pass
  <1>2. CASE Len(pass[d].hosts) > 1
    <2>1. Tail(pass[d].hosts) \in Seq(Host)
      BY <1>1, <1>2
    <2>2. pass' = [pass EXCEPT ![d].at = "judging", ![d].hosts = Tail(pass[d].hosts)]
      BY <1>2 DEF Refuse
    <2>3. pass' \in [Decision -> Pass]
      BY <2>1, <2>2 DEF TypeOK, Pass
    <2> QED
      BY <1>2, <2>3 DEF Refuse, TypeOK
  <1>3. CASE ~(Len(pass[d].hosts) > 1)
    <2>1. queue' \in Seq(Decision) /\ pass' \in [Decision -> Pass]
      BY <1>1, <1>3, OverTyped DEF Refuse
    <2>2. call' \in [Attempt -> Call]
      <3>1. CASE d \in {"place"} \X Attempt
        <4>1. PICK a \in Attempt : d = <<"place", a>>
          BY <3>1
        <4>2. call' = [call EXCEPT ![a].at = "over"]
          BY <1>3, <3>1, <4>1 DEF Refuse
        <4> QED
          BY <4>2 DEF TypeOK, Call
      <3>2. CASE d \notin {"place"} \X Attempt
        BY <1>3, <3>2 DEF Refuse, TypeOK
      <3> QED
        BY <3>1, <3>2
    <2> QED
      BY <1>3, <2>1, <2>2 DEF Refuse, TypeOK
  <1> QED
    BY <1>2, <1>3

LEMMA PlaceTyped ==
  ASSUME TypeOK, OneDecides, HostsLeft, NEW a \in Attempt, Place(a)
  PROVE  TypeOK'
  <1> DEFINE d == <<"place", a>>
             h == Head(pass[d].hosts)
  <1>1. d \in Decision /\ Of[a] \in Request
    BY DecisionsAre
  <1>2. queue # <<>>
    BY <1>1 DEF Place, OneDecides
  <1>3. h \in Host
    BY <1>1 DEF Place, HostsLeft, TypeOK, Pass
  <1>4. queue' \in Seq(Decision) /\ pass' \in [Decision -> Pass]
    BY <1>1, <1>2, OverTyped DEF Place
  <1>5. book' \in [Request -> Booking \union {None}]
    BY <1>1, <1>3 DEF Place, TypeOK, Booking
  <1>6. intent' \in [Request -> Host \union {None}] /\ call' \in [Attempt -> Call]
    BY <1>1, <1>3 DEF Place, TypeOK, Call
  <1> QED
    BY <1>4, <1>5, <1>6 DEF Place, TypeOK

LEMMA RebookTyped ==
  ASSUME TypeOK, OneDecides, NEW r \in Request, Rebook(r)
  PROVE  /\ TypeOK' /\ queue # <<>>
  <1> DEFINE d == <<"restore", r>>
  <1>1. d \in Decision /\ <<"done", r>> \in Decision /\ Local \in Host
    BY DecisionsAre, Constants
  <1>2. queue # <<>>
    BY <1>1 DEF Rebook, OneDecides
  <1>3. Tail(queue) \in Seq(Decision)
    BY <1>2 DEF TypeOK
  <1>4. queue' \in Seq(Decision)
    BY <1>1, <1>3, Joins DEF Rebook
  <1>5. pass' \in [Decision -> Pass]
    BY OffTyped DEF Rebook, TypeOK
  <1>6. book' \in [Request -> Booking \union {None}] /\ intent' \in [Request -> Host \union {None}]
    BY <1>1 DEF Rebook, TypeOK, Booking
  <1>7. root' \in [Request -> [Host -> Root]]
    BY ResumeTyped DEF Rebook
  <1> QED
    BY <1>2, <1>4, <1>5, <1>6, <1>7 DEF Rebook, TypeOK

LEMMA SpendTyped ==
  ASSUME TypeOK, NEW kind \in Kind, Spend(kind)
  PROVE  left' \in [Kind -> Nat]
  <1>1. left[kind] \in Nat /\ left[kind] - 1 \in Nat
    BY DEF Spend, TypeOK
  <1>2. left' = [left EXCEPT ![kind] = left[kind] - 1]
    BY DEF Spend
  <1> QED
    BY <1>1, <1>2 DEF TypeOK

LEMMA SendTyped ==
  ASSUME TypeOK, NEW a \in Attempt, Send(a)
  PROVE  /\ TypeOK'
         /\ \E h \in Host \union {None} :
              call' = [call EXCEPT ![a] = [at |-> "deciding", host |-> h, owns |-> FALSE]]
  <1>1. PICK h \in Host \union {None} :
          call' = [call EXCEPT ![a] = [at |-> "deciding", host |-> h, owns |-> FALSE]]
    BY DEF Send
  <1>2. call' \in [Attempt -> Call]
    BY <1>1 DEF TypeOK, Call
  <1>3. queue' \in Seq(Decision)
    BY DecisionsAre, Joins DEF Send, TypeOK
  <1>4. left' \in [Kind -> Nat]
    BY SpendTyped DEF Send, Kind, TypeOK
  <1> QED
    BY <1>1, <1>2, <1>3, <1>4 DEF Send, TypeOK

LEMMA DoneTyped ==
  ASSUME TypeOK, OwnersHold, NEW a \in Attempt, Done(a),
         call[a].at \in {"creating", "sent", "handled"}
  PROVE  /\ call' \in [Attempt -> Call]
         /\ book' \in [Request -> Booking \union {None}]
         /\ queue' \in Seq(Decision)
  <1>1. call' \in [Attempt -> Call]
    BY DEF Done, TypeOK, Call
  <1>2. Of[a] \in Request /\ <<"done", Of[a]>> \in Decision
    BY DecisionsAre
  <1>3. CASE call[a].owns
    <2>1. book[Of[a]] \in Booking
      BY <1>2, <1>3 DEF OwnersHold, Running, Placing, TypeOK
    <2>2. [book[Of[a]] EXCEPT !.state = "held"] \in Booking
      BY <2>1 DEF Booking
    <2>3. book' = [book EXCEPT ![Of[a]] = [book[Of[a]] EXCEPT !.state = "held"]]
      BY <1>3 DEF Done
    <2>4. queue' \in Seq(Decision)
      BY <1>2, <1>3, Joins DEF Done, TypeOK
    <2> QED
      BY <1>1, <2>2, <2>3, <2>4 DEF TypeOK
  <1>4. CASE ~call[a].owns
    BY <1>1, <1>4 DEF Done, TypeOK
  <1> QED
    BY <1>3, <1>4

LEMMA HandleTyped ==
  ASSUME TypeOK, NEW a \in Attempt, Handle(a)
  PROVE  TypeOK'
  <1>1. call[a].host \in Host \union {None} /\ Of[a] \in Request /\ Local \in Host
    BY DecisionsAre, Constants DEF TypeOK, Call
  <1>2. call' \in [Attempt -> Call]
    BY DEF Handle, TypeOK, Call
  <1>3. root' \in [Request -> [Host -> Root]]
    <2>1. CASE UNCHANGED root
      BY <2>1 DEF TypeOK
    <2>2. CASE /\ root[Of[a]][call[a].host] = "none"
               /\ root' = [root EXCEPT ![Of[a]][call[a].host] = "live"]
      <3>1. CASE call[a].host \in Host
        BY <1>1, <2>2, <3>1, RootTyped DEF Root
      <3>2. CASE call[a].host \notin Host
        <4>1. root[Of[a]] \in [Host -> Root]
          BY <1>1 DEF TypeOK
        <4>2. [root[Of[a]] EXCEPT ![call[a].host] = "live"] = root[Of[a]]
          BY <3>2, <4>1
        <4>3. root' = [root EXCEPT ![Of[a]] = [root[Of[a]] EXCEPT ![call[a].host] = "live"]]
          BY <2>2
        <4> QED
          BY <4>1, <4>2, <4>3 DEF TypeOK
      <3> QED
        BY <3>1, <3>2
    <2> QED
      BY <2>1, <2>2 DEF Handle, Handles
  <1> QED
    BY <1>2, <1>3 DEF Handle, TypeOK

LEMMA CreatingTyped ==
  ASSUME TypeOK, OwnersHold, HostChosen, NEW a \in Attempt,
         Answered(a) \/ Forward(a) \/ Unavailable(a) \/ Uncertain(a)
  PROVE  TypeOK'
  <1>1. CASE Answered(a)
    BY <1>1, DoneTyped DEF Answered, TypeOK
  <1>2. CASE Forward(a)
    <2>1. call' \in [Attempt -> Call]
      BY <1>2 DEF Forward, TypeOK, Call
    <2>2. host' \in [Host -> {"up", "away", "off", "retired"}]
      BY <1>2 DEF Forward, TypeOK
    <2> QED
      BY <1>2, <2>1, <2>2 DEF Forward, TypeOK
  <1>3. CASE Unavailable(a)
    BY <1>3, DoneTyped DEF Unavailable, TypeOK
  <1>4. CASE Uncertain(a)
    <2>1. /\ call' \in [Attempt -> Call] /\ queue' \in Seq(Decision)
          /\ book' \in [Request -> Booking \union {None}]
      BY <1>4, DoneTyped DEF Uncertain
    <2>2. left' \in [Kind -> Nat]
      BY <1>4, SpendTyped DEF Uncertain, Strays, Kind, TypeOK
    <2>3. late' \subseteq Request \X Host
      <3>1. call[a].host \in Host
        BY <1>4 DEF Uncertain, HostChosen
      <3>2. <<Of[a], call[a].host>> \in Request \X Host
        BY <3>1, DecisionsAre
      <3>3. late' = late \/ late' = late \union {<<Of[a], call[a].host>>}
        BY <1>4 DEF Uncertain, Strays
      <3> QED
        BY <3>2, <3>3 DEF TypeOK
    <2> QED
      BY <1>4, <2>1, <2>2, <2>3 DEF Uncertain, TypeOK
  <1> QED
    BY <1>1, <1>2, <1>3, <1>4

LEMMA OutsideTyped ==
  ASSUME TypeOK, HostChosen, HandleLate \/ Outside
  PROVE  TypeOK'
  <1>0. {"live", "unplaced", "returning", "exited", "ended", "retained"} \subseteq Root
    BY DEF Root
  <1>1. CASE HandleLate
    <2>1. PICK m \in late : root' = [root EXCEPT ![m[1]][m[2]] = "live"]
      BY <1>1 DEF HandleLate
    <2>2. m[1] \in Request /\ m[2] \in Host
      BY DEF TypeOK
    <2>3. root' \in [Request -> [Host -> Root]]
      BY <1>0, <2>1, <2>2, RootTyped
    <2> QED
      BY <1>1, <2>3 DEF HandleLate, TypeOK
  <1>2. ASSUME NEW r \in Request, NEW h \in Host, Exits(r, h) PROVE TypeOK'
    <2>1. PICK state \in Root : root' = [root EXCEPT ![r][h] = state]
      BY <1>0, <1>2 DEF Exits
    <2>2. root' \in [Request -> [Host -> Root]]
      BY <2>1, RootTyped
    <2>3. left' \in [Kind -> Nat]
      BY <1>2, SpendTyped DEF Exits, Kind
    <2> QED
      BY <1>2, <2>2, <2>3 DEF Exits, TypeOK
  <1>3. ASSUME NEW r \in Request, NEW h \in Host, Restores(r, h) PROVE TypeOK'
    <2>1. root' \in [Request -> [Host -> Root]]
      BY <1>0, <1>3, RootTyped DEF Restores
    <2>2. left' \in [Kind -> Nat]
      BY <1>3, SpendTyped DEF Restores, Kind
    <2> QED
      BY <1>3, <2>1, <2>2 DEF Restores, TypeOK
  <1>4. ASSUME NEW r \in Request, AskRestore(r) PROVE TypeOK'
    <2>1. left' \in [Kind -> Nat] /\ Local \in Host
      BY <1>4, SpendTyped, Constants DEF AskRestore, Kind
    <2>2. root' \in [Request -> [Host -> Root]]
      <3>1. CASE intent[r] = None
        BY <1>0, <1>4, <2>1, <3>1, RootTyped DEF AskRestore
      <3>2. CASE intent[r] # None
        BY <1>4, <3>2 DEF AskRestore, TypeOK
      <3> QED
        BY <3>1, <3>2
    <2>3. queue' \in Seq(Decision)
      BY <1>4, DecisionsAre, Joins DEF AskRestore, TypeOK
    <2> QED
      BY <1>4, <2>1, <2>2, <2>3 DEF AskRestore, TypeOK
  <1>5. ASSUME NEW r \in Request, Relaunch(r) PROVE TypeOK'
    <2>1. root' \in [Request -> [Host -> Root]]
      BY <1>0, <1>5, RootTyped, Constants DEF Relaunch
    <2> QED
      BY <1>5, <2>1 DEF Relaunch, TypeOK
  <1>11. ASSUME NEW r \in Request, Respawns(r) PROVE TypeOK'
    <2>1. PICK state \in {"unplaced", "live"} : root' = [root EXCEPT ![r][Local] = state]
      BY <1>11 DEF Respawns
    <2>2. root' \in [Request -> [Host -> Root]]
      BY <1>0, <2>1, RootTyped, Constants
    <2>3. left' \in [Kind -> Nat]
      BY <1>11, SpendTyped DEF Respawns, Kind
    <2> QED
      BY <1>11, <2>2, <2>3 DEF Respawns, TypeOK
  <1>6. ASSUME NEW h \in Host, LinkChanges(h) PROVE TypeOK'
    BY <1>6, SpendTyped DEF LinkChanges, Kind, TypeOK
  <1>7. ASSUME NEW h \in Host, PowerChanges(h) PROVE TypeOK'
    BY <1>7, SpendTyped DEF PowerChanges, Kind, TypeOK
  <1>8. ASSUME NEW h \in Host, Retires(h) PROVE TypeOK'
    BY <1>8, SpendTyped DEF Retires, Kind, TypeOK
  <1>9. CASE AskDryRun
    <2>1. queue' \in Seq(Decision) /\ left' \in [Kind -> Nat]
      BY <1>9, SpendTyped, DecisionsAre, Joins DEF AskDryRun, Kind, TypeOK
    <2> QED
      BY <1>9, <2>1 DEF AskDryRun, TypeOK
  <1>10. CASE Restart
    <2>1. left' \in [Kind -> Nat]
      BY <1>10, SpendTyped DEF Restart, Kind
    <2>2. pass' \in [Decision -> Pass] /\ queue' \in Seq(Decision)
      BY <1>10, OffTyped DEF Restart
    <2>3. book' \in [Request -> Booking \union {None}]
      <3>1. \A r \in Request : book[r] # None => [book[r] EXCEPT !.state = "held"] \in Booking
        BY DEF TypeOK, Booking
      <3> QED
        BY <1>10, <3>1 DEF Restart
    <2>4. intent' \in [Request -> Host \union {None}]
      <3>1. \A r \in Request : book[r] # None => book[r].host \in Host
        BY DEF TypeOK, Booking
      <3> QED
        BY <1>10, <3>1 DEF Restart, Loaded, TypeOK
    <2>5. call' \in [Attempt -> Call]
      BY <1>10 DEF Restart, TypeOK, Call
    <2>6. root' \in [Request -> [Host -> Root]]
      <3>1. \A r \in Request : root[r] \in [Host -> Root]
        BY DEF TypeOK
      <3>2. \A r \in Request :
              [root[r] EXCEPT ![Local] = IF @ = "returning" THEN "retained" ELSE @] \in [Host -> Root]
        BY <1>0, <3>1
      <3> QED
        BY <1>10, <3>2 DEF Restart
    <2>7. late' \subseteq Request \X Host
      <3>1. PICK lost \in SUBSET {a \in Attempt : call[a].at = "sent"} :
              late' = late \union {<<Of[a], call[a].host>> : a \in lost}
        BY <1>10 DEF Restart
      <3>2. \A a \in lost : Of[a] \in Request /\ call[a].host \in Host
        BY Constants DEF HostChosen
      <3> QED
        BY <3>1, <3>2 DEF TypeOK
    <2> QED
      BY <1>10, <2>1, <2>2, <2>3, <2>4, <2>5, <2>6, <2>7 DEF Restart, TypeOK
  <1> QED
    BY <1>1, <1>2, <1>3, <1>4, <1>5, <1>6, <1>7, <1>8, <1>9, <1>10, <1>11 DEF Outside

LEMMA TypeStep ==
  ASSUME TypeOK, OneDecides, HostsLeft, OwnersHold, HostChosen, [Next]_vars
  PROVE  TypeOK'
  <1>1. CASE Deciding
    BY <1>1, DecideCreateTyped, PlaceTyped, DecideRestoreTyped, RebookTyped, DecideOtherTyped,
       ReconciledTyped, JudgeTyped, RefuseTyped, FateArrivesTyped
       DEF Deciding
  <1>2. CASE Creating
    BY <1>2, SendTyped, HandleTyped, CreatingTyped, OutsideTyped DEF Creating
  <1>3. CASE Outside
    BY <1>3, OutsideTyped
  <1>4. CASE UNCHANGED vars
    BY <1>4 DEF vars, TypeOK
  <1> QED
    BY <1>1, <1>2, <1>3, <1>4 DEF Next

-----------------------------------------------------------------------------
(* Every step keeps the rest.                                              *)

Safe ==
  /\ OneDecides /\ HostsLeft /\ FitsStill /\ HostChosen
  /\ OwnersHold /\ OneOwner /\ DecidingOwnsNothing /\ FreshDecision /\ FateOfPlacing

(* With no decision under way, only the creates matter. *)
LEMMA AllOff ==
  ASSUME \A e \in Decision : pass'[e].at = "off",
         HostChosen', OwnersHold', OneOwner', DecidingOwnsNothing'
  PROVE  Safe'
  <1>1. OneDecides' /\ HostsLeft' /\ FitsStill' /\ FateOfPlacing'
    BY DEF OneDecides, HostsLeft, FitsStill, FateOfPlacing
  <1>2. FreshDecision'
    BY DEF FreshDecision, Decision
  <1> QED
    BY <1>1, <1>2 DEF Safe

(* The decision that is under way, or starts, is alone. *)
LEMMA Alone ==
  ASSUME TypeOK, OneDecides, NEW d \in Decision, pass[d].at # "off" \/ Turn(d)
  PROVE  queue # <<>> /\ Head(queue) = d /\ \A e \in Decision \ {d} : pass[e].at = "off"
  BY DEF OneDecides, Turn

LEMMA OverLeavesNone ==
  ASSUME IInv, NEW d \in Decision, pass[d].at # "off" \/ Turn(d), Over(d)
  PROVE  \A e \in Decision : pass'[e].at = "off"
  <1>1. queue # <<>> /\ \A e \in Decision \ {d} : pass[e].at = "off"
    BY Alone DEF IInv
  <1>2. pass'[d] = Off /\ \A e \in Decision \ {d} : pass'[e] = pass[e]
    BY <1>1, OverTyped DEF IInv
  <1> QED
    BY <1>1, <1>2 DEF Off

(* A reconciliation that starts asks nothing about creates that run. *)
LEMMA ReconcileSafe ==
  ASSUME IInv, NEW d \in Decision, NEW hosts \in Seq(Host), Turn(d), Reconcile(d, hosts),
         UNCHANGED <<book, queue, call>>,
         d \in ({"place"} \X Attempt) \union ({"restore"} \X Request) => ~Placing(RequestOf(d))
  PROVE  Safe'
  <1>1. /\ pass'[d].at = "asking"
        /\ pass'[d].fate = [r \in Request |-> FirstLook(r)]
        /\ \A e \in Decision \ {d} : pass'[e] = pass[e]
    BY ReconcileTyped DEF IInv
  <1>2. queue # <<>> /\ Head(queue) = d /\ \A e \in Decision \ {d} : pass[e].at = "off"
    BY Alone DEF IInv
  <1>3. OneDecides' /\ HostsLeft' /\ FitsStill'
    BY <1>1, <1>2 DEF OneDecides, HostsLeft, FitsStill
  <1>4. HostChosen' /\ OwnersHold' /\ OneOwner' /\ DecidingOwnsNothing'
    BY DEF IInv, HostChosen, OwnersHold, OneOwner, DecidingOwnsNothing, Running, Placing
  <1>5. FreshDecision'
    BY <1>1, <1>2 DEF FreshDecision, Placing, Decision, RequestOf
  <1>6. FateOfPlacing'
    <2>1. \A r \in Request : Placing(r) => FirstLook(r) = None
      BY DEF Placing, FirstLook, Tracked
    <2> QED
      BY <1>1, <1>2, <2>1 DEF FateOfPlacing, Placing
  <1> QED
    BY <1>3, <1>4, <1>5, <1>6 DEF Safe

(* Steps that leave reservations, decisions and creates alone. *)
LEMMA QuietSafe ==
  ASSUME IInv, UNCHANGED <<book, pass, call>>, NEW d \in Decision,
         queue' = queue \/ queue' = Append(queue, d)
  PROVE  Safe'
  <1>1. OneDecides'
    BY Joins DEF IInv, TypeOK, OneDecides
  <1>2. HostsLeft' /\ HostChosen' /\ OwnersHold' /\ OneOwner' /\ DecidingOwnsNothing'
    BY DEF IInv, HostsLeft, HostChosen, OwnersHold, OneOwner, DecidingOwnsNothing, Running, Placing
  <1>3. FitsStill' /\ FreshDecision' /\ FateOfPlacing'
    BY DEF IInv, FitsStill, Fits, Held, Units, FreshDecision, RequestOf, FateOfPlacing, Placing
  <1> QED
    BY <1>1, <1>2, <1>3 DEF Safe

(* A create moves on, or is sent. *)
LEMMA CallSafe ==
  ASSUME IInv, NEW a \in Attempt, Send(a) \/ Handle(a) \/ Forward(a), TypeOK'
  PROVE  Safe'
  <1>1. UNCHANGED <<book, pass>>
    BY DEF Send, Handle, Forward
  <1>2. \E d \in Decision : queue' = queue \/ queue' = Append(queue, d)
    BY DecisionsAre DEF Send, Handle, Forward
  <1>3. OneDecides'
    BY <1>1, <1>2, Joins DEF IInv, TypeOK, OneDecides
  <1>4. HostsLeft' /\ FitsStill' /\ FreshDecision' /\ FateOfPlacing'
    BY <1>1 DEF IInv, HostsLeft, FitsStill, Fits, Held, Units, FreshDecision, RequestOf, FateOfPlacing, Placing
  <1>5. /\ \A b \in Attempt \ {a} : call'[b] = call[b]
        /\ call'[a].at = "deciding" => ~call'[a].owns
        /\ call'[a].at \in {"creating", "sent", "handled"} =>
             /\ call[a].at \in {"creating", "sent", "handled"}
             /\ call'[a].host = call[a].host /\ call'[a].owns = call[a].owns
    <2>1. CASE Send(a)
      BY <2>1, SendTyped DEF IInv, TypeOK, Call
    <2>2. CASE Handle(a)
      BY <2>2 DEF Handle, IInv, TypeOK, Call
    <2>3. CASE Forward(a)
      BY <2>3 DEF Forward, IInv, TypeOK, Call
    <2> QED
      BY <2>1, <2>2, <2>3
  <1>6. \A b \in Attempt : Running(b)' => Running(b) /\ call'[b].host = call[b].host
    BY <1>5 DEF Running
  <1>7. OwnersHold' /\ OneOwner'
    BY <1>1, <1>6 DEF IInv, OwnersHold, OneOwner, Placing
  <1>8. HostChosen' /\ DecidingOwnsNothing'
    BY <1>5 DEF IInv, HostChosen, DecidingOwnsNothing
  <1> QED
    BY <1>3, <1>4, <1>7, <1>8 DEF Safe

(* The creates that run, and their reservations, stay as they are. *)
LEMMA CreatesKept ==
  ASSUME IInv,
         \A r \in Request : Placing(r) => book'[r] = book[r],
         \A b \in Attempt : Running(b)' => Running(b) /\ call'[b].host = call[b].host,
         \A b \in Attempt : call'[b].at \in {"creating", "sent", "handled"} => call'[b].host \in Host,
         \A b \in Attempt : call'[b].at = "deciding" => ~call'[b].owns
  PROVE  HostChosen' /\ OwnersHold' /\ OneOwner' /\ DecidingOwnsNothing'
  <1>1. HostChosen' /\ DecidingOwnsNothing'
    BY DEF HostChosen, DecidingOwnsNothing
  <1>2. OwnersHold'
    BY DecisionsAre DEF IInv, OwnersHold, Placing
  <1>3. OneOwner'
    BY DEF IInv, OneOwner
  <1> QED
    BY <1>1, <1>2, <1>3

LEMMA CallsSame ==
  ASSUME IInv, UNCHANGED call,
         \A r \in Request : Placing(r) => book'[r] = book[r]
  PROVE  HostChosen' /\ OwnersHold' /\ OneOwner' /\ DecidingOwnsNothing'
  BY CreatesKept DEF Running, IInv, HostChosen, DecidingOwnsNothing

LEMMA DecideCreateSafe ==
  ASSUME IInv, NEW a \in Attempt, DecideCreate(a), TypeOK'
  PROVE  Safe'
  <1> DEFINE d == <<"place", a>>
             r == Of[a]
             named == call[a].host
  <1>1. d \in Decision /\ r \in Request /\ RequestOf(d) = r
    BY DecisionsAre
  <1>2. /\ Turn(d) /\ call[a].at = "deciding" /\ ~call[a].owns /\ UNCHANGED book
        /\ named \in Host \union {None} /\ call[a] \in Call /\ call \in [Attempt -> Call]
    BY DEF DecideCreate, IInv, DecidingOwnsNothing, TypeOK, Call
  <1>3. PICK known \in Known(r) :
          IF named # None /\ (host[named] = "retired" \/ known \notin {None, named}) THEN
            Over(d) /\ call' = [call EXCEPT ![a].at = "over"]
          ELSE IF known # None THEN
            Over(d) /\ call' = [call EXCEPT ![a].at = "creating", ![a].host = known]
          ELSE
            /\ Reconcile(d, IF named # None THEN <<named>> ELSE Order)
            /\ UNCHANGED <<queue, call>>
    BY DEF DecideCreate
  <1>4. known \in Host \union {None} /\ (known = None => book[r] = None)
    BY <1>1, KnownTyped DEF IInv
  <1>5. CASE Over(d) /\ call' = [call EXCEPT ![a].at = "over"]
    <2>1. \A e \in Decision : pass'[e].at = "off"
      BY <1>1, <1>2, <1>5, OverLeavesNone
    <2>2. call'[a].at = "over" /\ \A b \in Attempt \ {a} : call'[b] = call[b]
      BY <1>2, <1>5 DEF Call
    <2>3. HostChosen' /\ OwnersHold' /\ OneOwner' /\ DecidingOwnsNothing'
      BY <1>2, <2>2, CreatesKept DEF Running, IInv, HostChosen, DecidingOwnsNothing
    <2> QED
      BY <2>1, <2>3, AllOff
  <1>6. CASE Over(d) /\ known # None /\ call' = [call EXCEPT ![a].at = "creating", ![a].host = known]
    <2>1. \A e \in Decision : pass'[e].at = "off"
      BY <1>1, <1>2, <1>6, OverLeavesNone
    <2>2. /\ call'[a].at = "creating" /\ call'[a].host = known /\ call'[a].owns = call[a].owns
          /\ \A b \in Attempt \ {a} : call'[b] = call[b]
      BY <1>2, <1>6 DEF Call
    <2>3. HostChosen' /\ OwnersHold' /\ OneOwner' /\ DecidingOwnsNothing'
      BY <1>2, <1>4, <1>6, <2>2, CreatesKept DEF Running, IInv, HostChosen, DecidingOwnsNothing
    <2> QED
      BY <2>1, <2>3, AllOff
  <1>7. CASE /\ known = None /\ UNCHANGED <<queue, call>>
             /\ Reconcile(d, IF named # None THEN <<named>> ELSE Order)
    <2>1. (IF named # None THEN <<named>> ELSE Order) \in Seq(Host)
      BY <1>2, Constants
    <2>2. ~Placing(RequestOf(d))
      BY <1>1, <1>4, <1>7 DEF Placing
    <2> QED
      BY <1>1, <1>2, <1>7, <2>1, <2>2, ReconcileSafe
  <1> QED
    BY <1>3, <1>5, <1>6, <1>7

LEMMA DecideRestoreSafe ==
  ASSUME IInv, NEW r \in Request, DecideRestore(r)
  PROVE  Safe'
  <1> DEFINE d == <<"restore", r>>
  <1>0. d \in Decision /\ RequestOf(d) = r /\ Local \in Host
    BY DecisionsAre, Constants
  <1>1. d \in Decision /\ RequestOf(d) = r /\ <<Local>> \in Seq(Host)
    BY <1>0
  <1>2. Turn(d) /\ UNCHANGED <<book, call>>
    BY DEF DecideRestore
  <1>3. CASE Over(d)
    BY <1>1, <1>2, <1>3, OverLeavesNone, CallsSame, AllOff
  <1>4. CASE book[r] = None /\ Reconcile(d, <<Local>>) /\ UNCHANGED queue
    BY <1>1, <1>2, <1>4, ReconcileSafe DEF Placing
  <1> QED
    BY <1>3, <1>4 DEF DecideRestore

LEMMA DecideOtherSafe ==
  ASSUME IInv, NEW d \in Decision, DecideOther(d)
  PROVE  Safe'
  <1>1. d \notin ({"place"} \X Attempt) \union ({"restore"} \X Request)
    BY Constants DEF DecideOther
  <1>2. <<>> \in Seq(Host) /\ Order \in Seq(Host)
    BY Constants
  <1> QED
    BY <1>1, <1>2, ReconcileSafe DEF DecideOther

(* Reservations of creates that run outlive a reconciliation. *)
LEMMA ReconciledSafe ==
  ASSUME IInv, NEW d \in Decision, Reconciled(d), TypeOK'
  PROVE  Safe'
  <1>0. TypeOK
    BY DEF IInv
  <1>1. pass[d].at = "asking" /\ UNCHANGED call
    BY DEF Reconciled
  <1>2. \A r \in Request : Placing(r) => book'[r] = book[r]
    <2>1. \A r \in Request : Placing(r) => pass[d].fate[r] = None
      BY <1>1 DEF IInv, FateOfPlacing
    <2>2. \A r \in Request : Placing(r) => Released(r, None) = book[r]
      BY Constants DEF Released, Gone, Fate
    <2> QED
      BY <2>1, <2>2 DEF Reconciled
  <1>3. \A r \in Request : Placing(r)' => Placing(r)
    <2>1. \A f : \A r \in Request : Released(r, f) # None /\ Released(r, f).state = "placing" => Placing(r)
      BY DEF Released, Placing
    <2> QED
      BY <2>1 DEF Reconciled, Placing
  <1>4. HostChosen' /\ OwnersHold' /\ OneOwner' /\ DecidingOwnsNothing'
    BY <1>1, <1>2, CallsSame
  <1>5. CASE pass[d].hosts = <<>>
    BY <1>1, <1>4, <1>5, OverLeavesNone, AllOff DEF Reconciled
  <1>6. CASE pass[d].hosts # <<>>
    <2>1. /\ UNCHANGED queue
          /\ pass'[d].at = "judging" /\ pass'[d].hosts = pass[d].hosts
          /\ \A e \in Decision \ {d} : pass'[e] = pass[e] /\ pass[e].at = "off"
      BY <1>0, <1>1, <1>6, Alone DEF Reconciled, IInv, TypeOK, Pass
    <2>2. OneDecides' /\ HostsLeft' /\ FitsStill' /\ FateOfPlacing'
      BY <1>1, <1>6, <2>1 DEF IInv, OneDecides, HostsLeft, FitsStill, FateOfPlacing
    <2>3. \A e \in ({"place"} \X Attempt) \union ({"restore"} \X Request) :
            e \in Decision /\ RequestOf(e) \in Request
      BY Constants DEF RequestOf, Decision
    <2>4. FreshDecision'
      BY <1>1, <1>3, <2>1, <2>3 DEF IInv, FreshDecision, RequestOf
    <2> QED
      BY <1>4, <2>2, <2>4 DEF Safe
  <1> QED
    BY <1>5, <1>6

LEMMA FateArrivesSafe ==
  ASSUME IInv, NEW d \in Decision, NEW r \in Request, FateArrives(d, r)
  PROVE  Safe'
  <1>0. TypeOK /\ UNCHANGED <<book, queue, call>>
    BY DEF IInv, FateArrives
  <1>1. PICK f \in Fate : pass' = [pass EXCEPT ![d].fate[r] = f]
    BY <1>0, FateArrivesTyped
  <1>2. pass[d].fate[r] = "asked" /\ pass[d].at = "asking"
    BY DEF FateArrives
  <1>3. /\ pass'[d].at = "asking"
        /\ \A q \in Request \ {r} : pass'[d].fate[q] = pass[d].fate[q]
        /\ \A e \in Decision \ {d} : pass'[e] = pass[e]
    BY <1>0, <1>1, <1>2 DEF TypeOK, Pass
  <1>4. HostChosen' /\ OwnersHold' /\ OneOwner' /\ DecidingOwnsNothing'
    BY <1>0, CallsSame
  <1>5. OneDecides' /\ HostsLeft'
    BY <1>0, <1>2, <1>3 DEF IInv, OneDecides, HostsLeft
  <1>6. FitsStill'
    BY <1>0, <1>3 DEF IInv, FitsStill, Fits, Held, Units, RequestOf
  <1>7. FreshDecision'
    BY <1>0, <1>2, <1>3 DEF IInv, FreshDecision, RequestOf, Placing, Decision
  <1>8. ~Placing(r)
    BY <1>2, Constants DEF IInv, FateOfPlacing
  <1>9. FateOfPlacing'
    BY <1>0, <1>2, <1>3, <1>8 DEF IInv, FateOfPlacing, Placing
  <1> QED
    BY <1>4, <1>5, <1>6, <1>7, <1>9 DEF Safe

LEMMA JudgeSafe ==
  ASSUME IInv, NEW d \in Decision, Judge(d)
  PROVE  Safe'
  <1> DEFINE h == Head(pass[d].hosts)
  <1>0. TypeOK /\ pass[d].at = "judging" /\ UNCHANGED <<queue, call>>
    BY DEF IInv, Judge
  <1>1. \A r \in Request : book'[r] = book[r] \/ (book'[r] = None /\ ~Placing(r))
    BY DEF Judge, Stopped, Placing
  <1>2. \A r \in Request : (Placing(r) => book'[r] = book[r]) /\ (Placing(r)' => Placing(r))
    BY <1>1 DEF Placing
  <1>3. PICK fits \in BOOLEAN :
          /\ fits => d # DryRun /\ Fits(book', h, RequestOf(d))
          /\ pass' = [pass EXCEPT ![d].at = "verdict", ![d].fits = fits]
    BY DEF Judge
  <1>4. /\ pass'[d].at = "verdict" /\ pass'[d].hosts = pass[d].hosts
        /\ pass'[d].fits => fits
        /\ \A e \in Decision \ {d} : pass'[e] = pass[e] /\ pass[e].at = "off"
    <2>1. \A e \in Decision \ {d} : pass[e].at = "off"
      BY <1>0, Alone DEF IInv
    <2>2. CASE fits = TRUE
      BY <1>0, <1>3, <2>1, <2>2 DEF TypeOK, Pass
    <2>3. CASE fits = FALSE
      <3>1. pass' = [pass EXCEPT ![d].at = "verdict", ![d].fits = FALSE]
        BY <1>3, <2>3, Zenon
      <3> QED
        BY <1>0, <2>1, <3>1 DEF TypeOK, Pass
    <2> QED
      BY <2>2, <2>3
  <1>5. HostChosen' /\ OwnersHold' /\ OneOwner' /\ DecidingOwnsNothing'
    BY <1>0, <1>2, CallsSame
  <1>6. OneDecides' /\ HostsLeft' /\ FateOfPlacing'
    BY <1>0, <1>4 DEF IInv, OneDecides, HostsLeft, FateOfPlacing
  <1>7. FitsStill'
    BY <1>3, <1>4 DEF FitsStill, Fits, Held, Units, RequestOf
  <1>8. \A e \in ({"place"} \X Attempt) \union ({"restore"} \X Request) :
          e \in Decision /\ RequestOf(e) \in Request
    BY Constants DEF RequestOf, Decision
  <1>9. FreshDecision'
    BY <1>0, <1>2, <1>4, <1>8 DEF IInv, FreshDecision, RequestOf
  <1> QED
    BY <1>5, <1>6, <1>7, <1>9 DEF Safe

LEMMA HostsBehind ==
  ASSUME NEW S, NEW q \in Seq(S), Len(q) > 1
  PROVE  Tail(q) # <<>>
  <1>1. Tail(q) \in Seq(S) /\ Len(Tail(q)) = Len(q) - 1 /\ Len(q) \in Nat
    OBVIOUS
  <1> DEFINE rest == Tail(q)
  <1>2. rest \in Seq(S) /\ Len(rest) > 0
    BY <1>1
  <1> HIDE DEF rest
  <1>3. rest # <<>>
    BY <1>2
  <1> QED
    BY <1>3 DEF rest

LEMMA RefuseSafe ==
  ASSUME IInv, NEW d \in Decision, Refuse(d)
  PROVE  Safe'
  <1>0. TypeOK /\ pass[d].at = "verdict" /\ UNCHANGED book /\ pass[d].hosts \in Seq(Host)
    BY DEF IInv, Refuse, TypeOK, Pass
  <1>1. CASE Len(pass[d].hosts) > 1
    <2>0. Tail(pass[d].hosts) # <<>>
      BY <1>0, <1>1, HostsBehind
    <2>1. /\ UNCHANGED <<queue, call>>
          /\ pass'[d].at = "judging" /\ pass'[d].hosts = Tail(pass[d].hosts)
          /\ \A e \in Decision \ {d} : pass'[e] = pass[e] /\ pass[e].at = "off"
      <3>1. /\ UNCHANGED <<queue, call>>
            /\ pass' = [pass EXCEPT ![d].at = "judging", ![d].hosts = Tail(pass[d].hosts)]
        BY <1>1 DEF Refuse
      <3>2. \A e \in Decision \ {d} : pass[e].at = "off"
        BY <1>0, Alone DEF IInv
      <3>3. pass \in [Decision -> Pass] /\ pass[d] \in Pass
        BY <1>0 DEF TypeOK
      <3> QED
        BY <3>1, <3>2, <3>3 DEF Pass
    <2>2. HostChosen' /\ OwnersHold' /\ OneOwner' /\ DecidingOwnsNothing'
      BY <1>0, <2>1, CallsSame
    <2>3. OneDecides' /\ HostsLeft' /\ FitsStill' /\ FateOfPlacing'
      BY <1>0, <2>0, <2>1 DEF IInv, OneDecides, HostsLeft, FitsStill, FateOfPlacing
    <2>4. FreshDecision'
      BY <1>0, <2>1 DEF IInv, FreshDecision, RequestOf, Placing, Decision
    <2> QED
      BY <2>2, <2>3, <2>4 DEF Safe
  <1>2. CASE ~(Len(pass[d].hosts) > 1)
    <2>1. Over(d) /\ call' = IF d \in {"place"} \X Attempt THEN [call EXCEPT ![d[2]].at = "over"] ELSE call
      BY <1>2 DEF Refuse
    <2>2. \A e \in Decision : pass'[e].at = "off"
      BY <1>0, <2>1, OverLeavesNone
    <2>3. \A b \in Attempt : call'[b] = call[b] \/ call'[b].at = "over"
      BY <1>0, <2>1 DEF TypeOK, Call
    <2>4. HostChosen' /\ OwnersHold' /\ OneOwner' /\ DecidingOwnsNothing'
      BY <1>0, <2>3, CreatesKept DEF Running, IInv, HostChosen, DecidingOwnsNothing
    <2> QED
      BY <2>2, <2>4, AllOff
  <1> QED
    BY <1>1, <1>2

(* The request of a decision that reserves is in no create. *)
LEMMA PlaceSafe ==
  ASSUME IInv, NEW a \in Attempt, Place(a)
  PROVE  Safe'
  <1> DEFINE d == <<"place", a>>
             h == Head(pass[d].hosts)
  <1>0. TypeOK /\ pass[d].at = "verdict" /\ d \in Decision /\ Over(d)
        /\ RequestOf(d) = Of[a] /\ Of[a] \in Request
    BY DecisionsAre DEF IInv, Place
  <1>1. \A e \in Decision : pass'[e].at = "off"
    BY <1>0, OverLeavesNone
  <1>2. h \in Host
    BY <1>0 DEF IInv, HostsLeft, TypeOK, Pass
  <1>3. ~Placing(Of[a])
    BY <1>0 DEF IInv, FreshDecision
  <1>4. \A b \in Attempt : Running(b) => Of[b] # Of[a]
    BY <1>3 DEF IInv, OwnersHold
  <1>5. /\ call'[a] = [at |-> "creating", host |-> h, owns |-> TRUE]
        /\ \A b \in Attempt \ {a} : call'[b] = call[b]
        /\ book'[Of[a]] = [host |-> h, state |-> "placing"]
        /\ \A r \in Request \ {Of[a]} : book'[r] = book[r]
    BY <1>0 DEF Place, TypeOK
  <1>6. HostChosen' /\ DecidingOwnsNothing'
    BY <1>2, <1>5 DEF IInv, HostChosen, DecidingOwnsNothing
  <1>7. OwnersHold'
    <2>1. \A b \in Attempt \ {a} : Running(b)' => Running(b) /\ Of[b] \in Request \ {Of[a]}
      BY <1>4, <1>5, DecisionsAre DEF Running
    <2>2. Placing(Of[a])'
      BY <1>2, <1>5, Constants DEF Placing, Booking
    <2> QED
      BY <1>5, <2>1, <2>2 DEF IInv, OwnersHold, Placing
  <1>8. OneOwner'
    BY <1>4, <1>5 DEF IInv, OneOwner, Running
  <1> QED
    BY <1>1, <1>6, <1>7, <1>8, AllOff

LEMMA RebookSafe ==
  ASSUME IInv, NEW r \in Request, Rebook(r)
  PROVE  Safe'
  <1> DEFINE d == <<"restore", r>>
  <1>0. TypeOK /\ pass[d].at = "verdict" /\ d \in Decision /\ RequestOf(d) = r /\ UNCHANGED call
    BY DecisionsAre DEF IInv, Rebook
  <1>1. \A e \in Decision : pass'[e].at = "off"
    BY <1>0, Alone DEF Rebook, IInv, TypeOK, Off
  <1>2. ~Placing(r)
    BY <1>0 DEF IInv, FreshDecision
  <1>3. \A q \in Request : Placing(q) => book'[q] = book[q]
    BY <1>0, <1>2 DEF Rebook, TypeOK
  <1> QED
    BY <1>0, <1>1, <1>3, CallsSame, AllOff

(* A create that ends leaves its reservation, to be judged by its root. *)
LEMMA DoneSafe ==
  ASSUME IInv, NEW a \in Attempt, Answered(a) \/ Unavailable(a) \/ Uncertain(a)
  PROVE  Safe'
  <1>0. TypeOK /\ Done(a) /\ UNCHANGED pass /\ call[a].at \in {"creating", "sent", "handled"}
        /\ Of[a] \in Request /\ <<"done", Of[a]>> \in Decision
    BY DecisionsAre DEF IInv, Answered, Unavailable, Uncertain
  <1>1. call'[a].at = "over" /\ \A b \in Attempt \ {a} : call'[b] = call[b]
    BY <1>0 DEF Done, TypeOK, Call
  <1>2. call[a].owns => Running(a) /\ Placing(Of[a])
    BY <1>0 DEF Running, IInv, OwnersHold
  <1>3. /\ \A r \in Request \ {Of[a]} : book'[r] = book[r]
        /\ book'[Of[a]] = book[Of[a]] \/ (call[a].owns /\ ~Placing(Of[a])')
        /\ \A r \in Request : (book'[r] # None) <=> (book[r] # None)
        /\ \A r \in Request : book[r] # None => book'[r].host = book[r].host
    <2>1. CASE call[a].owns
      <3>1. book[Of[a]] \in Booking
        BY <1>0, <1>2, <2>1 DEF Placing, TypeOK
      <3>2. book' = [book EXCEPT ![Of[a]] = [book[Of[a]] EXCEPT !.state = "held"]]
        BY <1>0, <2>1 DEF Done
      <3>3. [book[Of[a]] EXCEPT !.state = "held"] = [host |-> book[Of[a]].host, state |-> "held"]
        BY <3>1 DEF Booking
      <3>4. [host |-> book[Of[a]].host, state |-> "held"] \in Booking
        BY <3>1 DEF Booking
      <3>5. book'[Of[a]] = [host |-> book[Of[a]].host, state |-> "held"]
        BY <1>0, <3>2, <3>3 DEF TypeOK
      <3>6. \A r \in Request \ {Of[a]} : book'[r] = book[r]
        BY <3>2
      <3>7. book'[Of[a]] # None /\ book[Of[a]] # None
        BY <3>1, <3>4, <3>5, Constants
      <3> QED
        BY <2>1, <3>5, <3>6, <3>7 DEF Placing
    <2>2. CASE ~call[a].owns
      BY <1>0, <2>2 DEF Done
    <2> QED
      BY <2>1, <2>2
  <1>4. \A r \in Request : Placing(r)' => Placing(r)
    BY <1>3 DEF Placing
  <1>5. \E d \in Decision : queue' = queue \/ queue' = Append(queue, d)
    BY <1>0 DEF Done
  <1>6. OneDecides' /\ HostsLeft'
    BY <1>0, <1>5, Joins DEF IInv, TypeOK, OneDecides, HostsLeft
  <1>7. FitsStill'
    <2>1. \A hosts : Held(book', hosts) = Held(book, hosts)
      BY <1>3, HeldSame
    <2>2. \A h, r : Fits(book, h, r) => Fits(book', h, r)
      BY <2>1 DEF Fits
    <2>3. \A d \in Decision : RequestOf(d)' = RequestOf(d)
      BY DEF RequestOf
    <2> QED
      BY <1>0, <2>2, <2>3 DEF IInv, FitsStill, Fits, Held, Units, RequestOf
  <1>8. \A e \in ({"place"} \X Attempt) \union ({"restore"} \X Request) : RequestOf(e) \in Request
    BY Constants DEF RequestOf
  <1>9. FreshDecision' /\ FateOfPlacing'
    BY <1>0, <1>4, <1>8 DEF IInv, FreshDecision, FateOfPlacing, RequestOf
  <1>10. HostChosen' /\ DecidingOwnsNothing'
    BY <1>1 DEF IInv, HostChosen, DecidingOwnsNothing
  <1>11. \A b \in Attempt : Running(b)' => b # a /\ Running(b)
    BY <1>1 DEF Running
  <1>12. OneOwner'
    BY <1>11 DEF IInv, OneOwner
  <1>13. OwnersHold'
    <2>1. \A b \in Attempt : Running(b)' => book'[Of[b]] = book[Of[b]]
      BY <1>2, <1>3, <1>11, DecisionsAre DEF IInv, OneOwner
    <2> QED
      BY <1>1, <1>11, <2>1 DEF IInv, OwnersHold, Placing
  <1> QED
    BY <1>6, <1>7, <1>9, <1>10, <1>12, <1>13 DEF Safe

LEMMA RestartSafe ==
  ASSUME IInv, Restart
  PROVE  Safe'
  <1>1. \A e \in Decision : pass'[e].at = "off"
    BY DEF Restart, Off
  <1>2. \A b \in Attempt : call'[b].at \in {"new", "over"}
    BY DEF Restart, IInv, TypeOK, Call
  <1>3. HostChosen' /\ OwnersHold' /\ OneOwner' /\ DecidingOwnsNothing'
    BY <1>2 DEF HostChosen, OwnersHold, OneOwner, DecidingOwnsNothing, Running
  <1> QED
    BY <1>1, <1>3, AllOff

LEMMA OutsideSafe ==
  ASSUME IInv, HandleLate \/ Outside
  PROVE  Safe'
  <1>1. CASE Restart
    BY <1>1, RestartSafe
  <1>2. CASE ~Restart
    <2>1. UNCHANGED <<book, pass, call>>
      BY <1>2 DEF HandleLate, Outside, Exits, Restores, AskRestore, Relaunch, Respawns, LinkChanges,
         PowerChanges, Retires, AskDryRun
    <2>2. \E d \in Decision : queue' = queue \/ queue' = Append(queue, d)
      BY <1>2, DecisionsAre DEF HandleLate, Outside, Exits, Restores, AskRestore, Relaunch, Respawns,
         LinkChanges, PowerChanges, Retires, AskDryRun
    <2> QED
      BY <2>1, <2>2, QuietSafe
  <1> QED
    BY <1>1, <1>2

LEMMA Step == ASSUME IInv, [Next]_vars PROVE IInv'
  <1>0. TypeOK'
    BY TypeStep DEF IInv
  <1>1. CASE Deciding
    <2>1. Safe'
      BY <1>0, <1>1, DecideCreateSafe, PlaceSafe, DecideRestoreSafe, RebookSafe, DecideOtherSafe,
         ReconciledSafe, JudgeSafe, RefuseSafe, FateArrivesSafe
         DEF Deciding
    <2> QED
      BY <1>0, <2>1 DEF Safe, IInv
  <1>2. CASE Creating
    <2>1. Safe'
      BY <1>0, <1>2, CallSafe, DoneSafe, OutsideSafe DEF Creating
    <2> QED
      BY <1>0, <2>1 DEF Safe, IInv
  <1>3. CASE Outside
    BY <1>0, <1>3, OutsideSafe DEF Safe, IInv
  <1>4. CASE UNCHANGED vars
    <2>1. UNCHANGED <<book, pass, call, queue>> /\ DryRun \in Decision
      BY <1>4, DecisionsAre DEF vars
    <2> QED
      BY <1>0, <2>1, QuietSafe DEF Safe, IInv
  <1> QED
    BY <1>1, <1>2, <1>3, <1>4 DEF Next

LEMMA InitIInv == Init => IInv
  <1> SUFFICES ASSUME Init PROVE IInv
    OBVIOUS
  <1>1. /\ \A d \in Decision : pass[d].at = "off"
        /\ \A a \in Attempt : call[a].at = "new" /\ ~call[a].owns
    BY DEF Init, Off
  <1>2. FreshDecision
    BY <1>1 DEF FreshDecision, Decision
  <1> QED
    BY <1>1, <1>2, InitTyped
       DEF IInv, OneDecides, HostsLeft, FitsStill, HostChosen, OwnersHold, OneOwner,
           DecidingOwnsNothing, FateOfPlacing, Running

LEMMA Invariant == Spec => []IInv
  BY InitIInv, Step, PTL DEF Spec

-----------------------------------------------------------------------------
(* The results.                                                            *)

(* Every variable keeps its type: hub/placement.ts files a reservation and  *)
(* an intent for a host it has, and its chain only holds decisions.         *)
THEOREM TypeCorrect == Spec => []TypeOK
  BY Invariant, PTL DEF IInv

(* "`placing` while its create runs (never released then)" (hub/           *)
(* placement.ts): until the create that made a reservation has ended, the   *)
(* reservation is there, still placing, on the host the create goes to.    *)
THEOREM PlacingStays == Spec => []OwnersHold
  BY Invariant, PTL DEF IInv

(* A step of a decision that makes a reservation. *)
LEMMA RoomStep ==
  ASSUME IInv, [Next]_vars, NEW a \in Attempt,
         call[a].at = "deciding", call'[a].at = "creating", call'[a].owns,
         NEW room \in Rooms, book'[Of[a]].host \in room.hosts
  PROVE  Held(book', room.hosts) <= room.size
  <1>0. TypeOK /\ ~call[a].owns /\ call \in [Attempt -> Call]
    BY DEF IInv, DecidingOwnsNothing, TypeOK
  <1>1. CASE Place(a)
    <2> DEFINE d == <<"place", a>>
               h == Head(pass[d].hosts)
    <2>1. d \in Decision /\ RequestOf(d) = Of[a] /\ Of[a] \in Request
      BY DecisionsAre
    <2>2. Fits(book, h, Of[a]) /\ book'[Of[a]].host = h
      BY <1>0, <1>1, <2>1 DEF IInv, FitsStill, Place, TypeOK
    <2>3. Held(book, room.hosts) + Needs[Of[a]] <= room.size
      BY <2>2 DEF Fits
    <2>4. Held(book', room.hosts) <= Held(book, room.hosts) + Needs[Of[a]]
      <3>1. \A q \in Request \ {Of[a]} : book'[q] = book[q]
        BY <1>1 DEF Place
      <3> QED
        BY <2>1, <3>1, HeldGrows
    <2>5. /\ Held(book, room.hosts) \in Nat /\ Held(book', room.hosts) \in Nat
          /\ Needs[Of[a]] \in Nat /\ room.size \in Nat
      BY <2>1, TakenFinite, Sizes
    <2> QED
      BY <2>3, <2>4, <2>5
  <1>2. ASSUME NEW b \in Attempt, b # a, Place(b) PROVE FALSE
    BY <1>0, <1>2 DEF Place
  <1>3. CASE ~\E b \in Attempt : Place(b)
    <2>1. call'[a].owns => call[a].owns
      <3>1. CASE Deciding
        <4>1. ASSUME NEW b \in Attempt, DecideCreate(b) PROVE call'[a].owns => call[a].owns
          <5>1. PICK known :
                  \/ call' = [call EXCEPT ![b].at = "over"]
                  \/ call' = [call EXCEPT ![b].at = "creating", ![b].host = known]
                  \/ call' = call
            BY <4>1 DEF DecideCreate
          <5> QED
            BY <1>0, <5>1 DEF Call
        <4>2. ASSUME NEW d \in Decision, Refuse(d) PROVE call'[a].owns => call[a].owns
          <5>1. \/ call' = call
                \/ call' = [call EXCEPT ![d[2]].at = "over"]
            BY <4>2 DEF Refuse
          <5> QED
            BY <1>0, <5>1 DEF Call
        <4> QED
          BY <1>3, <3>1, <4>1, <4>2 DEF Deciding, DecideRestore, Rebook, DecideOther, Reconciled,
             Judge, FateArrives
      <3>2. CASE Creating
        <4>1. ASSUME NEW b \in Attempt, Send(b) PROVE call'[a].owns => call[a].owns
          BY <1>0, <4>1 DEF Send
        <4>2. ASSUME NEW b \in Attempt, Handle(b) \/ Answered(b) \/ Forward(b) \/ Unavailable(b) \/ Uncertain(b)
              PROVE  call'[a].owns => call[a].owns
          <5>1. \E at : call' = [call EXCEPT ![b].at = at]
            BY <4>2 DEF Handle, Answered, Forward, Unavailable, Uncertain, Done
          <5> QED
            BY <1>0, <5>1 DEF Call
        <4> QED
          BY <3>2, <4>1, <4>2 DEF Creating, HandleLate
      <3>3. CASE Outside
        <4>1. CASE Restart
          BY <1>0, <4>1 DEF Restart, Call
        <4>2. CASE ~Restart
          BY <3>3, <4>2 DEF Outside, Exits, Restores, AskRestore, Relaunch, Respawns, LinkChanges,
             PowerChanges, Retires, AskDryRun
        <4> QED
          BY <4>1, <4>2
      <3>4. CASE UNCHANGED vars
        BY <3>4 DEF vars
      <3> QED
        BY <3>1, <3>2, <3>3, <3>4 DEF Next
    <2> QED
      BY <1>0, <2>1
  <1> QED
    BY <1>1, <1>2, <1>3

(* A restore is judged on this computer. *)
RestoresHere ==
  \A r \in Request : pass[<<"restore", r>>].at # "off" => pass[<<"restore", r>>].hosts = <<Local>>

LEMMA RestoresHereStep ==
  ASSUME IInv, RestoresHere, [Next]_vars
  PROVE  RestoresHere'
  <1> SUFFICES ASSUME NEW r \in Request
               PROVE  pass'[<<"restore", r>>].at # "off" => pass'[<<"restore", r>>].hosts = <<Local>>
    BY DEF RestoresHere
  <1> DEFINE d == <<"restore", r>>
             Here == pass'[d].at # "off" => pass'[d].hosts = <<Local>>
  <1>0. TypeOK /\ OneDecides /\ d \in Decision /\ pass[d] \in Pass
    BY DecisionsAre DEF IInv, TypeOK
  <1>a. pass[d].at # "off" => pass[d].hosts = <<Local>>
    BY DEF RestoresHere
  <1>b. pass'[d] = pass[d] => Here
    BY <1>a
  <1>c. pass'[d] = Off => Here
    BY DEF Off
  <1>d. ASSUME NEW e \in Decision, Over(e) PROVE Here
    BY <1>0, <1>b, <1>c, <1>d DEF Over, TypeOK
  <1>1. ASSUME NEW a \in Attempt, DecideCreate(a) PROVE Here
    <2>1. <<"place", a>> \in Decision /\ <<"place", a>> # d
      BY DecisionsAre
    <2>2. Over(<<"place", a>>) \/ \E hosts : Reconcile(<<"place", a>>, hosts)
      BY <1>1 DEF DecideCreate
    <2>3. ASSUME NEW hosts, Reconcile(<<"place", a>>, hosts) PROVE Here
      BY <1>0, <1>b, <2>1, <2>3 DEF Reconcile, TypeOK
    <2> QED
      BY <1>d, <2>1, <2>2, <2>3
  <1>2. ASSUME NEW a \in Attempt, Place(a) PROVE Here
    BY <1>2, <1>d, DecisionsAre DEF Place
  <1>3. ASSUME NEW q \in Request, DecideRestore(q) PROVE Here
    <2>1. <<"restore", q>> \in Decision
      BY DecisionsAre
    <2>2. Over(<<"restore", q>>) \/ Reconcile(<<"restore", q>>, <<Local>>)
      BY <1>3 DEF DecideRestore
    <2>3. CASE Reconcile(<<"restore", q>>, <<Local>>)
      <3>1. CASE q = r
        BY <1>0, <2>3, <3>1 DEF Reconcile, TypeOK
      <3>2. CASE q # r
        BY <1>0, <1>b, <2>1, <2>3, <3>2 DEF Reconcile, TypeOK
      <3> QED
        BY <3>1, <3>2
    <2> QED
      BY <1>d, <2>1, <2>2, <2>3
  <1>4. ASSUME NEW q \in Request, Rebook(q) PROVE Here
    BY <1>0, <1>4, <1>b, <1>c DEF Rebook, TypeOK
  <1>5. ASSUME NEW e \in Decision, DecideOther(e) PROVE Here
    <2>1. e # d
      BY <1>5, Constants DEF DecideOther
    <2>2. \E hosts : Reconcile(e, hosts)
      BY <1>5 DEF DecideOther
    <2> QED
      BY <1>0, <1>b, <2>1, <2>2 DEF Reconcile, TypeOK
  <1>6. ASSUME NEW e \in Decision, Reconciled(e) PROVE Here
    <2>1. CASE Over(e)
      BY <1>d, <2>1
    <2>2. CASE pass' = [pass EXCEPT ![e].at = "judging"]
      BY <1>0, <1>6, <1>a, <2>2 DEF Reconciled, TypeOK, Pass
    <2> QED
      BY <1>6, <2>1, <2>2 DEF Reconciled
  <1>7. ASSUME NEW e \in Decision, Judge(e) PROVE Here
    <2>1. pass[e].at = "judging" /\ \E fits \in BOOLEAN :
             pass' = [pass EXCEPT ![e].at = "verdict", ![e].fits = fits]
      BY <1>7 DEF Judge
    <2>2. PICK fits : pass' = [pass EXCEPT ![e].at = "verdict", ![e].fits = fits]
      BY <2>1
    <2> QED
      BY <1>0, <1>a, <2>1, <2>2 DEF TypeOK, Pass
  <1>8. ASSUME NEW e \in Decision, Refuse(e) PROVE Here
    <2>1. CASE Over(e)
      BY <1>d, <2>1
    <2>2. CASE ~Over(e)
      <3>1. /\ Len(pass[e].hosts) > 1 /\ pass[e].at # "off"
            /\ pass' = [pass EXCEPT ![e].at = "judging", ![e].hosts = Tail(@)]
        BY <1>8, <2>2 DEF Refuse
      <3>2. Len(<<Local>>) = 1
        OBVIOUS
      <3>3. ASSUME e = d PROVE FALSE
        <4>1. pass[e].hosts = <<Local>>
          BY <1>a, <3>1, <3>3
        <4>2. Len(pass[e].hosts) = 1
          BY <3>2, <4>1
        <4> QED
          BY <3>1, <4>2
      <3> QED
        BY <1>0, <1>b, <3>1, <3>3 DEF TypeOK
    <2> QED
      BY <2>1, <2>2
  <1>9. ASSUME NEW e \in Decision, NEW q \in Request, FateArrives(e, q) PROVE Here
    <2>1. pass[e].at = "asking" /\ \E fate : pass' = [pass EXCEPT ![e].fate[q] = fate]
      BY <1>9 DEF FateArrives
    <2>2. PICK fate : pass' = [pass EXCEPT ![e].fate[q] = fate]
      BY <2>1
    <2> QED
      BY <1>0, <1>a, <2>1, <2>2 DEF TypeOK, Pass
  <1>10. CASE Restart
    BY <1>0, <1>10, <1>c DEF Restart
  <1>11. CASE UNCHANGED pass
    BY <1>11, <1>b
  <1>12. CASE Deciding
    BY <1>1, <1>2, <1>3, <1>4, <1>5, <1>6, <1>7, <1>8, <1>9, <1>12 DEF Deciding
  <1>13. CASE Creating
    BY <1>11, <1>13 DEF Creating, Send, Handle, Answered, Forward, Unavailable, Uncertain, HandleLate
  <1>14. CASE Outside
    BY <1>10, <1>11, <1>14 DEF Outside, Exits, Restores, AskRestore, Relaunch, Respawns, LinkChanges,
       PowerChanges, Retires, AskDryRun
  <1> QED
    BY <1>11, <1>12, <1>13, <1>14 DEF Next, vars

LEMMA RestoredRoomStep ==
  ASSUME IInv, RestoresHere, [Next]_vars, NEW r \in Request,
         pass[<<"restore", r>>].at = "verdict", book[r] = None, book'[r] # None,
         NEW room \in Rooms, book'[r].host \in room.hosts
  PROVE  Held(book', room.hosts) <= room.size
  <1> DEFINE d == <<"restore", r>>
  <1>0. TypeOK /\ OneDecides /\ d \in Decision /\ RequestOf(d) = r
    BY DecisionsAre DEF IInv
  <1>a. \A e \in Decision \ {d} : pass[e].at = "off"
    BY <1>0, Alone
  <1>1. CASE Rebook(r)
    <2>1. Head(pass[d].hosts) = Local /\ pass[d].fits
      BY <1>1 DEF RestoresHere, Rebook
    <2>2. book' = [book EXCEPT ![r] = [host |-> Local, state |-> "held"]]
      BY <1>1 DEF Rebook
    <2>3. book'[r].host = Local /\ \A q \in Request \ {r} : book'[q] = book[q]
      BY <1>0, <2>2 DEF TypeOK
    <2>4. Held(book, room.hosts) + Needs[r] <= room.size
      BY <1>0, <2>1, <2>3 DEF IInv, FitsStill, Fits
    <2>5. Held(book', room.hosts) <= Held(book, room.hosts) + Needs[r]
      BY <2>3, HeldGrows
    <2>6. /\ Held(book, room.hosts) \in Nat /\ Held(book', room.hosts) \in Nat
          /\ Needs[r] \in Nat /\ room.size \in Nat
      BY TakenFinite, Sizes
    <2> QED
      BY <2>4, <2>5, <2>6
  <1>2. ASSUME NEW q \in Request, q # r, Rebook(q) PROVE FALSE
    BY <1>0, <1>2 DEF Rebook, TypeOK
  <1>3. ASSUME NEW a \in Attempt, Place(a) PROVE FALSE
    <2>1. <<"place", a>> \in Decision \ {d}
      BY DecisionsAre
    <2> QED
      BY <1>3, <1>a, <2>1 DEF Place
  <1>4. ASSUME NEW e \in Decision, Reconciled(e) PROVE FALSE
    BY <1>4, <1>a DEF Reconciled
  <1>5. ASSUME NEW e \in Decision, Judge(e) PROVE FALSE
    BY <1>5 DEF Judge, Stopped
  <1>6. ASSUME NEW a \in Attempt, Answered(a) \/ Unavailable(a) \/ Uncertain(a) PROVE FALSE
    <2>1. Done(a) /\ call[a].at \in {"creating", "sent", "handled"}
      BY <1>6 DEF Answered, Unavailable, Uncertain
    <2>2. call[a].owns => Of[a] # r
      BY <2>1 DEF IInv, OwnersHold, Running, Placing
    <2> QED
      BY <1>0, <2>1, <2>2 DEF Done, TypeOK
  <1>7. CASE Restart
    BY <1>7 DEF Restart
  <1>8. UNCHANGED book => FALSE
    OBVIOUS
  <1>9. CASE Deciding
    BY <1>1, <1>2, <1>3, <1>4, <1>5, <1>8, <1>9 DEF Deciding, DecideCreate, DecideRestore, DecideOther,
       Refuse, FateArrives
  <1>10. CASE Creating
    BY <1>6, <1>8, <1>10 DEF Creating, Send, Handle, Forward, HandleLate
  <1>11. CASE Outside
    BY <1>7, <1>8, <1>11 DEF Outside, Exits, Restores, AskRestore, Relaunch, Respawns, LinkChanges,
       PowerChanges, Retires, AskDryRun
  <1> QED
    BY <1>8, <1>9, <1>10, <1>11 DEF Next, vars

(* "Decisions are serialized, so concurrent creates cannot take the same   *)
(* room" (docs/api-v1.md), however many creates, hosts and rooms there are: *)
(* each reservation, for a create or to restore a root, fits into every     *)
(* room of its host when it is made.                                       *)
THEOREM RoomsHold == Spec => NoRoomTwice
  <1>1. ASSUME IInv, RestoresHere, [Next]_vars
        PROVE  [\A r \in Request :
                     (\/ \E a \in Attempt : /\ Of[a] = r /\ call[a].at = "deciding"
                                            /\ call'[a].at = "creating" /\ call'[a].owns
                      \/ pass[<<"restore", r>>].at = "verdict" /\ book[r] = None /\ book'[r] # None)
                   => \A room \in Rooms :
                        book'[r].host \in room.hosts => Held(book', room.hosts) <= room.size]_vars
    <2> SUFFICES ASSUME NEW r \in Request, NEW room \in Rooms, book'[r].host \in room.hosts,
                        \/ \E a \in Attempt : /\ Of[a] = r /\ call[a].at = "deciding"
                                               /\ call'[a].at = "creating" /\ call'[a].owns
                        \/ pass[<<"restore", r>>].at = "verdict" /\ book[r] = None /\ book'[r] # None
                 PROVE  Held(book', room.hosts) <= room.size
      OBVIOUS
    <2>1. CASE \E a \in Attempt : /\ Of[a] = r /\ call[a].at = "deciding"
                                  /\ call'[a].at = "creating" /\ call'[a].owns
      BY <1>1, <2>1, RoomStep
    <2>2. CASE pass[<<"restore", r>>].at = "verdict" /\ book[r] = None /\ book'[r] # None
      BY <1>1, <2>2, RestoredRoomStep
    <2> QED
      BY <2>1, <2>2
  <1>2. Init => RestoresHere
    <2>1. Off.at = "off"
      BY DEF Off
    <2> QED
      BY <2>1, DecisionsAre DEF Init, RestoresHere
  <1>3. ASSUME IInv, RestoresHere, [Next]_vars PROVE RestoresHere'
    BY <1>3, RestoresHereStep
  <1> QED
    BY <1>1, <1>2, <1>3, Invariant, PTL DEF Spec, NoRoomTwice
-----------------------------------------------------------------------------
(* A root that runs is known.  For a request whose create was sent once,    *)
(* the host that its create was placed on is the only one that has a root   *)
(* of it, and the only one that its reservation and its intent name, so a   *)
(* reconciliation asks where the root is.  What it was told may be old when *)
(* it releases, but was told by a root that is gone for good, or of which   *)
(* the intent is kept.                                                     *)

InCreate(a) == call[a].at \in {"creating", "sent", "handled"}
SentOnce(r) == \A a \in Attempt : Of[a] = r /\ call[a].at # "new" => ~SentBefore(a)

(* The create of r was placed on h. *)
Placed(r, h) == \E a \in Attempt : Of[a] = r /\ call[a].owns /\ call[a].host = h

There == {"live", "unplaced", "exited", "retained", "returning"}
Works == {"live", "returning"}

NewOwnsNothing == \A a \in Attempt : call[a].at = "new" => ~call[a].owns

PassOfDeciding ==
  \A a \in Attempt : pass[<<"place", a>>].at # "off" => call[a].at = "deciding"

RestoresRoots ==
  \A r \in Request : <<"restore", r>> \in ToSet(queue) => root[r][Local] # "none"

IntentOfBooked == \A r \in Request : book[r] # None => intent[r] = book[r].host

(* The only create of a request is the one that its books and roots are of. *)
OnceOf(r) ==
  SentOnce(r) =>
    /\ \A a \in Attempt : Of[a] = r /\ InCreate(a) => call[a].owns
    /\ \A h \in Host : root[r][h] # "none" \/ <<r, h>> \in late \/ intent[r] = h => Placed(r, h)

(* A root that is there is known by its intent; one that works here, or    *)
(* may at once, is booked.                                                 *)
KnownAt(r, h) ==
  Clean(r, h) /\ host[h] # "retired" =>
    /\ root[r][h] \in There => intent[r] = h
    /\ h = Local /\ root[r][h] \in Works => book[r] # None

(* What a reconciliation was told of a root still tells whether to forget it. *)
FateHolds(d, r) ==
  pass[d].at = "asking" =>
    LET fate == pass[d].fate[r]
        h == intent[r]
    IN /\ fate = None => book[r] # None \/ h = None
       /\ fate # None => h # None
       /\ fate = "retired" => host[h] = "retired"
       /\ fate \in {"missing", "ended"} /\ Clean(r, h) => root[r][h] \notin There
       /\ fate = "exited" /\ h = Local /\ Clean(r, h) => root[r][h] \notin Works

BInv ==
  /\ NewOwnsNothing /\ PassOfDeciding /\ RestoresRoots /\ IntentOfBooked
  /\ \A r \in Request : OnceOf(r)
  /\ \A r \in Request, h \in Host : KnownAt(r, h)
  /\ \A d \in Decision, r \in Request : FateHolds(d, r)

-----------------------------------------------------------------------------
(* What no step takes back.                                                *)

NeverBack ==
  /\ \A a \in Attempt : call[a].at # "new" => call'[a].at # "new"
  /\ \A a \in Attempt : call[a].owns => call'[a].owns /\ call'[a].host = call[a].host
  /\ late \subseteq late'
  /\ \A h \in Host : host[h] = "retired" => host'[h] = "retired"

(* How a decision on a create moves it. *)
LEMMA DecidedCalls ==
  ASSUME IInv, PassOfDeciding, NEW a \in Attempt,
         \/ DecideCreate(a)
         \/ Refuse(<<"place", a>>)
         \/ Place(a)
  PROVE  /\ call[a].at = "deciding" /\ ~call[a].owns
         /\ call'[a].at # "new"
         /\ \A b \in Attempt \ {a} : call'[b] = call[b]
  <1> DEFINE d == <<"place", a>>
  <1>0. call \in [Attempt -> Call] /\ call[a] \in Call /\ d \in {"place"} \X Attempt /\ d[2] = a
    BY DEF IInv, TypeOK
  <1>1. call[a].at = "deciding"
    BY DEF DecideCreate, Refuse, Place, PassOfDeciding
  <1>2. ~call[a].owns
    BY <1>1 DEF IInv, DecidingOwnsNothing
  <1>3. \/ call' = call
        \/ call' = [call EXCEPT ![a].at = "over"]
        \/ \E known : call' = [call EXCEPT ![a].at = "creating", ![a].host = known]
        \/ \E h : call' = [call EXCEPT ![a] = [at |-> "creating", host |-> h, owns |-> TRUE]]
    <2>1. CASE DecideCreate(a)
      BY <2>1 DEF DecideCreate
    <2>2. CASE Refuse(d)
      BY <1>0, <2>2 DEF Refuse
    <2>3. CASE Place(a)
      BY <2>3 DEF Place
    <2> QED
      BY <2>1, <2>2, <2>3
  <1>4. call'[a].at # "new" /\ \A b \in Attempt \ {a} : call'[b] = call[b]
    <2>1. CASE call' = call
      BY <1>1, <2>1
    <2>2. CASE call' = [call EXCEPT ![a].at = "over"]
      BY <1>0, <2>2 DEF Call
    <2>3. ASSUME NEW known, call' = [call EXCEPT ![a].at = "creating", ![a].host = known]
          PROVE  call'[a].at # "new" /\ \A b \in Attempt \ {a} : call'[b] = call[b]
      BY <1>0, <2>3 DEF Call
    <2>4. ASSUME NEW h, call' = [call EXCEPT ![a] = [at |-> "creating", host |-> h, owns |-> TRUE]]
          PROVE  call'[a].at # "new" /\ \A b \in Attempt \ {a} : call'[b] = call[b]
      BY <1>0, <2>4
    <2> QED
      BY <1>3, <2>1, <2>2, <2>3, <2>4
  <1> QED
    BY <1>1, <1>2, <1>4

(* How a create moves on. *)
LEMMA MovedCalls ==
  ASSUME TypeOK, NEW a \in Attempt,
         Handle(a) \/ Forward(a) \/ Answered(a) \/ Unavailable(a) \/ Uncertain(a)
  PROVE  /\ InCreate(a)
         /\ call'[a].at \in {"sent", "handled", "over"}
         /\ call'[a].host = call[a].host /\ call'[a].owns = call[a].owns
         /\ \A b \in Attempt \ {a} : call'[b] = call[b]
  <1>1. call \in [Attempt -> Call] /\ call[a] \in Call
    BY DEF TypeOK
  <1>2. PICK at \in {"sent", "handled", "over"} : call' = [call EXCEPT ![a].at = at]
    BY DEF Handle, Forward, Answered, Unavailable, Uncertain, Done
  <1>3. InCreate(a)
    BY DEF Handle, Forward, Answered, Unavailable, Uncertain, InCreate
  <1> QED
    BY <1>1, <1>2, <1>3 DEF Call

(* What Send does to a create. *)
LEMMA SentCall ==
  ASSUME TypeOK, NEW a \in Attempt, Send(a)
  PROVE  /\ call[a].at = "new" /\ call'[a].at = "deciding" /\ ~call'[a].owns
         /\ \A b \in Attempt \ {a} : call'[b] = call[b]
  <1>1. PICK h : call' = [call EXCEPT ![a] = [at |-> "deciding", host |-> h, owns |-> FALSE]]
    BY DEF Send
  <1> QED
    BY <1>1 DEF TypeOK, Send

LEMMA RestartedCalls ==
  ASSUME TypeOK, Restart
  PROVE  \A a \in Attempt :
           /\ call'[a].at = IF call[a].at = "new" THEN "new" ELSE "over"
           /\ call'[a].host = call[a].host /\ call'[a].owns = call[a].owns
  BY DEF Restart, TypeOK, Call

(* Steps that leave every create alone. *)
CallsRest ==
  \/ \E r \in Request : DecideRestore(r) \/ Rebook(r) \/ AskRestore(r) \/ Relaunch(r) \/ Respawns(r)
  \/ \E d \in Decision : DecideOther(d) \/ Reconciled(d) \/ Judge(d)
  \/ \E d \in Decision : d \notin {"place"} \X Attempt /\ Refuse(d)
  \/ \E d \in Decision, r \in Request : FateArrives(d, r)
  \/ \E r \in Request, h \in Host : Exits(r, h) \/ Restores(r, h)
  \/ \E h \in Host : LinkChanges(h) \/ PowerChanges(h) \/ Retires(h)
  \/ HandleLate \/ AskDryRun

LEMMA RestingCalls == ASSUME CallsRest PROVE UNCHANGED call
  BY DEF CallsRest, DecideRestore, Rebook, AskRestore, Relaunch, Respawns, DecideOther, Reconciled, Judge, Refuse,
     FateArrives, Exits, Restores, LinkChanges, PowerChanges, Retires, HandleLate, AskDryRun

CallsDecided == \E a \in Attempt : DecideCreate(a) \/ Refuse(<<"place", a>>) \/ Place(a)
CallsMoved ==
  \E a \in Attempt : Handle(a) \/ Forward(a) \/ Answered(a) \/ Unavailable(a) \/ Uncertain(a)

LEMMA NextByCalls ==
  ASSUME [Next]_vars
  PROVE  CallsRest \/ CallsDecided \/ CallsMoved \/ (\E a \in Attempt : Send(a)) \/ Restart \/ UNCHANGED vars
  <1>1. CASE Deciding
    <2>1. ASSUME NEW d \in Decision, Refuse(d) PROVE CallsRest \/ CallsDecided
      <3>1. CASE d \in {"place"} \X Attempt
        <4>1. d[2] \in Attempt /\ d = <<"place", d[2]>>
          BY <3>1
        <4> QED
          BY <2>1, <4>1 DEF CallsDecided
      <3>2. CASE d \notin {"place"} \X Attempt
        BY <2>1, <3>2 DEF CallsRest
      <3> QED
        BY <3>1, <3>2
    <2> QED
      BY <1>1, <2>1 DEF Deciding, CallsRest, CallsDecided
  <1>2. CASE Creating
    BY <1>2 DEF Creating, CallsRest, CallsMoved
  <1>3. CASE Outside
    BY <1>3 DEF Outside, CallsRest
  <1> QED
    BY <1>1, <1>2, <1>3 DEF Next

LEMMA ForwardStep ==
  ASSUME IInv, NewOwnsNothing, PassOfDeciding, [Next]_vars
  PROVE  NeverBack
  <1>0. TypeOK
    BY DEF IInv
  <1>1. \A a \in Attempt : /\ call[a].at # "new" => call'[a].at # "new"
                           /\ call[a].owns => call'[a].owns /\ call'[a].host = call[a].host
    <2>1. CASE CallsRest
      BY <2>1, RestingCalls
    <2>2. ASSUME NEW a \in Attempt, DecideCreate(a) \/ Refuse(<<"place", a>>) \/ Place(a)
          PROVE  \A b \in Attempt : /\ call[b].at # "new" => call'[b].at # "new"
                                    /\ call[b].owns => call'[b].owns /\ call'[b].host = call[b].host
      BY <2>2, DecidedCalls
    <2>3. ASSUME NEW a \in Attempt,
                 Handle(a) \/ Forward(a) \/ Answered(a) \/ Unavailable(a) \/ Uncertain(a)
          PROVE  \A b \in Attempt : /\ call[b].at # "new" => call'[b].at # "new"
                                    /\ call[b].owns => call'[b].owns /\ call'[b].host = call[b].host
      BY <1>0, <2>3, MovedCalls
    <2>4. ASSUME NEW a \in Attempt, Send(a)
          PROVE  \A b \in Attempt : /\ call[b].at # "new" => call'[b].at # "new"
                                    /\ call[b].owns => call'[b].owns /\ call'[b].host = call[b].host
      BY <1>0, <2>4, SentCall DEF NewOwnsNothing
    <2>5. CASE Restart
      BY <1>0, <2>5, RestartedCalls
    <2>6. CASE UNCHANGED vars
      BY <2>6 DEF vars
    <2> QED
      BY <2>1, <2>2, <2>3, <2>4, <2>5, <2>6, NextByCalls DEF CallsDecided, CallsMoved
  <1>2. late \subseteq late'
    <2>1. CASE Deciding
      BY <2>1 DEF Deciding, DecideCreate, Place, DecideRestore, Rebook, DecideOther, Reconciled, Judge,
         Refuse, FateArrives
    <2>2. CASE Creating
      BY <2>2 DEF Creating, Send, Handle, Answered, Forward, Unavailable, Uncertain, Strays, HandleLate
    <2>3. CASE Outside
      BY <2>3 DEF Outside, Exits, Restores, AskRestore, Relaunch, Respawns, LinkChanges, PowerChanges, Retires,
         AskDryRun, Restart
    <2> QED
      BY <2>1, <2>2, <2>3 DEF Next, vars
  <1>3. \A h \in Host : host[h] = "retired" => host'[h] = "retired"
    <2>0. host \in [Host -> {"up", "away", "off", "retired"}]
      BY <1>0 DEF TypeOK
    <2>1. CASE Deciding
      BY <2>1 DEF Deciding, DecideCreate, Place, DecideRestore, Rebook, DecideOther, Reconciled, Judge,
         Refuse, FateArrives
    <2>2. CASE Creating
      <3>1. ASSUME NEW a \in Attempt, Forward(a) PROVE \A h \in Host : host[h] = "retired" => host'[h] = "retired"
        BY <2>0, <3>1 DEF Forward
      <3> QED
        BY <2>2, <3>1 DEF Creating, Send, Handle, Answered, Unavailable, Uncertain, HandleLate
    <2>3. CASE Outside
      <3>1. ASSUME NEW g \in Host, LinkChanges(g) \/ PowerChanges(g) \/ Retires(g)
            PROVE  \A h \in Host : host[h] = "retired" => host'[h] = "retired"
        BY <2>0, <3>1 DEF LinkChanges, PowerChanges, Retires
      <3> QED
        BY <2>3, <3>1 DEF Outside, Exits, Restores, AskRestore, Relaunch, Respawns, AskDryRun, Restart
    <2> QED
      BY <2>1, <2>2, <2>3 DEF Next, vars
  <1> QED
    BY <1>1, <1>2, <1>3 DEF NeverBack

(* So what was sent once before was sent once all along. *)
LEMMA Before ==
  ASSUME NeverBack
  PROVE  /\ \A r : SentOnce(r)' => SentOnce(r)
         /\ \A r, h : Clean(r, h)' => Clean(r, h)
         /\ \A r, h : Clean(r, h) => SentOnce(r)
         /\ \A r, h : Placed(r, h) => Placed(r, h)'
  <1>1. \A r : SentOnce(r)' => SentOnce(r)
    BY DEF NeverBack, SentOnce, SentBefore
  <1>2. \A r, h : Clean(r, h) => SentOnce(r)
    BY DEF Clean, SentOnce
  <1>3. \A r, h : Clean(r, h)' => Clean(r, h)
    BY DEF NeverBack, Clean, SentBefore
  <1>4. \A r, h : Placed(r, h) => Placed(r, h)'
    BY DEF NeverBack, Placed
  <1> QED
    BY <1>1, <1>2, <1>3, <1>4

(* Two attempts of a request that was sent once are one. *)
LEMMA OneSent ==
  ASSUME NEW r, SentOnce(r), NEW a \in Attempt, NEW b \in Attempt, Of[a] = r, Of[b] = r,
         call[a].at # "new", call[b].at # "new"
  PROVE  a = b
  BY DEF SentOnce, SentBefore

(* A create that is placed is placed on one host. *)
LEMMA OnePlace ==
  ASSUME NewOwnsNothing, NEW r, SentOnce(r)
  PROVE  /\ \A h, g : Placed(r, h) /\ Placed(r, g) => h = g
         /\ \A h : \A a \in Attempt : Placed(r, h) /\ Of[a] = r /\ call[a].at # "new"
                     => call[a].owns /\ call[a].host = h
  BY OneSent DEF NewOwnsNothing, Placed

-----------------------------------------------------------------------------
(* How the root of a request on a host changes.                            *)

RootHandled(r, h) ==
  /\ root[r][h] = "none" /\ root'[r][h] = "live"
  /\ UNCHANGED <<book, intent, pass>>
  /\ <<r, h>> \in late \/ \E a \in Attempt : Of[a] = r /\ InCreate(a) /\ call[a].host = h

RootMoves(r, h) ==
  \/ root'[r][h] = root[r][h]
  \/ RootHandled(r, h)
  \/ /\ root[r][h] \in There \ {"returning"} /\ root'[r][h] \in {"exited", "ended", "retained"}
     /\ UNCHANGED <<book, intent, pass>>
  \/ /\ root[r][h] = "exited" /\ root'[r][h] = "live" /\ h # Local
     /\ UNCHANGED <<book, intent, pass>>
  \/ /\ h = Local /\ Respawns(r) /\ root[r][h] \in {"exited", "retained"}
     /\ root'[r][h] = IF LosesBooking(r) THEN "unplaced" ELSE "live"
     /\ UNCHANGED <<book, intent, pass>>
  \/ /\ h = Local /\ root[r][h] = "retained" /\ root'[r][h] = "returning" /\ intent[r] = None
     /\ UNCHANGED <<book, intent, pass>>
  \/ /\ h = Local /\ root[r][h] = "returning" /\ root'[r][h] = "live"
     /\ UNCHANGED <<book, intent, pass>>
  \/ /\ h = Local /\ root[r][h] = "returning" /\ root'[r][h] = "retained" /\ Restart
  \/ /\ h = Local /\ root'[r][h] = "returning" /\ DecideRestore(r) /\ book[r] # None
     /\ UNCHANGED <<book, intent>>
  \/ /\ h = Local /\ root'[r][h] = "returning" /\ Rebook(r)

RootBecomes(q, g, state) == root' = [root EXCEPT ![q][g] = state]

LEMMA RootIsSet ==
  ASSUME TypeOK, NEW q \in Request, NEW g \in Host, NEW state, RootBecomes(q, g, state)
  PROVE  /\ root'[q][g] = state
         /\ \A r \in Request, h \in Host : r # q \/ h # g => root'[r][h] = root[r][h]
  <1>1. root \in [Request -> [Host -> Root]]
    BY DEF TypeOK
  <1>2. root[q] \in [Host -> Root]
    BY <1>1
  <1>3. root' = [root EXCEPT ![q] = [root[q] EXCEPT ![g] = state]]
    BY DEF RootBecomes
  <1>4. root'[q] = [root[q] EXCEPT ![g] = state] /\ \A r \in Request \ {q} : root'[r] = root[r]
    BY <1>1, <1>3
  <1> QED
    BY <1>2, <1>4

LEMMA RootsMove ==
  ASSUME IInv, [Next]_vars
  PROVE  \A r \in Request, h \in Host : RootMoves(r, h)
  <1>0. /\ TypeOK /\ Local \in Host
        /\ "live" \in Root /\ "returning" \in Root /\ {"exited", "ended", "retained"} \subseteq Root
    BY Constants DEF IInv, Root
  <1> DEFINE Only(q, g) ==
               \A r \in Request, h \in Host : r # q \/ h # g => root'[r][h] = root[r][h]
  <1>a. ASSUME NEW q \in Request, NEW g \in Host, NEW state, RootBecomes(q, g, state)
        PROVE  root'[q][g] = state /\ Only(q, g)
    BY <1>0, <1>a, RootIsSet
  <1> DEFINE Resumed(q) == root'[q][Local] = root[q][Local] \/ root'[q][Local] = "returning"
  <1>b. ASSUME NEW q \in Request, Resume(q) PROVE Resumed(q) /\ Only(q, Local)
    <2> DEFINE state == IF root[q][Local] = "retained" THEN "returning" ELSE root[q][Local]
    <2>1. RootBecomes(q, Local, state)
      BY <1>b DEF Resume, RootBecomes
    <2> QED
      BY <1>0, <1>a, <2>1
  <1>1. CASE UNCHANGED root
    BY <1>1 DEF RootMoves
  <1>2. ASSUME NEW a \in Attempt, Handle(a), ~UNCHANGED root
        PROVE  \A r \in Request, h \in Host : RootMoves(r, h)
    <2> DEFINE q == Of[a]
               g == call[a].host
    <2>1. q \in Request /\ InCreate(a)
      BY <1>2, DecisionsAre DEF Handle, InCreate
    <2>2. g \in Host
      BY <2>1 DEF InCreate, IInv, HostChosen
    <2>3. root[q][g] = "none" /\ RootBecomes(q, g, "live") /\ UNCHANGED <<book, intent, pass>>
      BY <1>2 DEF Handle, Handles, RootBecomes
    <2>4. /\ root'[q][g] = "live"
          /\ Only(q, g)
      BY <1>0, <1>a, <2>1, <2>2, <2>3
    <2>5. RootMoves(q, g)
      BY <2>1, <2>3, <2>4 DEF RootMoves, RootHandled
    <2> QED
      BY <2>4, <2>5 DEF RootMoves
  <1>3. ASSUME HandleLate PROVE \A r \in Request, h \in Host : RootMoves(r, h)
    <2>1. PICK m \in late : /\ root[m[1]][m[2]] = "none" /\ RootBecomes(m[1], m[2], "live")
                            /\ UNCHANGED <<book, intent, pass>>
      BY <1>3 DEF HandleLate, RootBecomes
    <2>2. m[1] \in Request /\ m[2] \in Host /\ <<m[1], m[2]>> \in late
      <3>1. m \in Request \X Host
        BY <1>0 DEF TypeOK
      <3> QED
        BY <3>1
    <2>3. /\ root'[m[1]][m[2]] = "live"
          /\ Only(m[1], m[2])
      BY <1>0, <1>a, <2>1, <2>2
    <2> QED
      BY <2>1, <2>2, <2>3 DEF RootMoves, RootHandled
  <1>4. ASSUME NEW q \in Request, NEW g \in Host, Exits(q, g)
        PROVE  \A r \in Request, h \in Host : RootMoves(r, h)
    <2>1. PICK state \in {"exited", "ended", "retained"} : RootBecomes(q, g, state)
      BY <1>0, <1>4 DEF Exits, RootBecomes
    <2>2. /\ root'[q][g] = state
          /\ Only(q, g)
      BY <1>0, <1>a, <2>1
    <2> QED
      BY <1>4, <2>2 DEF RootMoves, Exits, There
  <1>5. ASSUME NEW q \in Request, NEW g \in Host, Restores(q, g)
        PROVE  \A r \in Request, h \in Host : RootMoves(r, h)
    <2>2. /\ root'[q][g] = "live"
          /\ Only(q, g)
      BY <1>0, <1>a, <1>5 DEF Restores, RootBecomes
    <2> QED
      BY <1>5, <2>2 DEF RootMoves, Restores
  <1>6. ASSUME NEW q \in Request, AskRestore(q), ~UNCHANGED root
        PROVE  \A r \in Request, h \in Host : RootMoves(r, h)
    <2>1. /\ root[q][Local] = "retained" /\ intent[q] = None
          /\ RootBecomes(q, Local, "returning") /\ UNCHANGED <<book, intent, pass>>
      BY <1>6 DEF AskRestore, RootBecomes
    <2>2. /\ root'[q][Local] = "returning"
          /\ Only(q, Local)
      BY <1>0, <1>a, <2>1
    <2> QED
      BY <2>1, <2>2 DEF RootMoves
  <1>7. ASSUME NEW q \in Request, Relaunch(q)
        PROVE  \A r \in Request, h \in Host : RootMoves(r, h)
    <2>2. /\ root'[q][Local] = "live"
          /\ Only(q, Local)
      BY <1>0, <1>a, <1>7 DEF Relaunch, RootBecomes
    <2> QED
      BY <1>7, <2>2 DEF RootMoves, Relaunch
  <1>14. ASSUME NEW q \in Request, Respawns(q)
         PROVE  \A r \in Request, h \in Host : RootMoves(r, h)
    <2> DEFINE state == IF LosesBooking(q) THEN "unplaced" ELSE "live"
    <2>1. /\ root'[q][Local] = state
          /\ Only(q, Local)
      <3>1. RootBecomes(q, Local, state)
        BY <1>14 DEF Respawns, RootBecomes
      <3> HIDE DEF state
      <3> QED
        BY <1>0, <1>a, <3>1
    <2> QED
      BY <1>14, <2>1 DEF RootMoves, Respawns
  <1>8. ASSUME Restart PROVE \A r \in Request, h \in Host : RootMoves(r, h)
    <2>1. ASSUME NEW r \in Request, NEW h \in Host PROVE RootMoves(r, h)
      <3>1. root'[r] = [root[r] EXCEPT ![Local] = IF root[r][Local] = "returning" THEN "retained" ELSE root[r][Local]]
        BY <1>8 DEF Restart
      <3>2. root[r] \in [Host -> Root]
        BY <1>0 DEF TypeOK
      <3> QED
        BY <1>0, <1>8, <3>1, <3>2 DEF RootMoves
    <2> QED
      BY <2>1
  <1>9. ASSUME NEW q \in Request, DecideRestore(q), ~UNCHANGED root
        PROVE  \A r \in Request, h \in Host : RootMoves(r, h)
    <2>1. book[q] # None /\ Resume(q) /\ UNCHANGED <<book, intent>>
      BY <1>9 DEF DecideRestore
    <2>2. Resumed(q) /\ Only(q, Local)
      BY <1>b, <2>1
    <2> QED
      BY <1>9, <2>1, <2>2 DEF RootMoves
  <1>10. ASSUME NEW q \in Request, Rebook(q)
         PROVE  \A r \in Request, h \in Host : RootMoves(r, h)
    <2>1. Resumed(q) /\ Only(q, Local)
      BY <1>b, <1>10 DEF Rebook
    <2> QED
      BY <1>10, <2>1 DEF RootMoves
  <1>11. CASE Deciding
    BY <1>1, <1>9, <1>10, <1>11 DEF Deciding, DecideCreate, Place, DecideOther, Reconciled, Judge,
       Refuse, FateArrives
  <1>12. CASE Creating
    BY <1>1, <1>2, <1>3, <1>12 DEF Creating, Send, Answered, Forward, Unavailable, Uncertain
  <1>13. CASE Outside
    BY <1>1, <1>4, <1>5, <1>6, <1>7, <1>8, <1>13, <1>14 DEF Outside, LinkChanges, PowerChanges, Retires, AskDryRun
  <1> QED
    BY <1>1, <1>11, <1>12, <1>13 DEF Next, vars

(* How what is remembered of a request changes. *)
IntentMoves(r) ==
  \/ intent'[r] = intent[r]
  \/ \E d \in Decision : Reconciled(d) /\ pass[d].fate[r] \in Gone
  \/ \E a \in Attempt : Place(a) /\ Of[a] = r /\ intent'[r] = call'[a].host /\ call'[a].owns
  \/ Rebook(r) /\ intent'[r] = Local

LEMMA IntentsMove ==
  ASSUME IInv, IntentOfBooked, [Next]_vars
  PROVE  \A r \in Request : IntentMoves(r)
  <1>0. TypeOK
    BY DEF IInv
  <1>1. CASE UNCHANGED intent
    BY <1>1 DEF IntentMoves
  <1>2. ASSUME NEW d \in Decision, Reconciled(d) PROVE \A r \in Request : IntentMoves(r)
    BY <1>2 DEF Reconciled, IntentMoves
  <1>3. ASSUME NEW a \in Attempt, Place(a) PROVE \A r \in Request : IntentMoves(r)
    <2>1. PICK h : /\ intent' = [intent EXCEPT ![Of[a]] = h]
                   /\ call' = [call EXCEPT ![a] = [at |-> "creating", host |-> h, owns |-> TRUE]]
      BY <1>3 DEF Place
    <2> QED
      BY <1>0, <1>3, <2>1 DEF IntentMoves, TypeOK
  <1>4. ASSUME NEW q \in Request, Rebook(q) PROVE \A r \in Request : IntentMoves(r)
    <2>1. intent' = [intent EXCEPT ![q] = Local]
      BY <1>4 DEF Rebook
    <2> QED
      BY <1>0, <1>4, <2>1 DEF IntentMoves, TypeOK
  <1>5. CASE Restart
    BY <1>5 DEF Restart, Loaded, IntentMoves, IntentOfBooked
  <1>6. CASE Deciding
    BY <1>1, <1>2, <1>3, <1>4, <1>6 DEF Deciding, DecideCreate, DecideRestore, DecideOther, Judge,
       Refuse, FateArrives
  <1>7. CASE Creating
    BY <1>1, <1>7 DEF Creating, Send, Handle, Answered, Forward, Unavailable, Uncertain, HandleLate
  <1>8. CASE Outside
    BY <1>1, <1>5, <1>8 DEF Outside, Exits, Restores, AskRestore, Relaunch, Respawns, LinkChanges, PowerChanges,
       Retires, AskDryRun
  <1> QED
    BY <1>1, <1>6, <1>7, <1>8 DEF Next, vars

(* A reservation is let go by a reconciliation, or with a VM that is stopped. *)
BookMoves(r) ==
  \/ book[r] # None => book'[r] # None
  \/ \E d \in Decision : Reconciled(d) /\ pass[d].fate[r] \in Gone \union {"exited"}
  \/ book[r].host \in Vm /\ \E d \in Decision : Judge(d)

LEMMA DoneBooks ==
  ASSUME IInv, NEW a \in Attempt, Answered(a) \/ Unavailable(a) \/ Uncertain(a)
  PROVE  \A r \in Request : /\ (book'[r] # None) <=> (book[r] # None)
                            /\ book[r] # None => book'[r].host = book[r].host
  <1>0. TypeOK /\ Done(a) /\ InCreate(a) /\ Of[a] \in Request
    BY DecisionsAre DEF IInv, Answered, Unavailable, Uncertain, InCreate
  <1>1. CASE call[a].owns
    <2>1. book[Of[a]] # None /\ book[Of[a]] \in Booking
      BY <1>0, <1>1 DEF IInv, OwnersHold, Running, InCreate, Placing, TypeOK
    <2>2. book' = [book EXCEPT ![Of[a]] = [book[Of[a]] EXCEPT !.state = "held"]]
      BY <1>0, <1>1 DEF Done
    <2>3. [book[Of[a]] EXCEPT !.state = "held"] = [host |-> book[Of[a]].host, state |-> "held"]
      BY <2>1 DEF Booking
    <2>4. [host |-> book[Of[a]].host, state |-> "held"] \in Booking
      BY <2>1 DEF Booking
    <2>5. book'[Of[a]] = [host |-> book[Of[a]].host, state |-> "held"]
      BY <1>0, <2>2, <2>3 DEF TypeOK
    <2>6. \A r \in Request \ {Of[a]} : book'[r] = book[r]
      BY <2>2
    <2>7. book'[Of[a]] # None
      BY <2>4, <2>5, Constants
    <2> QED
      BY <2>1, <2>5, <2>6, <2>7
  <1>2. CASE ~call[a].owns
    BY <1>0, <1>2 DEF Done
  <1> QED
    BY <1>1, <1>2

LEMMA ReleasedBook ==
  ASSUME TypeOK, NEW r \in Request, NEW fate
  PROVE  /\ fate \notin Gone \union {"exited"} => (book[r] # None => Released(r, fate) # None)
         /\ fate \in Gone \union {"exited"} => Released(r, fate) = None
         /\ Released(r, fate) # None =>
              Released(r, fate).host = IF book[r] = None THEN intent[r] ELSE book[r].host
         /\ fate = "live" /\ book[r] = None /\ intent[r] \notin {None, Local} => Released(r, fate) # None
  <1>1. \A h \in Host : [host |-> h, state |-> "held"] \in Booking
    BY DEF Booking
  <1>2. intent[r] # None => intent[r] \in Host
    BY DEF TypeOK
  <1> QED
    BY <1>1, <1>2, Constants DEF Released, Gone

LEMMA JudgedBooks ==
  ASSUME IInv, NEW d \in Decision, Judge(d)
  PROVE  \A r \in Request :
           book'[r] = book[r] \/ (book[r] # None /\ book[r].host \in Vm /\ book'[r] = None)
  <1> DEFINE h == Head(pass[d].hosts)
             off == h \in Vm /\ host[h] = "off"
  <1>1. PICK stopped \in {FALSE, off} : book' = IF stopped THEN Stopped(h) ELSE book
    BY DEF Judge
  <1>2. CASE stopped
    <2>1. h \in Vm
      BY <1>1, <1>2
    <2>2. \A r \in Request : book'[r] = book[r] \/ (book[r] # None /\ book[r].host = h /\ book'[r] = None)
      BY <1>1, <1>2 DEF Stopped
    <2> QED
      BY <2>1, <2>2
  <1>3. CASE ~stopped
    BY <1>1, <1>3
  <1> QED
    BY <1>2, <1>3

LEMMA RestartedBooks ==
  ASSUME TypeOK, Restart
  PROVE  \A r \in Request : /\ (book'[r] # None) <=> (book[r] # None)
                            /\ book[r] # None => book'[r].host = book[r].host
  <1>1. \A r \in Request : book[r] # None => /\ book[r] \in Booking
                                             /\ book'[r] = [book[r] EXCEPT !.state = "held"]
    BY DEF TypeOK, Restart
  <1>2. \A b \in Booking : /\ [b EXCEPT !.state = "held"] \in Booking
                           /\ [b EXCEPT !.state = "held"].host = b.host
    BY DEF Booking
  <1>3. \A r \in Request : book[r] = None => book'[r] = None
    BY DEF Restart
  <1> QED
    BY <1>1, <1>2, <1>3, Constants

PlaceBooks(a) ==
  \E h \in Host : /\ book'[Of[a]] # None /\ book'[Of[a]].host = h
                  /\ intent'[Of[a]] = h /\ call'[a].host = h /\ call'[a].owns
                  /\ \A r \in Request \ {Of[a]} : book'[r] = book[r] /\ intent'[r] = intent[r]

LEMMA PlacedBooks ==
  ASSUME IInv, NEW a \in Attempt, Place(a)
  PROVE  PlaceBooks(a)
  <1> DEFINE d == <<"place", a>>
             h == Head(pass[d].hosts)
  <1>0. TypeOK /\ pass[d].at = "verdict" /\ d \in Decision /\ Of[a] \in Request
    BY DecisionsAre DEF IInv, Place
  <1>1. h \in Host
    BY <1>0 DEF IInv, HostsLeft, TypeOK, Pass
  <1>2. [host |-> h, state |-> "placing"] # None
    BY <1>1, Constants DEF Booking
  <1>3. /\ book' = [book EXCEPT ![Of[a]] = [host |-> h, state |-> "placing"]]
        /\ intent' = [intent EXCEPT ![Of[a]] = h]
        /\ call' = [call EXCEPT ![a] = [at |-> "creating", host |-> h, owns |-> TRUE]]
    BY DEF Place
  <1>4. /\ book'[Of[a]] = [host |-> h, state |-> "placing"]
        /\ \A r \in Request \ {Of[a]} : book'[r] = book[r]
    BY <1>0, <1>3 DEF TypeOK
  <1>5. intent'[Of[a]] = h /\ \A r \in Request \ {Of[a]} : intent'[r] = intent[r]
    BY <1>0, <1>3 DEF TypeOK
  <1>6. call'[a].host = h /\ call'[a].owns
    BY <1>0, <1>3 DEF TypeOK
  <1> QED
    BY <1>1, <1>2, <1>4, <1>5, <1>6 DEF PlaceBooks

LEMMA RebookedBooks ==
  ASSUME TypeOK, NEW r \in Request, Rebook(r)
  PROVE  /\ book'[r] # None /\ book'[r].host = Local /\ intent'[r] = Local
         /\ \A q \in Request \ {r} : book'[q] = book[q] /\ intent'[q] = intent[q]
  <1>1. /\ book' = [book EXCEPT ![r] = [host |-> Local, state |-> "held"]]
        /\ intent' = [intent EXCEPT ![r] = Local]
    BY DEF Rebook
  <1>2. [host |-> Local, state |-> "held"] # None
    BY Constants DEF Booking
  <1> QED
    BY <1>1, <1>2 DEF TypeOK

(* Steps that change no reservation. *)
BooksRest ==
  \/ \E a \in Attempt : DecideCreate(a) \/ Send(a) \/ Handle(a) \/ Forward(a)
  \/ \E r \in Request : DecideRestore(r) \/ AskRestore(r) \/ Relaunch(r) \/ Respawns(r)
  \/ \E d \in Decision : DecideOther(d) \/ Refuse(d)
  \/ \E d \in Decision, r \in Request : FateArrives(d, r)
  \/ \E r \in Request, h \in Host : Exits(r, h) \/ Restores(r, h)
  \/ \E h \in Host : LinkChanges(h) \/ PowerChanges(h) \/ Retires(h)
  \/ HandleLate \/ AskDryRun

LEMMA RestingBooks == ASSUME BooksRest \/ UNCHANGED vars PROVE UNCHANGED <<book, intent>>
  BY DEF BooksRest, DecideCreate, DecideRestore, AskRestore, Relaunch, Respawns, DecideOther, Refuse, FateArrives,
     Send, Handle, Forward, Exits, Restores, LinkChanges, PowerChanges, Retires, HandleLate, AskDryRun, vars

LEMMA NextByBooks ==
  ASSUME [Next]_vars
  PROVE  \/ BooksRest \/ UNCHANGED vars \/ Restart
         \/ \E a \in Attempt : Place(a) \/ Answered(a) \/ Unavailable(a) \/ Uncertain(a)
         \/ \E r \in Request : Rebook(r)
         \/ \E d \in Decision : Reconciled(d) \/ Judge(d)
  BY DEF Next, Deciding, Creating, Outside, BooksRest

LEMMA BooksMove ==
  ASSUME IInv, [Next]_vars
  PROVE  \A r \in Request : BookMoves(r)
  <1>0. TypeOK
    BY DEF IInv
  <1>1. CASE BooksRest \/ UNCHANGED vars
    BY <1>1, RestingBooks DEF BookMoves
  <1>2. CASE Restart
    BY <1>0, <1>2, RestartedBooks DEF BookMoves
  <1>3. ASSUME NEW a \in Attempt, Place(a) PROVE \A r \in Request : BookMoves(r)
    BY <1>3, PlacedBooks DEF BookMoves, PlaceBooks
  <1>4. ASSUME NEW a \in Attempt, Answered(a) \/ Unavailable(a) \/ Uncertain(a)
        PROVE  \A r \in Request : BookMoves(r)
    BY <1>4, DoneBooks DEF BookMoves
  <1>5. ASSUME NEW q \in Request, Rebook(q) PROVE \A r \in Request : BookMoves(r)
    BY <1>0, <1>5, RebookedBooks DEF BookMoves
  <1>6. ASSUME NEW d \in Decision, Reconciled(d) PROVE \A r \in Request : BookMoves(r)
    <2>1. \A r \in Request : book'[r] = Released(r, pass[d].fate[r])
      BY <1>6 DEF Reconciled
    <2> QED
      BY <1>0, <1>6, <2>1, ReleasedBook DEF BookMoves
  <1>7. ASSUME NEW d \in Decision, Judge(d) PROVE \A r \in Request : BookMoves(r)
    BY <1>7, JudgedBooks DEF BookMoves
  <1> QED
    BY <1>1, <1>2, <1>3, <1>4, <1>5, <1>6, <1>7, NextByBooks

LEMMA IntentOfBookedStep ==
  ASSUME IInv, IntentOfBooked, [Next]_vars
  PROVE  IntentOfBooked'
  <1>0. TypeOK
    BY DEF IInv
  <1>1. CASE BooksRest \/ UNCHANGED vars
    BY <1>1, RestingBooks DEF IntentOfBooked
  <1>2. CASE Restart
    BY <1>0, <1>2, RestartedBooks DEF IntentOfBooked, Restart, Loaded
  <1>3. ASSUME NEW a \in Attempt, Place(a) PROVE IntentOfBooked'
    BY <1>3, PlacedBooks DEF IntentOfBooked, PlaceBooks
  <1>4. ASSUME NEW a \in Attempt, Answered(a) \/ Unavailable(a) \/ Uncertain(a)
        PROVE  IntentOfBooked'
    BY <1>4, DoneBooks DEF IntentOfBooked, Answered, Unavailable, Uncertain
  <1>5. ASSUME NEW q \in Request, Rebook(q) PROVE IntentOfBooked'
    BY <1>0, <1>5, RebookedBooks DEF IntentOfBooked
  <1>6. ASSUME NEW d \in Decision, Reconciled(d) PROVE IntentOfBooked'
    <2>1. \A r \in Request : /\ book'[r] = Released(r, pass[d].fate[r])
                             /\ intent'[r] = IF pass[d].fate[r] \in Gone THEN None ELSE intent[r]
      BY <1>6 DEF Reconciled
    <2> QED
      BY <1>0, <2>1, ReleasedBook DEF IntentOfBooked
  <1>7. ASSUME NEW d \in Decision, Judge(d) PROVE IntentOfBooked'
    BY <1>7, JudgedBooks DEF IntentOfBooked, Judge
  <1> QED
    BY <1>1, <1>2, <1>3, <1>4, <1>5, <1>6, <1>7, NextByBooks

-----------------------------------------------------------------------------
(* Creates, decisions and the chain.                                       *)

LEMMA LateMoves ==
  ASSUME [Next]_vars, NEW m \in late'
  PROVE  m \in late \/ \E a \in Attempt : InCreate(a) /\ m = <<Of[a], call[a].host>>
  <1>1. CASE Deciding
    BY <1>1 DEF Deciding, DecideCreate, Place, DecideRestore, Rebook, DecideOther, Reconciled, Judge,
       Refuse, FateArrives
  <1>2. CASE Creating
    <2>1. ASSUME NEW a \in Attempt, Uncertain(a)
          PROVE  m \in late \/ \E b \in Attempt : InCreate(b) /\ m = <<Of[b], call[b].host>>
      BY <2>1 DEF Uncertain, Strays, InCreate
    <2> QED
      BY <1>2, <2>1 DEF Creating, Send, Handle, Answered, Forward, Unavailable, HandleLate
  <1>3. CASE Outside
    <2>1. CASE Restart
      BY <2>1 DEF Restart, InCreate
    <2> QED
      BY <1>3, <2>1 DEF Outside, Exits, Restores, AskRestore, Relaunch, Respawns, LinkChanges, PowerChanges,
         Retires, AskDryRun
  <1> QED
    BY <1>1, <1>2, <1>3 DEF Next, vars

(* While its only create is decided on, nothing is known of a request. *)
LEMMA NothingKnown ==
  ASSUME IInv, NewOwnsNothing, IntentOfBooked, NEW a \in Attempt, OnceOf(Of[a]), SentOnce(Of[a]),
         call[a].at = "deciding"
  PROVE  /\ \A h : ~Placed(Of[a], h)
         /\ book[Of[a]] = None /\ intent[Of[a]] = None
         /\ \A h \in Host : root[Of[a]][h] = "none"
         /\ Known(Of[a]) = {None}
  <1>0. Of[a] \in Request /\ Local \in Host /\ ~call[a].owns
    BY DecisionsAre, Constants DEF IInv, DecidingOwnsNothing
  <1>1. \A h : ~Placed(Of[a], h)
    BY <1>0, OnePlace
  <1>2. intent[Of[a]] = None /\ \A h \in Host : root[Of[a]][h] = "none"
    BY <1>0, <1>1 DEF OnceOf, IInv, TypeOK
  <1>3. book[Of[a]] = None
    <2>1. book[Of[a]] # None => book[Of[a]].host \in Host
      BY <1>0 DEF IInv, TypeOK, Booking
    <2> QED
      BY <1>0, <1>2, <2>1, Constants DEF IntentOfBooked
  <1>4. Known(Of[a]) = {None}
    BY <1>0, <1>2, <1>3 DEF Known
  <1> QED
    BY <1>1, <1>2, <1>3, <1>4

LEMMA NewOwnsNothingStep ==
  ASSUME IInv, NewOwnsNothing, PassOfDeciding, [Next]_vars
  PROVE  NewOwnsNothing'
  <1>0. TypeOK
    BY DEF IInv
  <1>1. CASE CallsRest \/ UNCHANGED vars
    BY <1>1, RestingCalls DEF NewOwnsNothing, vars
  <1>2. ASSUME NEW a \in Attempt, DecideCreate(a) \/ Refuse(<<"place", a>>) \/ Place(a)
        PROVE  NewOwnsNothing'
    BY <1>2, DecidedCalls DEF NewOwnsNothing
  <1>3. ASSUME NEW a \in Attempt,
               Handle(a) \/ Forward(a) \/ Answered(a) \/ Unavailable(a) \/ Uncertain(a)
        PROVE  NewOwnsNothing'
    BY <1>0, <1>3, MovedCalls DEF NewOwnsNothing
  <1>4. ASSUME NEW a \in Attempt, Send(a) PROVE NewOwnsNothing'
    BY <1>0, <1>4, SentCall DEF NewOwnsNothing
  <1>5. CASE Restart
    BY <1>0, <1>5, RestartedCalls DEF NewOwnsNothing
  <1> QED
    BY <1>1, <1>2, <1>3, <1>4, <1>5, NextByCalls DEF CallsDecided, CallsMoved

(* A decision that goes on began before, or begins now. *)
LEMMA PassesMove ==
  ASSUME IInv, [Next]_vars, NEW d \in Decision, pass'[d].at # "off"
  PROVE  \/ pass[d].at # "off"
         \/ /\ Turn(d) /\ UNCHANGED call
            /\ \/ \E a \in Attempt : d = <<"place", a>> /\ DecideCreate(a)
               \/ \E r \in Request : d = <<"restore", r>> /\ DecideRestore(r)
               \/ DecideOther(d)
  <1>0. TypeOK /\ pass \in [Decision -> Pass]
    BY DEF IInv, TypeOK
  <1> SUFFICES ASSUME pass[d].at = "off"
      PROVE  /\ Turn(d) /\ UNCHANGED call
             /\ \/ \E a \in Attempt : d = <<"place", a>> /\ DecideCreate(a)
                \/ \E r \in Request : d = <<"restore", r>> /\ DecideRestore(r)
                \/ DecideOther(d)
    OBVIOUS
  <1>1. ~\E e \in Decision : (pass[e].at # "off" \/ Turn(e)) /\ Over(e)
    BY OverLeavesNone
  <1>2. \A e \in Decision : \A p : pass' = [pass EXCEPT ![e] = p] => e = d
    BY <1>0
  <1>3. ASSUME NEW a \in Attempt, DecideCreate(a) PROVE d = <<"place", a>> /\ Turn(d) /\ UNCHANGED call
    <2>1. <<"place", a>> \in Decision /\ Turn(<<"place", a>>)
      BY <1>3, DecisionsAre DEF DecideCreate
    <2>2. ~Over(<<"place", a>>)
      BY <1>1, <2>1
    <2>3. UNCHANGED call /\ \E hosts : Reconcile(<<"place", a>>, hosts)
      BY <1>3, <2>2 DEF DecideCreate
    <2> QED
      BY <1>2, <2>1, <2>3 DEF Reconcile
  <1>4. ASSUME NEW r \in Request, DecideRestore(r) PROVE d = <<"restore", r>> /\ Turn(d) /\ UNCHANGED call
    <2>1. <<"restore", r>> \in Decision /\ Turn(<<"restore", r>>)
      BY <1>4, DecisionsAre DEF DecideRestore
    <2>2. ~Over(<<"restore", r>>)
      BY <1>1, <2>1
    <2>3. UNCHANGED call /\ \E hosts : Reconcile(<<"restore", r>>, hosts)
      BY <1>4, <2>2 DEF DecideRestore
    <2> QED
      BY <1>2, <2>1, <2>3 DEF Reconcile
  <1>5. ASSUME NEW e \in Decision, DecideOther(e) PROVE e = d /\ Turn(d) /\ UNCHANGED call
    <2>1. \E hosts : Reconcile(e, hosts)
      BY <1>5 DEF DecideOther
    <2> QED
      BY <1>2, <1>5, <2>1 DEF Reconcile, DecideOther
  <1>6. ASSUME NEW e \in Decision, Reconciled(e) PROVE FALSE
    <2>1. pass[e].at # "off" /\ ~Over(e)
      BY <1>1, <1>6 DEF Reconciled
    <2>2. e = d
      BY <1>0, <1>6, <2>1 DEF Reconciled
    <2> QED
      BY <2>1, <2>2
  <1>7. ASSUME NEW e \in Decision, Judge(e) PROVE FALSE
    BY <1>0, <1>7 DEF Judge
  <1>8. ASSUME NEW e \in Decision, Refuse(e) PROVE FALSE
    <2>1. pass[e].at # "off" /\ ~Over(e)
      BY <1>1, <1>8 DEF Refuse
    <2> QED
      BY <1>0, <1>8, <2>1 DEF Refuse
  <1>9. ASSUME NEW e \in Decision, NEW r \in Request, FateArrives(e, r) PROVE FALSE
    BY <1>0, <1>9 DEF FateArrives
  <1>10. ASSUME NEW a \in Attempt, Place(a) PROVE FALSE
    BY <1>1, <1>10, DecisionsAre DEF Place
  <1>11. ASSUME NEW r \in Request, Rebook(r) PROVE FALSE
    BY <1>0, <1>11, DecisionsAre DEF Rebook
  <1>12. CASE Restart
    BY <1>12 DEF Restart, Off
  <1>13. CASE UNCHANGED pass
    BY <1>13
  <1>14. CASE Deciding
    BY <1>3, <1>4, <1>5, <1>6, <1>7, <1>8, <1>9, <1>10, <1>11, <1>14 DEF Deciding
  <1>15. CASE Creating
    BY <1>13, <1>15 DEF Creating, Send, Handle, Answered, Forward, Unavailable, Uncertain, HandleLate
  <1>16. CASE Outside
    BY <1>12, <1>13, <1>16 DEF Outside, Exits, Restores, AskRestore, Relaunch, Respawns, LinkChanges, PowerChanges,
       Retires, AskDryRun
  <1> QED
    BY <1>13, <1>14, <1>15, <1>16 DEF Next, vars

LEMMA PassOfDecidingStep ==
  ASSUME IInv, NewOwnsNothing, PassOfDeciding, [Next]_vars
  PROVE  PassOfDeciding'
  <1> SUFFICES ASSUME NEW a \in Attempt, pass'[<<"place", a>>].at # "off"
      PROVE  call'[a].at = "deciding"
    BY DEF PassOfDeciding
  <1> DEFINE d == <<"place", a>>
  <1>0. TypeOK /\ d \in Decision /\ call \in [Attempt -> Call]
    BY DecisionsAre DEF IInv, TypeOK
  <1>1. CASE pass[d].at = "off"
    <2>1. UNCHANGED call /\ (DecideCreate(a) \/ DecideOther(d) \/ \E r \in Request : d = <<"restore", r>>)
      <3>1. \A b \in Attempt : d = <<"place", b>> => a = b
        OBVIOUS
      <3> QED
        BY <1>0, <1>1, <3>1, PassesMove
    <2>2. ~DecideOther(d) /\ ~\E r \in Request : d = <<"restore", r>>
      <3>1. d # DryRun /\ d \notin {"done"} \X Request /\ ~\E r \in Request : d = <<"restore", r>>
        BY Constants
      <3> QED
        BY <3>1 DEF DecideOther
    <2> QED
      BY <2>1, <2>2 DEF DecideCreate
  <1>2. CASE pass[d].at # "off"
    <2>1. call[a].at = "deciding"
      BY <1>2 DEF PassOfDeciding
    <2>2. CASE CallsRest \/ UNCHANGED vars
      BY <2>1, <2>2, RestingCalls DEF vars
    <2>3. ASSUME NEW b \in Attempt, DecideCreate(b) \/ Refuse(<<"place", b>>) \/ Place(b)
          PROVE  call'[a].at = "deciding"
      <3>1. CASE b = a
        <4>1. ~Over(d)
          BY <1>0, <1>2, OverLeavesNone
        <4>2. ~DecideCreate(a) /\ ~Place(a)
          BY <1>2, <4>1 DEF DecideCreate, Turn, Off, Place
        <4>3. Refuse(d)
          BY <2>3, <3>1, <4>2
        <4> QED
          BY <2>1, <4>1, <4>3 DEF Refuse
      <3>2. CASE b # a
        BY <2>1, <2>3, <3>2, DecidedCalls
      <3> QED
        BY <3>1, <3>2
    <2>4. ASSUME NEW b \in Attempt,
                 Handle(b) \/ Forward(b) \/ Answered(b) \/ Unavailable(b) \/ Uncertain(b)
          PROVE  call'[a].at = "deciding"
      <3>1. InCreate(b) /\ \A c \in Attempt \ {b} : call'[c] = call[c]
        BY <1>0, <2>4, MovedCalls
      <3> QED
        BY <2>1, <3>1 DEF InCreate
    <2>5. ASSUME NEW b \in Attempt, Send(b) PROVE call'[a].at = "deciding"
      <3>1. call[b].at = "new" /\ \A c \in Attempt \ {b} : call'[c] = call[c]
        BY <1>0, <2>5, SentCall
      <3> QED
        BY <2>1, <3>1
    <2>6. ~Restart
      BY <1>0 DEF Restart, Off
    <2> QED
      BY <2>2, <2>3, <2>4, <2>5, <2>6, NextByCalls DEF CallsDecided, CallsMoved
  <1> QED
    BY <1>1, <1>2

LEMMA RootsStay ==
  ASSUME IInv, [Next]_vars
  PROVE  \A r \in Request, h \in Host : root[r][h] # "none" => root'[r][h] # "none"
  BY RootsMove DEF RootMoves, RootHandled

LEMMA InChain ==
  ASSUME NEW q \in Seq(Decision)
  PROVE  /\ \A d \in Decision : ToSet(Append(q, d)) = ToSet(q) \union {d}
         /\ q # <<>> => ToSet(Tail(q)) \subseteq ToSet(q)
         /\ q # <<>> => Head(q) \in ToSet(q)
         /\ ToSet(<<>>) = {}
  <1>1. ASSUME NEW d \in Decision PROVE ToSet(Append(q, d)) = ToSet(q) \union {d}
    <2>1. /\ DOMAIN Append(q, d) = 1..Len(q) + 1 /\ DOMAIN q = 1..Len(q) /\ Len(q) \in Nat
          /\ Append(q, d)[Len(q) + 1] = d /\ \A i \in 1..Len(q) : Append(q, d)[i] = q[i]
      OBVIOUS
    <2> QED
      BY <2>1 DEF ToSet
  <1>2. ASSUME q # <<>> PROVE ToSet(Tail(q)) \subseteq ToSet(q) /\ Head(q) \in ToSet(q)
    <2>1. /\ DOMAIN Tail(q) = 1..Len(q) - 1 /\ DOMAIN q = 1..Len(q) /\ Len(q) \in Nat /\ Len(q) # 0
          /\ Head(q) = q[1] /\ \A i \in 1..Len(q) - 1 : Tail(q)[i] = q[i + 1]
      BY <1>2
    <2> QED
      BY <2>1 DEF ToSet
  <1>3. ToSet(<<>>) = {}
    BY DEF ToSet
  <1> QED
    BY <1>1, <1>2, <1>3

(* Only AskRestore puts a restore into the chain. *)
LEMMA RestoresMove ==
  ASSUME IInv, [Next]_vars, NEW r \in Request, <<"restore", r>> \in ToSet(queue')
  PROVE  <<"restore", r>> \in ToSet(queue) \/ root[r][Local] = "retained"
  <1> DEFINE d == <<"restore", r>>
  <1>0. TypeOK /\ queue \in Seq(Decision) /\ d \in Decision
    BY DecisionsAre DEF IInv, TypeOK
  <1>1. CASE UNCHANGED queue
    BY <1>1
  <1>2. ASSUME NEW e \in Decision, pass[e].at # "off" \/ Turn(e), Over(e) PROVE d \in ToSet(queue)
    <2>1. queue # <<>> /\ queue' = Tail(queue)
      BY <1>0, <1>2, Alone DEF Over, IInv
    <2> QED
      BY <1>0, <2>1, InChain
  <1>3. ASSUME NEW e \in Decision, e # d, queue' = Append(queue, e) PROVE d \in ToSet(queue)
    BY <1>0, <1>3, InChain
  <1>4. CASE Deciding
    <2>1. ASSUME NEW q \in Request, Rebook(q) PROVE d \in ToSet(queue)
      <3>1. <<"restore", q>> \in Decision /\ <<"done", q>> \in Decision /\ <<"done", q>> # d
        BY DecisionsAre
      <3>2. queue # <<>> /\ queue' = Append(Tail(queue), <<"done", q>>)
        BY <1>0, <2>1, <3>1, Alone DEF Rebook, IInv
      <3>3. Tail(queue) \in Seq(Decision)
        BY <1>0, <3>2
      <3>4. ToSet(Append(Tail(queue), <<"done", q>>)) = ToSet(Tail(queue)) \union {<<"done", q>>}
        BY <3>1, <3>3, InChain
      <3>5. ToSet(Tail(queue)) \subseteq ToSet(queue)
        BY <1>0, <3>2, InChain
      <3> QED
        BY <3>1, <3>2, <3>4, <3>5
    <2>2. ASSUME NEW e \in Decision, Reconciled(e) \/ Refuse(e) PROVE d \in ToSet(queue)
      BY <1>1, <1>2, <2>2 DEF Reconciled, Refuse
    <2>3. ASSUME NEW a \in Attempt, DecideCreate(a) \/ Place(a) PROVE d \in ToSet(queue)
      BY <1>1, <1>2, <2>3, DecisionsAre DEF DecideCreate, Place
    <2>4. ASSUME NEW q \in Request, DecideRestore(q) PROVE d \in ToSet(queue)
      BY <1>1, <1>2, <2>4, DecisionsAre DEF DecideRestore
    <2> QED
      BY <1>1, <1>4, <2>1, <2>2, <2>3, <2>4 DEF Deciding, DecideOther, Judge, FateArrives
  <1>5. CASE Creating
    <2>1. ASSUME NEW a \in Attempt, Send(a) PROVE d \in ToSet(queue)
      BY <1>3, <2>1, DecisionsAre DEF Send
    <2>2. ASSUME NEW a \in Attempt, Answered(a) \/ Unavailable(a) \/ Uncertain(a) PROVE d \in ToSet(queue)
      <3>1. <<"done", Of[a]>> \in Decision /\ <<"done", Of[a]>> # d
        BY DecisionsAre
      <3> QED
        BY <1>1, <1>3, <2>2, <3>1 DEF Answered, Unavailable, Uncertain, Done
    <2> QED
      BY <1>1, <1>5, <2>1, <2>2 DEF Creating, Handle, Forward, HandleLate
  <1>6. CASE Outside
    <2>1. ASSUME NEW q \in Request, AskRestore(q) PROVE d \in ToSet(queue) \/ root[r][Local] = "retained"
      <3>1. CASE queue' = Append(queue, <<"restore", q>>)
        BY <1>3, <2>1, <3>1, DecisionsAre DEF AskRestore
      <3> QED
        BY <1>1, <2>1, <3>1 DEF AskRestore
    <2>2. CASE AskDryRun
      <3>1. DryRun \in Decision /\ DryRun # d
        BY DecisionsAre, Constants
      <3> QED
        BY <1>3, <2>2, <3>1 DEF AskDryRun
    <2>3. ~Restart
      BY <1>0, InChain DEF Restart
    <2> QED
      BY <1>1, <1>6, <2>1, <2>2, <2>3 DEF Outside, Exits, Restores, Relaunch, Respawns, LinkChanges, PowerChanges,
         Retires
  <1> QED
    BY <1>1, <1>4, <1>5, <1>6 DEF Next, vars

LEMMA RestoresRootsStep ==
  ASSUME IInv, RestoresRoots, [Next]_vars
  PROVE  RestoresRoots'
  BY RestoresMove, RootsStay, Constants DEF RestoresRoots

(* A restore that has its turn is of a root that was there. *)
LEMMA RestoreHasRoot ==
  ASSUME IInv, RestoresRoots, NEW r \in Request,
         pass[<<"restore", r>>].at # "off" \/ Turn(<<"restore", r>>)
  PROVE  root[r][Local] # "none"
  <1>1. <<"restore", r>> \in Decision /\ TypeOK /\ queue \in Seq(Decision)
    BY DecisionsAre DEF IInv, TypeOK
  <1>2. queue # <<>> /\ Head(queue) = <<"restore", r>>
    BY <1>1, Alone DEF IInv
  <1> QED
    BY <1>1, <1>2, InChain DEF RestoresRoots

-----------------------------------------------------------------------------
(* What the only create of a request stands for.                           *)

(* A create gets under way where a decision placed it. *)
LEMMA CreatesBegin ==
  ASSUME IInv, NewOwnsNothing, IntentOfBooked, PassOfDeciding, [Next]_vars,
         NEW a \in Attempt, InCreate(a)', OnceOf(Of[a]), SentOnce(Of[a])
  PROVE  call'[a].owns
  <1>0. TypeOK /\ call \in [Attempt -> Call] /\ NeverBack
    BY ForwardStep DEF IInv, TypeOK
  <1>1. InCreate(a) => call'[a].owns
    BY <1>0 DEF OnceOf, NeverBack
  <1>2. CASE CallsRest \/ UNCHANGED vars
    BY <1>1, <1>2, RestingCalls DEF InCreate, vars
  <1>3. ASSUME NEW b \in Attempt, DecideCreate(b) \/ Refuse(<<"place", b>>) \/ Place(b)
        PROVE  call'[a].owns
    <2>1. CASE b # a
      BY <1>1, <1>3, <2>1, DecidedCalls DEF InCreate
    <2>2. CASE b = a /\ Place(a)
      BY <2>2, PlacedBooks DEF PlaceBooks
    <2>3. CASE b = a /\ Refuse(<<"place", a>>)
      <3>1. \/ call' = call
            \/ call' = [call EXCEPT ![a].at = "over"]
        BY <2>3 DEF Refuse
      <3> QED
        BY <1>0, <1>1, <3>1 DEF InCreate, Call
    <2>4. CASE b = a /\ DecideCreate(a)
      <3>1. Known(Of[a]) = {None}
        BY <2>4, NothingKnown DEF DecideCreate
      <3>2. \/ call' = call
            \/ call' = [call EXCEPT ![a].at = "over"]
        BY <2>4, <3>1 DEF DecideCreate
      <3> QED
        BY <1>0, <1>1, <3>2 DEF InCreate, Call
    <2> QED
      BY <1>3, <2>1, <2>2, <2>3, <2>4
  <1>4. ASSUME NEW b \in Attempt,
               Handle(b) \/ Forward(b) \/ Answered(b) \/ Unavailable(b) \/ Uncertain(b)
        PROVE  call'[a].owns
    <2>1. InCreate(b) /\ \A c \in Attempt \ {b} : call'[c] = call[c]
      BY <1>0, <1>4, MovedCalls
    <2> QED
      BY <1>1, <2>1 DEF InCreate
  <1>5. ASSUME NEW b \in Attempt, Send(b) PROVE call'[a].owns
    <2>1. call'[b].at = "deciding" /\ \A c \in Attempt \ {b} : call'[c] = call[c]
      BY <1>0, <1>5, SentCall
    <2> QED
      BY <1>1, <2>1 DEF InCreate
  <1>6. ~Restart
    BY <1>0, RestartedCalls DEF InCreate
  <1> QED
    BY <1>2, <1>3, <1>4, <1>5, <1>6, NextByCalls DEF CallsDecided, CallsMoved

LEMMA OnceStep ==
  ASSUME IInv, NewOwnsNothing, IntentOfBooked, PassOfDeciding, RestoresRoots, [Next]_vars,
         NEW r \in Request, OnceOf(r)
  PROVE  OnceOf(r)'
  <1> SUFFICES ASSUME SentOnce(r)'
      PROVE  /\ \A a \in Attempt : Of[a] = r /\ InCreate(a)' => call'[a].owns
             /\ \A h \in Host : root'[r][h] # "none" \/ <<r, h>> \in late' \/ intent'[r] = h => Placed(r, h)'
    BY DEF OnceOf
  <1>0. NeverBack /\ SentOnce(r) /\ (\A h : Placed(r, h) => Placed(r, h)') /\ Local \in Host /\ TypeOK
    BY ForwardStep, Before, Constants DEF IInv
  <1>1. \A a \in Attempt : Of[a] = r /\ InCreate(a)' => call'[a].owns
    BY <1>0, CreatesBegin
  <1>2. \A a \in Attempt : Of[a] = r /\ InCreate(a) => Placed(r, call[a].host)
    BY <1>0 DEF OnceOf, Placed
  <1>3. ASSUME NEW h \in Host, <<r, h>> \in late' PROVE Placed(r, h)'
    <2>1. CASE <<r, h>> \in late
      BY <1>0, <2>1 DEF OnceOf
    <2>2. ASSUME NEW a \in Attempt, InCreate(a), <<r, h>> = <<Of[a], call[a].host>> PROVE Placed(r, h)'
      BY <1>0, <1>2, <2>2
    <2> QED
      BY <1>3, <2>1, <2>2, LateMoves
  <1>4. ASSUME NEW h \in Host, root'[r][h] # "none" PROVE Placed(r, h)'
    <2>1. CASE root[r][h] # "none"
      BY <1>0, <2>1 DEF OnceOf
    <2>2. CASE RootHandled(r, h)
      BY <1>0, <1>2, <2>2 DEF RootHandled, OnceOf
    <2>3. CASE h = Local /\ (DecideRestore(r) \/ Rebook(r))
      <3>1. root[r][Local] # "none"
        BY <2>3, RestoreHasRoot DEF DecideRestore, Rebook
      <3> QED
        BY <2>1, <2>3, <3>1
    <2>4. RootMoves(r, h)
      BY RootsMove
    <2> QED
      BY <1>4, <2>1, <2>2, <2>3, <2>4 DEF RootMoves, There
  <1>5. ASSUME NEW h \in Host, intent'[r] = h PROVE Placed(r, h)'
    <2>1. CASE intent'[r] = intent[r]
      BY <1>0, <1>5, <2>1 DEF OnceOf
    <2>2. ASSUME NEW d \in Decision, Reconciled(d) PROVE intent'[r] = intent[r]
      BY <1>5, <2>2, Constants DEF Reconciled
    <2>3. ASSUME NEW a \in Attempt, Of[a] = r, intent'[r] = call'[a].host, call'[a].owns
          PROVE  Placed(r, h)'
      BY <1>5, <2>3 DEF Placed
    <2>4. CASE Rebook(r) /\ intent'[r] = Local
      <3>1. root[r][Local] # "none"
        BY <2>4, RestoreHasRoot DEF Rebook
      <3>2. Placed(r, Local)
        BY <1>0, <3>1 DEF OnceOf
      <3>3. Placed(r, Local)'
        BY <1>0, <3>2
      <3> QED
        BY <1>5, <2>4, <3>3
    <2>5. IntentMoves(r)
      BY IntentsMove
    <2> QED
      BY <1>5, <2>1, <2>2, <2>3, <2>4, <2>5 DEF IntentMoves
  <1> QED
    BY <1>1, <1>3, <1>4, <1>5

-----------------------------------------------------------------------------
(* What is known of a root, and what a reconciliation was told of it.       *)

Parts ==
  /\ IInv /\ NewOwnsNothing /\ PassOfDeciding /\ RestoresRoots /\ IntentOfBooked
  /\ \A r \in Request : OnceOf(r)

(* Where a request is placed, its only root is, and its books are. *)
LEMMA OnePlaceOfAll ==
  ASSUME Parts, NEW r \in Request, NEW h \in Host, Clean(r, h), root[r][h] # "none"
  PROVE  /\ Placed(r, h)
         /\ \A g \in Host : root[r][g] # "none" \/ <<r, g>> \in late \/ intent[r] = g => g = h
         /\ \A a \in Attempt : Of[a] = r /\ call[a].at # "new" => call[a].owns /\ call[a].host = h
  <1>1. SentOnce(r)
    BY DEF Clean, SentOnce
  <1>2. Placed(r, h) /\ \A g \in Host : root[r][g] # "none" \/ <<r, g>> \in late \/ intent[r] = g => Placed(r, g)
    BY <1>1 DEF Parts, OnceOf
  <1>3. \A g \in Host : Placed(r, g) => g = h
    BY <1>1, <1>2, OnePlace DEF Parts
  <1>4. \A a \in Attempt : Of[a] = r /\ call[a].at # "new" => call[a].owns /\ call[a].host = h
    BY <1>1, <1>2, OnePlace DEF Parts
  <1> QED
    BY <1>2, <1>3, <1>4

(* A create that makes a root made its reservation. *)
LEMMA HandledIsBooked ==
  ASSUME Parts, NEW r \in Request, NEW h \in Host, Clean(r, h), RootHandled(r, h)
  PROVE  Placing(r) /\ book[r] # None /\ book[r].host = h /\ intent[r] = h
  <1>1. SentOnce(r) /\ <<r, h>> \notin late
    BY DEF Clean, SentOnce
  <1>2. PICK a \in Attempt : Of[a] = r /\ InCreate(a) /\ call[a].host = h
    BY <1>1 DEF RootHandled
  <1>3. Running(a)
    BY <1>1, <1>2 DEF Parts, OnceOf, Running, InCreate
  <1>4. Placing(r) /\ book[r].host = h
    BY <1>2, <1>3 DEF Parts, IInv, OwnersHold
  <1> QED
    BY <1>4 DEF Placing, Parts, IntentOfBooked

(* A restore that goes ahead is of the only root of its request. *)
LEMMA RestoredIsHere ==
  ASSUME Parts, NEW r \in Request, Clean(r, Local), DecideRestore(r), book[r] # None
  PROVE  intent[r] = Local
  <1>1. root[r][Local] # "none" /\ Local \in Host
    BY RestoreHasRoot, Constants DEF Parts, DecideRestore
  <1>2. intent[r] \in Host
    <2>1. book[r] \in Booking
      BY DEF Parts, IInv, TypeOK
    <2> QED
      BY <2>1 DEF Parts, IntentOfBooked, Booking
  <1> QED
    BY <1>1, <1>2, OnePlaceOfAll

(* The intent of a root that is there stays. *)
LEMMA IntentStays ==
  ASSUME Parts, [Next]_vars, NEW r \in Request, NEW h \in Host, Clean(r, h), host[h] # "retired",
         root'[r][h] \in There, intent[r] = h, \A d \in Decision : FateHolds(d, r)
  PROVE  intent'[r] = h
  <1>0. Local \in Host /\ h # None
    BY Constants
  <1>1. ASSUME NEW d \in Decision, Reconciled(d), pass[d].fate[r] \in Gone PROVE FALSE
    <2>1. pass[d].at = "asking" /\ root' = root
      BY <1>1 DEF Reconciled
    <2>2. root[r][h] \in There
      BY <2>1
    <2> QED
      BY <1>1, <2>1, <2>2 DEF FateHolds, Gone
  <1>2. ASSUME NEW a \in Attempt, Place(a), Of[a] = r PROVE FALSE
    <2>1. call[a].at = "deciding" /\ SentOnce(r)
      BY <1>2, DecidedCalls DEF Parts, Clean, SentOnce
    <2> QED
      BY <1>0, <1>2, <2>1, NothingKnown DEF Parts
  <1>3. ASSUME Rebook(r), intent'[r] = Local PROVE h = Local
    <2>1. root[r][Local] # "none"
      BY <1>3, RestoreHasRoot DEF Parts, Rebook
    <2>2. Placed(r, Local) /\ Placed(r, h) /\ SentOnce(r)
      BY <1>0, <2>1 DEF Parts, OnceOf, Clean, SentOnce
    <2> QED
      BY <2>2, OnePlace DEF Parts
  <1>4. IntentMoves(r)
    BY IntentsMove DEF Parts
  <1> QED
    BY <1>1, <1>2, <1>3, <1>4 DEF IntentMoves

(* The reservation of a root that works here stays. *)
LEMMA BookStays ==
  ASSUME Parts, [Next]_vars, NEW r \in Request, Clean(r, Local), intent[r] = Local,
         host[Local] # "retired",
         root'[r][Local] \in Works, book[r] # None, \A d \in Decision : FateHolds(d, r)
  PROVE  book'[r] # None
  <1>0. Local \notin Vm /\ Local # None
    BY Constants, PlacementAssumption DEF PlacementAssumption
  <1>1. ASSUME NEW d \in Decision, Reconciled(d), pass[d].fate[r] \in Gone \union {"exited"} PROVE FALSE
    <2>1. pass[d].at = "asking" /\ root' = root
      BY <1>1 DEF Reconciled
    <2>2. root[r][Local] \in Works /\ root[r][Local] \in There
      BY <2>1 DEF Works, There
    <2> QED
      BY <1>1, <2>1, <2>2 DEF FateHolds, Gone
  <1>2. book[r].host = Local
    BY DEF Parts, IntentOfBooked
  <1>3. BookMoves(r)
    BY BooksMove DEF Parts
  <1> QED
    BY <1>0, <1>1, <1>2, <1>3 DEF BookMoves

LEMMA KnownStep ==
  ASSUME Parts, [Next]_vars, NEW r \in Request, NEW h \in Host, KnownAt(r, h),
         \A d \in Decision : FateHolds(d, r)
  PROVE  KnownAt(r, h)'
  <1> SUFFICES ASSUME Clean(r, h)', host'[h] # "retired"
      PROVE  /\ root'[r][h] \in There => intent'[r] = h
             /\ h = Local /\ root'[r][h] \in Works => book'[r] # None
    BY DEF KnownAt
  <1>0. NeverBack
    BY ForwardStep DEF Parts
  <1>1. Clean(r, h) /\ host[h] # "retired"
    BY <1>0, Before DEF NeverBack
  <1>2. RootMoves(r, h) /\ TypeOK
    BY RootsMove DEF Parts, IInv
  <1>3. CASE Rebook(r) /\ h = Local
    BY <1>2, <1>3, RebookedBooks
  <1>4. CASE ~(Rebook(r) /\ h = Local)
    <2>1. ASSUME root'[r][h] \in There PROVE intent[r] = h
      <3>1. CASE root[r][h] \in There
        BY <1>1, <3>1 DEF KnownAt
      <3>2. CASE RootHandled(r, h)
        BY <1>1, <3>2, HandledIsBooked
      <3>3. CASE h = Local /\ DecideRestore(r) /\ book[r] # None
        BY <1>1, <3>3, RestoredIsHere
      <3> QED
        BY <1>2, <1>4, <2>1, <3>1, <3>2, <3>3 DEF RootMoves, There
    <2>2. ASSUME h = Local, root'[r][h] \in Works PROVE book[r] # None
      <3>1. CASE root[r][h] \in Works
        BY <1>1, <2>2, <3>1 DEF KnownAt
      <3>2. CASE RootHandled(r, h)
        BY <1>1, <3>2, HandledIsBooked
      <3>3. CASE root[r][h] = "retained" /\ intent[r] = None
        BY <1>1, <3>3, Constants DEF KnownAt, There
      <3>4. CASE ~LosesBooking(r)
        BY <3>4 DEF LosesBooking
      <3> QED
        BY <1>2, <1>4, <2>2, <3>1, <3>2, <3>3, <3>4 DEF RootMoves, Works
    <2>3. Works \subseteq There
      BY DEF Works, There
    <2> QED
      BY <1>1, <2>1, <2>2, <2>3, IntentStays, BookStays
  <1> QED
    BY <1>3, <1>4

(* A root that is judged is asked about where its intent is. *)
LEMMA TrackedHost ==
  ASSUME TypeOK, IntentOfBooked, NEW r \in Request
  PROVE  /\ Tracked(r) => HostOf(r) = intent[r] /\ intent[r] # None /\ intent[r] \in Host
         /\ ~Tracked(r) => book[r] # None \/ intent[r] = None
  <1>1. book[r] # None => book[r].host \in Host
    BY DEF TypeOK, Booking
  <1> QED
    BY <1>1, Constants DEF Tracked, HostOf, IntentOfBooked, TypeOK

(* What a root's Tether says when it is asked. *)
LEMMA FateSays ==
  ASSUME NEW state
  PROVE  /\ FateOf(state) \in {"missing", "ended", "exited", "live"}
         /\ FateOf(state) \in {"missing", "ended"} => state \notin There
         /\ FateOf(state) = "exited" => state \notin Works
  BY DEF FateOf, There, Works

LEMMA FirstFate ==
  ASSUME Parts, NEW d \in Decision, NEW r \in Request,
         pass'[d].fate[r] = FirstLook(r), UNCHANGED <<book, intent, host>>, root'[r] = root[r], NeverBack
  PROVE  FateHolds(d, r)'
  <1>0. TypeOK /\ None \notin Fate /\ None # "asked"
    BY Constants DEF Parts, IInv
  <1>1. CASE ~Tracked(r)
    <2>1. pass'[d].fate[r] = None
      BY <1>1 DEF FirstLook
    <2>2. book[r] # None \/ intent[r] = None
      BY <1>0, <1>1, TrackedHost DEF Parts
    <2> QED
      BY <1>0, <2>1, <2>2 DEF FateHolds, Fate
  <1>2. CASE Tracked(r)
    <2>1. HostOf(r) = intent[r] /\ intent[r] # None
      BY <1>0, <1>2, TrackedHost DEF Parts
    <2>2. CASE HostOf(r) = Local
      <3>1. pass'[d].fate[r] = FateOf(root[r][Local])
        BY <1>2, <2>2 DEF FirstLook
      <3>2. pass'[d].fate[r] # None /\ pass'[d].fate[r] # "retired"
        BY <1>0, <3>1, FateSays DEF Fate
      <3> QED
        BY <2>1, <2>2, <3>1, <3>2, FateSays DEF FateHolds
    <2>3. CASE HostOf(r) # Local
      <3>1. /\ pass'[d].fate[r] \in {"retired", "asked", "unknown"}
            /\ pass'[d].fate[r] = "retired" => host[HostOf(r)] = "retired"
        BY <1>2, <2>3 DEF FirstLook
      <3>2. pass'[d].fate[r] # None
        BY <1>0, <3>1 DEF Fate
      <3> QED
        BY <2>1, <3>1, <3>2 DEF FateHolds
    <2> QED
      BY <2>2, <2>3
  <1> QED
    BY <1>1, <1>2

(* While a decision asks, no other goes on, and no reservation is let go. *)
LEMMA AskingMoves ==
  ASSUME IInv, IntentOfBooked, [Next]_vars, NEW d \in Decision, pass[d].at # "off", pass'[d].at = "asking"
  PROVE  /\ pass[d].at = "asking"
         /\ UNCHANGED intent /\ \A r \in Request : book[r] # None => book'[r] # None
         /\ \A r \in Request : ~DecideRestore(r) /\ ~Rebook(r)
         /\ pass'[d].fate = pass[d].fate \/ \E q \in Request : FateArrives(d, q)
  <1>0. TypeOK /\ pass \in [Decision -> Pass] /\ pass[d] \in Pass
    BY DEF IInv, TypeOK
  <1>1. \A e \in Decision : pass[e].at # "off" \/ Turn(e) => e = d /\ pass[e].at # "off"
    BY <1>0, Alone DEF IInv, Turn, Off
  <1>2. \A e \in Decision : (pass[e].at # "off" \/ Turn(e)) => ~Over(e)
    BY <1>0, OverLeavesNone
  <1>a. \A e \in Decision : ~Turn(e)
    BY <1>0, <1>1, TurnHas
  <1>3. \A r \in Request : ~DecideRestore(r)
    BY <1>a, DecisionsAre DEF DecideRestore
  <1>4. ASSUME NEW r \in Request, Rebook(r) PROVE FALSE
    <2>1. <<"restore", r>> \in Decision /\ pass[<<"restore", r>>].at = "verdict"
      BY <1>4, DecisionsAre DEF Rebook
    <2>2. <<"restore", r>> = d
      BY <1>1, <2>1
    <2> QED
      BY <1>0, <1>4, <2>2 DEF Rebook, Off
  <1>5. ASSUME NEW a \in Attempt PROVE ~DecideCreate(a) /\ ~Place(a)
    <2>1. <<"place", a>> \in Decision
      BY DecisionsAre
    <2> QED
      BY <1>2, <1>a, <2>1 DEF DecideCreate, Place
  <1>6. ASSUME NEW e \in Decision PROVE ~DecideOther(e) /\ ~Reconciled(e) /\ ~Judge(e) /\ ~Refuse(e)
    <2>1. ~DecideOther(e)
      BY <1>a DEF DecideOther
    <2>2. ~Reconciled(e)
      <3>1. Reconciled(e) => e = d /\ pass' = [pass EXCEPT ![d].at = "judging"]
        BY <1>1, <1>2 DEF Reconciled
      <3> QED
        BY <1>0, <3>1 DEF Pass
    <2>3. ~Judge(e)
      <3>1. Judge(e) => e = d /\ \E fits : pass' = [pass EXCEPT ![d].at = "verdict", ![d].fits = fits]
        BY <1>1 DEF Judge
      <3> QED
        BY <1>0, <3>1 DEF Pass
    <2>4. ~Refuse(e)
      <3>1. Refuse(e) => e = d /\ \E hosts : pass' = [pass EXCEPT ![d].at = "judging", ![d].hosts = hosts]
        BY <1>1, <1>2 DEF Refuse
      <3> QED
        BY <1>0, <3>1 DEF Pass
    <2> QED
      BY <2>1, <2>2, <2>3, <2>4
  <1>7. ASSUME NEW e \in Decision, NEW q \in Request, FateArrives(e, q)
        PROVE  e = d /\ pass[d].at = "asking" /\ UNCHANGED <<intent, book>>
    BY <1>1, <1>7 DEF FateArrives
  <1>8. ~Restart
    BY <1>0 DEF Restart, Off
  <1>9. CASE Deciding
    BY <1>3, <1>4, <1>5, <1>6, <1>7, <1>9 DEF Deciding
  <1>10. UNCHANGED pass /\ UNCHANGED intent => pass[d].at = "asking" /\ pass'[d].fate = pass[d].fate
    OBVIOUS
  <1>11. CASE Creating
    <2>1. UNCHANGED <<pass, intent>>
      BY <1>11 DEF Creating, Send, Handle, Answered, Forward, Unavailable, Uncertain, HandleLate
    <2>2. \A r \in Request : book[r] # None => book'[r] # None
      BY <1>11, DoneBooks DEF Creating, Send, Handle, Forward, HandleLate
    <2> QED
      BY <1>3, <1>4, <1>10, <2>1, <2>2
  <1>12. CASE Outside \/ UNCHANGED vars
    <2>1. UNCHANGED <<pass, intent, book>>
      BY <1>8, <1>12 DEF Outside, Exits, Restores, AskRestore, Relaunch, Respawns, LinkChanges, PowerChanges,
         Retires, AskDryRun, vars
    <2> QED
      BY <1>3, <1>4, <1>10, <2>1
  <1> QED
    BY <1>9, <1>11, <1>12 DEF Next

(* What was told before holds after a step. *)
LEMMA FateStays ==
  ASSUME Parts, [Next]_vars, NEW d \in Decision, NEW r \in Request, FateHolds(d, r),
         \A h \in Host : KnownAt(r, h),
         pass[d].at # "off", pass'[d].at = "asking", pass'[d].fate[r] = pass[d].fate[r]
  PROVE  FateHolds(d, r)'
  <1> DEFINE fate == pass[d].fate[r]
  <1> SUFFICES ASSUME NEW h, intent[r] = h PROVE FateHolds(d, r)'
    OBVIOUS
  <1>0. h \in Host => RootMoves(r, h)
    BY RootsMove DEF Parts
  <1>1. /\ pass[d].at = "asking" /\ intent'[r] = h /\ (book[r] # None => book'[r] # None)
        /\ ~DecideRestore(r) /\ ~Rebook(r)
    BY AskingMoves DEF Parts
  <1>2. NeverBack /\ (h = None \/ h \in Host)
    BY ForwardStep DEF Parts, IInv, TypeOK
  <1>3. Clean(r, h)' => Clean(r, h)
    BY <1>2, Before
  <1>4. fate # None /\ Clean(r, h) /\ h \in Host => ~RootHandled(r, h)
    <2>1. Placing(r) => fate = None
      BY <1>1 DEF Parts, IInv, FateOfPlacing
    <2> QED
      BY <2>1, HandledIsBooked
  <1>5. fate \in {"missing", "ended"} /\ Clean(r, h)' => root'[r][h] \notin There
    <2> SUFFICES ASSUME fate \in {"missing", "ended"}, Clean(r, h)' PROVE root'[r][h] \notin There
      OBVIOUS
    <2>1. fate # None
      BY Constants DEF Fate
    <2>2. h \in Host /\ root[r][h] \notin There /\ ~RootHandled(r, h) /\ RootMoves(r, h)
      BY <1>0, <1>1, <1>2, <1>3, <1>4, <2>1 DEF FateHolds
    <2> QED
      BY <1>1, <2>2 DEF RootMoves, There
  <1>6. fate = "exited" /\ h = Local /\ Clean(r, h)' => root'[r][h] \notin Works
    <2> SUFFICES ASSUME fate = "exited", h = Local, Clean(r, h)' PROVE root'[r][h] \notin Works
      OBVIOUS
    <2>1. fate # None
      BY Constants DEF Fate
    <2>2. h \in Host /\ root[r][h] \notin Works /\ ~RootHandled(r, h) /\ RootMoves(r, h) /\ h # None
      BY <1>0, <1>1, <1>2, <1>3, <1>4, <2>1 DEF FateHolds
    <2>3. LosesBooking(r)
      BY <1>1 DEF LosesBooking
    <2> QED
      BY <1>1, <2>2, <2>3 DEF RootMoves, Works
  <1>7. fate = "retired" => host'[h] = "retired"
    BY <1>1, <1>2, Constants DEF FateHolds, NeverBack, Fate
  <1>8. /\ fate = None => book'[r] # None \/ h = None
        /\ fate # None => h # None
    BY <1>1 DEF FateHolds
  <1>9. Clean(r, intent[r])' => Clean(r, h)'
    BY <1>1 DEF Clean
  <1> QED
    BY <1>1, <1>5, <1>6, <1>7, <1>8, <1>9 DEF FateHolds

LEMMA FateStep ==
  ASSUME Parts, [Next]_vars, NEW d \in Decision, NEW r \in Request, FateHolds(d, r),
         \A h \in Host : KnownAt(r, h)
  PROVE  FateHolds(d, r)'
  <1> SUFFICES ASSUME pass'[d].at = "asking" PROVE FateHolds(d, r)'
    BY DEF FateHolds
  <1>0. TypeOK /\ pass \in [Decision -> Pass] /\ pass[d] \in Pass /\ NeverBack
    BY ForwardStep DEF Parts, IInv, TypeOK
  <1>1. CASE pass[d].at = "off"
    <2>1. ASSUME NEW hosts, Reconcile(d, hosts) PROVE pass'[d].fate[r] = FirstLook(r)
      BY <1>0, <2>1 DEF Reconcile
    <2>2. ~Over(d) \/ ~Turn(d)
      BY OverLeavesNone DEF Parts
    <2>3. /\ UNCHANGED <<book, intent, host>> /\ root'[r] = root[r]
          /\ \E hosts : Reconcile(d, hosts)
      <3>1. ASSUME NEW a \in Attempt, d = <<"place", a>>, Turn(d), DecideCreate(a)
            PROVE  UNCHANGED <<book, intent, host, root>> /\ \E hosts : Reconcile(d, hosts)
        BY <2>2, <3>1 DEF DecideCreate
      <3>2. ASSUME NEW q \in Request, d = <<"restore", q>>, Turn(d), DecideRestore(q)
            PROVE  UNCHANGED <<book, intent, host, root>> /\ \E hosts : Reconcile(d, hosts)
        BY <2>2, <3>2 DEF DecideRestore
      <3>3. ASSUME DecideOther(d)
            PROVE  UNCHANGED <<book, intent, host, root>> /\ \E hosts : Reconcile(d, hosts)
        BY <3>3 DEF DecideOther
      <3> QED
        BY <1>1, <3>1, <3>2, <3>3, PassesMove DEF Parts
    <2> QED
      BY <1>0, <2>1, <2>3, FirstFate
  <1>2. CASE pass[d].at # "off"
    <2>1. CASE pass'[d].fate[r] = pass[d].fate[r]
      BY <1>2, <2>1, FateStays
    <2>2. CASE pass'[d].fate[r] # pass[d].fate[r]
      <3>1. PICK q \in Request : FateArrives(d, q)
        BY <1>2, <2>2, AskingMoves DEF Parts
      <3>2. pass[d].at = "asking" /\ UNCHANGED <<book, intent, host, root, late, call>>
        BY <3>1 DEF FateArrives
      <3>3. q = r /\ pass[d].fate[r] = "asked"
        BY <1>0, <2>2, <3>1 DEF FateArrives, Pass
      <3>4. pass'[d].fate[r] = "unknown" \/ pass'[d].fate[r] = FateOf(root[r][HostOf(r)])
        <4>1. pass[d].fate \in [Request -> Fate \union {"asked", None}]
          BY <1>0 DEF Pass
        <4> QED
          BY <1>0, <3>1, <3>3, <4>1 DEF FateArrives, Pass
      <3>5. intent[r] # None /\ Tracked(r)
        <4>1. intent[r] # None
          BY <3>2, <3>3, Constants DEF FateHolds
        <4>2. ~Placing(r)
          BY <3>2, <3>3, Constants DEF Parts, IInv, FateOfPlacing
        <4>3. book[r] # None => book[r].state \in {"placing", "held"}
          BY <1>0 DEF TypeOK, Booking
        <4> QED
          BY <4>1, <4>2, <4>3 DEF Tracked, Placing
      <3>6. HostOf(r) = intent[r]
        BY <1>0, <3>5, TrackedHost DEF Parts
      <3>7. pass'[d].fate[r] \notin {None, "retired"}
        BY <3>4, FateSays, Constants DEF Fate
      <3> QED
        BY <3>2, <3>4, <3>5, <3>6, <3>7, FateSays DEF FateHolds
    <2> QED
      BY <2>1, <2>2
  <1> QED
    BY <1>1, <1>2

LEMMA BInvStep == ASSUME IInv, BInv, [Next]_vars PROVE BInv'
  <1>1. Parts
    BY DEF BInv, Parts
  <1>2. NewOwnsNothing' /\ PassOfDeciding' /\ RestoresRoots' /\ IntentOfBooked'
    BY NewOwnsNothingStep, PassOfDecidingStep, RestoresRootsStep, IntentOfBookedStep DEF BInv
  <1>3. \A r \in Request : OnceOf(r)'
    BY OnceStep DEF BInv
  <1>4. \A r \in Request, h \in Host : KnownAt(r, h)'
    BY <1>1, KnownStep DEF BInv
  <1>5. \A d \in Decision, r \in Request : FateHolds(d, r)'
    BY <1>1, FateStep DEF BInv
  <1> QED
    BY <1>2, <1>3, <1>4, <1>5 DEF BInv

LEMMA InitBInv == Init => BInv
  <1> SUFFICES ASSUME Init PROVE BInv
    OBVIOUS
  <1>1. /\ \A d \in Decision : pass[d].at = "off"
        /\ \A a \in Attempt : call[a].at = "new" /\ ~call[a].owns
        /\ \A r \in Request : book[r] = None /\ intent[r] = None
        /\ \A r \in Request, h \in Host : root[r][h] = "none"
        /\ queue = <<>> /\ late = {} /\ TypeOK
    BY InitTyped DEF Init, Off
  <1>2. NewOwnsNothing /\ PassOfDeciding /\ IntentOfBooked
    BY <1>1, DecisionsAre DEF NewOwnsNothing, PassOfDeciding, IntentOfBooked
  <1>3. RestoresRoots
    BY <1>1 DEF RestoresRoots, ToSet
  <1>4. \A r \in Request : OnceOf(r)
    BY <1>1, Constants DEF OnceOf, InCreate
  <1>5. \A r \in Request, h \in Host : KnownAt(r, h)
    BY <1>1 DEF KnownAt, There, Works
  <1>6. \A d \in Decision, r \in Request : FateHolds(d, r)
    BY <1>1 DEF FateHolds
  <1> QED
    BY <1>2, <1>3, <1>4, <1>5, <1>6 DEF BInv

LEMMA Knowledge == Spec => []BInv
  <1>1. Init => BInv
    BY InitBInv
  <1>2. IInv /\ BInv /\ [Next]_vars => BInv'
    BY BInvStep
  <1> QED
    BY <1>1, <1>2, Invariant, PTL DEF Spec

(* "A placed root holds its needs on that host from the decision until the  *)
(* Tether that owns it says it is gone, ended or its agent exited" (docs/   *)
(* api-v1.md): for any requests, hosts and creates, a root that runs has    *)
(* its reservation, or is known by its intent where it runs on another      *)
(* host, unless its create was sent again or handled late, or its owner     *)
(* replaced the agent here once its exit had released the reservation.      *)
THEOREM RunningRootsAreBooked == Spec => []RunningIsBooked
  <1>1. ASSUME BInv PROVE RunningIsBooked
    <2> SUFFICES ASSUME NEW r \in Request, NEW h \in Host,
                        root[r][h] \in {"live", "returning"}, host[h] # "retired", Clean(r, h)
        PROVE  \/ book[r] # None /\ book[r].host = h
               \/ h # Local /\ intent[r] = h
      BY DEF RunningIsBooked
    <2>1. intent[r] = h /\ (h = Local => book[r] # None)
      BY <1>1 DEF BInv, KnownAt, There, Works
    <2> QED
      BY <1>1, <2>1 DEF BInv, IntentOfBooked
  <1> QED
    BY <1>1, Knowledge, PTL

(* What a reconciliation leaves without a reservation. *)
LEMMA OverlookedStep ==
  ASSUME IInv, BInv, [Next]_vars, NEW d \in Decision, NEW r \in Request, NEW h \in Host,
         pass[d].at = "asking", pass'[d].at = "judging",
         root[r][h] = "live", host[h] # "retired", Clean(r, h), book'[r] = None
  PROVE  pass[d].fate[r] \in {"unknown", "exited"}
  <1> DEFINE fate == pass[d].fate[r]
  <1>0. TypeOK /\ pass \in [Decision -> Pass] /\ pass[d] \in Pass /\ h # None
    BY Constants DEF IInv, TypeOK
  <1>1. intent[r] = h /\ (h = Local => book[r] # None)
    BY DEF BInv, KnownAt, There, Works
  <1>2. Reconciled(d)
    <2>1. \A e \in Decision : pass[e].at # "off" \/ Turn(e) => e = d /\ pass[e].at = "asking"
      BY <1>0, Alone DEF IInv, Turn, Off
    <2>2. \A e \in Decision : (pass[e].at # "off" \/ Turn(e)) => ~Over(e)
      BY OverLeavesNone
    <2>a. \A e \in Decision : ~Turn(e)
      BY <1>0, <2>1, TurnHas
    <2>3. ASSUME NEW e \in Decision, NEW q \in Request, FateArrives(e, q) PROVE FALSE
      <3>1. e = d
        BY <2>1, <2>3 DEF FateArrives
      <3>2. \E f : pass' = [pass EXCEPT ![d].fate[q] = f]
        BY <2>3, <3>1 DEF FateArrives
      <3> QED
        BY <1>0, <3>2 DEF Pass
    <2>4. ASSUME NEW e \in Decision PROVE ~DecideOther(e) /\ ~Judge(e) /\ ~Refuse(e)
      BY <2>1, <2>a DEF DecideOther, Judge, Refuse
    <2>5. ASSUME NEW a \in Attempt PROVE ~DecideCreate(a) /\ ~Place(a)
      <3>1. <<"place", a>> \in Decision
        BY DecisionsAre
      <3> QED
        BY <2>2, <2>a, <3>1 DEF DecideCreate, Place
    <2>6. ASSUME NEW q \in Request PROVE ~DecideRestore(q) /\ ~Rebook(q)
      <3>1. <<"restore", q>> \in Decision
        BY DecisionsAre
      <3> QED
        BY <2>1, <2>a, <3>1 DEF DecideRestore, Rebook
    <2>7. ~UNCHANGED pass /\ ~Restart
      BY <1>0 DEF Restart, Off
    <2>8. CASE Deciding
      BY <2>1, <2>3, <2>4, <2>5, <2>6, <2>8 DEF Deciding, Reconciled
    <2>9. ~Creating
      BY <2>7 DEF Creating, Send, Handle, Answered, Forward, Unavailable, Uncertain, HandleLate
    <2>10. ~Outside
      BY <2>7 DEF Outside, Exits, Restores, AskRestore, Relaunch, Respawns, LinkChanges, PowerChanges, Retires,
         AskDryRun
    <2> QED
      BY <2>7, <2>8, <2>9, <2>10 DEF Next, vars
  <1>3. fate \in Fate \union {None}
    BY <1>0, <1>2 DEF Pass, Reconciled
  <1>4. Released(r, fate) = None
    BY <1>2 DEF Reconciled
  <1>5. fate \notin Gone
    <2>1. FateHolds(d, r)
      BY DEF BInv
    <2> QED
      BY <1>1, <2>1 DEF FateHolds, Gone, There
  <1>6. fate # "live"
    BY <1>0, <1>1, <1>4, ReleasedBook DEF Gone
  <1>7. fate # None
    <2>1. FateHolds(d, r)
      BY DEF BInv
    <2>2. fate = None => book[r] # None
      BY <1>0, <1>1, <2>1 DEF FateHolds
    <2> QED
      BY <1>0, <1>4, <2>2, ReleasedBook, Constants DEF Gone, Fate
  <1> QED
    BY <1>3, <1>5, <1>6, <1>7 DEF Fate, Gone

(* "A root on another host ... is booked again at the next decision ... once *)
(* it reports live" (docs/api-v1.md): for any requests, hosts and creates,  *)
(* a decision that comes to judge has overlooked no root that runs, but one *)
(* that its owner's replacement brought back here unplaced.                *)
THEOREM DecisionsSeeAll == Spec => NoneOverlooked
  <1>1. ASSUME IInv, BInv, [Next]_vars
        PROVE  [\A d \in Decision, r \in Request, h \in Host :
                  /\ pass[d].at = "asking" /\ pass'[d].at = "judging"
                  /\ root[r][h] = "live" /\ host[h] # "retired" /\ Clean(r, h) /\ book'[r] = None
                => pass[d].fate[r] \in {"unknown", "exited"}]_vars
    BY <1>1, OverlookedStep
  <1> QED
    BY <1>1, Invariant, Knowledge, PTL DEF Spec, NoneOverlooked
=============================================================================
