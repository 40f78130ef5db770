---------------------------- MODULE WaitsProofs ----------------------------
(***************************************************************************)
(* Theorems about Waits: the keys and the limit of a session's armed waits *)
(* hold, and each outcome is told once, for any waits, things and keys.    *)
(***************************************************************************)
EXTENDS Waits, FiniteSetTheorems, TLAPS

-----------------------------------------------------------------------------
(* The inductive invariant, relative to TypeOK.                            *)

(* What a row says, what was told for it, and whether somebody listens,    *)
(* belong together: an armed or cancelled wait has told nothing, a met     *)
(* condition was told to whoever can hear it, and nobody listens for the   *)
(* end of a wait that is settled.                                          *)
Sound(w, t, p) ==
  /\ w.state \in {"armed", "cancelled"} => w.outcome = None /\ t = Quiet
  /\ w.by # "client" /\ w.outcome = "until" => t.lines + t.relaunches = 1
  /\ t.relaunches = 1 => w.outcome = "until"
  /\ p = "open" => w.state = "armed"
  /\ w.by = "nobody" => w.kept
  /\ w.by = "client" => ~w.kept

RowInv == \A i \in Id : row[i] # None => Sound(row[i], told[i], poll[i])

(* A wait that is being armed is new.                                      *)
CallInv ==
  \A i \in Id : call[i] # None =>
    /\ row[i] = None /\ told[i] = Quiet
    /\ call[i].by = "client" => call[i].key = None

ToldInv == \A i \in Id : told[i].lines + told[i].relaunches <= 1

(* The armed waits of the session, and what they have in common.           *)
Mine == Armed \intersect OfWaiter

KeyInv ==
  /\ IsFiniteSet(Mine) /\ Cardinality(Mine) <= MaxArmed
  /\ \A i, j \in Mine : i # j /\ row[i].key = row[j].key => row[i].key = None

WInv == RowInv /\ CallInv /\ ToldInv /\ KeyInv
-----------------------------------------------------------------------------
(* Looks.                                                                  *)

Verdicts == {"until", "gone", "timeout"}

LEMMA QuietIs == Quiet.lines = 0 /\ Quiet.relaunches = 0 /\ Quiet \in [lines: 0..1, relaunches: 0..1]
BY DEF Quiet

LEMMA VerdictIs ==
  ASSUME NEW i \in Id, NEW w \in Row, reading \in [Ref -> {"not", "ready", "gone"}]
  PROVE  Verdict(i, w) \in Verdicts \union {None}
<1>1. w.ref \in Ref BY DEF Row
<1>2. reading[w.ref] \in {"not", "ready", "gone"} BY <1>1
<1> QED BY <1>2 DEF Verdict, Verdicts

LEMMA FiredIs ==
  ASSUME NEW i \in Id, NEW w \in Row, w.state = "armed", Verdict(i, w) \in Verdicts
  PROVE  /\ Fired(i, w) \in Row
         /\ Fired(i, w).by = w.by /\ Fired(i, w).kept = w.kept /\ Fired(i, w).key = None
         /\ Fired(i, w).state \in {"fired", "timed_out"}
         /\ Fired(i, w).outcome = Verdict(i, w)
<1> DEFINE o == Verdict(i, w)
<1> DEFINE s == IF o = "timeout" THEN "timed_out" ELSE "fired"
<1>1. o # None BY WaitsAssumption DEF WaitsAssumption, Verdicts
<1>2. Fired(i, w) = [w EXCEPT !.state = s, !.outcome = o, !.key = None]
  BY <1>1 DEF Fired, Settled
<1>3. s \in {"fired", "timed_out"} /\ o \in {"until", "gone", "timeout"} BY DEF Verdicts
<1> HIDE DEF s, o
<1> QED BY <1>2, <1>3 DEF Row, o

(* What the fire of a sound armed wait leaves is sound, and tells one thing *)
(* at most.                                                                 *)
LEMMA FiredSound ==
  ASSUME NEW i \in Id, NEW w \in Row, w.state = "armed", Verdict(i, w) \in Verdicts,
         NEW t, NEW p, Sound(w, t, p), NEW p2, p2 # "open"
  PROVE  LET t2 == [lines |-> t.lines + Tells(i, w).lines,
                    relaunches |-> t.relaunches + Tells(i, w).relaunches]
         IN /\ Sound(Fired(i, w), t2, p2)
            /\ t2.lines + t2.relaunches <= 1
            /\ t2 \in [lines: 0..1, relaunches: 0..1]
<1>1. t = Quiet /\ t.lines = 0 /\ t.relaunches = 0 BY QuietIs DEF Sound
<1>2. w.by \in {"waiter", "client", "nobody"} /\ w.kept \in BOOLEAN BY DEF Row
<1>3. Tells(i, w).lines = IF ~w.kept /\ w.by = "waiter" THEN 1 ELSE 0 BY DEF Tells
<1>4. Tells(i, w).relaunches = IF w.kept /\ Verdict(i, w) = "until" THEN 1 ELSE 0 BY DEF Tells
<1>5. (w.by = "nobody" => w.kept) /\ (w.by = "client" => ~w.kept) BY DEF Sound
<1> DEFINE a == Tells(i, w).lines
<1> DEFINE b == Tells(i, w).relaunches
<1>6. a \in 0..1 /\ b \in 0..1 /\ a + b <= 1
  <2>1. CASE w.kept BY <2>1, <1>3, <1>4
  <2>2. CASE ~w.kept BY <2>2, <1>3, <1>4
  <2> QED BY <2>1, <2>2
<1>7. /\ w.by # "client" /\ Verdict(i, w) = "until" => a + b = 1
      /\ b = 1 => Verdict(i, w) = "until"
  <2>1. CASE w.kept BY <2>1, <1>3, <1>4
  <2>2. CASE ~w.kept BY <2>2, <1>2, <1>3, <1>4, <1>5
  <2> QED BY <2>1, <2>2
<1> HIDE DEF a, b
<1>8. t.lines + a = a /\ t.relaunches + b = b BY <1>1, <1>6
<1> DEFINE t2 == [lines |-> t.lines + a, relaunches |-> t.relaunches + b]
<1>9. t2.lines = a /\ t2.relaunches = b BY <1>8
<1>10. Sound(Fired(i, w), t2, p2)
  <2> HIDE DEF t2
  <2> QED BY FiredIs, <1>5, <1>7, <1>9 DEF Sound
<1>11. t2 \in [lines: 0..1, relaunches: 0..1] BY <1>6, <1>8
<1>12. t2.lines + t2.relaunches <= 1 BY <1>6, <1>9
<1> QED BY <1>10, <1>11, <1>12 DEF a, b

(* Rows that are typed, sound and as TypeOK has their keys. *)
RowOK(w, t, p) ==
  /\ w \in Row /\ Sound(w, t, p)
  /\ w.state # "armed" \/ w.kept \/ w.by # "waiter" => w.key = None

RowsOK(rows) == \A i \in Id : rows[i] # None => RowOK(rows[i], told[i], poll[i])

ToldOK == told \in [Id -> [lines: 0..1, relaunches: 0..1]]
PollOK == poll \in [Id -> {"none", "open", "called"}]
ReadingOK == reading \in [Ref -> {"not", "ready", "gone"}]

(* A look settles armed waits, soundly, and leaves every other row alone.  *)
LEMMA Looked ==
  ASSUME NEW at \in SUBSET Id, NEW rows \in [Id -> Row \union {None}], RowsOK(rows),
         ToldOK, PollOK, ReadingOK, ToldInv,
         LookAt(at, rows)
  PROVE  /\ row' \in [Id -> Row \union {None}] /\ ToldOK' /\ PollOK' /\ ToldInv'
         /\ \A i \in Id : row'[i] # None => RowOK(row'[i], told'[i], poll'[i])
         /\ \A i \in Id : \/ row'[i] = rows[i] /\ told'[i] = told[i]
                          \/ /\ rows[i] # None
                             /\ row'[i].state # "armed"
         /\ \A i \in Id : i \notin at => row'[i] = rows[i] /\ told'[i] = told[i]
<1> DEFINE fires == {i \in at : rows[i] # None /\ rows[i].state = "armed" /\ Verdict(i, rows[i]) # None}
<1> DEFINE more(i) == [lines |-> told[i].lines + Tells(i, rows[i]).lines,
                       relaunches |-> told[i].relaunches + Tells(i, rows[i]).relaunches]
<1>1. /\ row' = [i \in Id |-> IF i \in fires THEN Fired(i, rows[i]) ELSE rows[i]]
      /\ told' = [i \in Id |-> IF i \notin fires THEN told[i] ELSE more(i)]
      /\ poll' = [i \in Id |-> IF i \in fires /\ poll[i] = "open" THEN "called" ELSE poll[i]]
  BY DEF LookAt
<1>2. ASSUME NEW i \in fires
      PROVE  /\ i \in Id /\ i \in at /\ rows[i] # None /\ rows[i] \in Row /\ rows[i].state = "armed"
             /\ Verdict(i, rows[i]) \in Verdicts
             /\ RowOK(rows[i], told[i], poll[i])
  <2>1. i \in Id /\ i \in at /\ rows[i] # None /\ rows[i].state = "armed" /\ Verdict(i, rows[i]) # None OBVIOUS
  <2>2. RowOK(rows[i], told[i], poll[i]) BY <2>1 DEF RowsOK
  <2>3. rows[i] \in Row BY <2>2 DEF RowOK
  <2>4. Verdict(i, rows[i]) \in Verdicts BY <2>1, <2>3, VerdictIs DEF ReadingOK
  <2> QED BY <2>1, <2>2, <2>3, <2>4
<1>3. ASSUME NEW i \in Id, i \notin fires
      PROVE  row'[i] = rows[i] /\ told'[i] = told[i] /\ poll'[i] = poll[i]
  BY <1>1, <1>3
<1>4. ASSUME NEW i \in fires
      PROVE  row'[i] = Fired(i, rows[i]) /\ told'[i] = more(i)
             /\ poll'[i] = IF poll[i] = "open" THEN "called" ELSE poll[i]
  BY <1>1, <1>2
<1> HIDE DEF fires
<1>5. ASSUME NEW i \in fires
      PROVE  /\ row'[i] \in Row /\ row'[i].state # "armed" /\ row'[i].key = None
             /\ Sound(row'[i], told'[i], poll'[i])
             /\ told'[i].lines + told'[i].relaunches <= 1
             /\ told'[i] \in [lines: 0..1, relaunches: 0..1]
             /\ poll'[i] \in {"none", "open", "called"}
  <2>1. poll'[i] # "open" BY <1>4
  <2>2. Sound(rows[i], told[i], poll[i]) BY <1>2 DEF RowOK
  <2>3. /\ Fired(i, rows[i]) \in Row /\ Fired(i, rows[i]).state \in {"fired", "timed_out"}
        /\ Fired(i, rows[i]).key = None
    BY <1>2, FiredIs
  <2>4. /\ Sound(Fired(i, rows[i]), more(i), poll'[i])
        /\ more(i).lines + more(i).relaunches <= 1
        /\ more(i) \in [lines: 0..1, relaunches: 0..1]
    BY <1>2, <2>1, <2>2, FiredSound
  <2>5. poll'[i] \in {"none", "open", "called"} BY <1>2, <1>4 DEF PollOK
  <2> HIDE DEF more
  <2> QED BY <1>4, <2>3, <2>4, <2>5
<1> HIDE DEF more
<1>6. row' \in [Id -> Row \union {None}] BY <1>1, <1>2, <1>4, <1>5, <1>3
<1>7. ToldOK' BY <1>1, <1>3, <1>5 DEF ToldOK
<1>8. PollOK' BY <1>1, <1>3, <1>5 DEF PollOK
<1>9. ToldInv' BY <1>3, <1>5 DEF ToldInv
<1>10. ASSUME NEW i \in Id, row'[i] # None PROVE RowOK(row'[i], told'[i], poll'[i])
  BY <1>3, <1>5, <1>10 DEF RowOK, RowsOK
<1>11. ASSUME NEW i \in Id
       PROVE \/ row'[i] = rows[i] /\ told'[i] = told[i]
             \/ rows[i] # None /\ row'[i].state # "armed"
  BY <1>2, <1>3, <1>5
<1>12. ASSUME NEW i \in Id, i \notin at PROVE row'[i] = rows[i] /\ told'[i] = told[i]
  BY <1>2, <1>3, <1>12
<1> QED BY <1>6, <1>7, <1>8, <1>9, <1>10, <1>11, <1>12
-----------------------------------------------------------------------------
(* The step.                                                               *)

LEMMA RowsNow == TypeOK /\ RowInv => RowsOK(row)
BY DEF TypeOK, RowInv, RowsOK, RowOK, Rows

LEMMA TypeParts == TypeOK => ToldOK /\ PollOK /\ ReadingOK
BY DEF TypeOK, ToldOK, PollOK, ReadingOK

(* What a step does to the rows: it keeps them typed and sound, and makes   *)
(* no wait of the session armed, except one that fits.                      *)
RowStep ==
  /\ row' \in [Id -> Row \union {None}] /\ ToldOK' /\ PollOK' /\ ToldInv'
  /\ \A i \in Id : row'[i] # None => RowOK(row'[i], told'[i], poll'[i])

(* The armed waits of the session stay what they are, but for keys let go. *)
MineShrinks ==
  \A i \in Mine' : i \in Mine /\ row'[i].key \in {row[i].key, None}

LEMMA ShrinkKeepsKeys == KeyInv /\ MineShrinks => KeyInv'
<1> SUFFICES ASSUME KeyInv, MineShrinks PROVE KeyInv' OBVIOUS
<1>1. Mine' \subseteq Mine BY DEF MineShrinks
<1>2. IsFiniteSet(Mine) /\ Cardinality(Mine) <= MaxArmed BY DEF KeyInv
<1>3. IsFiniteSet(Mine') /\ Cardinality(Mine') <= Cardinality(Mine)
  BY <1>1, <1>2, FS_Subset
<1>4. Cardinality(Mine) \in Nat /\ Cardinality(Mine') \in Nat BY <1>2, <1>3, FS_CardinalityType
<1>5. Cardinality(Mine') <= MaxArmed BY <1>2, <1>3, <1>4, WaitsAssumption DEF WaitsAssumption
<1>6. ASSUME NEW i \in Mine', NEW j \in Mine', i # j, row'[i].key = row'[j].key
      PROVE  row'[i].key = None
  <2>1. i \in Mine /\ j \in Mine BY DEF MineShrinks
  <2>2. row'[i].key \in {row[i].key, None} /\ row'[j].key \in {row[j].key, None} BY DEF MineShrinks
  <2>3. CASE row'[i].key = row[i].key /\ row'[j].key = row[j].key
    BY <1>6, <2>1, <2>3 DEF KeyInv
  <2> QED BY <1>6, <2>2, <2>3
<1> QED BY <1>3, <1>5, <1>6 DEF KeyInv

(* One more wait of the session, with a key of its own and room for it.    *)
LEMMA OneMore ==
  ASSUME KeyInv, NEW i \in Id, i \notin Mine,
         Mine' \subseteq Mine \union {i},
         \A j \in Mine' \ {i} : row'[j] = row[j],
         i \in Mine' => /\ Cardinality(Mine) < MaxArmed
                        /\ \A j \in Mine : row'[i].key # None => row[j].key # row'[i].key
  PROVE  KeyInv'
<1>1. IsFiniteSet(Mine) /\ Cardinality(Mine) <= MaxArmed /\ MaxArmed \in Nat
  BY WaitsAssumption DEF KeyInv, WaitsAssumption
<1>2. /\ IsFiniteSet(Mine \union {i})
      /\ Cardinality(Mine \union {i}) = Cardinality(Mine) + 1
  BY <1>1, FS_AddElement
<1>3. Cardinality(Mine) \in Nat BY <1>1, FS_CardinalityType
<1>4. IsFiniteSet(Mine') /\ Cardinality(Mine') <= MaxArmed
  <2>1. CASE i \in Mine'
    <3>1. IsFiniteSet(Mine') /\ Cardinality(Mine') <= Cardinality(Mine \union {i})
      BY <1>2, FS_Subset
    <3>2. Cardinality(Mine') \in Nat BY <3>1, FS_CardinalityType
    <3> QED BY <2>1, <3>1, <3>2, <1>1, <1>2, <1>3
  <2>2. CASE i \notin Mine'
    <3>1. Mine' \subseteq Mine BY <2>2
    <3>2. IsFiniteSet(Mine') /\ Cardinality(Mine') <= Cardinality(Mine) BY <1>1, <3>1, FS_Subset
    <3>3. Cardinality(Mine') \in Nat BY <3>2, FS_CardinalityType
    <3> QED BY <3>2, <3>3, <1>1, <1>3
  <2> QED BY <2>1, <2>2
<1>5. ASSUME NEW j \in Mine', NEW k \in Mine', j # k, row'[j].key = row'[k].key
      PROVE  row'[j].key = None
  <2>1. CASE j # i /\ k # i
    <3>1. j \in Mine /\ k \in Mine /\ row'[j] = row[j] /\ row'[k] = row[k] BY <2>1
    <3> QED BY <1>5, <3>1 DEF KeyInv
  <2>2. CASE j = i
    <3>1. k \in Mine /\ row'[k] = row[k] BY <1>5, <2>2
    <3> QED BY <1>5, <2>2, <3>1
  <2>3. CASE k = i
    <3>1. j \in Mine /\ row'[j] = row[j] BY <1>5, <2>3
    <3> QED BY <1>5, <2>3, <3>1
  <2> QED BY <2>1, <2>2, <2>3
<1> QED BY <1>4, <1>5 DEF KeyInv

(* The same rows, as the invariants speak of them. *)
LEMMA RowsNext ==
  ASSUME RowStep PROVE RowInv' /\ ToldInv'
BY DEF RowStep, RowInv, RowOK

(* TypeOK but for what RowStep says. *)
Rest ==
  /\ session \in {"here", "ended"}
  /\ call \in [Id -> Call \union {None}]
  /\ ReadingOK
  /\ due \subseteq Id /\ pending \subseteq Ref
  /\ given \in [Id -> {None, "armed", "fired", "timed_out", "cancelled"}]
  /\ end \in [EndCall -> End]

LEMMA RestOf == TypeOK => Rest
BY DEF TypeOK, Rest, ReadingOK

LEMMA TypeNext == ASSUME RowStep, Rest' PROVE TypeOK'
BY DEF RowStep, RowOK, ToldOK, PollOK, ReadingOK, Rest, TypeOK, Rows

(* A look at some of the armed waits. *)
LEMMA LookStep ==
  ASSUME TypeOK, WInv, NEW at \in SUBSET Armed, LookAt(at, row),
         UNCHANGED <<call, session, reading, due, given, end>>, pending' \subseteq Ref
  PROVE  TypeOK' /\ WInv'
<1>1. RowsOK(row) BY RowsNow DEF WInv
<1>2. at \in SUBSET Id /\ row \in [Id -> Row \union {None}] BY DEF Armed, Rows, TypeOK
<1>3. ToldInv BY DEF WInv
<1>4. /\ RowStep
      /\ \A i \in Id : \/ row'[i] = row[i] /\ told'[i] = told[i]
                       \/ row[i] # None /\ row'[i].state # "armed"
      /\ \A i \in Id : i \notin at => row'[i] = row[i] /\ told'[i] = told[i]
  BY <1>1, <1>2, <1>3, TypeParts, Looked DEF RowStep
<1>5. MineShrinks BY <1>4 DEF MineShrinks, Mine, Armed, OfWaiter, Rows
<1>6. KeyInv' BY <1>5, ShrinkKeepsKeys DEF WInv
<1>7. CallInv'
  <2> SUFFICES ASSUME NEW i \in Id, call'[i] # None
               PROVE  /\ row'[i] = None /\ told'[i] = Quiet
                      /\ call'[i].by = "client" => call'[i].key = None
    BY DEF CallInv
  <2>1. /\ row[i] = None /\ told[i] = Quiet
        /\ call[i].by = "client" => call[i].key = None
    BY DEF WInv, CallInv
  <2>2. i \notin at BY <2>1 DEF Armed, Rows
  <2> QED BY <1>4, <2>1, <2>2
<1>8. Rest' BY RestOf DEF Rest, ReadingOK
<1> QED BY <1>4, <1>6, <1>7, <1>8, TypeNext, RowsNext DEF WInv
(* The rows and what was told stay; who listens may change. *)
LEMMA StillRows ==
  ASSUME TypeOK, WInv, UNCHANGED <<row, told>>, PollOK',
         \A i \in Id : poll'[i] = "open" => poll[i] = "open" \/ i \in Armed
  PROVE  RowStep /\ KeyInv'
<1>1. RowsOK(row) /\ ToldInv /\ ToldOK BY RowsNow, TypeParts DEF WInv
<1>2. ASSUME NEW i \in Id, row[i] # None PROVE RowOK(row[i], told[i], poll'[i])
  BY <1>1, <1>2 DEF RowsOK, RowOK, Sound, Armed
<1>3. row \in [Id -> Row \union {None}] BY DEF TypeOK
<1>4. ToldInv' /\ ToldOK' BY <1>1 DEF ToldInv, ToldOK
<1>5. RowStep BY <1>2, <1>3, <1>4 DEF RowStep
<1>6. MineShrinks BY DEF MineShrinks, Mine, Armed, OfWaiter, Rows
<1> QED BY <1>5, <1>6, ShrinkKeepsKeys DEF WInv

LEMMA CallStep ==
  ASSUME TypeOK, WInv, UNCHANGED <<row, told>>, PollOK',
         \A i \in Id : poll'[i] = "open" => poll[i] = "open" \/ i \in Armed,
         \A i \in Id : call'[i] \in {call[i], None}, Rest'
  PROVE  TypeOK' /\ WInv'
<1>1. RowStep /\ KeyInv' BY StillRows
<1>2. CallInv' BY DEF CallInv, WInv
<1> QED BY <1>1, <1>2, TypeNext, RowsNext DEF WInv

LEMMA ArmCalledStep ==
  ASSUME TypeOK, WInv, NEW i \in Id, ArmCalled(i)
  PROVE  TypeOK' /\ WInv'
<1>1. PICK by \in {"waiter", "client"}, ref \in Ref, key \in Key \union {None} :
        /\ by = "waiter" => session = "here"
        /\ by = "client" => key = None
        /\ call' = [call EXCEPT ![i] = [by |-> by, ref |-> ref, key |-> key]]
  BY DEF ArmCalled
<1> DEFINE c == [by |-> by, ref |-> ref, key |-> key]
<1>2. c \in Call /\ c.by = by /\ c.key = key BY DEF Call
<1>3. UNCHANGED <<session, row, reading, due, pending, poll, given, end, told>>
  BY DEF ArmCalled
<1>4. row[i] = None /\ told[i] = Quiet BY DEF ArmCalled, Fresh
<1>5. PollOK' BY <1>3, TypeParts DEF PollOK
<1>6. RowStep /\ KeyInv' BY <1>3, <1>5, StillRows
<1> HIDE DEF c
<1>7. call' = [call EXCEPT ![i] = c] BY <1>1 DEF c
<1>8. call \in [Id -> Call \union {None}] BY DEF TypeOK
<1>9. /\ call' \in [Id -> Call \union {None}] /\ call'[i] = c
      /\ \A j \in Id : j # i => call'[j] = call[j]
  BY <1>2, <1>7, <1>8
<1>10. CallInv' BY <1>1, <1>2, <1>3, <1>4, <1>9 DEF CallInv, WInv
<1>11. Rest' BY <1>3, <1>9, RestOf DEF Rest, ReadingOK
<1> QED BY <1>6, <1>10, <1>11, TypeNext, RowsNext DEF WInv

LEMMA ArmRefusedStep ==
  ASSUME TypeOK, WInv, NEW i \in Id, ArmRefused(i)
  PROVE  TypeOK' /\ WInv'
<1>1. /\ call' = [call EXCEPT ![i] = None]
      /\ UNCHANGED <<session, row, reading, due, pending, poll, given, end, told>>
  BY DEF ArmRefused
<1>2. call \in [Id -> Call \union {None}] BY DEF TypeOK
<1>3. /\ call' \in [Id -> Call \union {None}]
      /\ \A j \in Id : call'[j] \in {call[j], None}
  BY <1>1, <1>2
<1>4. PollOK' BY <1>1, TypeParts DEF PollOK
<1>5. Rest' BY <1>1, <1>3, RestOf DEF Rest, ReadingOK
<1> QED BY <1>1, <1>3, <1>4, <1>5, CallStep

(* The checks and the insert are one step: the new wait has room and a key *)
(* of its own.                                                             *)
LEMMA ArmGoesOnStep ==
  ASSUME TypeOK, WInv, NEW i \in Id, ArmGoesOn(i)
  PROVE  TypeOK' /\ WInv'
<1>1. /\ call[i] # None /\ call' = [call EXCEPT ![i] = None]
      /\ UNCHANGED <<session, reading, due, pending, given, end>>
  BY DEF ArmGoesOn
<1>2. call \in [Id -> Call \union {None}] BY DEF TypeOK
<1>3. /\ call' \in [Id -> Call \union {None}] /\ call'[i] = None
      /\ \A j \in Id : j # i => call'[j] = call[j]
      /\ \A j \in Id : call'[j] \in {call[j], None}
  BY <1>1, <1>2
<1>4. Rest' BY <1>1, <1>3, RestOf DEF Rest, ReadingOK
<1>5. CASE ~Armable(call[i])
  <2>1. UNCHANGED <<row, told, poll>> BY <1>5 DEF ArmGoesOn
  <2>2. PollOK' BY <2>1, TypeParts DEF PollOK
  <2> QED BY <2>1, <2>2, <1>3, <1>4, CallStep
<1>6. CASE Armable(call[i])
  <2> DEFINE c == call[i]
             new == Inserted(c)
             rows == [row EXCEPT ![i] = new]
  <2>1. c \in Call /\ row[i] = None /\ told[i] = Quiet /\ (c.by = "client" => c.key = None)
    BY <1>1, <1>2 DEF WInv, CallInv
  <2>2. /\ new \in Row /\ new.by = c.by /\ new.key = c.key /\ ~new.kept
        /\ new.state = "armed" /\ new.outcome = None /\ new.by # "nobody"
    BY <2>1 DEF Inserted, Row, Call
  <2>3. LookAt({i}, rows) BY <1>6 DEF ArmGoesOn
  <2>4. RowOK(new, told[i], poll[i])
    <3>1. Sound(new, Quiet, poll[i])
      <4> HIDE DEF new
      <4> QED BY <2>2, QuietIs, WaitsAssumption DEF Sound, WaitsAssumption
    <3>2. new.by # "waiter" => new.key = None BY <2>1, <2>2 DEF Call
    <3> HIDE DEF new
    <3> QED BY <2>1, <2>2, <3>1, <3>2 DEF RowOK
  <2> HIDE DEF new
  <2>5. row \in [Id -> Row \union {None}] BY DEF TypeOK
  <2>6. /\ rows \in [Id -> Row \union {None}] /\ rows[i] = new
        /\ \A j \in Id : j # i => rows[j] = row[j]
    BY <2>2, <2>5
  <2> HIDE DEF rows
  <2>7. RowsOK(row) /\ ToldInv BY RowsNow DEF WInv
  <2>8. RowsOK(rows) BY <2>4, <2>6, <2>7 DEF RowsOK
  <2>9. /\ RowStep
        /\ \A j \in Id : \/ row'[j] = rows[j] /\ told'[j] = told[j]
                         \/ rows[j] # None /\ row'[j].state # "armed"
        /\ \A j \in Id : j \notin {i} => row'[j] = rows[j] /\ told'[j] = told[j]
    <3>1. {i} \in SUBSET Id OBVIOUS
    <3> QED BY <3>1, <2>3, <2>6, <2>7, <2>8, TypeParts, Looked DEF RowStep
  <2>10. \A j \in Id : j # i => row'[j] = row[j] /\ told'[j] = told[j] BY <2>6, <2>9
  <2>11. CallInv' BY <2>10, <1>3 DEF CallInv, WInv
  <2>12. KeyInv'
    <3>1. i \notin Mine BY <2>1 DEF Mine, Armed, Rows
    <3>2. Mine' \subseteq Mine \union {i} BY <2>10 DEF Mine, Armed, OfWaiter, Rows
    <3>3. \A j \in Mine' \ {i} : row'[j] = row[j] BY <2>10 DEF Mine, Armed, Rows
    <3>4. ASSUME i \in Mine'
          PROVE  /\ Cardinality(Mine) < MaxArmed
                 /\ \A j \in Mine : row'[i].key # None => row[j].key # row'[i].key
      <4>1. row'[i] = new BY <2>6, <2>9, <3>4 DEF Mine, Armed
      <4>2. c.by = "waiter" BY <4>1, <2>2, <3>4 DEF Mine, OfWaiter
      <4>3. Cardinality(Mine) < MaxArmed BY <1>6, <4>2 DEF Armable, Mine
      <4>4. ASSUME NEW j \in Mine, c.key # None, row[j].key = c.key PROVE FALSE
        <5>1. j \in SameKey(c) BY <4>4 DEF SameKey, Mine, OfWaiter
        <5> QED BY <5>1, <1>6 DEF Armable
      <4> QED BY <4>1, <4>3, <4>4, <2>2
    <3>5. KeyInv BY DEF WInv
    <3> QED BY <3>1, <3>2, <3>3, <3>4, <3>5, OneMore
  <2> QED BY <1>4, <2>9, <2>11, <2>12, TypeNext, RowsNext DEF WInv
<1> QED BY <1>5, <1>6

LEMMA CancelStep ==
  ASSUME TypeOK, WInv, NEW i \in Id, Cancel(i)
  PROVE  TypeOK' /\ WInv'
<1>1. /\ i \in Armed
      /\ row' = [row EXCEPT ![i] = Settled(row[i], "cancelled", None)]
      /\ poll' = [poll EXCEPT ![i] = IF @ = "open" THEN "called" ELSE @]
      /\ UNCHANGED <<session, call, reading, due, pending, given, end, told>>
  BY DEF Cancel
<1>2. row \in [Id -> Row \union {None}] /\ poll \in [Id -> {"none", "open", "called"}]
  BY DEF TypeOK
<1>3. row[i] # None /\ row[i] \in Row /\ row[i].state = "armed" BY <1>1, <1>2 DEF Armed, Rows
<1>4. RowsOK(row) /\ ToldInv /\ ToldOK BY RowsNow, TypeParts DEF WInv
<1>5. RowOK(row[i], told[i], poll[i]) BY <1>3, <1>4 DEF RowsOK
<1> DEFINE w == Settled(row[i], "cancelled", None)
<1>6. /\ w \in Row /\ w.by = row[i].by /\ w.kept = row[i].kept /\ w.state = "cancelled"
      /\ w.outcome = None /\ w.key = None
  BY <1>3 DEF Settled, Row
<1> HIDE DEF w
<1>7. /\ row' \in [Id -> Row \union {None}] /\ row'[i] = w
      /\ \A j \in Id : j # i => row'[j] = row[j]
  BY <1>1, <1>2, <1>6 DEF w
<1>8. PollOK' /\ poll'[i] # "open" /\ \A j \in Id : j # i => poll'[j] = poll[j]
  BY <1>1, <1>2 DEF PollOK
<1>9. RowOK(w, told[i], poll'[i])
  <2>1. Sound(w, told[i], poll'[i])
    BY <1>3, <1>5, <1>6, <1>8, QuietIs, WaitsAssumption DEF RowOK, Sound, WaitsAssumption
  <2> QED BY <1>6, <2>1 DEF RowOK
<1>10. RowStep
  <2>1. ASSUME NEW j \in Id, row'[j] # None PROVE RowOK(row'[j], told[j], poll'[j])
    BY <1>4, <1>7, <1>8, <1>9, <2>1 DEF RowsOK
  <2>2. told' = told BY <1>1
  <2>3. ToldInv' /\ ToldOK' BY <2>2, <1>4 DEF ToldInv, ToldOK
  <2> QED BY <1>7, <1>8, <2>1, <2>2, <2>3 DEF RowStep
<1>11. MineShrinks BY <1>6, <1>7 DEF MineShrinks, Mine, Armed, OfWaiter, Rows
<1>12. KeyInv' BY <1>11, ShrinkKeepsKeys DEF WInv
<1>13. CallInv' BY <1>1, <1>3, <1>7 DEF CallInv, WInv
<1>14. Rest' BY <1>1, RestOf DEF Rest, ReadingOK
<1> QED BY <1>10, <1>12, <1>13, <1>14, TypeNext, RowsNext DEF WInv

(* A step of the polls: nothing of the rows changes. *)
LEMMA PollSteps ==
  ASSUME TypeOK, WInv, NEW i \in Id, Poll(i) \/ PollAnswers(i) \/ PollTimesOut(i)
  PROVE  TypeOK' /\ WInv'
<1>1. UNCHANGED <<session, call, row, reading, due, pending, end, told>>
  BY DEF Poll, PollAnswers, PollTimesOut
<1>2. /\ poll \in [Id -> {"none", "open", "called"}] /\ row \in [Id -> Row \union {None}]
      /\ given \in [Id -> {None, "armed", "fired", "timed_out", "cancelled"}]
  BY DEF TypeOK
<1>3. PollOK' BY <1>2 DEF Poll, PollAnswers, PollTimesOut, PollOK
<1>4. \A j \in Id : poll'[j] = "open" => poll[j] = "open" \/ j \in Armed
  BY <1>2 DEF Poll, PollAnswers, PollTimesOut
<1>5. State(i) \in {None, "armed", "fired", "timed_out", "cancelled"}
  BY <1>2 DEF State, Row
<1>6. given' \in [Id -> {None, "armed", "fired", "timed_out", "cancelled"}]
  <2>1. CASE given' = given BY <2>1, <1>2
  <2>2. CASE given' = [given EXCEPT ![i] = State(i)] BY <2>2, <1>2, <1>5
  <2>3. CASE given' = [given EXCEPT ![i] = row[i].state] /\ i \in Rows
    <3>1. State(i) = row[i].state BY <2>3 DEF State, Rows
    <3> QED BY <3>1, <2>3, <1>2, <1>5
  <2> QED BY <2>1, <2>2, <2>3 DEF Poll, PollAnswers, PollTimesOut
<1>7. Rest' BY <1>1, <1>6, RestOf DEF Rest, ReadingOK
<1> QED BY <1>1, <1>3, <1>4, <1>7, CallStep

LEMMA WorldSteps ==
  ASSUME TypeOK, WInv,
         (\E r \in Ref : Change(r)) \/ (\E i \in Id : DeadlinePasses(i))
         \/ Restart \/ (\E e \in EndCall : EndCalled(e))
  PROVE  TypeOK' /\ WInv'
<1>1. UNCHANGED <<row, told>> BY DEF Change, DeadlinePasses, Restart, EndCalled
<1>2. PollOK' /\ \A j \in Id : poll'[j] = "open" => poll[j] = "open"
  BY TypeParts DEF PollOK, Change, DeadlinePasses, Restart, EndCalled
<1>3. \A j \in Id : call'[j] \in {call[j], None}
  BY DEF Change, DeadlinePasses, Restart, EndCalled
<1>4. Rest'
  <2>0. Rest BY RestOf
  <2>1. CASE \E r \in Ref : Change(r)
    <3>1. PICK r \in Ref : Change(r) BY <2>1
    <3>2. reading' \in [Ref -> {"not", "ready", "gone"}]
      BY <2>0, <3>1 DEF Change, Rest, ReadingOK
    <3> QED BY <2>0, <3>1, <3>2 DEF Change, Rest, ReadingOK
  <2>2. CASE \E i \in Id : DeadlinePasses(i)
    BY <2>0, <2>2 DEF DeadlinePasses, Rest, ReadingOK
  <2>3. CASE Restart
    <3>1. end' \in [EndCall -> End]
      <4> SUFFICES ASSUME NEW e \in EndCall
                   PROVE  [end[e] EXCEPT !.step = "refused"] \in End
        BY <2>0, <2>3 DEF Restart, Rest
      <4>1. end[e] \in End BY <2>0 DEF Rest
      <4> QED BY <4>1 DEF End
    <3>2. call' \in [Id -> Call \union {None}] BY <2>3 DEF Restart
    <3> QED BY <2>0, <2>3, <3>1, <3>2 DEF Restart, Rest, ReadingOK
  <2>4. CASE \E e \in EndCall : EndCalled(e)
    <3>1. PICK e \in EndCall : EndCalled(e) BY <2>4
    <3>2. PICK keep \in BOOLEAN :
            LET snapshot == keep /\ Armed \intersect OfWaiter # {}
            IN end' = [end EXCEPT ![e] = [step |-> IF snapshot THEN "snapshot" ELSE "deleting",
                                          keep |-> keep, kept |-> {}]]
      BY <3>1 DEF EndCalled
    <3> DEFINE s == IF keep /\ Armed \intersect OfWaiter # {} THEN "snapshot" ELSE "deleting"
    <3>3. s \in {"idle", "snapshot", "deleting", "ended", "refused"} OBVIOUS
    <3>4. end' = [end EXCEPT ![e] = [step |-> s, keep |-> keep, kept |-> {}]] BY <3>2
    <3> HIDE DEF s
    <3>5. [step |-> s, keep |-> keep, kept |-> {}] \in End BY <3>3 DEF End
    <3>6. end' \in [EndCall -> End] BY <2>0, <3>4, <3>5 DEF Rest
    <3> QED BY <2>0, <3>1, <3>6 DEF EndCalled, Rest, ReadingOK
  <2> QED BY <2>1, <2>2, <2>3, <2>4
<1> QED BY <1>1, <1>2, <1>3, <1>4, CallStep

-----------------------------------------------------------------------------
(* The End: it marks the session's armed waits, takes the marks back, or    *)
(* deletes what is not marked.                                              *)

(* A step that touches rows of the session only, and neither listeners nor  *)
(* what was told.                                                           *)
LEMMA EndRows ==
  ASSUME TypeOK, WInv, UNCHANGED <<call, told, poll>>, Rest',
         row' \in [Id -> Row \union {None}],
         \A i \in Id : i \notin OfWaiter => row'[i] = row[i],
         \A i \in OfWaiter : row'[i] # None => RowOK(row'[i], told[i], poll[i]),
         \A i \in OfWaiter : row'[i] # None => /\ row'[i].state = row[i].state
                                             /\ row'[i].key \in {row[i].key, None}
  PROVE  TypeOK' /\ WInv'
<1>1. RowsOK(row) /\ ToldInv /\ ToldOK /\ PollOK BY RowsNow, TypeParts DEF WInv
<1>2. ASSUME NEW i \in Id, row'[i] # None PROVE RowOK(row'[i], told[i], poll[i])
  BY <1>1, <1>2 DEF RowsOK
<1>3. told' = told /\ poll' = poll OBVIOUS
<1>4. ToldInv' /\ ToldOK' /\ PollOK' BY <1>1, <1>3 DEF ToldInv, ToldOK, PollOK
<1>5. RowStep BY <1>2, <1>3, <1>4 DEF RowStep
<1>6. MineShrinks
  <2> SUFFICES ASSUME NEW i \in Mine' PROVE i \in Mine /\ row'[i].key \in {row[i].key, None}
    BY DEF MineShrinks
  <2>1. i \in Id /\ row'[i] # None /\ row'[i].state = "armed" /\ row'[i].by = "waiter"
    BY DEF Mine, Armed, OfWaiter, Rows
  <2>2. i \in OfWaiter BY <2>1 DEF OfWaiter, Rows
  <2>3. row[i].state = "armed" BY <2>1, <2>2
  <2> QED BY <2>1, <2>2, <2>3 DEF Mine, Armed, OfWaiter
<1>7. KeyInv' BY <1>6, ShrinkKeepsKeys DEF WInv
<1>8. CallInv'
  <2> SUFFICES ASSUME NEW i \in Id, call[i] # None
               PROVE  /\ row'[i] = None /\ told[i] = Quiet
                      /\ call[i].by = "client" => call[i].key = None
    BY <1>3 DEF CallInv
  <2>1. /\ row[i] = None /\ told[i] = Quiet
        /\ call[i].by = "client" => call[i].key = None
    BY DEF WInv, CallInv
  <2>2. i \notin OfWaiter BY <2>1 DEF OfWaiter, Rows
  <2> QED BY <2>1, <2>2
<1> QED BY <1>5, <1>7, <1>8, TypeNext, RowsNext DEF WInv

(* A row of the session that is kept, handed on, or kept no more. *)
LEMMA Remarked ==
  ASSUME TypeOK, WInv, NEW i \in OfWaiter
  PROVE  /\ i \in Id /\ row[i] # None /\ RowOK(row[i], told[i], poll[i])
         /\ RowOK([row[i] EXCEPT !.kept = TRUE, !.key = None], told[i], poll[i])
         /\ row[i].kept => RowOK([row[i] EXCEPT !.by = "nobody"], told[i], poll[i])
         /\ RowOK([row[i] EXCEPT !.kept = FALSE], told[i], poll[i])
<1>1. i \in Id /\ row[i] # None /\ row[i].by = "waiter" BY DEF OfWaiter, Rows
<1>2. RowOK(row[i], told[i], poll[i]) BY <1>1, RowsNow DEF WInv, RowsOK
<1> QED BY <1>1, <1>2 DEF RowOK, Row, Sound

LEMMA EndKeepsStep ==
  ASSUME TypeOK, WInv, NEW e \in EndCall, EndKeeps(e)
  PROVE  TypeOK' /\ WInv'
<1>1. /\ row' = [i \in Id |-> IF i \in Mine THEN [row[i] EXCEPT !.kept = TRUE, !.key = None]
                              ELSE row[i]]
      /\ end' = [end EXCEPT ![e].step = "deleting", ![e].kept = Mine]
      /\ UNCHANGED <<session, call, reading, due, pending, poll, given, told, left>>
  BY DEF EndKeeps, Mine
<1>2. Mine \subseteq OfWaiter /\ OfWaiter \subseteq Id BY DEF Mine, OfWaiter, Rows
<1>3. row \in [Id -> Row \union {None}] /\ end \in [EndCall -> End] BY DEF TypeOK
<1>4. ASSUME NEW i \in OfWaiter
      PROVE  /\ RowOK(row'[i], told[i], poll[i])
             /\ row'[i].state = row[i].state /\ row'[i].key \in {row[i].key, None}
  <2>1. RowOK(row[i], told[i], poll[i]) BY Remarked
  <2>2. CASE i \in Mine
    <3>1. row'[i] = [row[i] EXCEPT !.kept = TRUE, !.key = None] BY <1>1, <1>2, <2>2
    <3>2. row[i] \in Row BY <2>1 DEF RowOK
    <3>3. row'[i].state = row[i].state /\ row'[i].key = None BY <3>1, <3>2 DEF Row
    <3> QED BY <3>1, <3>3, Remarked
  <2>3. CASE i \notin Mine
    <3>1. row'[i] = row[i] BY <1>1, <1>2, <2>3
    <3> QED BY <2>1, <3>1
  <2> QED BY <2>2, <2>3
<1>5. \A i \in Id : i \notin OfWaiter => row'[i] = row[i] BY <1>1, <1>2
<1>6. row' \in [Id -> Row \union {None}]
  <2>1. \A i \in Id : row'[i] \in Row \union {None} BY <1>3, <1>4, <1>5 DEF RowOK
  <2> QED BY <1>1, <2>1
<1>7. Rest'
  <2>1. [end[e] EXCEPT !.step = "deleting", !.kept = Mine] \in End BY <1>2, <1>3 DEF End
  <2>2. end' \in [EndCall -> End] BY <1>1, <1>3, <2>1
  <2> QED BY <1>1, <2>2, RestOf DEF Rest, ReadingOK
<1> QED BY <1>1, <1>4, <1>5, <1>6, <1>7, EndRows

LEMMA EndDeletesStep ==
  ASSUME TypeOK, WInv, NEW e \in EndCall, EndDeletes(e)
  PROVE  TypeOK' /\ WInv'
<1>1. /\ row' = [i \in Id |-> IF i \notin OfWaiter THEN row[i]
                              ELSE IF row[i].kept THEN [row[i] EXCEPT !.by = "nobody"]
                              ELSE None]
      /\ session' = "ended" /\ end' = [end EXCEPT ![e].step = "ended"]
      /\ UNCHANGED <<call, reading, due, pending, poll, given, told, left>>
  BY DEF EndDeletes
<1>2. row \in [Id -> Row \union {None}] /\ end \in [EndCall -> End] BY DEF TypeOK
<1>3. OfWaiter \subseteq Id BY DEF OfWaiter, Rows
<1>4. ASSUME NEW i \in OfWaiter
      PROVE  \/ row'[i] = None
             \/ /\ RowOK(row'[i], told[i], poll[i])
                /\ row'[i].state = row[i].state /\ row'[i].key = row[i].key
  <2>1. CASE row[i].kept
    <3>1. row'[i] = [row[i] EXCEPT !.by = "nobody"] BY <1>1, <1>3, <2>1
    <3>2. row[i] \in Row BY Remarked DEF RowOK
    <3>3. row'[i].state = row[i].state /\ row'[i].key = row[i].key BY <3>1, <3>2 DEF Row
    <3> QED BY <2>1, <3>1, <3>3, Remarked
  <2>2. CASE ~row[i].kept BY <1>1, <1>3, <2>2
  <2> QED BY <2>1, <2>2
<1>5. \A i \in Id : i \notin OfWaiter => row'[i] = row[i] BY <1>1
<1>6. row' \in [Id -> Row \union {None}]
  <2>1. \A i \in Id : row'[i] \in Row \union {None} BY <1>2, <1>4, <1>5 DEF RowOK
  <2> QED BY <1>1, <2>1
<1>7. Rest'
  <2>1. [end[e] EXCEPT !.step = "ended"] \in End BY <1>2 DEF End
  <2>2. end' \in [EndCall -> End] BY <1>1, <1>2, <2>1
  <2> QED BY <1>1, <2>2, RestOf DEF Rest, ReadingOK
<1> QED BY <1>1, <1>4, <1>5, <1>6, <1>7, EndRows

LEMMA EndFailsStep ==
  ASSUME TypeOK, WInv, NEW e \in EndCall, EndFails(e)
  PROVE  TypeOK' /\ WInv'
<1>1. /\ row' = [i \in Id |-> IF end[e].kept # {} /\ session = "here" /\ i \in OfWaiter
                              THEN [row[i] EXCEPT !.kept = FALSE] ELSE row[i]]
      /\ end' = [end EXCEPT ![e].step = "refused"]
      /\ UNCHANGED <<session, call, reading, due, pending, poll, given, told, left>>
  BY DEF EndFails
<1>2. row \in [Id -> Row \union {None}] /\ end \in [EndCall -> End] BY DEF TypeOK
<1>3. OfWaiter \subseteq Id BY DEF OfWaiter, Rows
<1>4. ASSUME NEW i \in OfWaiter
      PROVE  /\ RowOK(row'[i], told[i], poll[i])
             /\ row'[i].state = row[i].state /\ row'[i].key = row[i].key
  <2>1. RowOK(row[i], told[i], poll[i]) BY Remarked
  <2>2. row[i] \in Row BY <2>1 DEF RowOK
  <2>3. CASE row'[i] = [row[i] EXCEPT !.kept = FALSE]
    <3>1. row'[i].state = row[i].state /\ row'[i].key = row[i].key BY <2>2, <2>3 DEF Row
    <3> QED BY <2>3, <3>1, Remarked
  <2>4. CASE row'[i] = row[i] BY <2>1, <2>4
  <2> QED BY <1>1, <1>3, <2>3, <2>4
<1>5. \A i \in Id : i \notin OfWaiter => row'[i] = row[i] BY <1>1
<1>6. row' \in [Id -> Row \union {None}]
  <2>1. \A i \in Id : row'[i] \in Row \union {None} BY <1>2, <1>4, <1>5 DEF RowOK
  <2> QED BY <1>1, <2>1
<1>7. Rest'
  <2>1. [end[e] EXCEPT !.step = "refused"] \in End BY <1>2 DEF End
  <2>2. end' \in [EndCall -> End] BY <1>1, <1>2, <2>1
  <2> QED BY <1>1, <2>2, RestOf DEF Rest, ReadingOK
<1> QED BY <1>1, <1>4, <1>5, <1>6, <1>7, EndRows

-----------------------------------------------------------------------------
(* The theorems.                                                           *)

LEMMA WaitsInvariance == Spec => [](TypeOK /\ WInv)
<1>1. Init => TypeOK /\ WInv
  <2> SUFFICES ASSUME Init PROVE TypeOK /\ WInv OBVIOUS
  <2>1. Rows = {} /\ Mine = {} BY DEF Init, Rows, Mine, Armed
  <2>2. IsFiniteSet(Mine) /\ Cardinality(Mine) = 0 BY <2>1, FS_EmptySet
  <2>3. KeyInv BY <2>1, <2>2, WaitsAssumption DEF KeyInv, WaitsAssumption
  <2>4. RowInv /\ CallInv /\ ToldInv BY QuietIs DEF Init, RowInv, CallInv, ToldInv
  <2>5. TypeOK BY <2>1, QuietIs DEF Init, TypeOK, End
  <2> QED BY <2>3, <2>4, <2>5 DEF WInv
<1>2. TypeOK /\ WInv /\ [Next]_vars => TypeOK' /\ WInv'
  <2> SUFFICES ASSUME TypeOK, WInv, [Next]_vars PROVE TypeOK' /\ WInv' OBVIOUS
  <2>1. CASE Service
    <3>1. CASE Check
      <4> DEFINE at == {i \in Armed : row[i].ref \in pending \/ i \in due}
      <4>1. LookAt(at, row) /\ pending' = {} BY <3>1 DEF Check
      <4>2. UNCHANGED <<call, session, reading, due, given, end>> BY <3>1 DEF Check
      <4>3. at \in SUBSET Armed OBVIOUS
      <4> HIDE DEF at
      <4> QED BY <4>1, <4>2, <4>3, LookStep
    <3>2. CASE FullCheck
      <4>1. LookAt(Armed, row) /\ pending' = pending BY <3>2 DEF FullCheck
      <4>2. UNCHANGED <<call, session, reading, due, given, end>> BY <3>2 DEF FullCheck
      <4>3. Armed \in SUBSET Armed /\ pending' \subseteq Ref BY <4>1 DEF TypeOK
      <4> QED BY <4>1, <4>2, <4>3, LookStep
    <3>3. CASE \E i \in Id : ArmGoesOn(i) BY <3>3, ArmGoesOnStep
    <3>4. CASE \E i \in Id : PollAnswers(i) \/ PollTimesOut(i) BY <3>4, PollSteps
    <3> QED BY <2>1, <3>1, <3>2, <3>3, <3>4 DEF Service
  <2>2. CASE Outside
    <3>1. CASE \E i \in Id : ArmCalled(i) BY <3>1, ArmCalledStep
    <3>2. CASE \E i \in Id : ArmRefused(i) BY <3>2, ArmRefusedStep
    <3>3. CASE \E i \in Id : Cancel(i) BY <3>3, CancelStep
    <3>4. CASE \E i \in Id : Poll(i) BY <3>4, PollSteps
    <3>5. CASE (\E i \in Id : DeadlinePasses(i)) \/ (\E r \in Ref : Change(r)) \/ Restart
      BY <3>5, WorldSteps
    <3> QED BY <2>2, <3>1, <3>2, <3>3, <3>4, <3>5 DEF Outside
  <2>3. CASE Ends
    <3>1. CASE \E e \in EndCall : EndCalled(e) BY <3>1, WorldSteps
    <3>2. CASE \E e \in EndCall : EndKeeps(e) BY <3>2, EndKeepsStep
    <3>3. CASE \E e \in EndCall : EndDeletes(e) BY <3>3, EndDeletesStep
    <3>4. CASE \E e \in EndCall : EndFails(e) BY <3>4, EndFailsStep
    <3> QED BY <2>3, <3>1, <3>2, <3>3, <3>4 DEF Ends
  <2>4. CASE UNCHANGED vars
    BY <2>4 DEF vars, TypeOK, WInv, RowInv, CallInv, ToldInv, KeyInv, Mine, Armed, OfWaiter, Rows
  <2> QED BY <2>1, <2>2, <2>3, <2>4 DEF Next
<1> QED BY <1>1, <1>2, PTL DEF Spec

(* The limit and the keys of a session's armed waits hold: the checks that  *)
(* an arm makes after its await are of the state it inserts into            *)
(* (WaitService.arm).                                                      *)
THEOREM LimitHolds == Spec => []KeysAndLimit
<1>1. TypeOK /\ WInv => KeysAndLimit BY DEF WInv, KeyInv, Mine, KeysAndLimit
<1> QED BY <1>1, WaitsInvariance, PTL

(* Every outcome is told once, as its waiter can still hear it, whatever    *)
(* looks, Ends that keep waits, failed Ends and restarts come between       *)
(* (WaitService.fire, WaitStore.settle, keep, unkeep).                      *)
THEOREM OutcomesToldOnce == Spec => []ToldOnce
<1>1. TypeOK /\ WInv => ToldOnce
  <2> SUFFICES ASSUME TypeOK, WInv, NEW i \in Id
               PROVE  LET lines == told[i].lines
                          relaunches == told[i].relaunches
                      IN /\ lines + relaunches <= 1
                         /\ i \in Rows /\ row[i].state \in {"armed", "cancelled"} => lines + relaunches = 0
                         /\ i \in Rows /\ row[i].by # "client" /\ row[i].outcome = "until" => lines + relaunches = 1
                         /\ i \in Rows /\ relaunches = 1 => row[i].outcome = "until"
                         /\ i \in Rows /\ poll[i] = "open" => row[i].state = "armed"
    BY DEF ToldOnce
  <2>1. told[i].lines + told[i].relaunches <= 1 BY DEF WInv, ToldInv
  <2>2. i \in Rows => Sound(row[i], told[i], poll[i]) BY DEF WInv, RowInv, Rows
  <2> QED BY <2>1, <2>2, QuietIs DEF Sound
<1> QED BY <1>1, WaitsInvariance, PTL
============================================================================
