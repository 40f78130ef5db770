------------------------- MODULE LaneReportsProofs -------------------------
(***************************************************************************)
(* Theorems about LaneReports, for any set of watchers and any number of   *)
(* turns, exits, returns, messages, waits, Ends and restarts: the went-idle *)
(* lines are of real turns, once each and in order; work that reached a    *)
(* lane is told of by a wake; and each session the end of the lane was for *)
(* hears of it.                                                            *)
(***************************************************************************)
EXTENDS LaneReports, TLAPS

-----------------------------------------------------------------------------
(* The inductive invariant.                                                *)

Past == [lines: [Party -> Seq(Nat)], real: SUBSET Nat, owed: SUBSET Nat, late: SUBSET Nat,
         rode: BOOLEAN, rodeLate: BOOLEAN, hidden: BOOLEAN, ender: Party \union {None}, heardEnd: SUBSET Party,
         endFor: SUBSET Party, declined: SUBSET Party]

Typed == TypeOK /\ past \in Past

(* A lane whose row stands has a cursor; without memory, or a row, nothing *)
(* is in view; a lane that ended has no agent in view.                     *)
Standing ==
  /\ lane = "open" => cursor # None /\ outbox = None
  /\ cursor = None => memory = None
  /\ memory = None \/ lane = "deleted" => view.state = "unknown" /\ view.turn = 0
  /\ cursor # None /\ cursor.ended => view.state = "unknown"

(* The agent's clock is ahead of what is seen and noted of it; an idle     *)
(* agent that is seen at its turn is seen idle.                            *)
ClockLeads ==
  /\ view.turn <= agent.turn
  /\ agent.state = "idle" /\ view.turn = agent.turn /\ view.turn > 0 => view.state = "idle"
  /\ cursor # None => cursor.gen <= agent.gen /\ cursor.reachedAfter <= agent.turn
  /\ cursor # None => cursor.finished <= agent.turn
  /\ cursor # None /\ view.state = "idle" =>
       cursor.reachedAfter <= view.turn /\ cursor.finished <= view.turn
  /\ \A o \in past.owed : o <= agent.turn /\ (view.state = "idle" => o <= view.turn)

(* The lines are of real turns, in order, and up to the cursor.            *)
LinesInOrder ==
  \A p \in Party : \A i \in DOMAIN past.lines[p] :
    /\ past.lines[p][i] \in past.real
    /\ \A j \in 1..(i - 1) : past.lines[p][j] < past.lines[p][i]
    /\ cursor # None => past.lines[p][i] <= cursor.finished

(* An idle that no turn led to will be absorbed, or was; one in view that  *)
(* is still to be told of ended a real turn.                               *)
Absorbs ==
  \/ cursor.reset \/ cursor.ended
  \/ cursor.gen # agent.gen /\ (memory = None \/ memory.known)

IdlesAreReal ==
  cursor # None =>
    /\ agent.state = "idle" /\ agent.turn > cursor.finished /\ agent.turn \notin past.real =>
         Absorbs
    /\ view.state = "idle" /\ view.turn > cursor.finished =>
         ~cursor.reset /\ ~view.own /\ view.turn \in past.real

(* While a wake is owed nothing is a repeat, save an idle that was held    *)
(* when the lane was first reached, which the cursor names: before any     *)
(* later idle it says that no repeat was held.                             *)
WakeIsOwed ==
  /\ ~past.rode
  /\ cursor # None =>
       \A o \in past.owed :
         /\ ~cursor.repeat
         /\ cursor.reachedAfter <= o \/ ~cursor.before
         /\ agent.state = "idle" /\ agent.turn = o /\ o > cursor.finished =>
              cursor.reachedAfter = o
         /\ view.state = "idle" /\ view.turn = o /\ o > cursor.finished =>
              cursor.reachedAfter = o

(* Who a wait told of the end has heard it; a wait on a lane whose agent   *)
(* is seen to be gone fires before the end can be told.                    *)
TellsEnd(w) == w.outcome = "gone" \/ (w.until = "ended" /\ w.outcome = "until")

WaitsHear ==
  /\ \A p \in Party : wait[p] # None /\ wait[p].state = "fired" /\ TellsEnd(wait[p]) =>
                        p \in past.heardEnd
  /\ lane = "open" /\ Stood /\ view.state = "unknown" /\ AgentGone => \A p \in Party : ~Armed(p)

(* Once the lane has ended, each session the end was for heard it, or will *)
(* from its wait, which nothing but the end can settle.                    *)
EndGoesOut ==
  /\ (cursor # None /\ cursor.ended) \/ (lane = "deleted" /\ outbox = None) =>
       \A p \in past.endFor \ (gone \union past.declined \union {past.ender}) :
         p \in past.heardEnd \/ (Armed(p) /\ lane = "deleted")
  /\ lane = "open" \/ outbox # None => past.ender = None
  /\ lane = "deleted" /\ outbox = None /\ past.ender # None =>
       queue[past.ender] = {} /\ ~Armed(past.ender)

LInv == /\ Typed /\ Standing /\ ClockLeads /\ LinesInOrder /\ IdlesAreReal /\ WakeIsOwed
        /\ WaitsHear /\ EndGoesOut

-----------------------------------------------------------------------------
(* What the reporter's operators return.                                   *)

LEMMA ReceiversIn == Receivers \subseteq Party
BY DEF Receivers, Party

LEMMA QueuedTyped ==
  ASSUME NEW lines \in SUBSET Line, NEW line \in Line
  PROVE  Queued(lines, line) \in SUBSET Line
<1> DEFINE b == line.ride /\ \A l \in {x \in lines : x.kind = line.kind} : l.ride
<1>1. b \in BOOLEAN
  OBVIOUS
<1> HIDE DEF b
<1>2. [line EXCEPT !.ride = b] \in Line
  BY <1>1 DEF Line
<1>3. Queued(lines, line) = (lines \ {x \in lines : x.kind = line.kind}) \union {[line EXCEPT !.ride = b]}
  BY DEF Queued, b
<1> QED
  BY <1>2, <1>3

LEMMA QueuedToTyped ==
  ASSUME queue \in [Party -> SUBSET Line], NEW to, NEW line \in Line
  PROVE  QueuedTo(to, line) \in [Party -> SUBSET Line]
<1>1. \A p \in Party : Queued(queue[p], line) \in SUBSET Line
  BY QueuedTyped
<1> QED
  BY <1>1 DEF QueuedTo

LEMMA RememberedIs ==
  ASSUME TypeOK, NEW v \in View, cursor # None
  PROVE  /\ Remembered(v) \in Memory
         /\ (memory # None /\ memory.known) \/ v.state # "unknown" => Remembered(v).known
         /\ Remembered(v).held # 0 => Stood /\ view.state = v.state
<1> DEFINE m == IF memory = None
                  THEN [held |-> 0, seen |-> 0, heldIdle |-> 0, known |-> FALSE, timer |-> None]
                  ELSE memory
           same == memory # None /\ view.state = v.state /\ view.turn = v.turn
           inTurn == v.state \in {"working", "blocked"}
           next == /\ inTurn /\ view.state = "idle"
                   /\ view.turn > cursor.finished /\ view.turn > m.heldIdle
           h == IF same THEN m.held ELSE 0
           k == m.known \/ v.state # "unknown"
           i == IF next THEN view.turn ELSE m.heldIdle
           s == IF ~inTurn THEN m.seen
                ELSE IF m.seen = 0 \/ (next /\ m.held > 0) THEN v.turn + 1 ELSE m.seen
<1>1. m \in Memory
  BY DEF TypeOK, Memory
<1>2. m.held \in 0..2 /\ m.known \in BOOLEAN /\ m.heldIdle \in Nat /\ m.seen \in Nat
  BY <1>1 DEF Memory
<1>3. view \in View /\ view.turn \in Nat /\ v.turn \in Nat
  BY DEF TypeOK, View
<1>4. Remembered(v) = [m EXCEPT !.held = h, !.known = k, !.heldIdle = i, !.seen = s]
  BY DEF Remembered
<1>5. h \in 0..2 /\ k \in BOOLEAN /\ i \in Nat /\ s \in Nat
  BY <1>2, <1>3
<1>6. /\ (memory # None /\ memory.known) \/ v.state # "unknown" => k
      /\ h # 0 => Stood /\ view.state = v.state
  BY <1>2 DEF Stood
<1> HIDE DEF m, h, k, i, s
<1>7. Remembered(v) \in Memory /\ Remembered(v).known = k /\ Remembered(v).held = h
  BY <1>1, <1>4, <1>5 DEF Memory
<1> QED
  BY <1>6, <1>7

LEMMA RecordedIs ==
  ASSUME TypeOK, NEW v \in View, cursor # None
  PROVE  /\ Recorded(v) \in Cursor
         /\ ~Recorded(v).ended /\ Recorded(v).gen = v.gen
         /\ Recorded(v).finished = cursor.finished
         /\ Recorded(v).reachedAfter = cursor.reachedAfter
         /\ Recorded(v).before = cursor.before
         /\ Recorded(v).repeat => cursor.repeat
         /\ /\ v.state \notin {"working", "blocked"}
            /\ \/ cursor.reset \/ cursor.ended
               \/ cursor.gen # v.gen /\ (memory = None \/ memory.known)
            => Recorded(v).reset
<1> DEFINE inTurn == v.state \in {"working", "blocked"}
           back == cursor.ended
           anew == cursor.gen # v.gen
           e == ~inTurn /\ (cursor.reset \/ back \/ (anew /\ (memory = None \/ memory.known)))
           r == cursor.repeat /\ ~back /\ ~anew
           b == cursor.blocked /\ v.state \notin {"working", "idle"}
<1>1. cursor \in Cursor /\ v.gen \in Nat
  BY DEF TypeOK, View
<1>2. Recorded(v) = [cursor EXCEPT !.ended = FALSE, !.gen = v.gen, !.reset = e,
                                   !.repeat = r, !.blocked = b]
  BY DEF Recorded
<1>3. e \in BOOLEAN /\ r \in BOOLEAN /\ b \in BOOLEAN
  OBVIOUS
<1>4. /\ r => cursor.repeat
      /\ ~inTurn /\ (cursor.reset \/ back \/ (anew /\ (memory = None \/ memory.known))) => e
  OBVIOUS
<1> HIDE DEF e, r, b
<1>5. /\ Recorded(v) \in Cursor
      /\ Recorded(v).ended = FALSE /\ Recorded(v).gen = v.gen
      /\ Recorded(v).finished = cursor.finished
      /\ Recorded(v).reachedAfter = cursor.reachedAfter
      /\ Recorded(v).before = cursor.before
      /\ Recorded(v).repeat = r /\ Recorded(v).reset = e
  BY <1>1, <1>2, <1>3 DEF Cursor
<1> QED
  BY <1>4, <1>5

-----------------------------------------------------------------------------
(* What an evaluation does, told apart by what goes out.                   *)

Unreported(v, c) == v.state = "idle" /\ v.turn > c.finished /\ ~c.ended

(* The cursor but for its streak, the turn told of and what was blocked.   *)
SameCursor(v, c) ==
  /\ cursor' \in Cursor /\ cursor'.gen = c.gen
  /\ \/ cursor'.reachedAfter = c.reachedAfter /\ cursor'.before = c.before
     \/ cursor'.reachedAfter = 0 /\ v.turn > c.reachedAfter

SameMemory(m) == memory' \in Memory /\ memory'.held = m.held /\ memory'.known = m.known

NothingSaid == UNCHANGED <<queue, acted, past>>

Absorbed(v, c) ==
  /\ Unreported(v, c) /\ NothingSaid /\ SameCursor(v, c)
  /\ cursor'.finished = v.turn /\ ~cursor'.reset /\ cursor'.repeat = c.repeat /\ ~cursor'.ended
  /\ cursor'.reachedAfter = c.reachedAfter

Held(v, c) ==
  /\ Unreported(v, c) => ~c.reset /\ ~v.own
  /\ NothingSaid /\ SameCursor(v, c)
  /\ cursor'.finished = c.finished /\ cursor'.reset = c.reset /\ cursor'.ended = c.ended
  /\ cursor'.repeat => c.repeat

SaidBlocked(v, c) ==
  /\ v.state = "blocked" /\ UNCHANGED past /\ SameCursor(v, c)
  /\ cursor'.finished = c.finished /\ cursor'.reset = c.reset /\ cursor'.ended = c.ended
  /\ ~cursor'.repeat /\ cursor'.reachedAfter = c.reachedAfter

SaidEnded(v, m, c) ==
  /\ v.state = "unknown" /\ AgentGone /\ m.held > 0 /\ SameCursor(v, c)
  /\ cursor'.finished = c.finished /\ cursor'.reset = c.reset /\ cursor'.ended
  /\ ~cursor'.repeat /\ cursor'.reachedAfter = c.reachedAfter
  /\ LET to == {p \in Receivers : ~HeardFrom(p, "ended", v.turn)}
     IN past' = [past EXCEPT !.heardEnd = @ \union to, !.endFor = Receivers]

Reaches(v, c) == c.reachedAfter # 0 /\ v.turn <= c.reachedAfter

(* The held idle from before the lane was reached was itself a repeat.     *)
ReachesAgain(v, c) == Reaches(v, c) /\ c.before

SaidFinished(v, c) ==
  /\ Unreported(v, c) /\ ~c.reset /\ ~v.own /\ SameCursor(v, c)
  /\ cursor'.finished = v.turn /\ cursor'.reset = c.reset /\ cursor'.ended = c.ended
  /\ \E to \in SUBSET Party, toldAll \in BOOLEAN :
       /\ cursor'.repeat => c.repeat \/ ~(toldAll \/ Reaches(v, c))
       /\ \A p \in Party : past'.lines[p] = IF p \in to THEN Append(past.lines[p], v.turn)
                                                        ELSE past.lines[p]
       /\ past'.owed = IF toldAll THEN past.owed ELSE {o \in past.owed : ~(v.turn > o)}
       /\ past'.rode => past.rode \/ \E o \in past.owed : v.turn > o /\ (ReachesAgain(v, c) \/ c.repeat)
  /\ past'.real = past.real /\ past'.heardEnd = past.heardEnd /\ past'.endFor = past.endFor
  /\ past'.declined = past.declined /\ past'.ender = past.ender

EvaluatesTo(v, m, c) ==
  \/ Absorbed(v, c) \/ Held(v, c) \/ SaidBlocked(v, c) \/ SaidEnded(v, m, c) \/ SaidFinished(v, c)

LEMMA LaterHeld ==
  ASSUME NEW v \in View, NEW m \in Memory, NEW c \in Cursor, NEW d \in Cursor, NEW due \in {1, 2},
         Later(m, d, due), d.gen = c.gen, d.finished = c.finished, d.reset = c.reset,
         d.ended = c.ended, d.repeat => c.repeat,
         \/ d.reachedAfter = c.reachedAfter /\ d.before = c.before
         \/ d.reachedAfter = 0 /\ v.turn > c.reachedAfter,
         Unreported(v, c) => ~c.reset /\ ~v.own
  PROVE  Held(v, c) /\ SameMemory(m)
<1>1. cursor' = d /\ NothingSaid
  BY DEF Later, NothingSaid
<1>2. SameMemory(m)
  BY DEF Later, SameMemory, Memory
<1> QED
  BY <1>1, <1>2 DEF Held, SameCursor

LEMMA FireFinishedIs ==
  ASSUME Typed, NEW v \in View, NEW m \in Memory, NEW c \in Cursor, NEW d \in Cursor,
         NEW repeat \in BOOLEAN,
         FireFinished(v, m, d, repeat, Reaches(v, c)), Unreported(v, c), ~c.reset, ~v.own,
         d.gen = c.gen, d.reset = c.reset, d.ended = c.ended, d.repeat => c.repeat,
         repeat => ReachesAgain(v, c) \/ c.repeat,
         \/ d.reachedAfter = c.reachedAfter /\ d.before = c.before
         \/ d.reachedAfter = 0 /\ v.turn > c.reachedAfter
  PROVE  SaidFinished(v, c) /\ SameMemory(m)
<1> DEFINE hearers == {p \in Receivers : ~HeardFrom(p, "finished", v.turn)}
           to == {p \in hearers : told[p] < m.seen \/ told[p] <= d.finished \/ told[p] <= m.heldIdle}
           toldAll == to = {} /\ hearers # {}
           wakes == {o \in past.owed : v.turn > o}
           late == {o \in past.late : v.turn > o}
           before == Reaches(v, c)
<1>1. /\ cursor' = [d EXCEPT !.finished = v.turn, !.repeat = @ \/ ~(toldAll \/ before)]
      /\ memory' = [m EXCEPT !.seen = 0, !.heldIdle = 0, !.timer = None]
      /\ past' = [past EXCEPT
           !.lines = [p \in Party |-> IF p \in to THEN Append(@[p], v.turn) ELSE @[p]],
           !.owed = IF toldAll THEN @ ELSE @ \ wakes,
           !.late = IF toldAll THEN @ ELSE @ \ late,
           !.hidden = @ \/ (\E p \in hearers \ to : told[p] < v.turn),
           !.rode = @ \/ (repeat /\ wakes # {} /\ to # {}),
           !.rodeLate = @ \/ (repeat /\ late # {} /\ to # {})]
  BY DEF FireFinished
<1>2. to \in SUBSET Party /\ toldAll \in BOOLEAN /\ before \in BOOLEAN
  BY ReceiversIn DEF Reaches
<1>3. v.turn \in Nat
  BY DEF View
<1> HIDE DEF to, toldAll, hearers, before
<1>4. PICK b \in BOOLEAN : /\ b => c.repeat \/ ~(toldAll \/ before)
                           /\ cursor' = [d EXCEPT !.finished = v.turn, !.repeat = b]
  <2>1. (d.repeat \/ ~(toldAll \/ before)) \in BOOLEAN
    OBVIOUS
  <2>2. d.repeat \/ ~(toldAll \/ before) => c.repeat \/ ~(toldAll \/ before)
    OBVIOUS
  <2> QED
    BY <1>1, <2>1, <2>2
<1>5. /\ cursor' \in Cursor /\ cursor'.repeat = b /\ cursor'.gen = c.gen
      /\ cursor'.finished = v.turn /\ cursor'.reset = c.reset /\ cursor'.ended = c.ended
      /\ cursor'.reachedAfter = d.reachedAfter /\ cursor'.before = d.before
  BY <1>3, <1>4 DEF Cursor
<1>6. past \in Past
  BY DEF Typed
<1>7. /\ \A p \in Party : past'.lines[p] = IF p \in to THEN Append(past.lines[p], v.turn)
                                                        ELSE past.lines[p]
      /\ past'.owed = IF toldAll THEN past.owed ELSE past.owed \ wakes
      /\ past'.rode = (past.rode \/ (repeat /\ wakes # {} /\ to # {}))
      /\ past'.real = past.real /\ past'.heardEnd = past.heardEnd /\ past'.endFor = past.endFor
      /\ past'.declined = past.declined /\ past'.ender = past.ender
  BY <1>1, <1>6 DEF Past
<1>8. past'.owed = IF toldAll THEN past.owed ELSE {o \in past.owed : ~(v.turn > o)}
  BY <1>7
<1>9. past'.rode => past.rode \/ \E o \in past.owed : v.turn > o /\ (ReachesAgain(v, c) \/ c.repeat)
  BY <1>7
<1>10. SameMemory(m)
  BY <1>1 DEF SameMemory, Memory
<1>11. SameCursor(v, c)
  BY <1>5 DEF SameCursor
<1>12. \E t \in SUBSET Party, all \in BOOLEAN :
       /\ cursor'.repeat => c.repeat \/ ~(all \/ Reaches(v, c))
       /\ \A p \in Party : past'.lines[p] = IF p \in t THEN Append(past.lines[p], v.turn)
                                                        ELSE past.lines[p]
       /\ past'.owed = IF all THEN past.owed ELSE {o \in past.owed : ~(v.turn > o)}
       /\ past'.rode => past.rode \/ \E o \in past.owed : v.turn > o /\ (ReachesAgain(v, c) \/ c.repeat)
  <2>1. cursor'.repeat => c.repeat \/ ~(toldAll \/ Reaches(v, c))
    BY <1>4, <1>5 DEF before
  <2>2. past'.rode => past.rode \/ \E o \in past.owed : v.turn > o /\ (ReachesAgain(v, c) \/ c.repeat)
    BY <1>9
  <2> QED
    BY <1>2, <1>7, <1>8, <2>1, <2>2
<1> QED
  BY <1>5, <1>7, <1>10, <1>11, <1>12 DEF SaidFinished

LEMMA EvaluateIs ==
  ASSUME Typed, NEW v \in View, NEW m \in Memory, NEW c \in Cursor, Evaluate(v, m, c)
  PROVE  EvaluatesTo(v, m, c) /\ SameMemory(m)
<1> DEFINE unreported == v.state = "idle" /\ v.turn > c.finished
           beforeReach == c.reachedAfter # 0 /\ v.turn <= c.reachedAfter
           c1 == IF beforeReach THEN c ELSE [c EXCEPT !.reachedAfter = 0, !.before = FALSE]
           again == IF beforeReach THEN c1.before ELSE c1.repeat
           anew == again /\ acted \intersect Receivers # {}
           c2 == IF anew THEN [c1 EXCEPT !.repeat = FALSE] ELSE c1
           repeat == again /\ ~anew
           newBlock == v.state = "blocked" /\ ~c.blocked
           quit == v.state = "unknown" /\ AgentGone
<1>1. v.turn \in Nat /\ c.reachedAfter \in Nat /\ c.repeat \in BOOLEAN /\ c.before \in BOOLEAN
      /\ v.own \in BOOLEAN /\ c.reset \in BOOLEAN
  BY DEF View, Cursor
<1>2. CASE /\ ~c.ended /\ unreported /\ (c.reset \/ v.own)
           /\ cursor' = [c EXCEPT !.finished = v.turn, !.reset = FALSE]
           /\ memory' = [m EXCEPT !.seen = 0, !.heldIdle = 0, !.timer = None]
           /\ UNCHANGED <<queue, acted, past>>
  <2>1. SameMemory(m)
    BY <1>2 DEF SameMemory, Memory
  <2>2. /\ cursor' \in Cursor /\ cursor'.gen = c.gen /\ cursor'.finished = v.turn
        /\ cursor'.reset = FALSE /\ cursor'.repeat = c.repeat /\ cursor'.ended = c.ended
        /\ cursor'.reachedAfter = c.reachedAfter
    BY <1>1, <1>2 DEF Cursor
  <2> QED
    BY <1>2, <2>1, <2>2 DEF EvaluatesTo, Absorbed, Unreported, NothingSaid, SameCursor
<1>3. CASE /\ ~c.ended /\ unreported /\ ~c.reset /\ ~v.own
           /\ \E due \in IF repeat THEN {2} ELSE {1, 2} :
                IF m.held < due THEN Later(m, c2, due)
                ELSE FireFinished(v, m, c2, repeat, beforeReach)
  <2>1. /\ c1 \in Cursor /\ c1.gen = c.gen /\ c1.finished = c.finished /\ c1.reset = c.reset
        /\ c1.ended = c.ended /\ c1.repeat = c.repeat
        /\ \/ c1.reachedAfter = c.reachedAfter /\ c1.before = c.before
           \/ c1.reachedAfter = 0 /\ v.turn > c.reachedAfter
    <3>1. CASE beforeReach
      BY <1>1, <3>1
    <3>2. CASE ~beforeReach
      <4>1. c1 = [c EXCEPT !.reachedAfter = 0, !.before = FALSE]
        BY <3>2
      <4>2. v.turn > c.reachedAfter
        <5>1. v.turn > 0
          BY <1>1, <1>3 DEF Cursor
        <5> QED
          BY <1>1, <3>2, <5>1
      <4> HIDE DEF c1, beforeReach
      <4> QED
        BY <4>1, <4>2 DEF Cursor
    <3> QED
      BY <3>1, <3>2
  <2>2. /\ again \in BOOLEAN /\ repeat \in BOOLEAN
        /\ repeat => (beforeReach /\ c.before) \/ c.repeat
    BY <1>1, <2>1 DEF Cursor
  <2> HIDE DEF c1, again, repeat
  <2>3. /\ c2 \in Cursor /\ c2.gen = c.gen /\ c2.finished = c.finished /\ c2.reset = c.reset
        /\ c2.ended = c.ended /\ (c2.repeat => c.repeat)
        /\ \/ c2.reachedAfter = c.reachedAfter /\ c2.before = c.before
           \/ c2.reachedAfter = 0 /\ v.turn > c.reachedAfter
    BY <2>1 DEF Cursor
  <2> HIDE DEF c2
  <2>4. PICK due \in {1, 2} : IF m.held < due THEN Later(m, c2, due)
                              ELSE FireFinished(v, m, c2, repeat, beforeReach)
    BY <1>3
  <2>5. CASE m.held < due
    BY <1>3, <2>3, <2>4, <2>5, LaterHeld DEF EvaluatesTo, Unreported
  <2>6. CASE ~(m.held < due)
    <3>1. FireFinished(v, m, c2, repeat, Reaches(v, c))
      BY <2>4, <2>6 DEF Reaches
    <3>2. Unreported(v, c)
      BY <1>3 DEF Unreported
    <3>3. repeat => ReachesAgain(v, c) \/ c.repeat
      BY <2>2 DEF Reaches, ReachesAgain
    <3> QED
      BY <1>3, <2>2, <2>3, <3>1, <3>2, <3>3, FireFinishedIs DEF EvaluatesTo
  <2> QED
    BY <2>5, <2>6
<1>4. CASE /\ ~c.ended /\ newBlock
           /\ IF m.held < 1 THEN Later(m, c, 1) ELSE FireBlocked(v, m, c)
  <2>1. CASE m.held < 1
    BY <1>4, <2>1, LaterHeld DEF EvaluatesTo, Unreported
  <2>2. CASE ~(m.held < 1)
    <3>1. /\ cursor' = [c EXCEPT !.blocked = TRUE, !.repeat = FALSE]
          /\ memory' = [m EXCEPT !.timer = None] /\ UNCHANGED past
      BY <1>4, <2>2 DEF FireBlocked
    <3>2. SameMemory(m)
      BY <3>1 DEF SameMemory, Memory
    <3> QED
      BY <1>4, <3>1, <3>2 DEF EvaluatesTo, SaidBlocked, SameCursor, Cursor
  <2> QED
    BY <2>1, <2>2
<1>5. CASE /\ ~c.ended /\ quit
           /\ IF m.held < 1 THEN Later(m, c, 1) ELSE FireExited(v, m, c)
  <2>1. CASE m.held < 1
    BY <1>5, <2>1, LaterHeld DEF EvaluatesTo, Unreported
  <2>2. CASE ~(m.held < 1)
    <3>1. /\ cursor' = [c EXCEPT !.ended = TRUE, !.repeat = FALSE]
          /\ memory' = [m EXCEPT !.timer = None]
          /\ LET to == {p \in Receivers : ~HeardFrom(p, "ended", v.turn)}
             IN past' = [past EXCEPT !.heardEnd = @ \union to, !.endFor = Receivers]
      BY <1>5, <2>2 DEF FireExited
    <3>2. SameMemory(m)
      BY <3>1 DEF SameMemory, Memory
    <3>3. m.held > 0
      BY <2>2 DEF Memory
    <3>4. /\ SameCursor(v, c) /\ cursor'.finished = c.finished /\ cursor'.reset = c.reset
          /\ cursor'.ended /\ ~cursor'.repeat /\ cursor'.reachedAfter = c.reachedAfter
      BY <3>1 DEF SameCursor, Cursor
    <3> QED
      BY <1>5, <3>1, <3>2, <3>3, <3>4 DEF EvaluatesTo, SaidEnded
  <2> QED
    BY <2>1, <2>2
<1>6. CASE /\ c.ended \/ ~(unreported \/ newBlock \/ quit)
           /\ memory' = [m EXCEPT !.timer = None]
           /\ cursor' = c
           /\ UNCHANGED <<queue, acted, past>>
  <2>1. SameMemory(m)
    BY <1>6 DEF SameMemory, Memory
  <2> QED
    BY <1>6, <2>1 DEF EvaluatesTo, Held, NothingSaid, SameCursor, Unreported
<1> QED
  BY <1>2, <1>3, <1>4, <1>5, <1>6 DEF Evaluate

-----------------------------------------------------------------------------
(* Typing.                                                                 *)

LEMMA FireFinishedTyped ==
  ASSUME Typed, NEW v \in View, NEW m, NEW c, NEW repeat \in BOOLEAN, NEW before,
         FireFinished(v, m, c, repeat, before)
  PROVE  queue' \in [Party -> SUBSET Line] /\ acted' \subseteq Party /\ past' \in Past
<1> DEFINE hearers == {p \in Receivers : ~HeardFrom(p, "finished", v.turn)}
           to == {p \in hearers : told[p] < m.seen \/ told[p] <= c.finished \/ told[p] <= m.heldIdle}
           toldAll == to = {} /\ hearers # {}
           wakes == {o \in past.owed : v.turn > o}
           late == {o \in past.late : v.turn > o}
           ls == [p \in Party |-> IF p \in to THEN Append(past.lines[p], v.turn) ELSE past.lines[p]]
           ow == IF toldAll THEN past.owed ELSE past.owed \ wakes
           hi == past.hidden \/ (\E p \in hearers \ to : told[p] < v.turn)
           la == IF toldAll THEN past.late ELSE past.late \ late
           ro == past.rode \/ (repeat /\ wakes # {} /\ to # {})
           rl == past.rodeLate \/ (repeat /\ late # {} /\ to # {})
<1>1. past' = [past EXCEPT !.lines = ls, !.owed = ow, !.late = la, !.hidden = hi, !.rode = ro,
                           !.rodeLate = rl]
  BY DEF FireFinished
<1>2. past \in Past /\ v.turn \in Nat
  BY DEF Typed, View
<1>3. ls \in [Party -> Seq(Nat)]
  BY <1>2 DEF Past
<1>4. /\ ow \in SUBSET Nat /\ la \in SUBSET Nat
      /\ hi \in BOOLEAN /\ ro \in BOOLEAN /\ rl \in BOOLEAN
  BY <1>2 DEF Past
<1> HIDE DEF ls, ow, la, hi, ro, rl
<1>5. past' \in Past
  BY <1>1, <1>2, <1>3, <1>4 DEF Past
<1>6. acted' \subseteq Party
  BY DEF FireFinished, Typed, TypeOK
<1>7. queue' = QueuedTo(to, [kind |-> "finished", ride |-> repeat])
  BY DEF FireFinished
<1>8. [kind |-> "finished", ride |-> repeat] \in Line
  BY DEF Line
<1> HIDE DEF to
<1>9. queue' \in [Party -> SUBSET Line]
  BY <1>7, <1>8, QueuedToTyped DEF Typed, TypeOK
<1> QED
  BY <1>5, <1>6, <1>9

LEMMA FireBlockedTyped ==
  ASSUME Typed, NEW v \in View, NEW m, NEW c, FireBlocked(v, m, c)
  PROVE  queue' \in [Party -> SUBSET Line] /\ acted' \subseteq Party /\ past' \in Past
<1>1. PICK to : queue' = QueuedTo(to, [kind |-> "blocked", ride |-> FALSE])
  BY DEF FireBlocked
<1>2. [kind |-> "blocked", ride |-> FALSE] \in Line
  BY DEF Line
<1>3. queue' \in [Party -> SUBSET Line]
  BY <1>1, <1>2, QueuedToTyped DEF Typed, TypeOK
<1> QED
  BY <1>3 DEF FireBlocked, Typed, TypeOK

LEMMA HeardEndTyped ==
  ASSUME past \in Past, NEW heard \in SUBSET Party, NEW for \in SUBSET Party
  PROVE  [past EXCEPT !.heardEnd = @ \union heard, !.endFor = for] \in Past
BY DEF Past

LEMMA FireExitedTyped ==
  ASSUME Typed, NEW v \in View, NEW m, NEW c, FireExited(v, m, c)
  PROVE  queue' \in [Party -> SUBSET Line] /\ acted' \subseteq Party /\ past' \in Past
<1> DEFINE to == {p \in Receivers : ~HeardFrom(p, "ended", v.turn)}
<1>1. /\ queue' = QueuedTo(to, EndLine)
      /\ past' = [past EXCEPT !.heardEnd = @ \union to, !.endFor = Receivers]
  BY DEF FireExited
<1>2. to \in SUBSET Party /\ Receivers \in SUBSET Party /\ EndLine \in Line
  BY ReceiversIn DEF EndLine, Line
<1> HIDE DEF to
<1>3. queue' \in [Party -> SUBSET Line]
  BY <1>1, <1>2, QueuedToTyped DEF Typed, TypeOK
<1>4. past' \in Past
  BY <1>1, <1>2, HeardEndTyped DEF Typed
<1> QED
  BY <1>3, <1>4 DEF FireExited, Typed, TypeOK

LEMMA EvaluateTyped ==
  ASSUME Typed, NEW v \in View, NEW m \in Memory, NEW c \in Cursor, Evaluate(v, m, c)
  PROVE  queue' \in [Party -> SUBSET Line] /\ acted' \subseteq Party /\ past' \in Past
<1> DEFINE beforeReach == c.reachedAfter # 0 /\ v.turn <= c.reachedAfter
           c1 == IF beforeReach THEN c ELSE [c EXCEPT !.reachedAfter = 0, !.before = FALSE]
           again == IF beforeReach THEN c1.before ELSE c1.repeat
           anew == again /\ acted \intersect Receivers # {}
           c2 == IF anew THEN [c1 EXCEPT !.repeat = FALSE] ELSE c1
           repeat == again /\ ~anew
<1>1. repeat \in BOOLEAN
  OBVIOUS
<1> HIDE DEF repeat, c2, beforeReach
<1>2. CASE UNCHANGED <<queue, acted, past>>
  BY <1>2 DEF Typed, TypeOK
<1>3. CASE \E due \in {1, 2} : FireFinished(v, m, c2, repeat, beforeReach)
  BY <1>1, <1>3, FireFinishedTyped
<1>4. CASE FireBlocked(v, m, c)
  BY <1>4, FireBlockedTyped
<1>5. CASE FireExited(v, m, c)
  BY <1>5, FireExitedTyped
<1>6. \/ UNCHANGED <<queue, acted, past>>
      \/ \E due \in {1, 2} : FireFinished(v, m, c2, repeat, beforeReach)
      \/ FireBlocked(v, m, c)
      \/ FireExited(v, m, c)
  BY DEF Evaluate, Later, repeat, c2, beforeReach
<1> QED
  BY <1>2, <1>3, <1>4, <1>5, <1>6

LEMMA SpendTyped ==
  ASSUME left \in [Kind -> Nat], NEW kind \in Kind, Spend(kind)
  PROVE  left' \in [Kind -> Nat]
BY DEF Spend

LEMMA SightingTyped ==
  ASSUME TypeOK
  PROVE  Sighting \in View
BY DEF TypeOK, Sighting, View, Agent, ViewState

LEMMA SaysTyped ==
  ASSUME Typed, NEW p \in Party, NEW w \in Wait, Says(p, w)
  PROVE  /\ wait' \in [Party -> Wait \union {None}]
         /\ queue' \in [Party -> SUBSET Line]
         /\ past' \in Past
<1>1. [kind |-> "wait", ride |-> FALSE] \in Line
  BY DEF Line
<1>2. Queued(queue[p], [kind |-> "wait", ride |-> FALSE]) \in SUBSET Line
  BY <1>1, QueuedTyped DEF Typed, TypeOK
<1>3. wait' = [wait EXCEPT ![p] = w]
      /\ queue' = [queue EXCEPT ![p] = Queued(queue[p], [kind |-> "wait", ride |-> FALSE])]
  BY DEF Says, Typed, TypeOK
<1>4. \E heard \in SUBSET Party : past' = [past EXCEPT !.heardEnd = heard]
  BY DEF Says, Typed, Past
<1>5. past' \in Past
  BY <1>4 DEF Typed, Past
<1> QED
  BY <1>2, <1>3, <1>5 DEF Typed, TypeOK

LEMMA VerdictIs ==
  ASSUME NEW w
  PROVE  Verdict(w) \in {"until", "gone", "timeout"}
BY DEF Verdict

LEMMA PassedTyped ==
  ASSUME NEW w \in Wait \union {None}
  PROVE  Passed(w) \in Wait \union {None}
BY DEF Passed, Wait

-----------------------------------------------------------------------------
(* An evaluation keeps the invariant: v is what is in view after it, m and  *)
(* c are the memory and the cursor it works on.                            *)

ClockLeadsOf(v, c) ==
  /\ v.turn <= agent.turn
  /\ agent.state = "idle" /\ v.turn = agent.turn /\ v.turn > 0 => v.state = "idle"
  /\ c.gen <= agent.gen /\ c.reachedAfter <= agent.turn /\ c.finished <= agent.turn
  /\ v.state = "idle" => c.reachedAfter <= v.turn /\ c.finished <= v.turn
  /\ \A o \in past.owed : o <= agent.turn /\ (v.state = "idle" => o <= v.turn)

LinesUpTo(c) ==
  \A p \in Party : \A i \in DOMAIN past.lines[p] :
    /\ past.lines[p][i] \in past.real
    /\ \A j \in 1..(i - 1) : past.lines[p][j] < past.lines[p][i]
    /\ past.lines[p][i] <= c.finished

IdlesAreRealOf(v, m, c) ==
  /\ agent.state = "idle" /\ agent.turn > c.finished /\ agent.turn \notin past.real =>
       \/ c.reset \/ c.ended
       \/ c.gen # agent.gen /\ m.known
  /\ v.state = "idle" /\ v.turn > c.finished /\ ~c.reset => v.turn \in past.real
  /\ v.state = "idle" /\ v.turn > c.finished /\ (c.reset \/ v.own) => v.turn = agent.turn

WakeIsOwedOf(v, c) ==
  \A o \in past.owed :
    /\ ~c.repeat
    /\ c.reachedAfter <= o \/ ~c.before
    /\ agent.state = "idle" /\ agent.turn = o /\ o > c.finished => c.reachedAfter = o
    /\ v.state = "idle" /\ v.turn = o /\ o > c.finished => c.reachedAfter = o

Fits(v, m, c) ==
  /\ v \in View /\ m \in Memory /\ c \in Cursor
  /\ view' = v /\ agent' = agent /\ lane = "open" /\ lane' = lane /\ outbox' = outbox
  /\ Typed /\ Typed' /\ outbox = None
  /\ c.ended => v.state = "unknown"
  /\ ~past.rode
  /\ ClockLeadsOf(v, c) /\ LinesUpTo(c) /\ IdlesAreRealOf(v, m, c) /\ WakeIsOwedOf(v, c)
  /\ EvaluatesTo(v, m, c) /\ SameMemory(m)

LEMMA FitsTypes ==
  ASSUME NEW v, NEW m, NEW c, Fits(v, m, c)
  PROVE  /\ v.turn \in Nat /\ v.gen \in Nat /\ agent.turn \in Nat /\ agent.gen \in Nat
         /\ c.finished \in Nat /\ c.reachedAfter \in Nat /\ c.gen \in Nat
         /\ past \in Past /\ past.owed \subseteq Nat
         /\ \A p \in Party : past.lines[p] \in Seq(Nat)
         /\ cursor' # None /\ memory' # None
<1>1. v \in View /\ c \in Cursor /\ agent \in Agent /\ past \in Past
  BY DEF Fits, Typed, TypeOK
<1>2. /\ v.turn \in Nat /\ v.gen \in Nat /\ agent.turn \in Nat /\ agent.gen \in Nat
      /\ c.finished \in Nat /\ c.reachedAfter \in Nat /\ c.gen \in Nat
  BY <1>1 DEF View, Cursor, Agent
<1>3. past.owed \subseteq Nat /\ \A p \in Party : past.lines[p] \in Seq(Nat)
  BY <1>1 DEF Past
<1>4. cursor' \in Cursor /\ memory' \in Memory
  BY DEF Fits, EvaluatesTo, Absorbed, Held, SaidBlocked, SaidEnded, SaidFinished, SameCursor,
         SameMemory
<1> QED
  BY <1>1, <1>2, <1>3, <1>4, NoneAssumption DEF NoneAssumption

(* What an evaluation does to what the history says, but for the news.     *)
LEMMA UnlessTold ==
  ASSUME NEW v, NEW m, NEW c, Fits(v, m, c), ~SaidFinished(v, c)
  PROVE  /\ past'.lines = past.lines /\ past'.real = past.real /\ past'.owed = past.owed
         /\ past'.rode = past.rode
         /\ cursor'.repeat => c.repeat
         /\ cursor'.finished >= c.finished
<1>1. past \in Past /\ v.turn \in Nat /\ c.finished \in Nat
  BY FitsTypes
<1>2. CASE Absorbed(v, c) \/ Held(v, c) \/ SaidBlocked(v, c)
  BY <1>1, <1>2 DEF Absorbed, Held, SaidBlocked, NothingSaid, Unreported
<1>3. CASE SaidEnded(v, m, c)
  <2>1. PICK heard : past' = [past EXCEPT !.heardEnd = heard, !.endFor = Receivers]
    BY <1>3 DEF SaidEnded
  <2> QED
    BY <1>1, <1>3, <2>1 DEF SaidEnded, Past
<1> QED
  BY <1>2, <1>3 DEF Fits, EvaluatesTo

LEMMA EvaluateStands ==
  ASSUME NEW v, NEW m, NEW c, Fits(v, m, c)
  PROVE  Standing'
<1>1. cursor' # None /\ memory' # None
  BY FitsTypes
<1>2. cursor'.ended => v.state = "unknown"
  BY DEF Fits, EvaluatesTo, Absorbed, Held, SaidBlocked, SaidEnded, SaidFinished, Unreported
<1> QED
  BY <1>1, <1>2 DEF Fits, Standing

LEMMA EvaluateClock ==
  ASSUME NEW v, NEW m, NEW c, Fits(v, m, c)
  PROVE  ClockLeads'
<1>1. /\ cursor'.gen = c.gen /\ cursor'.reachedAfter \in {0, c.reachedAfter}
      /\ cursor'.finished \in {c.finished, v.turn}
  BY DEF Fits, EvaluatesTo, Absorbed, Held, SaidBlocked, SaidEnded, SaidFinished, SameCursor
<1>2. past'.owed \subseteq past.owed
  <2>1. CASE SaidFinished(v, c)
    BY <2>1 DEF SaidFinished
  <2> QED
    BY <2>1, UnlessTold
<1> QED
  BY <1>1, <1>2, FitsTypes DEF ClockLeads, ClockLeadsOf, Fits

LEMMA EvaluateOrders ==
  ASSUME NEW v, NEW m, NEW c, Fits(v, m, c)
  PROVE  LinesInOrder'
<1>0. LinesUpTo(c)
  BY DEF Fits
<1>1. CASE SaidFinished(v, c)
  <2>1. PICK to \in SUBSET Party :
          \A p \in Party : past'.lines[p] = IF p \in to THEN Append(past.lines[p], v.turn)
                                                        ELSE past.lines[p]
    BY <1>1 DEF SaidFinished
  <2>2. v.turn > c.finished /\ v.turn \in past.real /\ past'.real = past.real
        /\ cursor'.finished = v.turn
    BY <1>1 DEF SaidFinished, Unreported, Fits, IdlesAreRealOf
  <2> SUFFICES ASSUME NEW p \in Party, NEW i \in DOMAIN past'.lines[p]
               PROVE  /\ past'.lines[p][i] \in past.real
                      /\ \A j \in 1..(i - 1) : past'.lines[p][j] < past'.lines[p][i]
                      /\ past'.lines[p][i] <= v.turn
    BY <2>2 DEF LinesInOrder
  <2> DEFINE s == past.lines[p]
  <2>3. /\ s \in Seq(Nat) /\ v.turn \in Nat /\ c.finished \in Nat
        /\ \A k \in 1..Len(s) : /\ s[k] \in past.real /\ s[k] <= c.finished
                                /\ \A j \in 1..(k - 1) : s[j] < s[k]
    BY <1>0, FitsTypes DEF LinesUpTo
  <2> HIDE DEF s
  <2>4. CASE past'.lines[p] = s
    BY <2>2, <2>3, <2>4
  <2>5. CASE past'.lines[p] = Append(s, v.turn)
    <3>1. i \in 1..(Len(s) + 1)
      BY <2>3, <2>5
    <3>2. CASE i = Len(s) + 1
      BY <2>2, <2>3, <2>5, <3>2
    <3>3. CASE i \in 1..Len(s)
      <4>1. past'.lines[p][i] = s[i] /\ \A j \in 1..(i - 1) : past'.lines[p][j] = s[j]
        BY <2>3, <2>5, <3>3
      <4> QED
        BY <2>2, <2>3, <3>3, <4>1
    <3> QED
      BY <2>3, <3>1, <3>2, <3>3
  <2> QED
    BY <2>1, <2>4, <2>5 DEF s
<1>2. CASE ~SaidFinished(v, c)
  <2>1. /\ past'.lines = past.lines /\ past'.real = past.real
        /\ cursor'.finished >= c.finished
    BY <1>2, UnlessTold
  <2>2. cursor'.finished \in Nat
    BY DEF Fits, EvaluatesTo, Absorbed, Held, SaidBlocked, SaidEnded, SaidFinished, SameCursor,
           Cursor
  <2>3. \A p \in Party : \A i \in DOMAIN past.lines[p] : past.lines[p][i] <= cursor'.finished
    BY <1>0, <2>1, <2>2, FitsTypes DEF LinesUpTo
  <2> QED
    BY <1>0, <2>1, <2>3 DEF LinesUpTo, LinesInOrder
<1> QED
  BY <1>1, <1>2

LEMMA EvaluateReal ==
  ASSUME NEW v, NEW m, NEW c, Fits(v, m, c)
  PROVE  IdlesAreReal'
<1>1. /\ past'.real = past.real /\ agent' = agent /\ view' = v /\ cursor'.gen = c.gen
      /\ memory'.known = m.known /\ memory' # None
  <2>1. past'.real = past.real
    BY UnlessTold DEF SaidFinished
  <2> QED
    BY <2>1, FitsTypes
    DEF Fits, SameMemory, EvaluatesTo, Absorbed, Held, SaidBlocked, SaidEnded, SaidFinished,
        SameCursor
<1>2. IdlesAreRealOf(v, m, c) /\ v.turn \in Nat /\ agent.turn \in Nat /\ c.finished \in Nat
  BY FitsTypes DEF Fits
<1>3. CASE Absorbed(v, c)
  <2>1. v.turn = agent.turn \/ ~(c.reset \/ v.own)
    BY <1>2, <1>3 DEF Absorbed, Unreported, IdlesAreRealOf
  <2>2. cursor'.finished = v.turn /\ ~cursor'.reset /\ cursor'.ended = FALSE
    BY <1>3 DEF Absorbed
  <2>3. CASE v.turn = agent.turn
    BY <1>1, <1>2, <2>2, <2>3 DEF IdlesAreReal
  <2>4. CASE ~(c.reset \/ v.own)
    BY <1>1, <1>2, <1>3, <2>2, <2>4
    DEF IdlesAreReal, IdlesAreRealOf, Absorbs, Absorbed, Unreported
  <2> QED
    BY <2>1, <2>3, <2>4
<1>4. CASE Held(v, c) \/ SaidBlocked(v, c) \/ SaidEnded(v, m, c) \/ SaidFinished(v, c)
  <2>1. /\ cursor'.finished >= c.finished /\ cursor'.reset = c.reset
        /\ cursor'.finished \in Nat
        /\ c.ended => cursor'.ended
    BY <1>2, <1>4, FitsTypes
    DEF Held, SaidBlocked, SaidEnded, SaidFinished, Unreported, SameCursor, Cursor
  <2>2. v.state = "idle" /\ v.turn > cursor'.finished => ~c.reset /\ ~v.own
    BY <1>2, <1>4 DEF Held, SaidBlocked, SaidEnded, SaidFinished, Unreported, Fits
  <2>3. (agent.state = "idle" /\ agent.turn > cursor'.finished /\ agent.turn \notin past.real) =>
          Absorbs'
    BY <1>1, <1>2, <2>1 DEF IdlesAreRealOf, Absorbs
  <2>4. (v.state = "idle" /\ v.turn > cursor'.finished) => v.turn \in past.real
    BY <1>2, <2>1, <2>2 DEF IdlesAreRealOf
  <2> QED
    BY <1>1, <2>1, <2>2, <2>3, <2>4 DEF IdlesAreReal
<1> QED
  BY <1>3, <1>4 DEF Fits, EvaluatesTo

LEMMA EvaluateWakes ==
  ASSUME NEW v, NEW m, NEW c, Fits(v, m, c)
  PROVE  WakeIsOwed'
<1>1. /\ WakeIsOwedOf(v, c) /\ ClockLeadsOf(v, c) /\ ~past.rode /\ agent' = agent /\ view' = v
  BY DEF Fits
<1>2. /\ v.turn \in Nat /\ agent.turn \in Nat /\ c.finished \in Nat /\ c.reachedAfter \in Nat
      /\ past.owed \subseteq Nat
  BY FitsTypes
<1>3. /\ cursor'.finished \in Nat /\ cursor'.finished >= c.finished
      /\ \/ cursor'.reachedAfter = c.reachedAfter /\ cursor'.before = c.before
         \/ cursor'.reachedAfter = 0 /\ v.turn > c.reachedAfter
  BY <1>2 DEF Fits, EvaluatesTo, Absorbed, Held, SaidBlocked, SaidEnded, SaidFinished, SameCursor,
     Cursor, Unreported
(* The cursor still names the idle that was held: v is not past it.        *)
<1>4. ASSUME NEW o \in past.owed
      PROVE  /\ cursor'.reachedAfter <= o \/ ~cursor'.before
             /\ agent.state = "idle" /\ agent.turn = o /\ o > cursor'.finished =>
                  cursor'.reachedAfter = o
             /\ v.state = "idle" /\ v.turn = o /\ o > cursor'.finished =>
                  cursor'.reachedAfter = o
  <2>1. o \in Nat /\ (c.reachedAfter <= o \/ ~c.before) /\ v.turn <= agent.turn
    BY <1>1, <1>2 DEF WakeIsOwedOf, ClockLeadsOf
  <2>2. (agent.state = "idle" /\ agent.turn = o /\ o > c.finished) => c.reachedAfter = o
    BY <1>1 DEF WakeIsOwedOf
  <2>3. (v.state = "idle" /\ v.turn = o /\ o > c.finished) => c.reachedAfter = o
    BY <1>1 DEF WakeIsOwedOf
  <2> QED
    BY <1>2, <1>3, <2>1, <2>2, <2>3
<1>5. CASE SaidFinished(v, c)
  <2>1. PICK toldAll \in BOOLEAN :
          /\ cursor'.repeat => c.repeat \/ ~(toldAll \/ Reaches(v, c))
          /\ past'.owed = IF toldAll THEN past.owed ELSE {o \in past.owed : ~(v.turn > o)}
          /\ past'.rode => past.rode \/ \E o \in past.owed : v.turn > o /\ (ReachesAgain(v, c) \/ c.repeat)
    BY <1>5 DEF SaidFinished
  <2>2. \A o \in past.owed : ~c.repeat /\ (c.reachedAfter <= o \/ ~c.before)
    BY <1>1 DEF WakeIsOwedOf
  <2>3. ~past'.rode
    <3>1. \A o \in past.owed : ~(v.turn > o /\ (ReachesAgain(v, c) \/ c.repeat))
      BY <1>2, <2>2 DEF Reaches, ReachesAgain
    <3> QED
      BY <1>1, <2>1, <3>1
  <2>4. ASSUME NEW o \in past'.owed
        PROVE  ~cursor'.repeat
    <3>1. o \in past.owed /\ o \in Nat
      BY <1>2, <2>1
    <3>2. CASE toldAll \/ Reaches(v, c)
      BY <2>1, <2>2, <3>1, <3>2
    <3>3. CASE ~toldAll /\ ~Reaches(v, c)
      <4>1. v.state = "idle" /\ v.turn > c.finished
        BY <1>5 DEF SaidFinished, Unreported
      <4>2. o <= v.turn
        BY <1>1, <3>1, <4>1 DEF ClockLeadsOf
      <4>3. v.turn = o
        BY <1>2, <2>1, <3>1, <3>3, <4>2
      <4>4. c.reachedAfter = o
        BY <1>1, <3>1, <4>1, <4>3 DEF WakeIsOwedOf
      <4> QED
        BY <1>2, <3>3, <4>1, <4>3, <4>4 DEF Reaches
    <3> QED
      BY <2>1, <3>2, <3>3
  <2>5. past'.owed \subseteq past.owed
    BY <2>1
  <2> QED
    BY <1>1, <1>4, <2>3, <2>4, <2>5 DEF WakeIsOwed
<1>6. CASE ~SaidFinished(v, c)
  <2>1. past'.owed = past.owed /\ past'.rode = past.rode /\ (cursor'.repeat => c.repeat)
    BY <1>6, UnlessTold
  <2>2. \A o \in past.owed : ~c.repeat
    BY <1>1 DEF WakeIsOwedOf
  <2> QED
    BY <1>1, <1>4, <2>1, <2>2 DEF WakeIsOwed
<1> QED
  BY <1>5, <1>6

(* The waits are the same, whatever they were seen to fire on.             *)
SameWaits ==
  \A p \in Party : /\ wait'[p] # None <=> wait[p] # None
                   /\ wait[p] # None => /\ wait'[p].state = wait[p].state
                                        /\ wait'[p].until = wait[p].until
                                        /\ wait'[p].outcome = wait[p].outcome

LEMMA PassedIs ==
  ASSUME TypeOK
  PROVE  \A p \in Party :
           /\ Passed(wait[p]) # None <=> wait[p] # None
           /\ wait[p] # None => /\ Passed(wait[p]).state = wait[p].state
                                /\ Passed(wait[p]).until = wait[p].until
                                /\ Passed(wait[p]).outcome = wait[p].outcome
<1> SUFFICES ASSUME NEW p \in Party
             PROVE  /\ Passed(wait[p]) # None <=> wait[p] # None
                    /\ wait[p] # None => /\ Passed(wait[p]).state = wait[p].state
                                         /\ Passed(wait[p]).until = wait[p].until
                                         /\ Passed(wait[p]).outcome = wait[p].outcome
  OBVIOUS
<1>1. CASE wait[p] = None
  BY <1>1 DEF Passed
<1>2. CASE wait[p] # None
  <2>1. wait[p] \in Wait
    BY <1>2 DEF TypeOK
  <2>2. Passed(wait[p]) = [wait[p] EXCEPT !.onIt = FALSE]
    BY <1>2 DEF Passed
  <2>3. Passed(wait[p]) \in Wait
    BY <2>1, <2>2 DEF Wait
  <2> QED
    BY <1>2, <2>1, <2>2, <2>3, NoneAssumption DEF NoneAssumption, Wait
<1> QED
  BY <1>1, <1>2

LEMMA SameWaitsArmed ==
  ASSUME SameWaits
  PROVE  \A p \in Party : Armed(p)' <=> Armed(p)
BY DEF SameWaits, Armed

(* Who does not get the ended line was told by a wait before.              *)
LEMMA EvaluateTells ==
  ASSUME NEW v, NEW m, NEW c, Fits(v, m, c), WaitsHear, EndGoesOut, SameWaits,
         gone' = gone,
         c.ended => cursor # None /\ cursor.ended,
         v.state = "unknown" /\ AgentGone /\ m.held > 0 => \A p \in Party : ~Armed(p)
  PROVE  WaitsHear' /\ EndGoesOut'
<1>1. \A p \in Party : Armed(p)' <=> Armed(p)
  BY SameWaitsArmed
<1>2. lane = "open" /\ lane' = lane /\ outbox' = outbox /\ outbox = None /\ agent' = agent
      /\ view' = v /\ past.ender = None /\ past \in Past
  BY DEF Fits, EndGoesOut, Typed
<1>3. memory'.held = m.held /\ memory' # None /\ m.held \in Nat
  BY FitsTypes DEF Fits, SameMemory, Memory
<1>4. (\A p \in past.heardEnd : p \in past'.heardEnd) /\ past'.ender = None
  <2>1. CASE SaidEnded(v, m, c)
    <3>1. PICK heard : past' = [past EXCEPT !.heardEnd = @ \union heard, !.endFor = Receivers]
      BY <2>1 DEF SaidEnded
    <3> QED
      BY <1>2, <3>1 DEF Past
  <2>2. CASE past' = past \/ SaidFinished(v, c)
    BY <1>2, <2>2 DEF SaidFinished
  <2> QED
    BY <2>1, <2>2 DEF Fits, EvaluatesTo, Absorbed, Held, SaidBlocked, NothingSaid
<1>5. WaitsHear'
  <2>1. \A p \in Party : wait'[p] # None /\ wait'[p].state = "fired" /\ TellsEnd(wait'[p]) =>
                           p \in past'.heardEnd
    BY <1>4 DEF WaitsHear, SameWaits, TellsEnd
  <2>2. lane' = "open" /\ Stood' /\ view'.state = "unknown" /\ AgentGone' =>
          \A p \in Party : ~Armed(p)'
    BY <1>1, <1>2, <1>3 DEF Stood, AgentGone
  <2> QED
    BY <2>1, <2>2 DEF WaitsHear
<1>6. ASSUME cursor'.ended, NEW p \in past'.endFor \ (gone \union past'.declined)
      PROVE  p \in past'.heardEnd
  <2>1. CASE SaidEnded(v, m, c)
    <3> DEFINE to == {q \in Receivers : ~HeardFrom(q, "ended", v.turn)}
    <3>1. /\ past' = [past EXCEPT !.heardEnd = @ \union to, !.endFor = Receivers]
          /\ v.state = "unknown" /\ AgentGone /\ m.held > 0
      BY <2>1 DEF SaidEnded
    <3>2. past'.heardEnd = past.heardEnd \union to /\ past'.endFor = Receivers
      BY <1>2, <3>1 DEF Past
    <3>3. p \in Party /\ ~Armed(p)
      BY <1>6, <3>1, <3>2, ReceiversIn
    <3>4. CASE HeardFrom(p, "ended", v.turn)
      <4>1. wait[p] # None /\ wait[p].state = "fired" /\ TellsEnd(wait[p])
        BY <3>3, <3>4 DEF HeardFrom, TellsEnd, Armed
      <4> QED
        BY <1>4, <3>3, <4>1 DEF WaitsHear
    <3> QED
      BY <1>6, <3>2, <3>4
  <2>2. CASE ~SaidEnded(v, m, c)
    <3>1. /\ past'.endFor = past.endFor /\ past'.declined = past.declined
          /\ c.ended
      BY <1>6, <2>2 DEF Fits, EvaluatesTo, Absorbed, Held, SaidBlocked, SaidFinished, NothingSaid,
         Unreported
    <3>2. p \in past.heardEnd
      <4>1. p \in past.endFor /\ p \notin gone \union past.declined /\ cursor # None /\ cursor.ended
        BY <1>6, <3>1
      <4>2. p \in Party /\ p # None
        BY <1>2, <4>1, NoneAssumption DEF Past, NoneAssumption
      <4> QED
        BY <1>2, <4>1, <4>2 DEF EndGoesOut
    <3> QED
      BY <1>4, <3>2
  <2> QED
    BY <2>1, <2>2
<1>7. EndGoesOut'
  BY <1>2, <1>4, <1>6 DEF EndGoesOut
<1> QED
  BY <1>5, <1>7

LEMMA FitsKeeps ==
  ASSUME NEW v, NEW m, NEW c, Fits(v, m, c), WaitsHear, EndGoesOut, SameWaits,
         gone' = gone,
         c.ended => cursor # None /\ cursor.ended,
         v.state = "unknown" /\ AgentGone /\ m.held > 0 => \A p \in Party : ~Armed(p)
  PROVE  LInv'
BY EvaluateStands, EvaluateClock, EvaluateOrders, EvaluateReal, EvaluateWakes, EvaluateTells
DEF LInv, Fits

-----------------------------------------------------------------------------
(* The reporter's steps.                                                   *)

LEMMA SightingIs ==
  ASSUME TypeOK
  PROVE  /\ Sighting.gen = agent.gen /\ Sighting.own = agent.own
         /\ agent.state = "exited" => Sighting.state = "unknown" /\ Sighting.turn = view.turn
         /\ agent.state # "exited" => Sighting.state = agent.state /\ Sighting.turn = agent.turn
         /\ agent.state \in {"idle", "working", "blocked", "exited"}
         /\ agent.turn \in Nat /\ agent.gen \in Nat /\ view.turn \in Nat
BY DEF TypeOK, Sighting, Agent, View

LEMMA TimerFiresKeeps ==
  ASSUME LInv, TimerFires
  PROVE  LInv'
<1>1. Typed /\ TypeOK /\ lane = "open" /\ memory # None /\ cursor # None
  BY DEF LInv, Typed, TimerFires, Standing
<1>2. view \in View /\ memory \in Memory /\ cursor \in Cursor
  BY <1>1 DEF TypeOK
<1>3. EvaluatesTo(view, memory, cursor) /\ SameMemory(memory)
  BY <1>1, <1>2, EvaluateIs DEF TimerFires
<1>4. queue' \in [Party -> SUBSET Line] /\ acted' \subseteq Party /\ past' \in Past
  BY <1>1, <1>2, EvaluateTyped DEF TimerFires
<1>5. Typed'
  <2>1. cursor' \in Cursor /\ memory' \in Memory
    BY <1>3 DEF EvaluatesTo, Absorbed, Held, SaidBlocked, SaidEnded, SaidFinished, SameCursor,
       SameMemory
  <2> QED
    BY <1>1, <1>4, <2>1 DEF Typed, TypeOK, TimerFires
<1>6. Fits(view, memory, cursor)
  <2>1. ClockLeadsOf(view, cursor) /\ LinesUpTo(cursor) /\ WakeIsOwedOf(view, cursor) /\ ~past.rode
    BY <1>1 DEF LInv, ClockLeads, ClockLeadsOf, LinesInOrder, LinesUpTo, WakeIsOwed, WakeIsOwedOf
  <2>2. IdlesAreRealOf(view, memory, cursor)
    BY <1>1 DEF LInv, IdlesAreReal, IdlesAreRealOf, Absorbs
  <2> QED
    BY <1>1, <1>2, <1>3, <1>5, <2>1, <2>2 DEF Fits, LInv, Standing, TimerFires
<1>7. SameWaits /\ gone' = gone
  BY DEF SameWaits, TimerFires
<1>8. view.state = "unknown" /\ AgentGone /\ memory.held > 0 => \A p \in Party : ~Armed(p)
  BY <1>1 DEF LInv, WaitsHear, Stood
<1> QED
  BY <1>1, <1>6, <1>7, <1>8, FitsKeeps DEF LInv

LEMMA PollEvaluates ==
  ASSUME LInv, Poll, Evaluate(Sighting, Remembered(Sighting), Recorded(Sighting))
  PROVE  LInv'
<1> DEFINE v == Sighting
           m == Remembered(Sighting)
           c == Recorded(Sighting)
<1>1. Typed /\ TypeOK /\ lane = "open" /\ cursor # None
  BY DEF LInv, Typed, Poll, Standing
<1>2. v \in View
  BY <1>1, SightingTyped
<1>3. /\ m \in Memory
      /\ (memory # None /\ memory.known) \/ v.state # "unknown" => m.known
      /\ m.held # 0 => Stood /\ view.state = v.state
  BY <1>1, <1>2, RememberedIs
<1>4. /\ c \in Cursor
      /\ ~c.ended /\ c.gen = v.gen
      /\ c.finished = cursor.finished
      /\ c.reachedAfter = cursor.reachedAfter /\ c.before = cursor.before
      /\ c.repeat => cursor.repeat
      /\ /\ v.state \notin {"working", "blocked"}
         /\ \/ cursor.reset \/ cursor.ended
            \/ cursor.gen # v.gen /\ (memory = None \/ memory.known)
         => c.reset
  BY <1>1, <1>2, RecordedIs
<1>5. /\ v.gen = agent.gen
      /\ agent.state = "exited" => v.state = "unknown" /\ v.turn = view.turn
      /\ agent.state # "exited" => v.state = agent.state /\ v.turn = agent.turn
      /\ agent.turn \in Nat /\ agent.gen \in Nat /\ view.turn \in Nat
  BY <1>1, SightingIs
<1>6. Evaluate(v, m, c)
  OBVIOUS
<1>7. view' = v
  BY DEF Poll
<1> HIDE DEF v, m, c
<1>8. EvaluatesTo(v, m, c) /\ SameMemory(m)
  BY <1>1, <1>2, <1>3, <1>4, <1>6, EvaluateIs
<1>9. SameWaits /\ gone' = gone
  <2>1. CASE wait' = wait
    BY <2>1 DEF SameWaits, Poll
  <2>2. CASE wait' = [p \in Party |-> Passed(wait[p])]
    BY <1>1, <2>2, PassedIs DEF SameWaits, Poll
  <2> QED
    BY <2>1, <2>2 DEF Poll
<1>10. Typed'
  <2>1. cursor' \in Cursor /\ memory' \in Memory
    BY <1>8 DEF EvaluatesTo, Absorbed, Held, SaidBlocked, SaidEnded, SaidFinished, SameCursor,
       SameMemory
  <2>2. queue' \in [Party -> SUBSET Line] /\ acted' \subseteq Party /\ past' \in Past
    BY <1>1, <1>2, <1>3, <1>4, <1>6, EvaluateTyped
  <2>3. wait' \in [Party -> Wait \union {None}]
    BY <1>1, PassedTyped DEF Poll, TypeOK
  <2> QED
    BY <1>1, <1>2, <1>7, <2>1, <2>2, <2>3 DEF Typed, TypeOK, Poll
<1>11. Fits(v, m, c)
  <2>1. ClockLeadsOf(v, c)
    BY <1>1, <1>4, <1>5 DEF LInv, ClockLeads, ClockLeadsOf
  <2>2. LinesUpTo(c)
    BY <1>1, <1>4 DEF LInv, LinesInOrder, LinesUpTo
  <2>3. IdlesAreRealOf(v, m, c)
    <3>1. ASSUME agent.state = "idle", agent.turn > c.finished, agent.turn \notin past.real
          PROVE  c.reset
      <4>1. Absorbs
        BY <1>1, <1>4, <3>1 DEF LInv, IdlesAreReal
      <4> QED
        BY <1>4, <1>5, <3>1, <4>1 DEF Absorbs
    <3>2. v.state = "idle" => agent.state = "idle" /\ v.turn = agent.turn
      BY <1>1, <1>5, SightingIs DEF v
    <3> QED
      BY <3>1, <3>2 DEF IdlesAreRealOf
  <2>4. WakeIsOwedOf(v, c) /\ ~past.rode
    BY <1>1, <1>4, <1>5 DEF LInv, WakeIsOwed, WakeIsOwedOf
  <2> QED
    BY <1>1, <1>2, <1>3, <1>4, <1>7, <1>8, <1>10, <2>1, <2>2, <2>3, <2>4
    DEF Fits, LInv, Standing, Poll
<1>12. v.state = "unknown" /\ AgentGone /\ m.held > 0 => \A p \in Party : ~Armed(p)
  BY <1>1, <1>3 DEF LInv, WaitsHear, Memory
<1> QED
  BY <1>4, <1>9, <1>11, <1>12, FitsKeeps DEF LInv

LEMMA PollSkips ==
  ASSUME LInv, Poll, cursor.ended, Sighting.state = "unknown" \/ AgentGone,
         UNCHANGED <<memory, cursor, queue, acted, past>>
  PROVE  LInv'
<1>1. Typed /\ TypeOK /\ lane = "open" /\ cursor # None /\ view' = Sighting /\ lane' = lane
      /\ agent' = agent /\ gone' = gone /\ outbox' = outbox
  BY DEF LInv, Typed, Poll, Standing
<1>2. /\ Sighting.state = "unknown" /\ agent.state = "exited" /\ Sighting.turn = view.turn
      /\ view.turn \in Nat /\ view.state = "unknown"
  BY <1>1, SightingIs DEF AgentGone, LInv, Standing
<1>3. wait' \in [Party -> Wait \union {None}]
  BY <1>1, PassedTyped DEF Poll, TypeOK
<1>4. Typed'
  BY <1>1, <1>3, SightingTyped DEF Typed, TypeOK, Poll
<1>5. SameWaits
  <2>1. CASE wait' = wait
    BY <2>1 DEF SameWaits
  <2>2. CASE wait' = [p \in Party |-> Passed(wait[p])]
    BY <1>1, <2>2, PassedIs DEF SameWaits
  <2> QED
    BY <2>1, <2>2 DEF Poll
<1>6. \A p \in Party : Armed(p)' <=> Armed(p)
  BY <1>5, SameWaitsArmed
<1>7. Standing'
  BY <1>1, <1>2 DEF LInv, Standing
<1>8. ClockLeads' /\ LinesInOrder' /\ IdlesAreReal' /\ WakeIsOwed'
  BY <1>1, <1>2
  DEF LInv, ClockLeads, LinesInOrder, IdlesAreReal, Absorbs, WakeIsOwed
<1>9. WaitsHear'
  BY <1>1, <1>2, <1>5, <1>6 DEF LInv, WaitsHear, SameWaits, TellsEnd, Stood, AgentGone
<1>10. EndGoesOut'
  BY <1>1, <1>6 DEF LInv, EndGoesOut
<1> QED
  BY <1>4, <1>7, <1>8, <1>9, <1>10 DEF LInv

LEMMA PollKeeps ==
  ASSUME LInv, Poll
  PROVE  LInv'
BY PollEvaluates, PollSkips DEF Poll, Observe

LEMMA ReachedKeeps ==
  ASSUME LInv, Reached
  PROVE  LInv'
<1>1. Typed /\ TypeOK /\ past \in Past
  BY DEF LInv, Typed
<1>2. acted' \subseteq Party
  BY <1>1 DEF Reached, TypeOK
<1>3. /\ lane' = lane /\ agent' = agent /\ view' = view /\ memory' = memory /\ wait' = wait
      /\ queue' = queue /\ gone' = gone /\ outbox' = outbox
  BY DEF Reached
<1>4. CASE lane = "deleted" \/ cursor = None \/ cursor.ended
  <2>1. cursor' = cursor /\ past' = past
    BY <1>4 DEF Reached
  <2>2. Typed'
    BY <1>1, <1>2, <2>1 DEF Typed, TypeOK, Reached
  <2>3. Standing' /\ ClockLeads' /\ LinesInOrder' /\ IdlesAreReal' /\ WakeIsOwed'
    BY <1>3, <2>1
    DEF LInv, Standing, ClockLeads, LinesInOrder, IdlesAreReal, Absorbs, WakeIsOwed
  <2>4. WaitsHear' /\ EndGoesOut'
    BY <1>3, <2>1 DEF LInv, WaitsHear, EndGoesOut, TellsEnd, Stood, AgentGone, Armed
  <2> QED
    BY <2>2, <2>3, <2>4 DEF LInv
<1>5. CASE ~(lane = "deleted" \/ cursor = None \/ cursor.ended)
  <2> DEFINE held == /\ memory # None /\ view.state = "idle"
                     /\ view.turn > cursor.finished
                     /\ cursor.reachedAfter # view.turn
             b == IF held THEN cursor.repeat ELSE cursor.before
             r == IF held THEN view.turn ELSE cursor.reachedAfter
             owed == IF Noticed THEN past.owed \union {agent.turn} ELSE past.owed
             late == IF Noticed THEN past.late ELSE past.late \union {agent.turn}
  <2>1. /\ cursor' = [cursor EXCEPT !.repeat = FALSE, !.before = b, !.reachedAfter = r]
        /\ past' = [past EXCEPT !.owed = owed, !.late = late]
    <3>1. past' = IF Noticed THEN [past EXCEPT !.owed = @ \union {agent.turn}]
                  ELSE [past EXCEPT !.late = @ \union {agent.turn}]
      BY <1>5 DEF Reached, Owes
    <3>2. past' = [past EXCEPT !.owed = owed, !.late = late]
      BY <1>1, <3>1 DEF Past
    <3> QED
      BY <1>5, <3>2 DEF Reached
  <2>2. cursor \in Cursor /\ lane = "open" /\ cursor # None /\ cursor.ended = FALSE
    BY <1>1, <1>5 DEF TypeOK, Cursor
  <2>3. /\ cursor.reachedAfter \in Nat /\ cursor.finished \in Nat /\ view.turn \in Nat
        /\ agent.turn \in Nat /\ past.owed \in SUBSET Nat /\ past.late \in SUBSET Nat
    BY <1>1, <2>2 DEF TypeOK, Cursor, View, Agent, Past
  <2>4. b \in BOOLEAN /\ r \in Nat /\ owed \in SUBSET Nat /\ late \in SUBSET Nat
    BY <2>2, <2>3 DEF Cursor
  <2>5. /\ cursor.reachedAfter <= agent.turn /\ view.turn <= agent.turn
        /\ cursor.finished <= agent.turn
        /\ view.state = "idle" => cursor.reachedAfter <= view.turn /\ cursor.finished <= view.turn
        /\ agent.state = "idle" /\ view.turn = agent.turn /\ view.turn > 0 => view.state = "idle"
        /\ \A o \in past.owed : o <= agent.turn /\ (view.state = "idle" => o <= view.turn)
    BY <2>2 DEF LInv, ClockLeads
  <2>6. memory = None => view.turn = 0 /\ view.state = "unknown"
    BY DEF LInv, Standing
  <2>7. /\ r <= agent.turn
        /\ view.state = "idle" => r <= view.turn
    BY <2>3, <2>5
(* What was owed before says that a held idle is no repeat, and names it.   *)
  <2>8. ASSUME NEW o \in past.owed
        PROVE  /\ r <= o \/ ~b
               /\ agent.state = "idle" /\ agent.turn = o /\ o > cursor.finished => r = o
               /\ view.state = "idle" /\ view.turn = o /\ o > cursor.finished => r = o
    <3>1. /\ ~cursor.repeat /\ (cursor.reachedAfter <= o \/ ~cursor.before)
          /\ agent.state = "idle" /\ agent.turn = o /\ o > cursor.finished => cursor.reachedAfter = o
          /\ view.state = "idle" /\ view.turn = o /\ o > cursor.finished => cursor.reachedAfter = o
      BY <2>2 DEF LInv, WakeIsOwed
    <3> QED
      BY <2>3, <2>5, <3>1
  <2>9. ASSUME Noticed
        PROVE  /\ view.state = "idle" => agent.turn <= view.turn
               /\ agent.state = "idle" /\ agent.turn > cursor.finished => r = agent.turn
               /\ view.state = "idle" /\ view.turn = agent.turn /\ agent.turn > cursor.finished =>
                    r = agent.turn
    <3>1. \/ agent.turn = view.turn
          \/ agent.turn <= cursor.finished
          \/ agent.turn <= cursor.reachedAfter
      BY <2>9 DEF Noticed
    <3> QED
      BY <2>3, <2>5, <2>6, <3>1
  <2>10. \A o \in owed :
           /\ o <= agent.turn /\ (view.state = "idle" => o <= view.turn)
           /\ r <= o \/ ~b
           /\ agent.state = "idle" /\ agent.turn = o /\ o > cursor.finished => r = o
           /\ view.state = "idle" /\ view.turn = o /\ o > cursor.finished => r = o
    <3>1. \A o \in owed : o \in past.owed \/ (Noticed /\ o = agent.turn)
      OBVIOUS
    <3>2. agent.turn <= agent.turn
      BY <2>3
    <3> HIDE DEF b, r, held
    <3> QED
      BY <2>5, <2>7, <2>8, <2>9, <3>1, <3>2
  <2> HIDE DEF b, r, owed, late, held
  <2>11. /\ cursor' \in Cursor /\ cursor'.repeat = FALSE /\ cursor'.reachedAfter = r
         /\ cursor'.before = b
         /\ cursor'.finished = cursor.finished /\ cursor'.gen = cursor.gen
         /\ cursor'.reset = cursor.reset /\ cursor'.ended = FALSE
    BY <2>1, <2>2, <2>4 DEF Cursor
  <2>12. /\ past' \in Past /\ past'.owed = owed /\ past'.rode = past.rode
         /\ past'.lines = past.lines /\ past'.real = past.real
         /\ past'.heardEnd = past.heardEnd /\ past'.endFor = past.endFor
         /\ past'.declined = past.declined /\ past'.ender = past.ender
    BY <1>1, <2>1, <2>4 DEF Past
  <2>13. cursor' # None
    BY <2>11, NoneAssumption DEF NoneAssumption
  <2>14. Typed'
    BY <1>1, <1>2, <2>11, <2>12 DEF Typed, TypeOK, Reached
  <2>15. Standing'
    BY <1>3, <2>2, <2>11, <2>13 DEF LInv, Standing
  <2>16. ClockLeads'
    BY <1>3, <2>2, <2>5, <2>7, <2>11, <2>10, <2>12 DEF LInv, ClockLeads
  <2>17. LinesInOrder'
    BY <1>3, <2>2, <2>11, <2>12 DEF LInv, LinesInOrder
  <2>18. IdlesAreReal'
    BY <1>3, <2>2, <2>11, <2>12 DEF LInv, IdlesAreReal, Absorbs
  <2>19. WakeIsOwed'
    BY <1>3, <2>2, <2>11, <2>10, <2>12 DEF LInv, WakeIsOwed
  <2>20. WaitsHear'
    BY <1>3, <2>12 DEF LInv, WaitsHear, TellsEnd, Stood, AgentGone, Armed
  <2>21. EndGoesOut'
    BY <1>3, <2>2, <2>11, <2>12 DEF LInv, EndGoesOut, Armed
  <2> QED
    BY <2>14, <2>15, <2>16, <2>17, <2>18, <2>19, <2>20, <2>21 DEF LInv
<1> QED
  BY <1>4, <1>5

-----------------------------------------------------------------------------
(* The agent's steps, and time.                                            *)

Reports == <<view, cursor, memory>>
Ends == <<lane, wait, queue, gone, outbox>>

LEMMA LInvTypes ==
  ASSUME LInv
  PROVE  /\ TypeOK /\ past \in Past /\ agent \in Agent /\ view \in View
         /\ agent.turn \in Nat /\ agent.gen \in Nat /\ view.turn \in Nat
         /\ cursor # None => /\ cursor \in Cursor /\ cursor.finished \in Nat
                             /\ cursor.gen \in Nat /\ cursor.reachedAfter \in Nat
         /\ memory # None => memory \in Memory
         /\ past.owed \subseteq Nat
<1>1. TypeOK /\ past \in Past /\ agent \in Agent /\ view \in View
  BY DEF LInv, Typed, TypeOK
<1>2. (cursor # None => cursor \in Cursor) /\ (memory # None => memory \in Memory)
  BY <1>1 DEF TypeOK
<1>3. agent.turn \in Nat /\ agent.gen \in Nat /\ view.turn \in Nat
  BY <1>1 DEF Agent, View
<1>4. cursor # None => /\ cursor.finished \in Nat
                       /\ cursor.gen \in Nat /\ cursor.reachedAfter \in Nat
  BY <1>2 DEF Cursor
<1>5. past.owed \subseteq Nat
  BY <1>1 DEF Past
<1> QED
  BY <1>1, <1>2, <1>3, <1>4, <1>5

(* Steps that touch nothing the invariant speaks of. *)
LEMMA Untouched ==
  ASSUME LInv, Typed', UNCHANGED <<agent, past>>, UNCHANGED Reports, UNCHANGED Ends
  PROVE  LInv'
<1>1. Standing' /\ ClockLeads' /\ LinesInOrder' /\ IdlesAreReal' /\ WakeIsOwed'
  BY DEF Reports, Ends, LInv, Standing, ClockLeads, LinesInOrder, IdlesAreReal, Absorbs, WakeIsOwed
<1>2. WaitsHear' /\ EndGoesOut'
  BY DEF Reports, Ends, LInv, WaitsHear, EndGoesOut, TellsEnd, Stood, AgentGone, Armed
<1> QED
  BY <1>1, <1>2 DEF LInv

LEMMA AgentWorksKeeps ==
  ASSUME LInv, AgentWorks
  PROVE  LInv'
<1>1. /\ agent' = [agent EXCEPT !.state = "working", !.own = FALSE] /\ agent \in Agent
      /\ UNCHANGED past /\ UNCHANGED Reports /\ UNCHANGED Ends /\ agent.state # "exited"
  BY LInvTypes DEF AgentWorks, Reports, Ends
<1>2. /\ agent' \in Agent /\ agent'.state = "working" /\ agent'.turn = agent.turn
      /\ agent'.gen = agent.gen
  BY <1>1 DEF Agent
<1>3. Typed'
  BY <1>2, LInvTypes DEF Typed, TypeOK, AgentWorks
<1>4. Standing' /\ ClockLeads' /\ LinesInOrder' /\ IdlesAreReal' /\ WakeIsOwed'
  BY <1>1, <1>2
  DEF Reports, Ends, LInv, Standing, ClockLeads, LinesInOrder, IdlesAreReal, Absorbs, WakeIsOwed
<1>5. WaitsHear' /\ EndGoesOut'
  BY <1>1, <1>2 DEF Reports, Ends, LInv, WaitsHear, EndGoesOut, TellsEnd, Stood, AgentGone, Armed
<1> QED
  BY <1>3, <1>4, <1>5 DEF LInv

LEMMA AgentBlocksKeeps ==
  ASSUME LInv, AgentBlocks
  PROVE  LInv'
<1>1. /\ agent' = [agent EXCEPT !.state = "blocked"] /\ agent \in Agent
      /\ UNCHANGED past /\ UNCHANGED Reports /\ UNCHANGED Ends
  BY LInvTypes DEF AgentBlocks, Reports, Ends
<1>2. /\ agent' \in Agent /\ agent'.state = "blocked" /\ agent'.turn = agent.turn
      /\ agent'.gen = agent.gen
  BY <1>1 DEF Agent
<1>3. left' \in [Kind -> Nat]
  BY LInvTypes, SpendTyped DEF AgentBlocks, TypeOK, Kind
<1>4. Typed'
  BY <1>2, <1>3, LInvTypes DEF Typed, TypeOK, AgentBlocks
<1>5. Standing' /\ ClockLeads' /\ LinesInOrder' /\ IdlesAreReal' /\ WakeIsOwed'
  BY <1>1, <1>2
  DEF Reports, Ends, LInv, Standing, ClockLeads, LinesInOrder, IdlesAreReal, Absorbs, WakeIsOwed
<1>6. WaitsHear' /\ EndGoesOut'
  BY <1>1, <1>2 DEF Reports, Ends, LInv, WaitsHear, EndGoesOut, TellsEnd, Stood, AgentGone, Armed
<1> QED
  BY <1>4, <1>5, <1>6 DEF LInv

(* It leaves: no wait is armed on what was not in view before. *)
LEMMA AgentExitsKeeps ==
  ASSUME LInv, AgentExits
  PROVE  LInv'
<1>1. /\ agent' = [agent EXCEPT !.state = "exited", !.own = FALSE] /\ agent \in Agent
      /\ UNCHANGED past /\ UNCHANGED Reports /\ UNCHANGED Ends
      /\ Stood => view.state # "unknown"
  BY LInvTypes DEF AgentExits, Reports, Ends
<1>2. /\ agent' \in Agent /\ agent'.state = "exited" /\ agent'.turn = agent.turn
      /\ agent'.gen = agent.gen
  BY <1>1 DEF Agent
<1>3. left' \in [Kind -> Nat]
  BY LInvTypes, SpendTyped DEF AgentExits, TypeOK, Kind
<1>4. Typed'
  BY <1>2, <1>3, LInvTypes DEF Typed, TypeOK, AgentExits
<1>5. Standing' /\ ClockLeads' /\ LinesInOrder' /\ IdlesAreReal' /\ WakeIsOwed'
  BY <1>1, <1>2
  DEF Reports, Ends, LInv, Standing, ClockLeads, LinesInOrder, IdlesAreReal, Absorbs, WakeIsOwed
<1>6. WaitsHear' /\ EndGoesOut'
  BY <1>1, <1>2 DEF Reports, Ends, LInv, WaitsHear, EndGoesOut, TellsEnd, Stood, AgentGone, Armed
<1> QED
  BY <1>4, <1>5, <1>6 DEF LInv

(* A new idle is later than all that is noted of the lane. *)
LEMMA NewIdle ==
  ASSUME LInv, NEW gen \in Nat, NEW own \in BOOLEAN, NEW real \in {past.real, past.real \union {NextTurn}},
         agent' = [state |-> "idle", turn |-> NextTurn, gen |-> gen, own |-> own],
         agent.gen <= gen,
         past' = [past EXCEPT !.real = real],
         \/ NextTurn \in real
         \/ gen # agent.gen /\ (memory = None \/ memory.known),
         UNCHANGED Reports, UNCHANGED Ends, Typed'
  PROVE  LInv'
<1>1. agent'.state = "idle" /\ agent'.turn = agent.turn + 1 /\ agent'.gen = gen
  BY DEF NextTurn
<1>2. /\ past'.real = real /\ past.real \subseteq real /\ past'.lines = past.lines
      /\ past'.owed = past.owed
      /\ past'.rode = past.rode /\ past'.heardEnd = past.heardEnd /\ past'.endFor = past.endFor
      /\ past'.declined = past.declined /\ past'.ender = past.ender
  BY LInvTypes DEF Past
<1>3. Standing'
  BY DEF Reports, Ends, LInv, Standing
<1>4. ClockLeads'
  BY <1>1, <1>2, LInvTypes DEF Reports, LInv, ClockLeads
<1>5. LinesInOrder'
  BY <1>2 DEF Reports, LInv, LinesInOrder
<1>6. IdlesAreReal'
  <2>1. cursor # None => cursor.gen <= agent.gen
    BY DEF LInv, ClockLeads
  <2>2. cursor # None /\ NextTurn \notin real => Absorbs'
    BY <1>1, <2>1, LInvTypes DEF Absorbs, Reports
  <2> QED
    BY <1>1, <1>2, <2>2 DEF Reports, LInv, IdlesAreReal, NextTurn
<1>7. WakeIsOwed'
  BY <1>1, <1>2, LInvTypes DEF Reports, LInv, WakeIsOwed, ClockLeads
<1>8. WaitsHear' /\ EndGoesOut'
  BY <1>1, <1>2 DEF Reports, Ends, LInv, WaitsHear, EndGoesOut, TellsEnd, Stood, AgentGone, Armed
<1> QED
  BY <1>3, <1>4, <1>5, <1>6, <1>7, <1>8 DEF LInv

LEMMA RealTyped ==
  ASSUME past \in Past, NEW real \in SUBSET Nat
  PROVE  [past EXCEPT !.real = real] \in Past
BY DEF Past

LEMMA AgentIdlesKeeps ==
  ASSUME LInv, AgentIdles
  PROVE  LInv'
<1>1. /\ UNCHANGED Reports /\ UNCHANGED Ends /\ past' = [past EXCEPT !.real = @ \union {NextTurn}]
  BY DEF AgentIdles, Reports, Ends
<1>2. PICK own \in BOOLEAN :
        agent' = [agent EXCEPT !.state = "idle", !.turn = NextTurn, !.own = own]
  BY DEF AgentIdles
<1>3. /\ agent' = [state |-> "idle", turn |-> NextTurn, gen |-> agent.gen, own |-> own]
      /\ agent' \in Agent /\ agent.gen \in Nat /\ agent.gen <= agent.gen /\ NextTurn \in Nat
  <2>1. agent \in Agent /\ agent.gen \in Nat /\ NextTurn \in Nat /\ agent.gen <= agent.gen
    BY LInvTypes DEF NextTurn
  <2>2. agent' = [state |-> "idle", turn |-> NextTurn, gen |-> agent.gen, own |-> own]
    BY <1>2, <2>1 DEF Agent
  <2>3. [state |-> "idle", turn |-> NextTurn, gen |-> agent.gen, own |-> own] \in Agent
    BY <2>1 DEF Agent
  <2> QED
    BY <2>1, <2>2, <2>3
<1>4. left' \in [Kind -> Nat]
  BY LInvTypes, SpendTyped DEF AgentIdles, TypeOK, Kind
<1>5. past' = [past EXCEPT !.real = past.real \union {NextTurn}] /\ past' \in Past
  <2>1. past.real \union {NextTurn} \in SUBSET Nat
    BY <1>3, LInvTypes DEF Past
  <2> QED
    BY <1>1, <2>1, RealTyped, LInvTypes
<1>6. Typed'
  BY <1>3, <1>4, <1>5, LInvTypes DEF Typed, TypeOK, AgentIdles
<1> QED
  BY <1>1, <1>3, <1>5, <1>6, NewIdle

LEMMA AgentReturnsKeeps ==
  ASSUME LInv, AgentReturns
  PROVE  LInv'
<1>1. UNCHANGED Reports /\ UNCHANGED Ends
  BY DEF AgentReturns, Reports, Ends
<1>2. PICK gen \in {agent.gen, agent.gen + 1} :
        /\ agent' = [state |-> "idle", turn |-> NextTurn, gen |-> gen, own |-> FALSE]
        /\ past' = IF gen # agent.gen /\ (memory = None \/ memory.known) THEN past
                   ELSE [past EXCEPT !.real = @ \union {NextTurn}]
  BY DEF AgentReturns
<1>3. gen \in Nat /\ agent.gen <= gen /\ NextTurn \in Nat /\ agent' \in Agent
  BY <1>2, LInvTypes DEF NextTurn, Agent
<1>4. left' \in [Kind -> Nat]
  BY LInvTypes, SpendTyped DEF AgentReturns, TypeOK, Kind
<1>5. PICK real \in {past.real, past.real \union {NextTurn}} :
        /\ past' = [past EXCEPT !.real = real]
        /\ NextTurn \in real \/ (gen # agent.gen /\ (memory = None \/ memory.known))
  <2>1. CASE gen # agent.gen /\ (memory = None \/ memory.known)
    <3>1. past' = [past EXCEPT !.real = past.real]
      BY <1>2, <2>1, LInvTypes DEF Past
    <3> QED
      BY <2>1, <3>1
  <2>2. CASE ~(gen # agent.gen /\ (memory = None \/ memory.known))
    BY <1>2, <2>2
  <2> QED
    BY <2>1, <2>2
<1>6. past' \in Past
  <2>1. real \in SUBSET Nat
    BY <1>3, LInvTypes DEF Past
  <2> QED
    BY <1>5, <2>1, RealTyped, LInvTypes
<1>7. Typed'
  BY <1>3, <1>4, <1>6, LInvTypes DEF Typed, TypeOK, AgentReturns
<1> QED
  BY <1>1, <1>2, <1>3, <1>5, <1>7, NewIdle

LEMMA AgentTellsKeeps ==
  ASSUME LInv, NEW p \in Party, AgentTells(p)
  PROVE  LInv'
<1>1. left' \in [Kind -> Nat]
  BY LInvTypes, SpendTyped DEF AgentTells, TypeOK, Kind
<1>2. told' \in [Party -> Nat]
  BY LInvTypes DEF AgentTells, TypeOK, NextTurn
<1>3. Typed'
  BY <1>1, <1>2, LInvTypes DEF Typed, TypeOK, AgentTells
<1> QED
  BY <1>3, Untouched DEF AgentTells, Reports, Ends

(* The clock only goes on once every wait that may fire has. *)
LEMMA TimePassesKeeps ==
  ASSUME LInv, TimePasses
  PROVE  LInv'
<1>1. /\ memory' = [memory EXCEPT !.held = @ + 1] /\ memory # None /\ memory.held < 2
      /\ UNCHANGED <<view, cursor, agent, past>> /\ UNCHANGED Ends /\ WaitsSettled
  BY DEF TimePasses, Ends
<1>2. memory' \in Memory /\ memory'.known = memory.known
  BY <1>1, LInvTypes DEF Memory
<1>3. memory' # None
  BY <1>2, NoneAssumption DEF NoneAssumption
<1>4. Typed'
  BY <1>2, LInvTypes DEF Typed, TypeOK, TimePasses
<1>5. Standing' /\ ClockLeads' /\ LinesInOrder' /\ WakeIsOwed'
  BY <1>1, <1>3 DEF Ends, LInv, Standing, ClockLeads, LinesInOrder, WakeIsOwed
<1>6. IdlesAreReal'
  BY <1>1, <1>2, <1>3 DEF LInv, IdlesAreReal, Absorbs
<1>7. WaitsHear'
  <2>1. view.state = "unknown" /\ AgentGone => \A p \in Party : ~Armed(p)
    BY <1>1 DEF WaitsSettled, Verdict
  <2> QED
    BY <1>1, <2>1 DEF Ends, LInv, WaitsHear, TellsEnd, AgentGone, Armed
<1>8. EndGoesOut'
  BY <1>1 DEF Ends, LInv, EndGoesOut, Armed
<1> QED
  BY <1>4, <1>5, <1>6, <1>7, <1>8 DEF LInv

-----------------------------------------------------------------------------
(* The sessions' steps.                                                    *)

LEMMA SpendKeepsType ==
  ASSUME LInv, NEW kind \in Kind, Spend(kind)
  PROVE  left' \in [Kind -> Nat]
BY SpendTyped, LInvTypes DEF TypeOK

LEMMA SendKeeps ==
  ASSUME LInv, NEW sender, Send(sender)
  PROVE  LInv'
<1>1. left' \in [Kind -> Nat]
  BY SpendKeepsType DEF Send, Kind
<1>2. Typed'
  BY <1>1, LInvTypes DEF Typed, TypeOK, Send
<1> QED
  BY <1>2, Untouched DEF Send, Reports, Ends

LEMMA SetWatchKeeps ==
  ASSUME LInv, NEW p \in Party, NEW mode \in {"watch", "unwatch"}, SetWatch(p, mode)
  PROVE  LInv'
<1>1. left' \in [Kind -> Nat]
  BY SpendKeepsType DEF SetWatch, Kind
<1>2. watch' \in [Party -> {None, "watch", "unwatch"}]
  BY LInvTypes DEF SetWatch, TypeOK
<1>3. Typed'
  BY <1>1, <1>2, LInvTypes DEF Typed, TypeOK, SetWatch
<1> QED
  BY <1>3, Untouched DEF SetWatch, Reports, Ends

LEMMA EndStartsKeeps ==
  ASSUME LInv, NEW p \in Party, EndStarts(p)
  PROVE  LInv'
<1>1. left' \in [Kind -> Nat]
  BY SpendKeepsType DEF EndStarts, Kind
<1>2. Typed'
  BY <1>1, LInvTypes DEF Typed, TypeOK, EndStarts
<1> QED
  BY <1>2, Untouched DEF EndStarts, Reports, Ends

LEMMA EndAnswersKeeps ==
  ASSUME LInv, NEW p \in Party, EndAnswers(p)
  PROVE  LInv'
<1>1. Typed'
  BY LInvTypes DEF Typed, TypeOK, EndAnswers
<1> QED
  BY <1>1, Untouched DEF EndAnswers, Reports, Ends

(* What the invariant asks when only the waits, the queues, the parties and *)
(* who heard of the end change.                                            *)
LEMMA WaitsOnly ==
  ASSUME LInv, Typed', UNCHANGED <<lane, agent, outbox>>, UNCHANGED Reports,
         past'.lines = past.lines, past'.real = past.real, past'.owed = past.owed,
         past'.rode = past.rode, past'.endFor = past.endFor, past'.ender = past.ender,
         past.heardEnd \subseteq past'.heardEnd, past.declined \subseteq past'.declined,
         gone \subseteq gone',
         NEW p \in Party,
         \A q \in Party \ {p} : wait'[q] = wait[q] /\ queue'[q] = queue[q],
         (wait'[p] # None /\ wait'[p].state = "fired" /\ TellsEnd(wait'[p])) =>
           p \in past'.heardEnd,
         Armed(p)' => \/ Armed(p)
                      \/ /\ lane = "open"
                         /\ Stood => ~(view.state = "unknown" /\ AgentGone),
         (lane = "deleted" /\ Armed(p) /\ p # past.ender) =>
           \/ Armed(p)' \/ p \in past'.heardEnd \/ p \in past'.declined \union gone',
         (lane = "deleted" /\ p = past.ender /\ queue[p] = {} /\ ~Armed(p)) => queue'[p] = {}
  PROVE  LInv'
<1>1. Standing' /\ ClockLeads' /\ LinesInOrder' /\ IdlesAreReal' /\ WakeIsOwed'
  BY DEF Reports, LInv, Standing, ClockLeads, LinesInOrder, IdlesAreReal, Absorbs, WakeIsOwed
<1>2. \A q \in Party \ {p} : Armed(q)' <=> Armed(q)
  BY DEF Armed
<1>3. WaitsHear'
  BY <1>2 DEF Reports, LInv, WaitsHear, TellsEnd, Stood, AgentGone
<1>4. EndGoesOut'
  <2>1. past.endFor \subseteq Party /\ past.ender \in Party \union {None} /\ lane \in {"open", "deleted"}
    BY LInvTypes DEF Past, TypeOK
  <2>2. ASSUME (cursor # None /\ cursor.ended) \/ (lane = "deleted" /\ outbox = None),
               NEW q \in past.endFor \ (gone' \union past'.declined \union {past.ender})
        PROVE  q \in past'.heardEnd \/ (Armed(q)' /\ lane = "deleted")
    <3>1. q \in past.heardEnd \/ (Armed(q) /\ lane = "deleted")
      BY <2>2 DEF LInv, EndGoesOut
    <3> QED
      BY <1>2, <2>1, <2>2, <3>1
  <2>3. lane = "open" \/ outbox # None => past.ender = None
    BY DEF LInv, EndGoesOut
  <2>4. lane = "deleted" /\ outbox = None /\ past.ender # None =>
          queue'[past.ender] = {} /\ ~Armed(past.ender)'
    <3>1. lane = "deleted" /\ outbox = None /\ past.ender # None =>
            queue[past.ender] = {} /\ ~Armed(past.ender)
      BY DEF LInv, EndGoesOut
    <3> QED
      BY <1>2, <2>1, <3>1
  <2> QED
    BY <2>2, <2>3, <2>4 DEF EndGoesOut, Reports
<1> QED
  BY <1>1, <1>3, <1>4 DEF LInv

(* A wait that settles with outcome "timeout" says nothing of the end; any  *)
(* other does, or is of a finish.                                          *)
LEMMA SaysIs ==
  ASSUME LInv, NEW p \in Party, NEW w \in Wait, Says(p, w)
  PROVE  /\ wait'[p] = w /\ wait'[p] # None
         /\ \A q \in Party \ {p} : wait'[q] = wait[q] /\ queue'[q] = queue[q]
         /\ TellsEnd(w) => p \in past'.heardEnd
         /\ past'.lines = past.lines /\ past'.real = past.real /\ past'.owed = past.owed
         /\ past'.rode = past.rode /\ past'.endFor = past.endFor /\ past'.ender = past.ender
         /\ past.heardEnd \subseteq past'.heardEnd /\ past'.declined = past.declined
<1>1. wait' = [wait EXCEPT ![p] = w] /\ w # None
  BY NoneAssumption DEF Says, NoneAssumption
<1>2. \A q \in Party \ {p} : queue'[q] = queue[q]
  BY LInvTypes DEF Says, TypeOK
<1>3. wait'[p] = w /\ \A q \in Party \ {p} : wait'[q] = wait[q]
  BY <1>1, LInvTypes DEF TypeOK
<1>4. past' = [past EXCEPT !.heardEnd = IF TellsEnd(w) THEN @ \union {p} ELSE @]
  BY DEF Says, TellsEnd
<1>5. /\ past'.heardEnd = IF TellsEnd(w) THEN past.heardEnd \union {p} ELSE past.heardEnd
      /\ past'.lines = past.lines /\ past'.real = past.real /\ past'.owed = past.owed
      /\ past'.rode = past.rode /\ past'.endFor = past.endFor /\ past'.ender = past.ender
      /\ past'.declined = past.declined
  BY <1>4, LInvTypes DEF Past
<1> QED
  BY <1>1, <1>2, <1>3, <1>5

LEMMA WaitFiresKeeps ==
  ASSUME LInv, NEW p \in Party, WaitFires(p)
  PROVE  LInv'
<1> DEFINE w == [wait[p] EXCEPT !.state = "fired", !.onIt = TRUE, !.outcome = Verdict(wait[p])]
<1>1. Armed(p) /\ wait[p] \in Wait
  BY LInvTypes DEF WaitFires, Armed, TypeOK
<1>2. w \in Wait /\ w.state = "fired" /\ w.outcome = Verdict(wait[p]) /\ w.until = wait[p].until
  <2>1. Verdict(wait[p]) \in {"until", "gone", "timeout"}
    BY VerdictIs
  <2> QED
    BY <1>1, <2>1 DEF Wait
<1>3. Says(p, w)
  BY DEF WaitFires
<1> HIDE DEF w
<1>4. Typed'
  <2>1. wait' \in [Party -> Wait \union {None}] /\ queue' \in [Party -> SUBSET Line] /\ past' \in Past
    BY <1>2, <1>3, SaysTyped DEF LInv
  <2> QED
    BY <2>1, LInvTypes DEF Typed, TypeOK, WaitFires
<1>5. /\ wait'[p] = w /\ wait'[p] # None
      /\ \A q \in Party \ {p} : wait'[q] = wait[q] /\ queue'[q] = queue[q]
      /\ TellsEnd(w) => p \in past'.heardEnd
      /\ past'.lines = past.lines /\ past'.real = past.real /\ past'.owed = past.owed
      /\ past'.rode = past.rode /\ past'.endFor = past.endFor /\ past'.ender = past.ender
      /\ past.heardEnd \subseteq past'.heardEnd /\ past'.declined = past.declined
  BY <1>2, <1>3, SaysIs
<1>6. lane = "deleted" => TellsEnd(w)
  BY <1>1, <1>2 DEF Verdict, TellsEnd, Wait
<1>7. ~Armed(p)'
  BY <1>2, <1>5 DEF Armed
<1>8. UNCHANGED <<lane, agent, outbox>> /\ UNCHANGED Reports /\ gone' = gone
  BY DEF WaitFires, Reports
<1> QED
  BY <1>1, <1>4, <1>5, <1>6, <1>7, <1>8, WaitsOnly

LEMMA WaitTimesOutKeeps ==
  ASSUME LInv, NEW p \in Party, WaitTimesOut(p)
  PROVE  LInv'
<1> DEFINE w == [wait[p] EXCEPT !.state = "over", !.outcome = "timeout"]
<1>1. Armed(p) /\ wait[p] \in Wait
  BY LInvTypes DEF WaitTimesOut, Armed, TypeOK
<1>2. w \in Wait /\ w.state = "over" /\ w.outcome = "timeout"
  BY <1>1 DEF Wait
<1>3. Says(p, w) /\ Verdict(wait[p]) = "timeout"
  BY DEF WaitTimesOut
<1> HIDE DEF w
<1>4. Typed'
  <2>1. wait' \in [Party -> Wait \union {None}] /\ queue' \in [Party -> SUBSET Line] /\ past' \in Past
    BY <1>2, <1>3, SaysTyped DEF LInv
  <2>2. left' \in [Kind -> Nat]
    BY SpendKeepsType DEF WaitTimesOut, Kind
  <2> QED
    BY <2>1, <2>2, LInvTypes DEF Typed, TypeOK, WaitTimesOut
<1>5. /\ wait'[p] = w /\ wait'[p] # None
      /\ \A q \in Party \ {p} : wait'[q] = wait[q] /\ queue'[q] = queue[q]
      /\ past'.lines = past.lines /\ past'.real = past.real /\ past'.owed = past.owed
      /\ past'.rode = past.rode /\ past'.endFor = past.endFor /\ past'.ender = past.ender
      /\ past.heardEnd \subseteq past'.heardEnd /\ past'.declined = past.declined
  BY <1>2, <1>3, SaysIs
<1>6. lane # "deleted"
  BY <1>3 DEF Verdict
<1>7. ~Armed(p)' /\ wait'[p].state # "fired"
  BY <1>2, <1>5 DEF Armed
<1>8. UNCHANGED <<lane, agent, outbox>> /\ UNCHANGED Reports /\ gone' = gone
  BY DEF WaitTimesOut, Reports
<1> QED
  BY <1>4, <1>5, <1>6, <1>7, <1>8, WaitsOnly

LEMMA CancelWaitKeeps ==
  ASSUME LInv, NEW p \in Party, CancelWait(p)
  PROVE  LInv'
<1>1. Armed(p) /\ wait[p] \in Wait
  BY LInvTypes DEF CancelWait, Armed, TypeOK
<1>2. wait' = [wait EXCEPT ![p] = [wait[p] EXCEPT !.state = "over"]]
  BY LInvTypes DEF CancelWait, TypeOK
<1>3. [wait[p] EXCEPT !.state = "over"] \in Wait /\ [wait[p] EXCEPT !.state = "over"].state = "over"
  BY <1>1 DEF Wait
<1>4. /\ wait'[p] = [wait[p] EXCEPT !.state = "over"] /\ \A q \in Party \ {p} : wait'[q] = wait[q]
      /\ wait' \in [Party -> Wait \union {None}]
  BY <1>2, <1>3, LInvTypes DEF TypeOK
<1>5. /\ past' \in Past /\ past'.declined = past.declined \union {p}
      /\ past'.lines = past.lines /\ past'.real = past.real /\ past'.owed = past.owed
      /\ past'.rode = past.rode /\ past'.endFor = past.endFor /\ past'.ender = past.ender
      /\ past'.heardEnd = past.heardEnd
  BY LInvTypes DEF CancelWait, Past
<1>6. left' \in [Kind -> Nat]
  BY SpendKeepsType DEF CancelWait, Kind
<1>7. Typed'
  BY <1>4, <1>5, <1>6, LInvTypes DEF Typed, TypeOK, CancelWait
<1>8. ~Armed(p)' /\ wait'[p].state # "fired"
  BY <1>3, <1>4 DEF Armed
<1>9. UNCHANGED <<lane, agent, outbox, queue>> /\ UNCHANGED Reports /\ gone' = gone
  BY DEF CancelWait, Reports
<1> QED
  BY <1>4, <1>5, <1>7, <1>8, <1>9, WaitsOnly

LEMMA PartyEndsKeeps ==
  ASSUME LInv, NEW p \in Party, PartyEnds(p)
  PROVE  LInv'
<1>1. /\ \A q \in Party \ {p} : wait'[q] = wait[q] /\ queue'[q] = queue[q]
      /\ wait'[p] = None /\ queue'[p] = {} /\ gone' = gone \union {p}
  BY LInvTypes DEF PartyEnds, TypeOK
<1>2. left' \in [Kind -> Nat]
  BY SpendKeepsType DEF PartyEnds, Kind
<1>3. Typed'
  BY <1>2, LInvTypes DEF Typed, TypeOK, PartyEnds
<1>4. UNCHANGED <<lane, agent, outbox, past>> /\ UNCHANGED Reports /\ ~Armed(p)'
  BY <1>1 DEF PartyEnds, Reports, Armed
<1> QED
  BY <1>1, <1>3, <1>4, WaitsOnly

LEMMA ArmWaitKeeps ==
  ASSUME LInv, NEW p \in Party, ArmWait(p)
  PROVE  LInv'
<1>1. PICK until \in {"finished", "ended"}, since \in {t \in 0..view.turn : view.turn <= t + 1} :
        LET w == [until |-> until, since |-> since, state |-> "armed", onIt |-> FALSE, outcome |-> None]
        IN IF Verdict(w) = "timeout"
             THEN wait' = [wait EXCEPT ![p] = w] /\ UNCHANGED <<queue, past>>
             ELSE Says(p, [w EXCEPT !.state = "fired", !.onIt = TRUE, !.outcome = Verdict(w)])
  BY DEF ArmWait
<1> DEFINE w == [until |-> until, since |-> since, state |-> "armed", onIt |-> FALSE, outcome |-> None]
           f == [w EXCEPT !.state = "fired", !.onIt = TRUE, !.outcome = Verdict(w)]
<1>2. w \in Wait /\ w.state = "armed"
  BY LInvTypes DEF Wait
<1>3. f \in Wait /\ f.state = "fired"
  <2>1. Verdict(w) \in {"until", "gone", "timeout"}
    BY VerdictIs
  <2> HIDE DEF w
  <2> QED
    BY <1>2, <2>1 DEF Wait
<1>4. IF Verdict(w) = "timeout" THEN wait' = [wait EXCEPT ![p] = w] /\ UNCHANGED <<queue, past>>
                                ELSE Says(p, f)
  BY <1>1
<1> HIDE DEF w, f
<1>5. acted' \subseteq Party /\ left' \in [Kind -> Nat]
  BY LInvTypes, SpendKeepsType DEF ArmWait, Kind, TypeOK
<1>6. UNCHANGED <<lane, agent, outbox>> /\ UNCHANGED Reports /\ gone' = gone /\ lane = "open"
  BY DEF ArmWait, Reports
<1>7. CASE Verdict(w) = "timeout"
  <2>1. /\ \A q \in Party \ {p} : wait'[q] = wait[q] /\ queue'[q] = queue[q]
        /\ wait'[p] = w /\ past' = past /\ queue' = queue
        /\ wait' \in [Party -> Wait \union {None}]
    BY <1>2, <1>4, <1>7, LInvTypes DEF TypeOK
  <2>2. Typed'
    BY <1>5, <2>1, LInvTypes DEF Typed, TypeOK, ArmWait
  <2>3. ~(view.state = "unknown" /\ AgentGone)
    BY <1>7 DEF Verdict
  <2>4. wait'[p].state # "fired"
    BY <1>2, <2>1
  <2> QED
    BY <1>6, <2>1, <2>2, <2>3, <2>4, WaitsOnly
<1>8. CASE Verdict(w) # "timeout"
  <2>1. Says(p, f)
    BY <1>4, <1>8
  <2>2. /\ wait'[p] = f /\ wait'[p] # None
        /\ \A q \in Party \ {p} : wait'[q] = wait[q] /\ queue'[q] = queue[q]
        /\ TellsEnd(f) => p \in past'.heardEnd
        /\ past'.lines = past.lines /\ past'.real = past.real /\ past'.owed = past.owed
        /\ past'.rode = past.rode /\ past'.endFor = past.endFor /\ past'.ender = past.ender
        /\ past.heardEnd \subseteq past'.heardEnd /\ past'.declined = past.declined
    BY <1>3, <2>1, SaysIs
  <2>3. Typed'
    <3>1. wait' \in [Party -> Wait \union {None}] /\ queue' \in [Party -> SUBSET Line] /\ past' \in Past
      BY <1>3, <2>1, SaysTyped DEF LInv
    <3> QED
      BY <1>5, <3>1, LInvTypes DEF Typed, TypeOK, ArmWait
  <2>4. ~Armed(p)'
    BY <1>3, <2>2 DEF Armed
  <2> QED
    BY <1>6, <2>2, <2>3, <2>4, WaitsOnly
<1> QED
  BY <1>7, <1>8

-----------------------------------------------------------------------------
(* The End of the lane, and restarts.                                      *)

LEMMA LaneDeletedKeeps ==
  ASSUME LInv, LaneDeleted
  PROVE  LInv'
<1>1. /\ lane = "open" /\ lane' = "deleted" /\ view' = NoView /\ outbox' = [by |-> mark]
      /\ UNCHANGED <<agent, memory, cursor, wait, queue, gone, past>>
  BY DEF LaneDeleted
<1>2. NoView \in View /\ NoView.state = "unknown" /\ NoView.turn = 0
  BY DEF NoView, View, ViewState
<1>3. outbox' \in [by: Party \union {None}] /\ outbox' # None
  BY <1>1, LInvTypes, NoneAssumption DEF NoneAssumption, TypeOK
<1>4. Typed'
  BY <1>1, <1>2, <1>3, LInvTypes DEF Typed, TypeOK, LaneDeleted
<1>5. Standing'
  BY <1>1, <1>2, <1>3 DEF LInv, Standing
<1>6. ClockLeads'
  BY <1>1, <1>2, LInvTypes DEF LInv, ClockLeads
<1>7. LinesInOrder' /\ IdlesAreReal' /\ WakeIsOwed'
  BY <1>1, <1>2 DEF LInv, LinesInOrder, IdlesAreReal, Absorbs, WakeIsOwed
<1>8. WaitsHear' /\ EndGoesOut'
  BY <1>1, <1>2, <1>3 DEF LInv, WaitsHear, EndGoesOut, TellsEnd, Armed
<1> QED
  BY <1>4, <1>5, <1>6, <1>7, <1>8 DEF LInv

LEMMA RestartKeeps ==
  ASSUME LInv, Restart
  PROVE  LInv'
<1>1. /\ view' = NoView /\ memory' = None
      /\ UNCHANGED <<lane, agent, cursor, wait, queue, gone, outbox, past>>
  BY DEF Restart
<1>2. NoView \in View /\ NoView.state = "unknown" /\ NoView.turn = 0
  BY DEF NoView, View, ViewState
<1>3. left' \in [Kind -> Nat]
  BY SpendKeepsType DEF Restart, Kind
<1>4. Typed'
  BY <1>1, <1>2, <1>3, LInvTypes DEF Typed, TypeOK, Restart
<1>5. Standing'
  BY <1>1, <1>2 DEF LInv, Standing
<1>6. ClockLeads'
  BY <1>1, <1>2, LInvTypes DEF LInv, ClockLeads
<1>7. LinesInOrder' /\ IdlesAreReal' /\ WakeIsOwed'
  BY <1>1, <1>2 DEF LInv, LinesInOrder, IdlesAreReal, Absorbs, WakeIsOwed
<1>8. WaitsHear' /\ EndGoesOut'
  BY <1>1, <1>2 DEF LInv, WaitsHear, EndGoesOut, TellsEnd, Armed, Stood
<1> QED
  BY <1>4, <1>5, <1>6, <1>7, <1>8 DEF LInv

LEMMA DrainKeeps ==
  ASSUME LInv, Drain
  PROVE  LInv'
<1>0. PICK by : by = outbox.by
  OBVIOUS
<1> DEFINE to == {p \in Receivers \ Spared(by) : ~HeardFrom(p, "ended", 0)}
           fires == cursor = None \/ ~cursor.ended
           kept == [p \in Party |->
                      {l \in queue[p] : ~(p \in Spared(by) /\ l.kind # "wait") /\ ~(p = by)}]
<1>1. /\ outbox # None
      /\ queue' = [p \in Party |-> IF fires /\ p \in to THEN Queued(kept[p], EndLine) ELSE kept[p]]
      /\ wait' = [p \in Party |-> IF p = by /\ Armed(p)
                                    THEN [wait[p] EXCEPT !.state = "over"] ELSE wait[p]]
      /\ past' = [past EXCEPT !.ender = by,
                              !.heardEnd = IF fires THEN @ \union to ELSE @,
                              !.endFor = IF fires THEN Receivers \ Spared(by) ELSE @]
      /\ cursor' = None /\ memory' = None /\ watch' = [p \in Party |-> None] /\ outbox' = None
      /\ UNCHANGED <<lane, agent, view, acted, told, gone, ending, mark, input, left>>
  BY <1>0 DEF Drain
<1>2. /\ outbox \in [by: Party \union {None}] /\ by \in Party \union {None}
      /\ lane = "deleted" /\ past.ender = None
  BY <1>0, <1>1, LInvTypes DEF TypeOK, LInv, Standing, EndGoesOut
<1>3. to \in SUBSET Party /\ Receivers \ Spared(by) \in SUBSET Party /\ by \notin to
  BY ReceiversIn DEF Spared
<1>4. \A p \in Party : kept[p] \in SUBSET Line /\ kept[p] \subseteq queue[p] /\ (p = by => kept[p] = {})
  BY LInvTypes DEF TypeOK
<1>5. \A p \in Receivers \ Spared(by) :
        \/ p \in to
        \/ Armed(p)
        \/ wait[p] # None /\ wait[p].state = "fired" /\ TellsEnd(wait[p])
  BY DEF HeardFrom, TellsEnd, Armed
<1> HIDE DEF to, kept, fires
<1>6. /\ past' \in Past
      /\ past'.lines = past.lines /\ past'.real = past.real /\ past'.owed = past.owed
      /\ past'.rode = past.rode /\ past'.declined = past.declined /\ past'.ender = by
      /\ past'.heardEnd = IF fires THEN past.heardEnd \union to ELSE past.heardEnd
      /\ past'.endFor = IF fires THEN Receivers \ Spared(by) ELSE past.endFor
  BY <1>1, <1>2, <1>3, LInvTypes DEF Past
<1>7. queue' \in [Party -> SUBSET Line] /\ (by # None => queue'[by] = {})
  <2>1. EndLine \in Line
    BY DEF EndLine, Line
  <2>2. \A p \in Party : Queued(kept[p], EndLine) \in SUBSET Line
    BY <1>4, <2>1, QueuedTyped
  <2> QED
    BY <1>1, <1>2, <1>3, <1>4, <2>2
<1>8. /\ wait' \in [Party -> Wait \union {None}]
      /\ \A p \in Party \ {by} : wait'[p] = wait[p]
      /\ by # None => ~Armed(by)'
      /\ \A p \in Party : wait'[p] # None /\ wait'[p].state = "fired" => wait'[p] = wait[p]
  <2>1. \A p \in Party : wait[p] \in Wait \union {None}
    BY LInvTypes DEF TypeOK
  <2>2. \A p \in Party : Armed(p) => /\ wait[p] \in Wait
                                     /\ [wait[p] EXCEPT !.state = "over"] \in Wait
                                     /\ [wait[p] EXCEPT !.state = "over"].state = "over"
    BY <2>1 DEF Armed, Wait
  <2>3. \A p \in Party : wait'[p] = IF p = by /\ Armed(p) THEN [wait[p] EXCEPT !.state = "over"]
                                                        ELSE wait[p]
    BY <1>1
  <2>4. wait' \in [Party -> Wait \union {None}]
    BY <1>1, <2>1, <2>2
  <2>5. by # None => ~Armed(by)'
    BY <1>2, <2>2, <2>3 DEF Armed
  <2> QED
    BY <2>2, <2>3, <2>4, <2>5
<1>9. Typed'
  BY <1>1, <1>6, <1>7, <1>8, LInvTypes DEF Typed, TypeOK
<1>10. Standing' /\ ClockLeads' /\ LinesInOrder' /\ IdlesAreReal' /\ WakeIsOwed'
  BY <1>1, <1>2, <1>6
  DEF LInv, Standing, ClockLeads, LinesInOrder, IdlesAreReal, WakeIsOwed
<1>11. WaitsHear'
  BY <1>1, <1>2, <1>6, <1>8 DEF LInv, WaitsHear, TellsEnd
<1>12. EndGoesOut'
  <2>1. ASSUME NEW p \in past'.endFor \ (gone \union past.declined \union {by})
        PROVE  p \in past'.heardEnd \/ Armed(p)'
    <3>1. p \in Party
      BY <1>3, <1>6, <2>1, LInvTypes DEF Past
    <3>2. p \in past.heardEnd \union to \/ Armed(p)
      <4>1. CASE fires
        BY <1>5, <1>6, <2>1, <3>1, <4>1 DEF LInv, WaitsHear
      <4>2. CASE ~fires
        <5>1. p # None
          BY <3>1, NoneAssumption DEF NoneAssumption
        <5> QED
          BY <1>2, <1>6, <2>1, <4>2, <5>1 DEF LInv, EndGoesOut, fires
      <4> QED
        BY <4>1, <4>2
    <3>3. p \in to /\ ~fires => p \in past.heardEnd \/ Armed(p)
      <4>1. p # None
        BY <3>1, NoneAssumption DEF NoneAssumption
      <4> QED
        BY <1>2, <1>6, <2>1, <4>1 DEF LInv, EndGoesOut, fires
    <3>4. Armed(p) => Armed(p)'
      BY <1>8, <2>1, <3>1 DEF Armed
    <3> QED
      BY <1>6, <3>2, <3>3, <3>4
  <2>2. lane' = "deleted" /\ outbox' = None /\ past'.ender = by /\ gone' = gone
        /\ past'.declined = past.declined
    BY <1>1, <1>2, <1>6
  <2> QED
    BY <1>7, <1>8, <2>1, <2>2 DEF EndGoesOut
<1> QED
  BY <1>9, <1>10, <1>11, <1>12 DEF LInv

-----------------------------------------------------------------------------
(* The theorems.                                                           *)

LEMMA InitHolds ==
  ASSUME Init
  PROVE  LInv
<1>1. /\ agent \in Agent /\ agent.state = "idle" /\ agent.turn = 0 /\ agent.gen = 0
      /\ view \in View /\ view.state = "unknown" /\ view.turn = 0
  BY DEF Init, Agent, NoView, View, ViewState
<1>2. /\ memory \in Memory /\ memory.held = 0
      /\ cursor \in Cursor /\ cursor.gen = 0 /\ cursor.finished = 0 /\ cursor.reachedAfter = 0
      /\ ~cursor.ended /\ memory # None /\ cursor # None
  <2>1. memory \in Memory /\ memory.held = 0
    BY DEF Init, Memory
  <2>2. /\ cursor \in Cursor /\ cursor.gen = 0 /\ cursor.finished = 0 /\ cursor.reachedAfter = 0
        /\ ~cursor.ended
    BY DEF Init, Cursor
  <2> QED
    BY <2>1, <2>2, NoneAssumption DEF NoneAssumption
<1>3. /\ past \in Past /\ \A p \in Party : past.lines[p] = <<>>
      /\ past.owed = {} /\ ~past.rode /\ past.ender = None
  BY DEF Init, Past
<1>4. left \in [Kind -> Nat]
  BY LaneAssumption DEF LaneAssumption, Init
<1>5. Typed
  BY <1>1, <1>2, <1>3, <1>4 DEF Typed, TypeOK, Init
<1>6. Standing /\ ClockLeads /\ IdlesAreReal /\ WakeIsOwed
  BY <1>1, <1>2, <1>3 DEF Init, Standing, ClockLeads, IdlesAreReal, WakeIsOwed
<1>7. LinesInOrder
  BY <1>3 DEF LinesInOrder
<1>8. WaitsHear /\ EndGoesOut
  BY <1>2, <1>3 DEF Init, WaitsHear, EndGoesOut, Stood
<1> QED
  BY <1>5, <1>6, <1>7, <1>8 DEF LInv

LEMMA StutterKeeps ==
  ASSUME LInv, UNCHANGED vars
  PROVE  LInv'
<1>1. Typed'
  BY LInvTypes DEF Typed, TypeOK, vars
<1> QED
  BY <1>1, Untouched DEF vars, Reports, Ends

LEMMA NextKeeps ==
  ASSUME LInv, [Next]_vars
  PROVE  LInv'
<1>1. CASE Reporter
  BY <1>1, PollKeeps, TimerFiresKeeps, ReachedKeeps, DrainKeeps DEF Reporter
<1>2. CASE AgentSteps
  BY <1>2, AgentWorksKeeps, AgentIdlesKeeps, AgentBlocksKeeps, AgentExitsKeeps, AgentReturnsKeeps,
     AgentTellsKeeps DEF AgentSteps
<1>3. CASE Sessions
  BY <1>3, ArmWaitKeeps, WaitFiresKeeps, WaitTimesOutKeeps, CancelWaitKeeps, PartyEndsKeeps,
     EndStartsKeeps, EndAnswersKeeps, SetWatchKeeps, SendKeeps, LaneDeletedKeeps, RestartKeeps
  DEF Sessions
<1> QED
  BY <1>1, <1>2, <1>3, TimePassesKeeps, StutterKeeps DEF Next

THEOREM LaneInvariant == Spec => []LInv
<1>1. Init => LInv
  BY InitHolds
<1>2. LInv /\ [Next]_vars => LInv'
  BY NextKeeps
<1> QED
  BY <1>1, <1>2, PTL DEF Spec

(* Whatever the polls see and miss, and however often the agent exits, is   *)
(* replaced or resumed and Tether restarts: every went-idle line is of a    *)
(* turn the agent really ended, once per session and in order.             *)
THEOREM TurnsToldOnce == Spec => []TurnsOnce
<1>1. LInv => TurnsOnce
  BY DEF LInv, Typed, LinesInOrder, TurnsOnce
<1> QED
  BY <1>1, LaneInvariant, PTL

(* After something reached the lane, by any number of sends and over any    *)
(* restart, the end of the work it started is told of by a wake: reached()  *)
(* takes the streak back, and an idle that was held keeps its own.  The     *)
(* work is counted from the agent's own turn, whatever Tether saw of it; a  *)
(* message that comes while the agent's last idle is in no poll yet is      *)
(* "late", and excepted: there the code fails (LanesUnseen.cfg).            *)
THEOREM ReachedWorkIsWoken == Spec => []ReachedWorkWakes
<1>1. LInv => ReachedWorkWakes
  BY DEF LInv, WakeIsOwed, ReachedWorkWakes
<1> QED
  BY <1>1, LaneInvariant, PTL

(* The end of a lane that is gone has reached every session it was for, by  *)
(* its line or by its own wait, and the session that ended it keeps nothing *)
(* of it in its queue.                                                     *)
THEOREM EndHeardByAll == Spec => []EndIsHeard
<1>1. LInv => EndIsHeard
  BY DEF LInv, EndGoesOut, EndIsHeard, EndReachesAll, EnderHearsNothing
<1> QED
  BY <1>1, LaneInvariant, PTL

=============================================================================
