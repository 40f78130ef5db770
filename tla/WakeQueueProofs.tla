--------------------------- MODULE WakeQueueProofs ---------------------------
(***************************************************************************)
(* Theorems about WakeQueue, for any sources, passes and notes: a running  *)
(* session is handed each note once; and as long as the owner does not     *)
(* edit a check-in that has outlived its session, no note is lost, nothing *)
(* settled comes back, a wake stays a wake, a ride-along line leaves only  *)
(* with a wake, and nothing goes out before it is due.                     *)
(***************************************************************************)
EXTENDS WakeQueue, TLAPS

-----------------------------------------------------------------------------
(* The inductive invariant, relative to TypeOK.                            *)

KeptRows == UNION {pass[p].kept : p \in Passes}

(* Every row there is: queued, in a paste, or remembered by a pass.        *)
All == queue \union Sending \union KeptRows

(* An id goes with one note, one source and one home.                      *)
Names ==
  \A r, s \in All : /\ r.id = s.id <=> r.note = s.note
                    /\ r.id = s.id => r.home = s.home /\ r.src = s.src

MintedInv == \A r \in All : r.id <= minted /\ r.note <= minted

(* A row is at one place: in the table or in one paste.  A pass remembers  *)
(* a kept row once.                                                        *)
Apart ==
  /\ \A r, s \in queue : r.id = s.id => r = s
  /\ \A r \in queue, s \in Sending : r.id # s.id
  /\ \A p, q \in Passes : \A r \in pass[p].rows, s \in pass[q].rows :
       r.id = s.id => p = q /\ r = s
  /\ \A p \in Passes : \A r, s \in pass[p].kept : r.id = s.id => r = s

(* Only a session's rows are pasted, and only while they are; a pass that  *)
(* relaunches has kept rows in mind that were due.                         *)
Homes ==
  \A p \in Passes : /\ \A r \in pass[p].rows : r.home = "session"
                    /\ \A r \in pass[p].kept : r.home = "kept" /\ r.due
                    /\ pass[p].rows # {} => pass[p].at \in {"paste", "pasting"}

(* Only check-ins are kept, and they are wakes.                            *)
Marks ==
  \A r \in All : /\ r.home = "kept" \/ r.kept => r.src = CheckIn
                 /\ r.src = CheckIn => r.class = "wake"

(* A source has one line queued, and one in a paste.                       *)
OneLine(rows) == \A r, s \in rows : r.src = s.src => r = s \/ r.src = CheckIn

SrcInv ==
  /\ OneLine(queue)
  /\ \A p \in Passes : OneLine(pass[p].rows)

(* While the session runs nothing has outlived it, and what is queued or   *)
(* in a paste was not handed out.                                          *)
RunInv ==
  session = "running" =>
    /\ \A r \in queue : r.home = "session"
    /\ \A p \in Passes : pass[p].kept = {}
    /\ \A n \in Notes : /\ went[n].sure <= 1
                        /\ n \in NotesOf(queue \union Sending) \/ n > minted
                             => went[n].sure = 0

(* What is in the table, will come back to it or will be relaunched is not *)
(* settled.                                                                *)
FateInv ==
  /\ \A r \in queue : fate[r.note] \notin Settled
  /\ \A r \in Sending : IF r.id \in withdrawn THEN fate[r.note] # "open"
                                               ELSE fate[r.note] \notin Settled
  /\ \A r \in KeptRows : fate[r.note] \notin Settled

(* A client that was told showed what its token names.                     *)
ToldInv == told => {m[2] : m \in token} \subseteq seen

(* The invariant has two parts: what holds in every state, and what holds  *)
(* until the owner edits a check-in that has outlived its session.         *)
Base == TypeOK /\ Homes /\ Marks /\ ToldInv /\ left["notes"] <= MaxNotes

Rows == /\ Homes /\ Marks /\ Names /\ MintedInv /\ Apart /\ SrcInv
        /\ RunInv /\ FateInv /\ NothingLost

(* The hypothesis of the other theorems: the owner gives a check-in        *)
(* that outlived its session no other note, and does not cancel it.        *)
KeptEdit ==
  \E r \in queue : r.home = "kept" /\ (RewordCheckIn(r) \/ CancelCheckIn(r))

(* The one more of the theorems about MayGo: the owner moves no check-in   *)
(* that outlived its session.                                              *)
KeptMove == \E r \in queue : r.home = "kept" /\ MoveCheckIn(r)

-----------------------------------------------------------------------------
(* The scheduler.                                                          *)

Pass == [at : Places, native : BOOLEAN, kept : SUBSET Row, rows : SUBSET Row]

(* A pass that begins or is through: it has no rows, and remembers kept    *)
(* rows of the table only.                                                 *)
Anew(x, rows) ==
  /\ x \in Pass /\ x.rows = {} /\ x.at \in {"gate", "holder", "kept", "exit"}
  /\ x.kept \subseteq {r \in rows : r.home = "kept" /\ r.due}

(* The passes after a step of the scheduler: those of `own`, and some that *)
(* were off, are new.                                                      *)
Sched(base, own, rows) ==
  /\ pass' \in [Passes -> Pass]
  /\ running' \in BOOLEAN /\ again' \in BOOLEAN /\ announced' \subseteq Notes
  /\ \A p \in Passes :
       \/ Anew(pass'[p], rows) /\ (p \in own \/ base[p].at = "off")
       \/ p \notin own /\ pass'[p] = base[p]

SchedulerTyped ==
  running \in BOOLEAN /\ again \in BOOLEAN /\ announced \subseteq Notes

LEMMA OffIs == /\ Off \in Pass /\ Off.at = "off" /\ Off.rows = {} /\ Off.kept = {}
               /\ [Off EXCEPT !.at = "exit"] \in Pass
               /\ [Off EXCEPT !.at = "exit"].at = "exit"
               /\ [Off EXCEPT !.at = "exit"].rows = {}
               /\ [Off EXCEPT !.at = "exit"].kept = {}
BY DEF Off, Pass, Places

LEMMA BegunAnew ==
  ASSUME NEW rows \in SUBSET Row, NEW plr, NEW waits
  PROVE  Anew(Begun(rows, plr, waits), rows)
<1> DEFINE asks == \E r \in Due(rows) : IsWake(r)
<1> DEFINE place == IF asks THEN "gate"
                    ELSE IF DueKept(rows) # {} /\ ~waits THEN "holder" ELSE "kept"
<1> DEFINE nat == asks /\ plr # "none"
<1>1. Begun(rows, plr, waits) = [at |-> place, native |-> nat, kept |-> DueKept(rows), rows |-> {}]
  BY DEF Begun
<1>2. place \in {"gate", "holder", "kept"} /\ nat \in BOOLEAN OBVIOUS
<1>3. DueKept(rows) \subseteq {r \in rows : r.home = "kept" /\ r.due} BY DEF DueKept
<1> HIDE DEF asks, place, nat
<1> QED BY <1>1, <1>2, <1>3 DEF Anew, Pass, Places

LEMMA BeginSched ==
  ASSUME NEW base \in [Passes -> Pass], NEW own \in SUBSET Passes, NEW rows \in SUBSET Row,
         NEW plr, NEW waits, NEW known \in SUBSET Notes,
         Begin(base, own, rows, plr, waits, known), running' \in BOOLEAN
  PROVE  Sched(base, own, rows)
<1> DEFINE fresh == Ids(Due(rows)) \ known
           spare == Spare(base, own)
<1>1. fresh \subseteq Notes BY DEF Ids, Due, Live, Row
<1>2. again' = (fresh # {} /\ running) /\ announced' = known \union fresh BY DEF Begin
<1>3. PICK nested \in {{}} \union {{p} : p \in spare} :
        pass' = [p \in Passes |-> IF p \in own \union nested
                                  THEN Begun(rows, plr, waits) ELSE base[p]]
  BY DEF Begin
<1>4. \A p \in nested : p \in Passes \ own /\ base[p].at = "off" BY <1>3 DEF Spare
<1>5. Anew(Begun(rows, plr, waits), rows) BY BegunAnew
<1>6. Begun(rows, plr, waits) \in Pass BY <1>5 DEF Anew
<1> HIDE DEF fresh, spare
<1>7. pass' \in [Passes -> Pass] BY <1>3, <1>6
<1>8. ASSUME NEW p \in Passes
      PROVE  \/ Anew(pass'[p], rows) /\ (p \in own \/ base[p].at = "off")
             \/ p \notin own /\ pass'[p] = base[p]
  <2>1. CASE p \in own \union nested
    <3>1. pass'[p] = Begun(rows, plr, waits) BY <1>3, <2>1
    <3> QED BY <1>4, <1>5, <2>1, <3>1
  <2>2. CASE p \notin own \union nested BY <1>3, <2>2
  <2> QED BY <2>1, <2>2
<1> QED BY <1>1, <1>2, <1>7, <1>8 DEF Sched

LEMMA NudgedFromSched ==
  ASSUME NEW base \in [Passes -> Pass], NEW rows \in SUBSET Row, NEW plr,
         SchedulerTyped, NudgedFrom(base, rows, plr)
  PROVE  Sched(base, {}, rows)
<1>1. CASE running \/ Spare(base, {}) = {}
  BY <1>1 DEF NudgedFrom, Sched, SchedulerTyped
<1>2. CASE ~(running \/ Spare(base, {}) = {})
  <2>1. PICK p \in Spare(base, {}) : Begin(base, {p}, rows, plr, launchWait, announced)
    BY <1>2 DEF NudgedFrom
  <2>2. p \in Passes /\ base[p].at = "off" BY DEF Spare
  <2>3. running' = TRUE /\ announced \in SUBSET Notes BY <1>2 DEF NudgedFrom, SchedulerTyped
  <2>4. Sched(base, {p}, rows)
    <3>1. {p} \in SUBSET Passes /\ running' \in BOOLEAN BY <2>2, <2>3
    <3> QED BY <2>1, <2>3, <3>1, BeginSched
  <2> QED BY <2>2, <2>4 DEF Sched
<1> QED BY <1>1, <1>2

LEMMA RoundSched ==
  ASSUME pass \in [Passes -> Pass], NEW p \in Passes, NEW rows \in SUBSET Row,
         NEW known \in SUBSET Notes, SchedulerTyped, Round(p, rows, known)
  PROVE  Sched(pass, {p}, rows)
<1>1. CASE again
  <2>1. /\ Begin(pass, {p}, rows, puller, launchWait, known)
        /\ running' = (running \/ Ids(Due(rows)) \ known # {})
    BY <1>1 DEF Round
  <2>2. running' \in BOOLEAN BY <2>1 DEF SchedulerTyped
  <2>3. {p} \in SUBSET Passes OBVIOUS
  <2> QED BY <2>1, <2>2, <2>3, BeginSched
<1>2. CASE ~again
  <2>1. /\ pass' = [pass EXCEPT ![p] = [Off EXCEPT !.at = "exit"]]
        /\ announced' = known /\ UNCHANGED <<running, again>>
    BY <1>2 DEF Round
  <2>2. Anew([Off EXCEPT !.at = "exit"], rows) BY OffIs DEF Anew
  <2>3. pass' \in [Passes -> Pass] BY <2>1, OffIs
  <2>4. pass'[p] = [Off EXCEPT !.at = "exit"] /\ \A q \in Passes : q # p => pass'[q] = pass[q]
    BY <2>1
  <2> QED BY <2>1, <2>2, <2>3, <2>4 DEF Sched, SchedulerTyped
<1> QED BY <1>1, <1>2

LEMMA NudgedRoundSched ==
  ASSUME pass \in [Passes -> Pass], NEW p \in Passes, pass[p].at # "off", NEW rows \in SUBSET Row,
         NEW waits, NEW known \in SUBSET Notes, NEW asked \in BOOLEAN, SchedulerTyped,
         NudgedRound(p, rows, waits, known, asked)
  PROVE  Sched(pass, {p}, rows)
<1> DEFINE through == [pass EXCEPT ![p] = [Off EXCEPT !.at = "exit"]]
<1>1. running' = TRUE BY DEF NudgedRound
<1>2. CASE running \/ Spare(pass, {}) = {}
  <2>1. Begin(pass, {p}, rows, puller, waits, known) BY <1>2 DEF NudgedRound
  <2>2. {p} \in SUBSET Passes /\ running' \in BOOLEAN BY <1>1
  <2> QED BY <2>1, <2>2, BeginSched
<1>3. CASE ~(running \/ Spare(pass, {}) = {})
  <2>1. PICK q \in Spare(pass, {}) :
          Begin(through, IF asked THEN {p, q} ELSE {q}, rows, puller, waits, known)
    BY <1>3 DEF NudgedRound
  <2> DEFINE own == IF asked THEN {p, q} ELSE {q}
  <2>2. q \in Passes /\ pass[q].at = "off" /\ q # p BY DEF Spare
  <2>3. /\ through \in [Passes -> Pass] /\ through[p] = [Off EXCEPT !.at = "exit"]
        /\ \A k \in Passes : k # p => through[k] = pass[k]
    BY OffIs
  <2>4. own \in SUBSET Passes /\ running' \in BOOLEAN /\ own \subseteq {p, q} BY <1>1, <2>2
  <2> HIDE DEF through
  <2>5. Sched(through, own, rows)
    <3>1. Begin(through, own, rows, puller, waits, known) BY <2>1
    <3> HIDE DEF own
    <3> QED BY <2>3, <2>4, <3>1, BeginSched
  <2>6. Anew(through[p], rows) BY <2>3, OffIs DEF Anew
  <2>7. through[p].at = "exit" BY <2>3, OffIs
  <2> HIDE DEF own
  <2>8. ASSUME NEW k \in Passes
        PROVE  \/ Anew(pass'[k], rows) /\ (k \in {p} \/ pass[k].at = "off")
               \/ k \notin {p} /\ pass'[k] = pass[k]
    <3>1. CASE k = p BY <2>5, <2>6, <2>7, <3>1 DEF Sched
    <3>2. CASE k # p
      <4>1. through[k] = pass[k] BY <2>3, <3>2
      <4> QED BY <2>2, <2>4, <2>5, <3>2, <4>1 DEF Sched
    <3> QED BY <3>1, <3>2
  <2> QED BY <2>5, <2>8 DEF Sched
<1> QED BY <1>2, <1>3
-----------------------------------------------------------------------------
(* Steps that move rows about.                                             *)

(* The passes after a step: those of `own` let their rows go, and no other *)
(* pass forgets what it is about to send or launch.                        *)
PassStep(own) ==
  \A p \in Passes :
    /\ pass'[p].rows = IF p \in own THEN {} ELSE pass[p].rows
    /\ pass'[p].rows # {} => pass'[p].at \in {"paste", "pasting"}
    /\ \/ pass'[p].kept = pass[p].kept
       \/ pass'[p].kept \subseteq {r \in queue' : r.home = "kept" /\ r.due}
    /\ pass[p].at = "launch" /\ p \notin own
         => pass'[p].at = "launch" /\ pass'[p].kept = pass[p].kept

LEMMA SchedSteps ==
  ASSUME NEW base \in [Passes -> Pass], NEW own \in SUBSET Passes, NEW mine \in SUBSET own,
         Homes, \A p \in Passes : base[p].at = "off" => base[p].rows = {},
         \A p \in Passes \ own : base[p] = pass[p],
         \A p \in own \ mine : base[p].rows = {} /\ base[p].kept = pass[p].kept,
         Sched(base, mine, queue')
  PROVE  PassStep(own)
<1> SUFFICES ASSUME NEW p \in Passes
             PROVE  /\ pass'[p].rows = IF p \in own THEN {} ELSE pass[p].rows
                    /\ pass'[p].rows # {} => pass'[p].at \in {"paste", "pasting"}
                    /\ \/ pass'[p].kept = pass[p].kept
                       \/ pass'[p].kept \subseteq {r \in queue' : r.home = "kept" /\ r.due}
                    /\ pass[p].at = "launch" /\ p \notin own
                         => pass'[p].at = "launch" /\ pass'[p].kept = pass[p].kept
  BY DEF PassStep
<1>1. CASE Anew(pass'[p], queue') /\ (p \in mine \/ base[p].at = "off")
  BY <1>1 DEF Anew
<1>2. CASE p \notin mine /\ pass'[p] = base[p]
  BY <1>2 DEF Homes
<1> QED BY <1>1, <1>2 DEF Sched

(* What the passes of `own` let go. *)
Dropped(own) ==
  (UNION {pass[p].rows : p \in own})
    \union UNION {pass[p].kept : p \in {p \in own : pass[p].at = "launch"}}

(* Row s is row r, perhaps due, marked, or of another class. *)
Like(s, r) ==
  /\ s \in Row /\ s.id = r.id /\ s.note = r.note /\ s.src = r.src /\ s.home = r.home
  /\ s.kept => s.src = CheckIn
  /\ s.src = CheckIn => s.class = "wake"

(* A step that mints nothing: the table after it. *)
TableStep(own) ==
  /\ minted' = minted /\ session' = session
  /\ \A s \in queue' : \E r \in queue \union Dropped(own) : Like(s, r)
  /\ \A s, t \in queue' : s.id = t.id => s = t
  /\ OneLine(queue')

(* What is handed out, or gets another fate, was in the table or let go,   *)
(* and what is settled is in the table no more.                            *)
HistoryStep(own) ==
  /\ session = "running" =>
       \A n \in Notes : went'[n].sure # went[n].sure =>
         /\ went'[n].sure = went[n].sure + 1
         /\ n \in NotesOf(queue \union Dropped(own)) /\ n \notin NotesOf(queue')
  /\ \A n \in Notes : went[n].sure # 0 => went'[n].sure # 0
  /\ \A n \in Notes : fate'[n] # fate[n] =>
       /\ fate'[n] # "open"
       /\ n \notin NotesOf(queue') \/ fate'[n] \notin Settled
       /\ \/ n \in NotesOf(queue \union Dropped(own))
          \/ \E r \in Sending : r.note = n /\ r.id \in withdrawn'
  /\ \A r \in All : r.home = "kept" /\ fate'[r.note] # fate[r.note]
                        => fate'[r.note] \notin Settled
  /\ \A p \in Passes : \A r \in pass[p].rows :
       p \notin own /\ r.id \in withdrawn => r.id \in withdrawn'
  /\ \A r \in Sending : r.id \in withdrawn => \A s \in queue' : s.id # r.id
  /\ \A r \in Sending : r.id \in withdrawn' => r.id \in withdrawn \/ fate'[r.note] # "open"

(* Whatever leaves the table, or is let go, has an end. *)
NoneForgotten(own) ==
  \A r \in queue \union Dropped(own) :
    \/ r.note \in NotesOf(queue' \union Out')
    \/ fate'[r.note] # "open" \/ went'[r.note].sure # 0

LEMMA DroppedCases ==
  ASSUME NEW own, NEW r \in Dropped(own)
  PROVE  \/ \E p \in own : r \in pass[p].rows
         \/ \E p \in own : pass[p].at = "launch" /\ r \in pass[p].kept
<1>1. CASE r \in UNION {pass[p].rows : p \in own} BY <1>1
<1>2. CASE r \in UNION {pass[p].kept : p \in {p \in own : pass[p].at = "launch"}} BY <1>2
<1> QED BY <1>1, <1>2 DEF Dropped

LEMMA DroppedIs ==
  ASSUME NEW own \in SUBSET Passes
  PROVE  Dropped(own) \subseteq Sending \union KeptRows
<1> SUFFICES ASSUME NEW r \in Dropped(own) PROVE r \in Sending \union KeptRows OBVIOUS
<1> QED BY DroppedCases DEF Sending, KeptRows

LEMMA AllRows == TypeOK => All \subseteq Row
BY DEF TypeOK, All, Sending, KeptRows

(* No row is lost and none is doubled. *)
LEMMA Shift ==
  ASSUME TypeOK, Rows, NEW own \in SUBSET Passes, PassStep(own), TableStep(own),
         HistoryStep(own), NoneForgotten(own)
  PROVE  Rows'
<1>1. \A s \in queue' : \E r \in All : Like(s, r)
  BY DroppedIs DEF TableStep, All
<1>2. Sending' \subseteq Sending BY DEF PassStep, Sending
<1>3. KeptRows' \subseteq KeptRows \union queue' BY DEF PassStep, KeptRows
<1>4. \A s \in All' : \E r \in All : s = r \/ Like(s, r) BY <1>1, <1>2, <1>3 DEF All
<1>5. Names' BY <1>4 DEF Rows, Names, Like
<1>6. MintedInv' BY <1>4 DEF Rows, MintedInv, Like, TableStep
<1>7. Apart'
  <2>1. ASSUME NEW s \in queue', NEW t \in Sending' PROVE s.id # t.id
    <3>1. PICK r \in queue \union Dropped(own) : Like(s, r) BY DEF TableStep
    <3>2. PICK q \in Passes : q \notin own /\ t \in pass[q].rows BY DEF PassStep, Sending
    <3>3. t \in Sending /\ t \in All /\ t.home = "session" BY <3>2 DEF Sending, All, Rows, Homes
    <3>4. CASE r \in queue BY <3>1, <3>3, <3>4 DEF Rows, Apart, Like
    <3>5. CASE \E p \in own : r \in pass[p].rows
      <4>1. PICK p \in own : r \in pass[p].rows BY <3>5
      <4>2. p # q BY <3>2
      <4> QED BY <3>1, <3>2, <4>1, <4>2 DEF Rows, Apart, Like
    <3>6. CASE \E p \in own : r \in pass[p].kept
      <4>1. r \in All /\ r.home = "kept" BY <3>6 DEF All, KeptRows, Rows, Homes
      <4> QED BY <3>1, <3>3, <4>1 DEF Rows, Names, Like
    <3> QED BY <3>4, <3>5, <3>6, DroppedCases
  <2>2. ASSUME NEW p \in Passes, NEW q \in Passes, NEW r \in pass'[p].rows,
               NEW s \in pass'[q].rows, r.id = s.id
        PROVE  p = q /\ r = s
    <3>1. r \in pass[p].rows /\ s \in pass[q].rows BY DEF PassStep
    <3> QED BY <2>2, <3>1 DEF Rows, Apart
  <2>3. ASSUME NEW p \in Passes PROVE \A r, s \in pass'[p].kept : r.id = s.id => r = s
    BY DEF PassStep, Rows, Apart, TableStep
  <2> QED BY <2>1, <2>2, <2>3 DEF Apart, TableStep
<1>8. Homes' BY DEF Rows, Homes, PassStep
<1>9. Marks' /\ SrcInv'
  <2>1. \A s \in All' : /\ s.home = "kept" \/ s.kept => s.src = CheckIn
                        /\ s.src = CheckIn => s.class = "wake"
    BY <1>4 DEF Rows, Marks, Like
  <2>2. \A p \in Passes : OneLine(pass'[p].rows) BY DEF Rows, SrcInv, PassStep, OneLine
  <2> QED BY <2>1, <2>2 DEF Marks, SrcInv, TableStep
<1>10. RunInv'
  <2> SUFFICES ASSUME session = "running"
               PROVE  /\ \A r \in queue' : r.home = "session"
                      /\ \A p \in Passes : pass'[p].kept = {}
                      /\ \A n \in Notes : /\ went'[n].sure <= 1
                                          /\ n \in NotesOf(queue' \union Sending') \/ n > minted
                                               => went'[n].sure = 0
    BY DEF RunInv, TableStep
  <2>1. KeptRows = {} BY DEF Rows, RunInv, KeptRows
  <2>2. \A r \in queue \union Dropped(own) : r.home = "session"
    BY <2>1, DroppedIs DEF Rows, RunInv, Homes, Sending
  <2>3. \A r \in queue' : r.home = "session" BY <2>2 DEF TableStep, Like
  <2>4. \A p \in Passes : pass'[p].kept = {} BY <2>3 DEF PassStep, Rows, RunInv
  <2>5. ASSUME NEW n \in Notes
        PROVE  /\ went'[n].sure <= 1
               /\ n \in NotesOf(queue' \union Sending') \/ n > minted => went'[n].sure = 0
    <3>1. went[n].sure <= 1 /\ went[n].sure \in Nat BY DEF Rows, RunInv, TypeOK
    <3>2. n \in NotesOf(queue \union Dropped(own)) \/ n \in NotesOf(queue \union Sending)
             \/ n > minted => went[n].sure = 0
      BY <2>1, DroppedIs DEF Rows, RunInv, NotesOf
    <3>3. n \in NotesOf(queue' \union Sending') => n \in NotesOf(queue \union Sending)
      BY <1>2, <2>1, DroppedIs DEF TableStep, Like, NotesOf
    <3>4. n \in NotesOf(queue \union Dropped(own)) => ~(n > minted)
      <4> SUFFICES ASSUME NEW r \in queue \union Dropped(own) PROVE ~(r.note > minted)
        BY DEF NotesOf
      <4>1. r \in All /\ r \in Row BY DroppedIs, AllRows DEF All
      <4> QED BY <4>1 DEF Rows, MintedInv, Row, Notes, TypeOK
    <3>5. ASSUME n \in NotesOf(queue \union Dropped(own)), n \notin NotesOf(queue')
          PROVE  n \notin NotesOf(Sending')
      <4> SUFFICES ASSUME NEW s \in Sending', n = s.note PROVE FALSE BY DEF NotesOf
      <4>1. PICK q \in Passes : q \notin own /\ s \in pass[q].rows BY DEF PassStep, Sending
      <4>2. PICK r \in queue \union Dropped(own) : r.note = n BY <3>5 DEF NotesOf
      <4>3. r \in All /\ s \in All /\ s \in Sending BY <1>2, DroppedIs DEF All
      <4>4. r.id = s.id BY <4>2, <4>3 DEF Rows, Names
      <4>5. CASE r \in queue BY <4>3, <4>4, <4>5 DEF Rows, Apart
      <4>6. CASE r \notin queue
        <5>1. PICK p \in own : r \in pass[p].rows
          BY <2>1, <4>2, <4>6, DroppedCases DEF KeptRows
        <5> QED BY <4>1, <4>4, <5>1 DEF Rows, Apart
      <4> QED BY <4>5, <4>6
    <3>6. CASE went'[n].sure = went[n].sure BY <3>1, <3>2, <3>3, <3>6
    <3>7. CASE went'[n].sure # went[n].sure
      <4>1. /\ went'[n].sure = went[n].sure + 1
            /\ n \in NotesOf(queue \union Dropped(own)) /\ n \notin NotesOf(queue')
        BY <3>7 DEF HistoryStep
      <4>2. went[n].sure = 0 /\ ~(n > minted) BY <3>2, <3>4, <4>1
      <4>3. n \notin NotesOf(queue' \union Sending') BY <3>5, <4>1 DEF NotesOf
      <4> QED BY <4>1, <4>2, <4>3
    <3> QED BY <3>6, <3>7
  <2> QED BY <2>3, <2>4, <2>5
<1>11. FateInv'
  <2>1. ASSUME NEW s \in queue' PROVE fate'[s.note] \notin Settled
    <3>1. PICK r \in queue \union Dropped(own) : Like(s, r) BY DEF TableStep
    <3>2. r \in Row BY <3>1, DroppedIs, AllRows DEF All
    <3>3. s.note \in NotesOf(queue') /\ s.note \in Notes BY <3>1, <3>2 DEF NotesOf, Like, Row
    <3>4. fate'[s.note] = fate[r.note] \/ fate'[s.note] \notin Settled
      BY <3>1, <3>3 DEF HistoryStep, Like
    <3>5. CASE r \in queue BY <3>4, <3>5 DEF Rows, FateInv
    <3>6. CASE r \in Sending
      <4>1. r.id \notin withdrawn BY <3>1, <3>6 DEF HistoryStep, Like
      <4> QED BY <3>4, <3>6, <4>1 DEF Rows, FateInv
    <3>7. CASE r \in KeptRows BY <3>4, <3>7 DEF Rows, FateInv
    <3> QED BY <3>5, <3>6, <3>7, DroppedIs
  <2>4. ASSUME NEW s \in Sending', s.id \in withdrawn' PROVE fate'[s.note] # "open"
    <3>1. s \in Sending /\ s.note \in Notes BY <1>2, AllRows DEF All, Row
    <3>2. CASE s.id \in withdrawn BY <3>1, <3>2 DEF HistoryStep, Rows, FateInv
    <3>3. CASE s.id \notin withdrawn BY <2>4, <3>1, <3>3 DEF HistoryStep
    <3> QED BY <3>2, <3>3
  <2>2. ASSUME NEW s \in Sending', s.id \notin withdrawn' PROVE fate'[s.note] \notin Settled
    <3>1. PICK p \in Passes : p \notin own /\ s \in pass[p].rows BY DEF PassStep, Sending
    <3>2. s.id \notin withdrawn BY <2>2, <3>1 DEF HistoryStep
    <3>3. s \in Sending /\ s \in All /\ s \in Row BY <3>1, AllRows DEF Sending, All
    <3>4. fate[s.note] \notin Settled BY <3>2, <3>3 DEF Rows, FateInv
    <3>5. CASE fate'[s.note] = fate[s.note] BY <3>4, <3>5
    <3>6. CASE fate'[s.note] # fate[s.note]
      <4>1. s.note \in Notes BY <3>3 DEF Row
      <4>2. CASE \E r \in Sending : r.note = s.note /\ r.id \in withdrawn'
        <5>1. PICK r \in Sending : r.note = s.note /\ r.id \in withdrawn' BY <4>2
        <5>2. r \in All BY DEF All
        <5> QED BY <2>2, <3>3, <5>1, <5>2 DEF Rows, Names
      <4>3. CASE s.note \in NotesOf(queue \union Dropped(own))
        <5>1. PICK r \in queue \union Dropped(own) : r.note = s.note BY <4>3 DEF NotesOf
        <5>2. r \in All BY DroppedIs DEF All
        <5>3. r.id = s.id /\ r.home = s.home BY <3>3, <5>1, <5>2 DEF Rows, Names
        <5>4. s.home = "session" BY <3>1 DEF Rows, Homes
        <5>5. CASE r \in queue BY <3>3, <5>3, <5>5 DEF Rows, Apart
        <5>6. CASE \E q \in own : r \in pass[q].rows
          BY <3>1, <5>3, <5>6 DEF Rows, Apart
        <5>7. CASE \E q \in own : r \in pass[q].kept
          BY <5>3, <5>4, <5>7 DEF Rows, Homes
        <5> QED BY <5>5, <5>6, <5>7, DroppedCases
      <4> QED BY <3>6, <4>1, <4>2, <4>3 DEF HistoryStep
    <3> QED BY <3>5, <3>6
  <2>3. ASSUME NEW s \in KeptRows' PROVE fate'[s.note] \notin Settled
    <3>1. CASE s \in queue' BY <2>1, <3>1
    <3>2. CASE s \in KeptRows
      <4>1. s \in All /\ s \in Row /\ s.home = "kept" /\ fate[s.note] \notin Settled
        BY <3>2, AllRows DEF All, KeptRows, Rows, FateInv, Homes
      <4> QED BY <4>1 DEF HistoryStep
    <3> QED BY <1>3, <3>1, <3>2
  <2> QED BY <2>1, <2>2, <2>3, <2>4 DEF FateInv
<1>12. NothingLost'
  <2> SUFFICES ASSUME NEW n \in Notes, fate'[n] = "open", went'[n].sure = 0
               PROVE  n \in NotesOf(queue' \union Out')
    BY DEF NothingLost
  <2>1. fate[n] = "open" /\ went[n].sure = 0 BY DEF HistoryStep
  <2>2. PICK r \in queue \union Out : r.note = n BY <2>1 DEF Rows, NothingLost, NotesOf
  <2>3. CASE r \in queue \union Dropped(own) BY <2>2, <2>3 DEF NoneForgotten
  <2>4. CASE r \notin Dropped(own) /\ r \in Sending
    <3>1. PICK p \in Passes : r \in pass[p].rows BY <2>4 DEF Sending
    <3>2. p \notin own BY <2>4, <3>1 DEF Dropped
    <3>3. r \in Out' BY <3>1, <3>2 DEF PassStep, Out, Sending
    <3> QED BY <2>2, <3>3 DEF NotesOf
  <2>5. CASE r \notin Dropped(own) /\ r \in Out /\ r \notin Sending
    <3>1. PICK p \in Passes : pass[p].at = "launch" /\ r \in pass[p].kept BY <2>5 DEF Out
    <3>2. p \notin own BY <2>5, <3>1 DEF Dropped
    <3>3. r \in Out' BY <3>1, <3>2 DEF PassStep, Out
    <3> QED BY <2>2, <3>3 DEF NotesOf
  <2> QED BY <2>2, <2>3, <2>4, <2>5
<1> QED BY <1>5, <1>6, <1>7, <1>8, <1>9, <1>10, <1>11, <1>12 DEF Rows
-----------------------------------------------------------------------------
(* Shapes of steps.                                                        *)

LEMMA TypePass == TypeOK => pass \in [Passes -> Pass] /\ SchedulerTyped /\ queue \in SUBSET Row
BY DEF TypeOK, Pass, SchedulerTyped

LEMMA LikeItself == ASSUME TypeOK, Marks, NEW r \in All PROVE Like(r, r)
BY AllRows DEF Like, Marks

LEMMA NoneDropped == Dropped({}) = {}
BY DEF Dropped

(* The rows of S stay, perhaps relabelled, and the others go. *)
LEMMA Relabelled ==
  ASSUME TypeOK, Rows, NEW S \in SUBSET queue, NEW f, \A r \in S : Like(f[r], r),
         queue' = {f[r] : r \in S}, minted' = minted, session' = session
  PROVE  /\ TableStep({}) /\ queue' \subseteq Row
         /\ NotesOf(queue') = NotesOf(S)
         /\ \A s \in queue', r \in Sending : s.id # r.id /\ s.note # r.note
         /\ \A n \in NotesOf(queue \ S) : n \notin NotesOf(queue')
<1>1. \A s \in queue' : \E r \in S : s = f[r] /\ Like(s, r) OBVIOUS
<1>2. queue' \subseteq Row BY <1>1 DEF Like
<1>3. ASSUME NEW s \in queue', NEW t \in queue', s.id = t.id PROVE s = t
  <2>1. PICK r \in S : s = f[r] /\ Like(s, r) BY <1>1
  <2>2. PICK q \in S : t = f[q] /\ Like(t, q) BY <1>1
  <2>3. r = q BY <1>3, <2>1, <2>2 DEF Like, Rows, Apart
  <2> QED BY <2>1, <2>2, <2>3
<1>4. OneLine(queue')
  <2> SUFFICES ASSUME NEW s \in queue', NEW t \in queue', s.src = t.src
               PROVE  s = t \/ s.src = CheckIn
    BY DEF OneLine
  <2>1. PICK r \in S : s = f[r] /\ Like(s, r) BY <1>1
  <2>2. PICK q \in S : t = f[q] /\ Like(t, q) BY <1>1
  <2>3. r.src = q.src BY <2>1, <2>2 DEF Like
  <2>4. r = q \/ r.src = CheckIn BY <2>3 DEF Rows, SrcInv, OneLine
  <2> QED BY <2>1, <2>2, <2>4 DEF Like
<1>5. TableStep({}) BY <1>1, <1>3, <1>4 DEF TableStep
<1>6. NotesOf(queue') = NotesOf(S)
  <2>1. NotesOf(queue') \subseteq NotesOf(S) BY <1>1 DEF NotesOf, Like
  <2>2. \A r \in S : f[r] \in queue' /\ f[r].note = r.note BY DEF Like
  <2>3. NotesOf(S) \subseteq NotesOf(queue')
    <3> SUFFICES ASSUME NEW r \in S PROVE r.note \in NotesOf(queue') BY DEF NotesOf
    <3> QED BY <2>2 DEF NotesOf
  <2> QED BY <2>1, <2>3
<1>7. ASSUME NEW s \in queue', NEW r \in Sending PROVE s.id # r.id /\ s.note # r.note
  <2>1. PICK q \in S : Like(s, q) BY <1>1
  <2>2. q \in queue /\ q \in All /\ r \in All BY DEF All
  <2>3. q.id # r.id BY <2>2 DEF Rows, Apart
  <2>4. q.note # r.note BY <2>2, <2>3 DEF Rows, Names
  <2> QED BY <2>1, <2>3, <2>4 DEF Like
<1>8. ASSUME NEW n \in NotesOf(queue \ S), n \in NotesOf(S) PROVE FALSE
  <2>1. PICK r \in queue \ S : r.note = n BY DEF NotesOf
  <2>2. PICK q \in S : q.note = n BY <1>8 DEF NotesOf
  <2>3. r.id = q.id BY <2>1, <2>2 DEF Rows, Names, All
  <2> QED BY <2>1, <2>3 DEF Rows, Apart
<1> QED BY <1>2, <1>5, <1>6, <1>7, <1>8

(* Rows change in place; nothing goes out. *)
LEMMA RelabelStep ==
  ASSUME TypeOK, Rows, NEW f, \A r \in queue : Like(f[r], r), queue' = {f[r] : r \in queue},
         UNCHANGED <<minted, withdrawn, session, went, fate>>, PassStep({})
  PROVE  Rows'
<1>1. /\ TableStep({}) /\ NotesOf(queue') = NotesOf(queue)
      /\ \A s \in queue', r \in Sending : s.id # r.id
  BY Relabelled
<1>2. HistoryStep({}) BY <1>1 DEF HistoryStep
<1>3. NoneForgotten({}) BY <1>1, NoneDropped DEF NoneForgotten, NotesOf
<1> QED BY <1>1, <1>2, <1>3, Shift

LEMMA StillStep ==
  ASSUME TypeOK, Rows, UNCHANGED <<queue, minted, withdrawn, session, went, fate>>, PassStep({})
  PROVE  Rows'
<1> DEFINE f == [r \in queue |-> r]
<1>1. \A r \in queue : f[r] = r /\ Like(f[r], r) BY LikeItself DEF All, Rows
<1>2. queue' = {f[r] : r \in queue} BY <1>1
<1> HIDE DEF f
<1> QED BY <1>1, <1>2, RelabelStep

(* Rows leave the table, each with an end. *)
LEMMA RemoveStep ==
  ASSUME TypeOK, Rows, NEW gone \in SUBSET queue, queue' = queue \ gone,
         UNCHANGED <<minted, session>>, PassStep({}),
         \A n \in Notes : went'[n].sure # went[n].sure =>
           went'[n].sure = went[n].sure + 1 /\ n \in NotesOf(gone),
         \A n \in Notes : fate'[n] # fate[n] =>
           /\ fate'[n] # "open"
           /\ n \in NotesOf(gone) \/ \E r \in Sending : r.note = n /\ r.id \in withdrawn',
         \A r \in gone : r.home = "kept" => fate'[r.note] \notin Settled \/ fate'[r.note] = fate[r.note],
         withdrawn \subseteq withdrawn',
         \A r \in Sending : r.id \in withdrawn' => r.id \in withdrawn \/ fate'[r.note] # "open",
         \A r \in gone : \/ fate'[r.note] # "open" \/ went'[r.note].sure # 0
                         \/ r.note \in NotesOf(Out')
  PROVE  Rows'
<1> DEFINE S == queue \ gone
           f == [r \in queue |-> r]
<1>1. \A r \in S : f[r] = r /\ Like(f[r], r) BY LikeItself DEF All, Rows
<1>2. queue' = {f[r] : r \in S} BY <1>1
<1> HIDE DEF f
<1>3. queue \ S = gone OBVIOUS
<1> HIDE DEF S
<1>4. S \in SUBSET queue BY DEF S
<1>5. /\ TableStep({}) /\ NotesOf(queue') = NotesOf(S)
      /\ \A s \in queue', r \in Sending : s.id # r.id /\ s.note # r.note
      /\ \A n \in NotesOf(gone) : n \notin NotesOf(queue')
  BY <1>1, <1>2, <1>3, <1>4, Relabelled
<1>6. NotesOf(gone) \subseteq NotesOf(queue \union Dropped({})) BY DEF NotesOf
<1>7. \A n \in Notes : went[n].sure # 0 => went'[n].sure # 0
  <2> SUFFICES ASSUME NEW n \in Notes, went[n].sure # 0 PROVE went'[n].sure # 0 OBVIOUS
  <2>1. went[n].sure \in Nat BY DEF TypeOK
  <2> QED BY <2>1
<1>8. ASSUME NEW r \in All, r.home = "kept", fate'[r.note] # fate[r.note]
      PROVE  fate'[r.note] \notin Settled
  <2>1. r.note \in Notes BY AllRows DEF Row
  <2>2. CASE r.note \in NotesOf(gone)
    <3>1. PICK q \in gone : q.note = r.note BY <2>2 DEF NotesOf
    <3>2. q \in All BY DEF All
    <3>3. q.home = "kept" BY <1>8, <3>1, <3>2 DEF Rows, Names
    <3> QED BY <1>8, <3>1, <3>3
  <2>3. CASE \E q \in Sending : q.note = r.note
    <3>1. PICK q \in Sending : q.note = r.note BY <2>3
    <3>2. q \in All /\ q.home = "session" BY DEF All, Sending, Rows, Homes
    <3> QED BY <1>8, <3>1, <3>2 DEF Rows, Names
  <2> QED BY <1>8, <2>1, <2>2, <2>3
<1>9. \A n \in Notes : fate'[n] # fate[n] =>
        /\ fate'[n] # "open" /\ n \notin NotesOf(queue')
        /\ \/ n \in NotesOf(queue \union Dropped({}))
           \/ \E r \in Sending : r.note = n /\ r.id \in withdrawn'
  <2> SUFFICES ASSUME NEW n \in Notes, fate'[n] # fate[n]
               PROVE  /\ fate'[n] # "open" /\ n \notin NotesOf(queue')
                      /\ \/ n \in NotesOf(queue \union Dropped({}))
                         \/ \E r \in Sending : r.note = n /\ r.id \in withdrawn'
    OBVIOUS
  <2>1. CASE n \in NotesOf(gone) BY <1>5, <1>6, <2>1
  <2>2. CASE \E r \in Sending : r.note = n /\ r.id \in withdrawn'
    <3>1. n \notin NotesOf(queue') BY <1>5, <2>2 DEF NotesOf
    <3> QED BY <2>2, <3>1
  <2> QED BY <2>1, <2>2
<1>10. HistoryStep({}) BY <1>5, <1>6, <1>7, <1>8, <1>9 DEF HistoryStep
<1>11. NoneForgotten({})
  <2> SUFFICES ASSUME NEW r \in queue
               PROVE  \/ r.note \in NotesOf(queue' \union Out')
                      \/ fate'[r.note] # "open" \/ went'[r.note].sure # 0
    BY NoneDropped DEF NoneForgotten
  <2>1. CASE r \in gone BY <2>1 DEF NotesOf
  <2>2. CASE r \notin gone BY <2>2 DEF NotesOf
  <2> QED BY <2>1, <2>2
<1> QED BY <1>5, <1>10, <1>11, Shift
-----------------------------------------------------------------------------
(* Typing.                                                                 *)

(* TypeOK but for the rows and the passes. *)
Plain ==
  /\ minted \in 0..MaxNotes
  /\ recheck \in BOOLEAN /\ timer \in BOOLEAN
  /\ idle \in BOOLEAN /\ free \in BOOLEAN /\ cooled \in BOOLEAN /\ launchWait \in BOOLEAN
  /\ puller \in {"none", "grace", "alive", "dead"}
  /\ token \subseteq Notes \X Notes /\ told \in BOOLEAN
  /\ session \in {"running", "gone"}
  /\ ending \in {"no", "waiting", "holding"} /\ endKept \in BOOLEAN
  /\ went \in [Notes -> [sure : Nat, late : Nat]]
  /\ fate \in [Notes -> Fates]
  /\ seen \subseteq Notes
  /\ left \in [Kind -> Nat] /\ left["notes"] <= MaxNotes

PassTyped == pass \in [Passes -> Pass] /\ SchedulerTyped

LEMMA PlainNow == Base => Plain /\ PassTyped
BY DEF TypeOK, Base, Plain, PassTyped, Pass, SchedulerTyped

(* Marks, of some rows. *)
Marked(rows) ==
  \A r \in rows : /\ r.home = "kept" \/ r.kept => r.src = CheckIn
                  /\ r.src = CheckIn => r.class = "wake"

(* What a step that pastes nothing new does to the rows of the passes. *)
PassRows(own) ==
  /\ KeptRows' \subseteq KeptRows \union {r \in queue' : r.home = "kept" /\ r.due}
  /\ Sending' \subseteq Sending
  /\ \A p \in Passes : pass'[p].rows = IF p \in own THEN {} ELSE pass[p].rows

LEMMA BaseNext ==
  ASSUME Base, queue' \subseteq Row, Marked(queue'), NEW own \in SUBSET Passes, PassStep(own),
         PassTyped', withdrawn' \subseteq Ids(Sending'), Plain', ToldInv'
  PROVE  Base' /\ PassRows(own)
<1>1. TypeOK' /\ left'["notes"] <= MaxNotes
  BY DEF TypeOK, Plain, PassTyped, Pass, SchedulerTyped
<1>2. Homes' BY DEF Base, Homes, PassStep
<1>3. Marks'
  <2>1. Sending' \subseteq Sending BY DEF PassStep, Sending
  <2>2. KeptRows' \subseteq KeptRows \union queue' BY DEF PassStep, KeptRows
  <2> QED BY <2>1, <2>2 DEF Base, Marks, Marked, All
<1>4. PassRows(own) BY DEF PassRows, PassStep, Sending, KeptRows
<1> QED BY <1>1, <1>2, <1>3, <1>4 DEF Base

LEMMA MarkedNow == ASSUME Base, NEW rows \in SUBSET queue PROVE Marked(rows)
BY DEF Base, Marks, Marked, All

LEMMA SpendIs ==
  ASSUME Plain, NEW b \in Kind, Spend(b)
  PROVE  left' \in [Kind -> Nat] /\ left'["notes"] <= MaxNotes
<1>1. left \in [Kind -> Nat] /\ left["notes"] \in Nat /\ MaxNotes \in Nat
      /\ left["notes"] <= MaxNotes
  BY QueueAssumption DEF Plain, Kind, QueueAssumption
<1>2. left' = [left EXCEPT ![b] = @ - 1] /\ left[b] > 0 BY DEF Spend
<1>3. left[b] - 1 \in Nat BY <1>1, <1>2
<1>4. left' \in [Kind -> Nat] BY <1>1, <1>2, <1>3
<1>5. left'["notes"] \in {left["notes"], left["notes"] - 1} BY <1>1, <1>2 DEF Kind
<1> QED BY <1>1, <1>4, <1>5

LEMMA SpendOrNot ==
  ASSUME Plain, NEW b \in Kind, Spend(b) \/ UNCHANGED left
  PROVE  left' \in [Kind -> Nat] /\ left'["notes"] <= MaxNotes
<1>1. CASE Spend(b) BY <1>1, SpendIs
<1>2. CASE UNCHANGED left BY <1>2 DEF Plain
<1> QED BY <1>1, <1>2

LEMMA SameSending == ASSUME PassStep({}) PROVE Sending' = Sending
BY DEF PassStep, Sending

(* A step that leaves the table and the history alone. *)
LEMMA StillActions ==
  ASSUME Base, UNCHANGED <<queue, minted, withdrawn, session, went, fate>>,
         PassStep({}), PassTyped', Plain', ToldInv'
  PROVE  Base' /\ PassRows({}) /\ (Rows => Rows')
<1>1. Rows => Rows' BY StillStep DEF Base
<1>2. queue' \subseteq Row /\ withdrawn' \subseteq Ids(Sending') BY SameSending DEF Base, TypeOK
<1>3. Marked(queue') BY MarkedNow
<1> QED BY <1>1, <1>2, <1>3, BaseNext

-----------------------------------------------------------------------------
(* What the scheduler does to the passes.                                  *)

LEMMA SamePasses == ASSUME TypeOK, Homes, UNCHANGED pass PROVE PassStep({})
BY DEF PassStep, Homes

LEMMA NudgedFromSteps ==
  ASSUME TypeOK, Homes, NEW own \in SUBSET Passes, NEW base \in [Passes -> Pass], NEW plr,
         \A p \in own : /\ base[p].rows = {} /\ base[p].kept = pass[p].kept
                        /\ base[p].at # "off",
         \A p \in Passes \ own : base[p] = pass[p],
         queue' \in SUBSET Row, NudgedFrom(base, queue', plr)
  PROVE  PassStep(own) /\ PassTyped'
<1>1. SchedulerTyped BY TypePass
<1>2. Sched(base, {}, queue') BY <1>1, NudgedFromSched
<1>3. \A p \in Passes : base[p].at = "off" => base[p].rows = {} BY DEF Homes
<1>4. {} \in SUBSET own /\ own \ {} = own OBVIOUS
<1>5. PassStep(own) BY <1>2, <1>3, <1>4, SchedSteps
<1> QED BY <1>2, <1>5 DEF Sched, PassTyped, SchedulerTyped

LEMMA NudgedSteps ==
  ASSUME TypeOK, Homes, NEW plr, queue' \in SUBSET Row, Nudged(queue', plr)
  PROVE  PassStep({}) /\ PassTyped'
<1>1. NudgedFrom(pass, queue', plr) BY DEF Nudged
<1>2. pass \in [Passes -> Pass] BY TypePass
<1> QED BY <1>1, <1>2, NudgedFromSteps

(* A pass is through, and the scheduler goes round. *)
LEMMA RoundSteps ==
  ASSUME TypeOK, Homes, NEW p \in Passes, pass[p].at # "off", queue' \in SUBSET Row,
         NEW known \in SUBSET Notes, NEW waits, NEW asked \in BOOLEAN,
         Round(p, queue', known) \/ NudgedRound(p, queue', waits, known, asked)
  PROVE  PassStep({p}) /\ PassTyped'
<1>1. SchedulerTyped /\ pass \in [Passes -> Pass] BY TypePass
<1>2. Sched(pass, {p}, queue')
  <2>1. CASE Round(p, queue', known) BY <1>1, <2>1, RoundSched
  <2>2. CASE NudgedRound(p, queue', waits, known, asked)
    BY <1>1, <2>2, NudgedRoundSched
  <2> QED BY <2>1, <2>2
<1>3. \A q \in Passes : pass[q].at = "off" => pass[q].rows = {} BY DEF Homes
<1>4. {p} \in SUBSET {p} /\ {p} \in SUBSET Passes OBVIOUS
<1>5. PassStep({p}) BY <1>1, <1>2, <1>3, <1>4, SchedSteps
<1> QED BY <1>2, <1>5 DEF Sched, PassTyped, SchedulerTyped

(* What was let go is nothing when the pass had nothing out. *)
LEMMA NothingOut ==
  ASSUME NEW p \in Passes, PassStep({p}), pass[p].rows = {}, pass[p].at # "launch"
  PROVE  PassStep({})
BY DEF PassStep

LEMMA MovedSteps ==
  ASSUME TypeOK, Homes, NEW p \in Passes, NEW place \in Places, pass[p].at # "launch",
         pass[p].rows # {} => place \in {"paste", "pasting"},
         pass' = Moved(p, place), SchedulerAsIs
  PROVE  PassStep({}) /\ PassTyped'
<1>1. pass \in [Passes -> Pass] /\ SchedulerTyped BY TypePass
<1>2. pass[p] \in Pass /\ pass' = [pass EXCEPT ![p] = [pass[p] EXCEPT !.at = place]]
  BY <1>1 DEF Moved
<1> DEFINE x == [pass[p] EXCEPT !.at = place]
<1>3. x \in Pass /\ x.at = place /\ x.rows = pass[p].rows /\ x.kept = pass[p].kept
  BY <1>2 DEF Pass
<1> HIDE DEF x
<1>4. /\ pass' \in [Passes -> Pass] /\ pass'[p] = x
      /\ \A q \in Passes : q # p => pass'[q] = pass[q]
  BY <1>1, <1>2, <1>3 DEF x
<1>5. PassStep({}) BY <1>3, <1>4 DEF PassStep, Homes
<1> QED BY <1>1, <1>4, <1>5 DEF PassTyped, SchedulerTyped, SchedulerAsIs

LEMMA LiveDoneIs ==
  ASSUME TypeOK, NEW p \in Passes
  PROVE  /\ LiveDone(p) \in [Passes -> Pass]
         /\ LiveDone(p)[p].rows = {} /\ LiveDone(p)[p].kept = pass[p].kept
         /\ LiveDone(p)[p].at = "kept"
         /\ \A q \in Passes \ {p} : LiveDone(p)[q] = pass[q]
<1>1. pass \in [Passes -> Pass] BY TypePass
<1> DEFINE x == [pass[p] EXCEPT !.at = "kept", !.native = FALSE, !.rows = {}]
<1>2. pass[p] \in Pass BY <1>1
<1>3. x \in Pass /\ x.at = "kept" /\ x.rows = {} /\ x.kept = pass[p].kept
  BY <1>2 DEF Pass, Places
<1>4. LiveDone(p) = [pass EXCEPT ![p] = x] BY <1>1 DEF LiveDone
<1> HIDE DEF x
<1> QED BY <1>1, <1>3, <1>4

(* The delivery to the live session is over, and the scheduler is nudged. *)
LEMMA LiveDoneSteps ==
  ASSUME TypeOK, Homes, NEW p \in Passes, NEW plr, queue' \in SUBSET Row,
         NudgedFrom(LiveDone(p), queue', plr) \/ (pass' = LiveDone(p) /\ SchedulerAsIs)
  PROVE  PassStep({p}) /\ PassTyped'
<1> DEFINE base == LiveDone(p)
<1>0. /\ base \in [Passes -> Pass]
      /\ base[p].rows = {} /\ base[p].kept = pass[p].kept /\ base[p].at = "kept"
      /\ \A q \in Passes \ {p} : base[q] = pass[q]
  BY LiveDoneIs
<1>1. CASE NudgedFrom(base, queue', plr)
  <2>1. {p} \in SUBSET Passes OBVIOUS
  <2> HIDE DEF base
  <2> QED BY <1>0, <1>1, <2>1, NudgedFromSteps
<1>2. CASE pass' = base /\ SchedulerAsIs
  <2> HIDE DEF base
  <2>1. ASSUME NEW q \in Passes
        PROVE  /\ pass'[q].rows = IF q \in {p} THEN {} ELSE pass[q].rows
               /\ pass'[q].rows # {} => pass'[q].at \in {"paste", "pasting"}
               /\ \/ pass'[q].kept = pass[q].kept
                  \/ pass'[q].kept \subseteq {r \in queue' : r.home = "kept" /\ r.due}
               /\ pass[q].at = "launch" /\ q \notin {p}
                    => pass'[q].at = "launch" /\ pass'[q].kept = pass[q].kept
    <3>1. CASE q = p BY <1>0, <1>2, <3>1
    <3>2. CASE q # p
      <4>1. pass'[q] = pass[q] BY <1>0, <1>2, <3>2
      <4> QED BY <3>2, <4>1 DEF Homes
    <3> QED BY <3>1, <3>2
  <2>2. PassStep({p}) BY <2>1 DEF PassStep
  <2> QED BY <1>0, <1>2, <2>2, TypePass DEF PassTyped, SchedulerTyped, SchedulerAsIs
<1> QED BY <1>1, <1>2
-----------------------------------------------------------------------------
(* The steps that leave the table alone.                                   *)

LEMMA ComposedRows ==
  ASSUME NEW rows, NEW taken \in Compositions(rows)
  PROVE  taken \subseteq rows
BY DEF Compositions

LEMMA RowMarks ==
  ASSUME TypeOK, NEW taken \in SUBSET queue
  PROVE  {Mark(r) : r \in taken} \subseteq Notes \X Notes
BY DEF Mark, TypeOK, Row

LEMMA WorldStill ==
  ASSUME Base, Typing \/ CoolsDown \/ LaunchWaitOver \/ GraceOver
  PROVE  Base' /\ PassRows({}) /\ (Rows => Rows')
<1>0. Plain /\ PassTyped /\ TypeOK /\ Homes /\ Marks BY PlainNow DEF Base
<1>1. /\ UNCHANGED <<queue, minted, withdrawn, session, went, fate, token, told, seen>>
      /\ UNCHANGED <<pass, running, again, announced>>
  BY DEF Typing, CoolsDown, LaunchWaitOver, GraceOver, store, passVars, clientVars, endVars, history
<1>2. PassStep({}) BY <1>0, <1>1, SamePasses
<1>3. PassTyped' BY <1>0, <1>1 DEF PassTyped, SchedulerTyped
<1>4. ToldInv' BY <1>1 DEF Base, ToldInv
<1>5. Plain'
  <2>1. CASE Typing
    <3>1. left' \in [Kind -> Nat] /\ left'["notes"] <= MaxNotes
      BY <1>0, <2>1, SpendOrNot DEF Typing, Kind
    <3> QED BY <1>0, <1>1, <2>1, <3>1 DEF Typing, Plain, clientVars, endVars
  <2>2. CASE CoolsDown
    BY <1>0, <1>1, <2>2 DEF CoolsDown, Plain, clientVars, endVars
  <2>3. CASE LaunchWaitOver
    BY <1>0, <1>1, <2>3 DEF LaunchWaitOver, Plain, clientVars, endVars
  <2>4. CASE GraceOver
    BY <1>0, <1>1, <2>4 DEF GraceOver, Plain, gateVars, endVars
  <2> QED BY <2>1, <2>2, <2>3, <2>4
<1> QED BY <1>1, <1>2, <1>3, <1>4, <1>5, StillActions

LEMMA ClientStill ==
  ASSUME Base,
         \/ PollEnds \/ PullerDies \/ ClientShows \/ ClientDies
         \/ \E taken \in Compositions(Rides) : PeekRide(taken)
  PROVE  Base' /\ PassRows({}) /\ (Rows => Rows')
<1>0. Plain /\ PassTyped /\ TypeOK /\ Homes /\ Marks BY PlainNow DEF Base
<1>1. /\ UNCHANGED <<queue, minted, withdrawn, session, went, fate>>
      /\ UNCHANGED <<pass, running, again, announced>>
      /\ UNCHANGED <<recheck, timer, idle, free, cooled, launchWait, ending, endKept>>
  BY DEF PollEnds, PullerDies, ClientShows, ClientDies, PeekRide, store, passVars, endVars,
         history, gateVars
<1>2. PassStep({}) BY <1>0, <1>1, SamePasses
<1>3. PassTyped' BY <1>0, <1>1 DEF PassTyped, SchedulerTyped
<1>4. ToldInv' /\ Plain'
  <2>1. CASE PollEnds
    BY <1>0, <1>1, <2>1 DEF PollEnds, Plain, Base, ToldInv, history
  <2>2. CASE PullerDies
    <3>1. left' \in [Kind -> Nat] /\ left'["notes"] <= MaxNotes
      BY <1>0, <2>2, SpendIs DEF PullerDies, Kind
    <3> QED BY <1>0, <1>1, <2>2, <3>1 DEF PullerDies, Plain, Base, ToldInv, history
  <2>3. CASE ClientShows
    <3>1. {m[2] : m \in token} \subseteq Notes BY <1>0 DEF Plain
    <3> QED BY <1>0, <1>1, <2>3, <3>1 DEF ClientShows, Plain, ToldInv
  <2>4. CASE ClientDies
    BY <1>0, <1>1, <2>4 DEF ClientDies, Plain, ToldInv, history
  <2>5. CASE \E taken \in Compositions(Rides) : PeekRide(taken)
    <3>1. PICK taken \in Compositions(Rides) : PeekRide(taken) BY <2>5
    <3>2. taken \subseteq queue BY <3>1, ComposedRows DEF Rides, Due, Live
    <3>3. {Mark(r) : r \in taken} \subseteq Notes \X Notes BY <1>0, <3>2, RowMarks
    <3>4. left' \in [Kind -> Nat] /\ left'["notes"] <= MaxNotes
      BY <1>0, <3>1, SpendIs DEF PeekRide, Kind
    <3> QED BY <1>0, <1>1, <3>1, <3>3, <3>4 DEF PeekRide, Plain, ToldInv, history
  <2> QED BY <2>1, <2>2, <2>3, <2>4, <2>5
<1> QED BY <1>1, <1>2, <1>3, <1>4, StillActions

LEMMA NudgedStill ==
  ASSUME Base, AgentState \/ RecheckFires \/ TimerFires \/ PullerAttaches
  PROVE  Base' /\ PassRows({}) /\ (Rows => Rows')
<1>0. Plain /\ PassTyped /\ TypeOK /\ Homes /\ Marks BY PlainNow DEF Base
<1>1. /\ UNCHANGED <<queue, minted, withdrawn, session, went, fate>>
      /\ UNCHANGED <<token, told, seen, free, cooled, launchWait, ending, endKept>>
  BY DEF AgentState, RecheckFires, TimerFires, PullerAttaches, store, clientVars, endVars,
         history, gateVars
<1>2. PassStep({}) /\ PassTyped'
  <2>1. queue' \in SUBSET Row BY <1>0, <1>1, TypePass
  <2>2. Nudged(queue', puller) \/ Nudged(queue', puller')
    BY <1>1 DEF AgentState, RecheckFires, TimerFires, PullerAttaches
  <2> QED BY <1>0, <2>1, <2>2, NudgedSteps
<1>3. ToldInv' BY <1>1 DEF Base, ToldInv
<1>4. Plain'
  <2>1. CASE AgentState
    <3>1. left' \in [Kind -> Nat] /\ left'["notes"] <= MaxNotes
      BY <1>0, <2>1, SpendOrNot DEF AgentState, Kind
    <3> QED BY <1>0, <1>1, <2>1, <3>1 DEF AgentState, Plain, clientVars
  <2>2. CASE RecheckFires BY <1>0, <1>1, <2>2 DEF RecheckFires, Plain, clientVars, gateVars
  <2>3. CASE TimerFires BY <1>0, <1>1, <2>3 DEF TimerFires, Plain, clientVars, gateVars
  <2>4. CASE PullerAttaches
    <3>1. left' \in [Kind -> Nat] /\ left'["notes"] <= MaxNotes
      BY <1>0, <2>4, SpendIs DEF PullerAttaches, Kind
    <3> QED BY <1>0, <1>1, <2>4, <3>1 DEF PullerAttaches, Plain, gateVars
  <2> QED BY <2>1, <2>2, <2>3, <2>4
<1> QED BY <1>1, <1>2, <1>3, <1>4, StillActions

LEMMA KnownIs == TypeOK => \A rows : Known(rows) \in SUBSET Notes
BY DEF Known, TypeOK

LEMMA ScheduleStill ==
  ASSUME Base, NEW p \in Passes,
         \/ Arm(p) \/ HoldOn(p) \/ GateAsksInput(p) \/ PasteLocks(p) \/ KeptPart(p)
  PROVE  Base' /\ PassRows({}) /\ (Rows => Rows')
<1>0. Plain /\ PassTyped /\ TypeOK /\ Homes /\ Marks /\ pass[p] \in Pass BY PlainNow DEF Base, PassTyped
<1>1. /\ UNCHANGED <<queue, minted, withdrawn, session, went, fate>>
      /\ UNCHANGED <<token, told, seen, idle, free, cooled, launchWait, puller, ending, endKept, left>>
      /\ recheck' \in BOOLEAN /\ timer' \in BOOLEAN
  BY <1>0 DEF Arm, Ends, HoldOn, GateAsksInput, PasteLocks, KeptPart, store, clientVars, endVars,
         history, gateVars, Plain
<1>2. PassStep({}) /\ PassTyped'
  <2>0. queue' \in SUBSET Row BY <1>0, <1>1, TypePass
  <2>1. CASE Arm(p)
    <3>1. /\ pass[p].at = "exit" /\ pass' = [pass EXCEPT ![p] = Off] /\ running' = FALSE
          /\ UNCHANGED <<again, announced>>
      BY <2>1 DEF Arm, Ends
    <3>2. pass[p].rows = {} BY <1>0, <3>1 DEF Homes
    <3>3. pass' \in [Passes -> Pass] /\ pass'[p] = Off /\ \A q \in Passes : q # p => pass'[q] = pass[q]
      BY <1>0, <3>1, OffIs DEF PassTyped
    <3>4. PassStep({}) BY <1>0, <3>1, <3>2, <3>3, OffIs DEF PassStep, Homes
    <3> QED BY <1>0, <3>1, <3>3, <3>4 DEF PassTyped, SchedulerTyped
  <2>2. CASE HoldOn(p)
    <3>1. pass' = LiveDone(p) /\ SchedulerAsIs BY <2>2 DEF HoldOn
    <3>2. pass[p].at \in {"gate", "input"} BY <2>2 DEF HoldOn, At, GateAnswers
    <3>3. pass[p].rows = {} /\ pass[p].at # "launch" BY <1>0, <3>2 DEF Homes
    <3> QED BY <1>0, <2>0, <3>1, <3>3, LiveDoneSteps, NothingOut
  <2>3. CASE GateAsksInput(p)
    <3>1. pass[p].at = "gate" /\ pass' = Moved(p, "input") /\ SchedulerAsIs
      BY <2>3 DEF GateAsksInput, At
    <3>2. pass[p].rows = {} BY <1>0, <3>1 DEF Homes
    <3> QED BY <1>0, <3>1, <3>2, MovedSteps DEF Places
  <2>4. CASE PasteLocks(p)
    BY <1>0, <2>4, MovedSteps DEF PasteLocks, Places, At
  <2>5. CASE KeptPart(p)
    <3>1. pass[p].at = "kept" BY <2>5 DEF KeptPart, At
    <3>2. pass[p].rows = {} BY <1>0, <3>1 DEF Homes
    <3>3. CASE Round(p, queue, Known(queue))
      <4>1. Round(p, queue', Known(queue)) BY <1>1, <3>3
      <4>2. PassStep({p}) /\ PassTyped'
        BY <1>0, <2>0, <3>1, <4>1, KnownIs, RoundSteps
      <4> QED BY <3>1, <3>2, <4>2, NothingOut
    <3>4. CASE pass' = Moved(p, "holder") /\ SchedulerAsIs
      BY <1>0, <3>1, <3>2, <3>4, MovedSteps DEF Places
    <3> QED BY <2>5, <3>3, <3>4 DEF KeptPart
  <2> QED BY <2>1, <2>2, <2>3, <2>4, <2>5
<1>3. ToldInv' BY <1>1 DEF Base, ToldInv
<1>4. Plain' BY <1>0, <1>1 DEF Plain
<1> QED BY <1>1, <1>2, <1>3, <1>4, StillActions

LEMMA MoreStill ==
  ASSUME Base, EndLocks \/ \E p \in Passes : PasteNotYet(p) \/ PullerIsGone(p)
  PROVE  Base' /\ PassRows({}) /\ (Rows => Rows')
<1>0. Plain /\ PassTyped /\ TypeOK /\ Homes /\ Marks BY PlainNow DEF Base
<1>1. /\ UNCHANGED <<queue, minted, withdrawn, session, went, fate>>
      /\ UNCHANGED <<token, told, seen, idle, free, cooled, launchWait, recheck, timer, endKept>>
  BY DEF EndLocks, PasteNotYet, PullerIsGone, store, clientVars, endVars, history, gateVars
<1>2. PassStep({}) /\ PassTyped' /\ Plain'
  <2>0. queue' \in SUBSET Row BY <1>0, <1>1, TypePass
  <2>1. CASE EndLocks
    <3>1. UNCHANGED <<pass, running, again, announced>> BY <2>1 DEF EndLocks, passVars
    <3>2. PassStep({}) BY <1>0, <3>1, SamePasses
    <3>3. Plain' BY <1>0, <1>1, <2>1 DEF EndLocks, Plain, clientVars
    <3> QED BY <1>0, <3>1, <3>2, <3>3 DEF PassTyped, SchedulerTyped
  <2>2. CASE \E p \in Passes : PasteNotYet(p)
    <3>1. PICK p \in Passes : PasteNotYet(p) BY <2>2
    <3>2. PassStep({}) /\ PassTyped' BY <1>0, <3>1, MovedSteps DEF PasteNotYet, Places, At
    <3>3. left' \in [Kind -> Nat] /\ left'["notes"] <= MaxNotes
      BY <1>0, <3>1, SpendIs DEF PasteNotYet, Kind
    <3>4. Plain' BY <1>0, <1>1, <3>1, <3>3 DEF PasteNotYet, Plain, clientVars, endVars
    <3> QED BY <3>2, <3>4
  <2>3. CASE \E p \in Passes : PullerIsGone(p)
    <3>1. PICK p \in Passes : PullerIsGone(p) BY <2>3
    <3>2. pass[p].at \in {"gate", "input"} BY <3>1 DEF PullerIsGone, GateAnswers, At
    <3>3. pass[p].rows = {} /\ pass[p].at # "launch" BY <1>0, <3>2 DEF Homes
    <3>4. NudgedFrom(LiveDone(p), queue', puller') BY <1>1, <3>1 DEF PullerIsGone
    <3>5. PassStep({}) /\ PassTyped' BY <1>0, <2>0, <3>3, <3>4, LiveDoneSteps, NothingOut
    <3>6. Plain' BY <1>0, <1>1, <3>1 DEF PullerIsGone, Plain, endVars
    <3> QED BY <3>5, <3>6
  <2> QED BY <2>1, <2>2, <2>3
<1>3. ToldInv' BY <1>1 DEF Base, ToldInv
<1> QED BY <1>1, <1>2, <1>3, StillActions
-----------------------------------------------------------------------------
(* The steps that change rows in place.                                    *)

LEMMA RelabelActions ==
  ASSUME Base, NEW f, \A r \in queue : Like(f[r], r), queue' = {f[r] : r \in queue},
         UNCHANGED <<minted, withdrawn, session, went, fate, token, told, seen>>,
         PassStep({}), PassTyped', Plain'
  PROVE  Base' /\ PassRows({}) /\ (Rows => Rows')
<1>1. Rows => Rows' BY RelabelStep DEF Base
<1>2. queue' \subseteq Row /\ Marked(queue') BY DEF Like, Base, Marks, Marked, All
<1>3. withdrawn' \subseteq Ids(Sending') BY SameSending DEF Base, TypeOK
<1>4. ToldInv' BY DEF Base, ToldInv
<1> QED BY <1>1, <1>2, <1>3, <1>4, BaseNext

(* One row is exchanged for another of its kind. *)
LEMMA Exchanged ==
  ASSUME TypeOK, Marks, NEW r \in queue, NEW new, Like(new, r),
         queue' = (queue \ {r}) \union {new}
  PROVE  \E f : (\A x \in queue : Like(f[x], x)) /\ queue' = {f[x] : x \in queue}
<1> DEFINE f == [x \in queue |-> IF x = r THEN new ELSE x]
<1>1. \A x \in queue : Like(f[x], x) BY LikeItself DEF All
<1>2. queue' = {f[x] : x \in queue} OBVIOUS
<1> HIDE DEF f
<1> QED BY <1>1, <1>2

LEMMA MoveCheckInStep ==
  ASSUME Base, NEW r \in queue, MoveCheckIn(r)
  PROVE  Base' /\ PassRows({}) /\ (Rows => Rows')
<1>0. Plain /\ PassTyped /\ TypeOK /\ Homes /\ Marks /\ r \in Row BY PlainNow, TypePass DEF Base
<1> DEFINE new == [r EXCEPT !.due = FALSE, !.tries = 0]
<1>1. Like(new, r) BY <1>0, LikeItself DEF Like, Row, All, MoveCheckIn
<1>2. queue' = (queue \ {r}) \union {new} BY DEF MoveCheckIn
<1> HIDE DEF new
<1>3. PICK f : (\A x \in queue : Like(f[x], x)) /\ queue' = {f[x] : x \in queue}
  BY <1>0, <1>1, <1>2, Exchanged
<1>4. queue' \in SUBSET Row BY <1>3 DEF Like
<1>5. PassStep({}) /\ PassTyped' BY <1>0, <1>4, NudgedSteps DEF MoveCheckIn
<1>6. left' \in [Kind -> Nat] /\ left'["notes"] <= MaxNotes
  BY <1>0, SpendIs DEF MoveCheckIn, Kind
<1>7. UNCHANGED <<minted, withdrawn, session, went, fate, token, told, seen>>
  BY DEF MoveCheckIn, clientVars, endVars, history
<1>8. Plain' BY <1>0, <1>6, <1>7 DEF MoveCheckIn, Plain, gateVars, clientVars, endVars, history
<1> QED BY <1>3, <1>5, <1>7, <1>8, RelabelActions

LEMMA BecomesDueStep ==
  ASSUME Base, NEW r \in queue, BecomesDue(r)
  PROVE  Base' /\ PassRows({}) /\ (Rows => Rows')
<1>0. Plain /\ PassTyped /\ TypeOK /\ Homes /\ Marks /\ r \in Row BY PlainNow, TypePass DEF Base
<1> DEFINE new == [r EXCEPT !.due = TRUE]
<1>1. Like(new, r)
  <2>1. Like(r, r) BY <1>0, LikeItself DEF All
  <2> QED BY <1>0, <2>1 DEF Like, Row
<1>2. queue' = (queue \ {r}) \union {new} BY DEF BecomesDue
<1> HIDE DEF new
<1>3. PICK f : (\A x \in queue : Like(f[x], x)) /\ queue' = {f[x] : x \in queue}
  BY <1>0, <1>1, <1>2, Exchanged
<1>4. UNCHANGED <<minted, withdrawn, session, went, fate, token, told, seen>>
      /\ UNCHANGED <<pass, running, again, announced>>
  BY DEF BecomesDue, passVars, clientVars, endVars, history
<1>5. PassStep({}) /\ PassTyped' BY <1>0, <1>4, SamePasses DEF PassTyped, SchedulerTyped
<1>6. Plain' BY <1>0, <1>4 DEF BecomesDue, Plain, gateVars, clientVars, endVars, history
<1> QED BY <1>3, <1>4, <1>5, <1>6, RelabelActions

LEMMA PromoteRepliesStep ==
  ASSUME Base, PromoteReplies
  PROVE  Base' /\ PassRows({}) /\ (Rows => Rows')
<1>0. Plain /\ PassTyped /\ TypeOK /\ Homes /\ Marks BY PlainNow DEF Base
<1> DEFINE f == [r \in queue |-> IF r.class = "reply" THEN [r EXCEPT !.class = "wake"] ELSE r]
<1>1. ASSUME NEW r \in queue PROVE Like(f[r], r)
  <2>1. Like(r, r) /\ r \in Row BY <1>0, LikeItself, TypePass DEF All
  <2> QED BY <2>1 DEF Like, Row, Classes
<1>2. queue' = {f[r] : r \in queue} BY DEF PromoteReplies
<1> HIDE DEF f
<1>3. queue' \in SUBSET Row BY <1>1, <1>2 DEF Like
<1>4. PassStep({}) /\ PassTyped' BY <1>0, <1>3, NudgedSteps DEF PromoteReplies
<1>5. UNCHANGED <<minted, withdrawn, session, went, fate, token, told, seen>>
  BY DEF PromoteReplies, clientVars, endVars, history
<1>6. Plain' BY <1>0, <1>5 DEF PromoteReplies, Plain, gateVars, clientVars, endVars, history
<1> QED BY <1>1, <1>2, <1>4, <1>5, <1>6, RelabelActions

(* An End marks the session's check-ins, or takes the marks back. *)
LEMMA EndMarksStep ==
  ASSUME Base, (\E keep \in BOOLEAN : EndAsked(keep)) \/ EndFails
  PROVE  Base' /\ PassRows({}) /\ (Rows => Rows')
<1>0. Plain /\ PassTyped /\ TypeOK /\ Homes /\ Marks BY PlainNow DEF Base
<1>1. UNCHANGED <<minted, withdrawn, session, went, fate, token, told, seen>>
      /\ UNCHANGED <<pass, running, again, announced>>
  BY DEF EndAsked, EndFails, passVars, clientVars, history
<1>2. PassStep({}) /\ PassTyped' BY <1>0, <1>1, SamePasses DEF PassTyped, SchedulerTyped
<1>3. ASSUME NEW r \in queue
      PROVE  /\ Like(r, r) /\ Like([r EXCEPT !.kept = FALSE], r)
             /\ r.src = CheckIn => Like([r EXCEPT !.kept = TRUE], r)
  <2>1. Like(r, r) /\ r \in Row BY <1>0, LikeItself, TypePass DEF All
  <2> QED BY <2>1 DEF Like, Row
<1>4. CASE \E keep \in BOOLEAN : EndAsked(keep)
  <2>1. PICK keep \in BOOLEAN : EndAsked(keep) BY <1>4
  <2> DEFINE mine == {r \in queue : r.src = CheckIn /\ r.home = "session"}
             f == [r \in queue |-> IF keep /\ r \in mine THEN [r EXCEPT !.kept = TRUE] ELSE r]
  <2>2. \A r \in queue : Like(f[r], r) BY <1>3
  <2>3. queue' = {f[r] : r \in queue} BY <2>1 DEF EndAsked
  <2> HIDE DEF f
  <2>4. left' \in [Kind -> Nat] /\ left'["notes"] <= MaxNotes
    BY <1>0, <2>1, SpendIs DEF EndAsked, Kind
  <2>5. endKept' \in BOOLEAN /\ ending' = "waiting" BY <2>1 DEF EndAsked
  <2>6. Plain' BY <1>0, <1>1, <2>1, <2>4, <2>5 DEF EndAsked, Plain, gateVars, clientVars, history
  <2> QED BY <1>1, <1>2, <2>2, <2>3, <2>6, RelabelActions
<1>5. CASE EndFails
  <2> DEFINE f == [r \in queue |-> IF endKept /\ r.home = "session"
                                   THEN [r EXCEPT !.kept = FALSE] ELSE r]
  <2>1. \A r \in queue : Like(f[r], r) BY <1>3
  <2>2. queue' = {f[r] : r \in queue}
    <3>1. CASE endKept BY <1>5, <3>1 DEF EndFails
    <3>2. CASE ~endKept BY <1>5, <3>2 DEF EndFails
    <3> QED BY <3>1, <3>2
  <2> HIDE DEF f
  <2>3. Plain' BY <1>0, <1>1, <1>5 DEF EndFails, Plain, gateVars, clientVars, history
  <2> QED BY <1>1, <1>2, <2>1, <2>2, <2>3, RelabelActions
<1> QED BY <1>4, <1>5

-----------------------------------------------------------------------------
(* The steps that take rows from the table.                                *)

LEMMA BecomesIs ==
  ASSUME Plain, NEW notes, NEW x \in Fates
  PROVE  /\ Becomes(notes, x) \in [Notes -> Fates]
         /\ \A n \in Notes : Becomes(notes, x)[n] = IF n \in notes THEN x ELSE fate[n]
BY DEF Becomes, Plain

LEMMA HandedOutIs ==
  ASSUME Plain, NEW notes
  PROVE  /\ HandedOut(notes) \in [Notes -> [sure : Nat, late : Nat]]
         /\ \A n \in Notes : HandedOut(notes)[n].sure
                               = IF n \in notes THEN went[n].sure + 1 ELSE went[n].sure
<1>1. \A n \in Notes : went[n] \in [sure : Nat, late : Nat] BY DEF Plain
<1>2. ASSUME NEW n \in Notes
      PROVE  /\ [went[n] EXCEPT !.sure = @ + 1] \in [sure : Nat, late : Nat]
             /\ [went[n] EXCEPT !.sure = @ + 1].sure = went[n].sure + 1
  BY <1>1
<1> QED BY <1>1, <1>2 DEF HandedOut

LEMMA NotesAre == ASSUME TypeOK, NEW rows \in SUBSET All PROVE NotesOf(rows) \subseteq Notes
BY AllRows DEF NotesOf, Row

(* They are recalled, confirmed, or go to another session. *)
LEMMA GoneActions ==
  ASSUME Base, NEW gone \in SUBSET queue, queue' = queue \ gone,
         UNCHANGED <<minted, session, went>>, ToldInv', Plain', PassStep({}), PassTyped',
         NEW x \in Fates \ {"open"}, NEW notes, fate' = Becomes(notes, x),
         NotesOf(gone) \subseteq notes,
         \A n \in notes : n \in NotesOf(gone) \/ \E r \in Sending : r.note = n /\ r.id \in withdrawn',
         withdrawn \subseteq withdrawn', withdrawn' \subseteq Ids(Sending),
         Rows => \A r \in Sending : r.id \in withdrawn' => r.id \in withdrawn \/ r.note \in notes
  PROVE  /\ Base' /\ PassRows({})
         /\ Rows /\ ((\A r \in gone : r.home # "kept") \/ x \notin Settled) => Rows'
<1>0. Plain /\ TypeOK /\ Homes /\ Marks BY PlainNow DEF Base
<1>1. \A n \in Notes : fate'[n] = IF n \in notes THEN x ELSE fate[n] BY <1>0, BecomesIs
<1>2. \A r \in gone : r.note \in Notes /\ r.note \in NotesOf(gone)
  BY <1>0, NotesAre DEF NotesOf, All
<1>3. ASSUME Rows, (\A r \in gone : r.home # "kept") \/ x \notin Settled PROVE Rows'
  <2>1. \A r \in Sending : r.id \in withdrawn' => r.id \in withdrawn \/ fate'[r.note] # "open"
    <3>1. \A r \in Sending : r.note \in Notes BY <1>0, AllRows DEF All, Row
    <3> QED BY <1>1, <1>3, <3>1
  <2> QED BY <1>0, <1>1, <1>2, <1>3, <2>1, RemoveStep
<1>4. queue' \subseteq Row /\ Marked(queue') BY <1>0, TypePass, MarkedNow
<1>5. withdrawn' \subseteq Ids(Sending') BY SameSending
<1> QED BY <1>3, <1>4, <1>5, BaseNext
LEMMA PlainGone ==
  ASSUME Plain,
         UNCHANGED <<minted, session, went, seen, recheck, timer, idle, free, cooled>>,
         UNCHANGED <<launchWait, puller, ending, endKept>>,
         (token' = {} /\ told' = FALSE) \/ UNCHANGED <<token, told>>,
         fate' \in [Notes -> Fates], left' \in [Kind -> Nat], left'["notes"] <= MaxNotes
  PROVE  Plain'
<1>1. token' \subseteq Notes \X Notes BY DEF Plain
<1>2. told' \in BOOLEAN BY DEF Plain
<1>3. /\ minted' \in 0..MaxNotes /\ seen' \subseteq Notes
      /\ went' \in [Notes -> [sure : Nat, late : Nat]]
  BY DEF Plain
<1>4. recheck' \in BOOLEAN /\ timer' \in BOOLEAN /\ idle' \in BOOLEAN /\ free' \in BOOLEAN
      /\ cooled' \in BOOLEAN /\ launchWait' \in BOOLEAN
  BY DEF Plain
<1>5. /\ puller' \in {"none", "grace", "alive", "dead"}
      /\ session' \in {"running", "gone"}
      /\ ending' \in {"no", "waiting", "holding"} /\ endKept' \in BOOLEAN
  BY DEF Plain
<1> QED BY <1>1, <1>2, <1>3, <1>4, <1>5 DEF Plain

LEMMA CancelLineStep ==
  ASSUME Base, NEW r \in queue, CancelLine(r)
  PROVE  Base' /\ PassRows({}) /\ (Rows => Rows')
<1>0. Plain /\ TypeOK /\ Homes /\ Marks /\ r \in Row BY PlainNow, TypePass DEF Base
<1>1. /\ queue' = queue \ {r} /\ fate' = Becomes({r.note}, "recalled")
      /\ UNCHANGED <<minted, session, went, withdrawn, token, told, seen, left>>
      /\ UNCHANGED <<recheck, timer, idle, free, cooled, launchWait, puller, ending, endKept>>
  BY DEF CancelLine, Recall, clientVars, endVars, gateVars
<1>2. PassStep({}) /\ PassTyped'
  BY <1>0, <1>1, NudgedSteps DEF CancelLine, Recall, TypeOK
<1>3. fate' \in [Notes -> Fates] BY <1>0, <1>1, BecomesIs DEF Fates
<1>4. Plain' BY <1>0, <1>1, <1>3, PlainGone DEF Plain
<1>5. ToldInv' BY <1>1 DEF Base, ToldInv
<1>6. r.home # "kept"
  BY <1>0, QueueAssumption DEF CancelLine, Marks, All, QueueAssumption
<1>7. NotesOf({r}) = {r.note} BY DEF NotesOf
<1>8. "recalled" \in Fates \ {"open"} /\ withdrawn' \subseteq Ids(Sending) BY <1>0, <1>1 DEF Fates, TypeOK
<1> QED BY <1>1, <1>2, <1>4, <1>5, <1>6, <1>7, <1>8, GoneActions

LEMMA CancelCheckInStep ==
  ASSUME Base, NEW r \in queue, CancelCheckIn(r)
  PROVE  Base' /\ PassRows({}) /\ (Rows /\ r.home # "kept" => Rows')
<1>0. Plain /\ TypeOK /\ Homes /\ Marks /\ r \in Row BY PlainNow, TypePass DEF Base
<1>1. /\ queue' = queue \ {r} /\ fate' = Becomes({r.note}, "recalled")
      /\ UNCHANGED <<minted, session, went, withdrawn, token, told, seen>>
      /\ UNCHANGED <<recheck, timer, idle, free, cooled, launchWait, puller, ending, endKept>>
  BY DEF CancelCheckIn, Recall, clientVars, endVars, gateVars
<1>2. PassStep({}) /\ PassTyped'
  BY <1>0, <1>1, NudgedSteps DEF CancelCheckIn, Recall, TypeOK
<1>3. fate' \in [Notes -> Fates] BY <1>0, <1>1, BecomesIs DEF Fates
<1>4. left' \in [Kind -> Nat] /\ left'["notes"] <= MaxNotes
  BY <1>0, SpendIs DEF CancelCheckIn, Kind
<1>5. Plain' BY <1>0, <1>1, <1>3, <1>4, PlainGone
<1>6. ToldInv' BY <1>1 DEF Base, ToldInv
<1>7. NotesOf({r}) = {r.note} BY DEF NotesOf
<1>8. "recalled" \in Fates \ {"open"} /\ withdrawn' \subseteq Ids(Sending) BY <1>0, <1>1 DEF Fates, TypeOK
<1> QED BY <1>1, <1>2, <1>5, <1>6, <1>7, <1>8, GoneActions

LEMMA WithdrawStep ==
  ASSUME Base, NEW src \in Sources, Withdraw(src)
  PROVE  Base' /\ PassRows({}) /\ (Rows => Rows')
<1>0. Plain /\ PassTyped /\ TypeOK /\ Homes /\ Marks BY PlainNow DEF Base
<1> DEFINE rows == {r \in queue : r.src = src}
           out == {r \in Sending : r.src = src}
           notes == NotesOf(rows \union out)
<1>1. /\ queue' = queue \ rows /\ withdrawn' = withdrawn \union Ids(out)
      /\ fate' = Becomes(notes, "recalled")
      /\ UNCHANGED <<minted, session, went, token, told, seen, left>>
      /\ UNCHANGED <<recheck, timer, idle, free, cooled, launchWait, puller, ending, endKept>>
  BY DEF Withdraw, clientVars, endVars, gateVars
<1>2. PassStep({}) /\ PassTyped'
  <2>1. CASE rows = {}
    <3>1. UNCHANGED <<pass, running, again, announced>> BY <2>1 DEF Withdraw, passVars
    <3> QED BY <1>0, <3>1, SamePasses DEF PassTyped, SchedulerTyped
  <2>2. CASE rows # {}
    <3>1. Nudged(queue', puller) /\ queue' \in SUBSET Row BY <1>0, <1>1, <2>2 DEF Withdraw, TypeOK
    <3> QED BY <1>0, <3>1, NudgedSteps
  <2> QED BY <2>1, <2>2
<1>3. \A n \in notes : n \in NotesOf(rows) \/ \E r \in Sending : r.note = n /\ r.id \in withdrawn'
  <2> SUFFICES ASSUME NEW r \in rows \union out
               PROVE  \/ r.note \in NotesOf(rows)
                      \/ \E s \in Sending : s.note = r.note /\ s.id \in withdrawn'
    BY DEF NotesOf
  <2>1. CASE r \in rows BY <2>1 DEF NotesOf
  <2>2. CASE r \in out BY <1>1, <2>2 DEF Ids
  <2> QED BY <2>1, <2>2
<1>4. NotesOf(rows) \subseteq notes BY DEF NotesOf
<1>5. \A r \in rows : r.home # "kept"
  BY <1>0, QueueAssumption DEF Marks, All, QueueAssumption
<1>6. withdrawn \subseteq withdrawn' /\ withdrawn' \subseteq Ids(Sending)
  BY <1>0, <1>1 DEF TypeOK, Ids
<1>11. ASSUME Rows, NEW r \in Sending, r.id \in withdrawn'
       PROVE  r.id \in withdrawn \/ r.note \in notes
  <2> SUFFICES ASSUME NEW s \in out, s.id = r.id PROVE r.note \in notes BY <1>1, <1>11 DEF Ids
  <2>1. s.note = r.note BY <1>11 DEF Rows, Names, All
  <2> QED BY <2>1 DEF NotesOf
<1> HIDE DEF notes, out
<1>7. fate' \in [Notes -> Fates] /\ "recalled" \in Fates \ {"open"} BY <1>0, <1>1, BecomesIs DEF Fates
<1>8. Plain' BY <1>0, <1>1, <1>7 DEF Plain
<1>9. ToldInv' BY <1>1 DEF Base, ToldInv
<1>10. rows \in SUBSET queue OBVIOUS
<1> HIDE DEF rows
<1> QED BY <1>1, <1>2, <1>3, <1>4, <1>5, <1>6, <1>7, <1>8, <1>9, <1>10, <1>11, GoneActions

LEMMA ConfirmRideStep ==
  ASSUME Base, ConfirmRide
  PROVE  Base' /\ PassRows({}) /\ (Rows => Rows')
<1>0. Plain /\ PassTyped /\ TypeOK /\ Homes /\ Marks BY PlainNow DEF Base
<1> DEFINE notes == NotesOf(Confirmed) \intersect seen
<1>1. /\ queue' = queue \ Confirmed /\ fate' = Becomes(notes, "shown") /\ told
      /\ UNCHANGED <<minted, session, went, withdrawn, seen, left>>
      /\ UNCHANGED <<recheck, timer, idle, free, cooled, launchWait, puller, ending, endKept>>
      /\ (token' = {} /\ told' = FALSE) \/ UNCHANGED <<token, told>>
  BY DEF ConfirmRide, endVars, gateVars
<1>2. PassStep({}) /\ PassTyped'
  <2>1. CASE Confirmed = {}
    <3>1. UNCHANGED <<pass, running, again, announced>> BY <2>1 DEF ConfirmRide, passVars
    <3> QED BY <1>0, <3>1, SamePasses DEF PassTyped, SchedulerTyped
  <2>2. CASE Confirmed # {}
    <3>1. Nudged(queue', puller) /\ queue' \in SUBSET Row BY <1>0, <1>1, <2>2 DEF ConfirmRide, TypeOK
    <3> QED BY <1>0, <3>1, NudgedSteps
  <2> QED BY <2>1, <2>2
<1>3. NotesOf(Confirmed) \subseteq notes
  <2> SUFFICES ASSUME NEW r \in Confirmed PROVE r.note \in seen BY DEF NotesOf
  <2>1. <<r.id, r.note>> \in token BY DEF Confirmed, Mark
  <2>2. <<r.id, r.note>>[2] \in {m[2] : m \in token} BY <2>1
  <2> QED BY <1>1, <2>2 DEF Base, ToldInv
<1>4. \A r \in Confirmed : r.home # "kept"
  BY <1>0 DEF Confirmed, RidesAlong, Marks, All
<1>5. Confirmed \in SUBSET queue BY DEF Confirmed
<1>6. withdrawn' = withdrawn /\ withdrawn \subseteq Ids(Sending) BY <1>0, <1>1 DEF TypeOK
<1>7. \A n \in notes : n \in NotesOf(Confirmed) OBVIOUS
<1> HIDE DEF notes
<1>8. fate' \in [Notes -> Fates] /\ "shown" \in Fates \ {"open"} BY <1>0, <1>1, BecomesIs DEF Fates
<1>9. Plain' BY <1>0, <1>1, <1>8, PlainGone DEF Plain
<1>10. ToldInv' BY <1>1 DEF Base, ToldInv
<1> QED BY <1>1, <1>2, <1>3, <1>4, <1>5, <1>6, <1>7, <1>8, <1>9, <1>10, GoneActions

LEMMA HolderFoundStep ==
  ASSUME Base, NEW p \in Passes, HolderFound(p)
  PROVE  Base' /\ PassRows({}) /\ (Rows => Rows')
<1>0. Plain /\ PassTyped /\ TypeOK /\ Homes /\ Marks BY PlainNow DEF Base
<1> DEFINE rows == {r \in queue : r.id \in Ids(pass[p].kept)}
<1>1. /\ queue' = queue \ rows /\ fate' = Becomes(NotesOf(rows), "moved")
      /\ pass[p].at = "holder" /\ NudgedRound(p, queue', launchWait, Known(queue'), TRUE)
      /\ UNCHANGED <<minted, session, went, withdrawn, token, told, seen>>
      /\ UNCHANGED <<recheck, timer, idle, free, cooled, launchWait, puller, ending, endKept>>
  BY DEF HolderFound, At, clientVars, endVars, gateVars
<1>2. PassStep({}) /\ PassTyped'
  <2>1. queue' \in SUBSET Row /\ Known(queue') \in SUBSET Notes /\ TRUE \in BOOLEAN
    BY <1>0, <1>1, KnownIs DEF TypeOK
  <2>2. PassStep({p}) /\ PassTyped' BY <1>0, <1>1, <2>1, RoundSteps
  <2>3. pass[p].rows = {} BY <1>0, <1>1 DEF Homes
  <2> QED BY <1>1, <2>2, <2>3, NothingOut
<1>3. rows \in SUBSET queue OBVIOUS
<1>4. withdrawn' = withdrawn /\ withdrawn \subseteq Ids(Sending) BY <1>0, <1>1 DEF TypeOK
<1> HIDE DEF rows
<1>5. fate' \in [Notes -> Fates] /\ "moved" \in Fates \ {"open"} /\ "moved" \notin Settled
  BY <1>0, <1>1, BecomesIs DEF Fates, Settled
<1>6. left' \in [Kind -> Nat] /\ left'["notes"] <= MaxNotes
  BY <1>0, SpendIs DEF HolderFound, Kind
<1>7. Plain' BY <1>0, <1>1, <1>5, <1>6 DEF Plain
<1>8. ToldInv' BY <1>1 DEF Base, ToldInv
<1> QED BY <1>1, <1>2, <1>3, <1>4, <1>5, <1>7, <1>8, GoneActions

(* The lines go to the client, or to the puller. *)
LEMMA TakenSteps ==
  ASSUME Base, NEW taken \in SUBSET queue,
         \/ TakeRide(taken)
         \/ \E p \in Passes : PullerTakes(p, taken)
  PROVE  Base' /\ PassRows({}) /\ (Rows => Rows')
<1>0. Plain /\ PassTyped /\ TypeOK /\ Homes /\ Marks BY PlainNow DEF Base
<1>1. /\ queue' = queue \ taken /\ went' = HandedOut(NotesOf(taken))
      /\ UNCHANGED <<minted, session, fate, withdrawn, token, told, seen>>
      /\ UNCHANGED <<recheck, timer, idle, free, launchWait, ending, endKept>>
  BY DEF TakeRide, PullerTakes, clientVars, endVars, gateVars
<1>2. queue' \in SUBSET Row /\ Marked(queue') BY <1>0, <1>1, MarkedNow DEF TypeOK
<1>3. PassStep({}) /\ PassTyped'
  <2>1. CASE TakeRide(taken)
    BY <1>0, <1>2, <2>1, NudgedSteps DEF TakeRide
  <2>2. CASE \E p \in Passes : PullerTakes(p, taken)
    <3>1. PICK p \in Passes : PullerTakes(p, taken) BY <2>2
    <3>2. pass[p].at \in {"gate", "input"} BY <3>1 DEF PullerTakes, GateAnswers, At
    <3>3. pass[p].rows = {} /\ pass[p].at # "launch" BY <1>0, <3>2 DEF Homes
    <3>4. NudgedFrom(LiveDone(p), queue', puller') BY <3>1 DEF PullerTakes
    <3> QED BY <1>0, <1>2, <3>3, <3>4, LiveDoneSteps, NothingOut
  <2> QED BY <2>1, <2>2
<1>4. went' \in [Notes -> [sure : Nat, late : Nat]] BY <1>0, <1>1, HandedOutIs
<1>5. \A n \in Notes : went'[n].sure = IF n \in NotesOf(taken) THEN went[n].sure + 1 ELSE went[n].sure
  BY <1>0, <1>1, HandedOutIs
<1>6. Plain'
  <2>1. CASE TakeRide(taken)
    <3>1. left' \in [Kind -> Nat] /\ left'["notes"] <= MaxNotes
      BY <1>0, <2>1, SpendIs DEF TakeRide, Kind
    <3> QED BY <1>0, <1>1, <1>4, <2>1, <3>1 DEF TakeRide, Plain, clientVars, gateVars
  <2>2. CASE \E p \in Passes : PullerTakes(p, taken)
    BY <1>0, <1>1, <1>4, <2>2 DEF PullerTakes, Plain
  <2> QED BY <2>1, <2>2
<1>7. ToldInv' BY <1>1 DEF Base, ToldInv
<1>8. Rows => Rows'
  <2>1. ASSUME NEW r \in taken PROVE r.note \in Notes /\ r.note \in NotesOf(taken)
    BY <1>0, NotesAre DEF NotesOf, All
  <2>2. ASSUME NEW r \in taken PROVE went'[r.note].sure # 0
    <3>1. went[r.note].sure \in Nat BY <1>0, <2>1 DEF Plain
    <3> QED BY <1>5, <2>1, <3>1
  <2> QED BY <1>0, <1>1, <1>3, <1>5, <2>2, RemoveStep
<1>9. withdrawn' \subseteq Ids(Sending') BY <1>0, <1>1, <1>3, SameSending DEF TypeOK
<1> QED BY <1>2, <1>3, <1>6, <1>7, <1>8, <1>9, BaseNext
-----------------------------------------------------------------------------
(* The steps that queue a new note: in a row of its own, or in the one it  *)
(* replaces.                                                               *)

LEMMA MintedRows ==
  ASSUME TypeOK, Rows, NEW gone \in SUBSET queue, NEW w \in Row, queue' = (queue \ gone) \union {w},
         minted' = minted + 1, minted + 1 \in Notes, UNCHANGED <<withdrawn, session, went>>,
         PassStep({}), w.note = minted + 1, w.home = "session", w.kept => w.src = CheckIn,
         w.src = CheckIn => w.class = "wake",
         \/ gone = {} /\ w.id = minted + 1
         \/ \E r \in queue : gone = {r} /\ w.id = r.id /\ w.src = r.src /\ r.home = "session",
         w.src = CheckIn \/ \A s \in queue \ gone : s.src # w.src,
         fate'[minted + 1] = "open",
         \A n \in Notes : n # minted + 1 /\ n \notin NotesOf(gone) => fate'[n] = fate[n],
         \A r \in gone : fate'[r.note] = "replaced"
  PROVE  Rows'
<1>0. minted \in Nat BY QueueAssumption DEF TypeOK, QueueAssumption
<1>1. Sending' = Sending BY SameSending
<1>2. KeptRows' \subseteq KeptRows \union {r \in queue' : r.home = "kept" /\ r.due} BY DEF PassStep, KeptRows
<1>3. \A s \in All' : s = w \/ (s \in All /\ s \notin gone)
  <2> SUFFICES ASSUME NEW s \in All', s # w PROVE s \in All /\ s \notin gone OBVIOUS
  <2>1. CASE s \in queue' BY <2>1 DEF All
  <2>2. CASE s \in Sending BY <2>2 DEF All, Rows, Apart
  <2>3. CASE s \in KeptRows
    <3>1. s.home = "kept" BY <2>3 DEF KeptRows, Rows, Homes
    <3> QED BY <2>3, <3>1 DEF All
  <2> QED BY <1>1, <1>2, <2>1, <2>2, <2>3 DEF All
<1>4. \A s \in All : s \in Row /\ s.id \in Nat /\ s.note \in Nat /\ s.id <= minted /\ s.note <= minted
  BY AllRows DEF Rows, MintedInv, Row, Notes
<1>5. ASSUME NEW s \in All, s \notin gone PROVE w.id # s.id /\ w.note # s.note
  <2>1. w.note # s.note BY <1>0, <1>4
  <2>2. CASE gone = {} /\ w.id = minted + 1 BY <1>0, <1>4, <2>1, <2>2
  <2>3. CASE \E r \in queue : gone = {r} /\ w.id = r.id /\ w.src = r.src /\ r.home = "session"
    <3>1. PICK r \in queue : gone = {r} /\ w.id = r.id /\ w.src = r.src /\ r.home = "session" BY <2>3
    <3>2. CASE s \in queue BY <1>5, <2>1, <3>1, <3>2 DEF Rows, Apart
    <3>3. CASE s \in Sending BY <2>1, <3>1, <3>3 DEF Rows, Apart
    <3>4. CASE s \in KeptRows
      <4>1. s.home = "kept" /\ r \in All BY <3>4 DEF KeptRows, Rows, Homes, All
      <4> QED BY <2>1, <3>1, <4>1 DEF Rows, Names
    <3> QED BY <2>1, <3>2, <3>3, <3>4 DEF All
  <2> QED BY <2>2, <2>3
<1>6. ASSUME NEW s \in All, s \notin gone PROVE fate'[s.note] = fate[s.note]
  <2>1. s.note # minted + 1 /\ s.note \in Notes BY <1>0, <1>4 DEF Row
  <2>2. s.note \notin NotesOf(gone)
    <3> SUFFICES ASSUME NEW r \in gone, r.note = s.note PROVE FALSE BY DEF NotesOf
    <3>1. r \in All /\ r \in queue BY DEF All
    <3>2. r.id = s.id /\ r.home = s.home BY <3>1 DEF Rows, Names
    <3>3. CASE s \in queue BY <1>6, <3>1, <3>2, <3>3 DEF Rows, Apart
    <3>4. CASE s \in Sending BY <3>1, <3>2, <3>4 DEF Rows, Apart
    <3>5. CASE s \in KeptRows
      <4>1. s.home = "kept" BY <3>5 DEF KeptRows, Rows, Homes
      <4> QED BY <3>2, <4>1
    <3> QED BY <3>3, <3>4, <3>5 DEF All
  <2> QED BY <2>1, <2>2
<1>7. Names' BY <1>3, <1>5 DEF Rows, Names
<1>8. MintedInv'
  <2>1. w.id <= minted + 1 BY <1>0, <1>4 DEF All
  <2>2. ASSUME NEW s \in All' PROVE s.id <= minted + 1 /\ s.note <= minted + 1
    <3>1. CASE s = w BY <1>0, <2>1, <3>1
    <3>2. CASE s \in All BY <1>0, <1>4, <3>2
    <3> QED BY <1>3, <3>1, <3>2
  <2> QED BY <2>2 DEF MintedInv
<1>9. Apart'
  <2>1. \A p \in Passes : pass'[p].rows = pass[p].rows BY DEF PassStep
  <2>2. \A s \in queue' : s = w \/ (s \in queue /\ s \notin gone) OBVIOUS
  <2>3. \A r, s \in queue' : r.id = s.id => r = s BY <1>5, <2>2 DEF Rows, Apart, All
  <2>4. \A r \in Sending : r \in All /\ r \notin gone BY DEF Rows, Apart, All
  <2>5. \A r \in queue', s \in Sending : r.id # s.id BY <1>5, <2>2, <2>4 DEF Rows, Apart
  <2>6. \A p \in Passes : \A r, s \in pass'[p].kept : r.id = s.id => r = s
    BY <2>3 DEF PassStep, Rows, Apart
  <2>7. \A p, q \in Passes : \A r \in pass'[p].rows, s \in pass'[q].rows : r.id = s.id => p = q /\ r = s
    BY <2>1 DEF Rows, Apart
  <2> QED BY <1>1, <2>3, <2>5, <2>6, <2>7 DEF Apart
<1>10. Homes' BY DEF Rows, Homes, PassStep
<1>11. Marks' BY <1>3 DEF Rows, Marks
<1>12. SrcInv'
  <2>1. OneLine(queue') BY DEF Rows, SrcInv, OneLine
  <2>2. \A p \in Passes : pass'[p].rows = pass[p].rows BY DEF PassStep
  <2> QED BY <2>1, <2>2 DEF Rows, SrcInv
<1>13. RunInv'
  <2> SUFFICES ASSUME session = "running"
               PROVE  /\ \A r \in queue' : r.home = "session"
                      /\ \A p \in Passes : pass'[p].kept = {}
                      /\ \A n \in Notes : /\ went[n].sure <= 1
                                          /\ n \in NotesOf(queue' \union Sending) \/ n > minted + 1
                                               => went[n].sure = 0
    BY <1>1 DEF RunInv
  <2>1. \A r \in queue' : r.home = "session" BY DEF Rows, RunInv
  <2>2. \A p \in Passes : pass'[p].kept = {} BY <2>1 DEF Rows, RunInv, PassStep
  <2>3. ASSUME NEW n \in Notes, n \in NotesOf(queue' \union Sending) \/ n > minted + 1
        PROVE  went[n].sure = 0
    <3>1. n \in Nat BY DEF Notes
    <3>2. CASE n > minted BY <3>2 DEF Rows, RunInv
    <3>3. CASE ~(n > minted)
      <4>1. n \in NotesOf(queue \union Sending) BY <1>0, <2>3, <3>1, <3>3 DEF NotesOf
      <4> QED BY <4>1 DEF Rows, RunInv
    <3> QED BY <3>2, <3>3
  <2> QED BY <2>1, <2>2, <2>3 DEF Rows, RunInv
<1>14. FateInv'
  <2>1. ASSUME NEW s \in queue' PROVE fate'[s.note] \notin Settled
    <3>1. CASE s = w BY <3>1 DEF Settled
    <3>2. CASE s # w BY <1>6, <3>2 DEF All, Rows, FateInv
    <3> QED BY <3>1, <3>2
  <2>2. \A s \in Sending : IF s.id \in withdrawn THEN fate'[s.note] # "open"
                                                ELSE fate'[s.note] \notin Settled
    <3>1. \A r \in Sending : r \in All /\ r \notin gone BY DEF Rows, Apart, All
    <3> QED BY <1>6, <3>1 DEF Rows, FateInv
  <2>3. ASSUME NEW s \in KeptRows' PROVE fate'[s.note] \notin Settled
    <3>1. CASE s \in queue' BY <2>1, <3>1
    <3>2. CASE s \in KeptRows
      <4>1. s \in All /\ s.home = "kept" BY <3>2 DEF All, KeptRows, Rows, Homes
      <4>2. s \notin gone BY <4>1
      <4> QED BY <1>6, <3>2, <4>1, <4>2 DEF Rows, FateInv
    <3> QED BY <1>2, <3>1, <3>2
  <2> QED BY <1>1, <2>1, <2>2, <2>3 DEF FateInv
<1>15. NothingLost'
  <2> SUFFICES ASSUME NEW n \in Notes, fate'[n] = "open", went[n].sure = 0
               PROVE  n \in NotesOf(queue' \union Out')
    BY DEF NothingLost
  <2>1. CASE n = minted + 1
    <3>1. w \in queue' OBVIOUS
    <3> QED BY <2>1, <3>1 DEF NotesOf
  <2>2. CASE n # minted + 1
    <3>1. n \notin NotesOf(gone)
      <4>1. \A r \in gone : r.note # n OBVIOUS
      <4> QED BY <4>1 DEF NotesOf
    <3>2. fate[n] = "open" BY <2>2, <3>1
    <3>3. PICK r \in queue \union Out : r.note = n BY <3>2 DEF Rows, NothingLost, NotesOf
    <3>4. CASE r \in queue BY <3>1, <3>3, <3>4 DEF NotesOf
    <3>5. CASE r \in Out
      <4>1. r \in Out' BY <1>1, <3>5 DEF PassStep, Out
      <4> QED BY <3>3, <4>1 DEF NotesOf
    <3> QED BY <3>4, <3>5
  <2> QED BY <2>1, <2>2
<1> QED BY <1>7, <1>8, <1>9, <1>10, <1>11, <1>12, <1>13, <1>14, <1>15 DEF Rows
LEMMA NewNote ==
  ASSUME Plain, Mint
  PROVE  minted + 1 \in Notes /\ minted' = minted + 1 /\ minted' \in 0..MaxNotes
<1>1. minted \in 0..MaxNotes /\ left["notes"] \in Nat /\ left["notes"] <= MaxNotes /\ MaxNotes \in Nat
  BY QueueAssumption DEF Plain, Kind, QueueAssumption
<1> QED BY <1>1 DEF Mint, Notes

LEMMA FateOfNew ==
  ASSUME Plain, NEW notes, NEW k \in Notes, fate' = [Becomes(notes, "replaced") EXCEPT ![k] = "open"]
  PROVE  /\ fate' \in [Notes -> Fates] /\ fate'[k] = "open"
         /\ \A n \in Notes : n # k /\ n \notin notes => fate'[n] = fate[n]
         /\ \A n \in Notes : n # k /\ n \in notes => fate'[n] = "replaced"
<1> DEFINE f == Becomes(notes, "replaced")
<1>1. /\ f \in [Notes -> Fates] /\ "open" \in Fates
      /\ \A n \in Notes : f[n] = IF n \in notes THEN "replaced" ELSE fate[n]
  BY BecomesIs DEF Fates
<1> HIDE DEF f
<1>2. fate' = [f EXCEPT ![k] = "open"] BY DEF f
<1> QED BY <1>1, <1>2

LEMMA PlainMinted ==
  ASSUME Plain,
         UNCHANGED <<session, went, seen, recheck, timer, idle, free, cooled>>,
         UNCHANGED <<launchWait, puller, ending, endKept, token, told>>,
         minted' \in 0..MaxNotes, fate' \in [Notes -> Fates],
         left' \in [Kind -> Nat], left'["notes"] <= MaxNotes
  PROVE  Plain'
<1>1. token' \subseteq Notes \X Notes /\ told' \in BOOLEAN BY DEF Plain
<1>2. seen' \subseteq Notes /\ went' \in [Notes -> [sure : Nat, late : Nat]] BY DEF Plain
<1>3. recheck' \in BOOLEAN /\ timer' \in BOOLEAN /\ idle' \in BOOLEAN /\ free' \in BOOLEAN
      /\ cooled' \in BOOLEAN /\ launchWait' \in BOOLEAN
  BY DEF Plain
<1>4. /\ puller' \in {"none", "grace", "alive", "dead"}
      /\ session' \in {"running", "gone"}
      /\ ending' \in {"no", "waiting", "holding"} /\ endKept' \in BOOLEAN
  BY DEF Plain
<1> QED BY <1>1, <1>2, <1>3, <1>4 DEF Plain

LEMMA AddEventStep ==
  ASSUME Base, NEW src \in Sources, NEW class \in Classes, AddEvent(src, class)
  PROVE  Base' /\ PassRows({}) /\ (Rows => Rows')
<1>0. Plain /\ PassTyped /\ TypeOK /\ Homes /\ Marks BY PlainNow DEF Base
<1> DEFINE old == {r \in queue : r.src = src}
           new == EventRow(minted + 1, src, class)
           upd(r) == [r EXCEPT !.note = minted + 1, !.class = Strongest({@, class})]
<1>1. /\ queue' = IF old = {} THEN queue \union {new} ELSE (queue \ old) \union {upd(r) : r \in old}
      /\ fate' = [Becomes(NotesOf(old), "replaced") EXCEPT ![minted + 1] = "open"]
      /\ UNCHANGED <<session, went, seen, recheck, timer, idle, free, cooled>>
      /\ UNCHANGED <<launchWait, puller, ending, endKept, token, told, left, withdrawn>>
      /\ Mint /\ Nudged(queue', puller)
  BY DEF AddEvent, clientVars, endVars, gateVars
<1>2. minted + 1 \in Notes /\ minted' = minted + 1 /\ minted' \in 0..MaxNotes
  BY <1>0, <1>1, NewNote
<1>3. src # CheckIn BY QueueAssumption DEF QueueAssumption
<1>4. /\ new \in Row /\ new.id = minted + 1 /\ new.note = minted + 1 /\ new.src = src
      /\ new.home = "session" /\ new.kept = FALSE
  BY <1>2 DEF EventRow, Row, Classes
<1>5. ASSUME NEW r \in old
      PROVE  /\ upd(r) \in Row /\ upd(r).id = r.id /\ upd(r).note = minted + 1
             /\ upd(r).src = r.src /\ upd(r).home = r.home /\ upd(r).kept = r.kept
             /\ r.home = "session" /\ r.kept = FALSE
  <2>1. r \in Row /\ r \in All BY <1>0, TypePass DEF All
  <2>2. Strongest({r.class, class}) \in Classes BY DEF Strongest, Classes
  <2>3. r.home # "kept" /\ ~r.kept BY <1>0, <1>3, <2>1 DEF Marks
  <2> HIDE DEF old
  <2> QED BY <1>2, <2>1, <2>2, <2>3 DEF Row
<1> HIDE DEF new, upd
<1>6. \A s \in queue' : (s \in queue /\ s \notin old) \/ s = new \/ \E r \in old : s = upd(r)
  BY <1>1
<1>7. queue' \in SUBSET Row
  <2> SUFFICES ASSUME NEW s \in queue' PROVE s \in Row OBVIOUS
  <2> HIDE DEF old
  <2> QED BY <1>0, <1>4, <1>5, <1>6, TypePass
<1>8. Marked(queue')
  <2> SUFFICES ASSUME NEW s \in queue'
               PROVE  /\ s.home = "kept" \/ s.kept => s.src = CheckIn
                      /\ s.src = CheckIn => s.class = "wake"
    BY DEF Marked
  <2>1. CASE s \in queue BY <1>0, <2>1 DEF Marks, All
  <2>2. CASE s = new BY <1>3, <1>4, <2>2
  <2>3. CASE \E r \in old : s = upd(r)
    <3>1. \A r \in old : r.src # CheckIn BY <1>3
    <3> HIDE DEF old
    <3> QED BY <1>5, <2>3, <3>1
  <2> QED BY <1>6, <2>1, <2>2, <2>3
<1>9. PassStep({}) /\ PassTyped' BY <1>0, <1>1, <1>7, NudgedSteps
<1>10. /\ fate' \in [Notes -> Fates] /\ fate'[minted + 1] = "open"
       /\ \A n \in Notes : n # minted + 1 /\ n \notin NotesOf(old) => fate'[n] = fate[n]
       /\ \A n \in Notes : n # minted + 1 /\ n \in NotesOf(old) => fate'[n] = "replaced"
  BY <1>0, <1>1, <1>2, FateOfNew
<1>11. Plain' BY <1>0, <1>1, <1>2, <1>10, PlainMinted DEF Plain
<1>12. ToldInv' /\ withdrawn' \subseteq Ids(Sending')
  BY <1>0, <1>1, <1>9, SameSending DEF Base, ToldInv, TypeOK
<1>13. ASSUME Rows PROVE Rows'
  <2>1. \A r \in old : r.note \in Notes /\ r.note # minted + 1 /\ r.note \in NotesOf(old)
    <3> SUFFICES ASSUME NEW r \in old
                 PROVE  r.note \in Notes /\ r.note # minted + 1 /\ r.note \in NotesOf(old)
      OBVIOUS
    <3>1. r \in All /\ r \in Row BY <1>0, TypePass DEF All
    <3>2. r.note <= minted /\ minted \in Nat /\ r.note \in Nat /\ r.note \in Notes
      BY <1>0, <1>13, <3>1, QueueAssumption DEF Rows, MintedInv, TypeOK, QueueAssumption, Row, Notes
    <3> QED BY <3>2 DEF NotesOf
  <2>2. \A r \in old : fate'[r.note] = "replaced" BY <1>10, <2>1
  <2>3. CASE old = {}
    <3>1. queue' = (queue \ {}) \union {new} BY <1>1, <2>3
    <3>2. \A s \in queue : s.src # src BY <2>3
    <3>3. NotesOf({}) = {} BY DEF NotesOf
    <3>4. NotesOf(old) = {} BY <2>3, <3>3
    <3> HIDE DEF old
    <3>5. \A n \in Notes : n # minted + 1 /\ n \notin NotesOf({}) => fate'[n] = fate[n] BY <1>10, <3>3, <3>4
    <3> QED BY <1>0, <1>1, <1>2, <1>3, <1>4, <1>9, <1>10, <1>13, <3>1, <3>2, <3>5, MintedRows
  <2>4. CASE old # {}
    <3>1. PICK r \in old : TRUE BY <2>4
    <3>2. old = {r} BY <1>3, <1>13, <3>1 DEF Rows, SrcInv, OneLine
    <3>3. queue' = (queue \ {r}) \union {upd(r)} BY <1>1, <3>2
    <3>4. /\ upd(r) \in Row /\ upd(r).id = r.id /\ upd(r).note = minted + 1 /\ upd(r).src = src
          /\ upd(r).home = "session" /\ upd(r).kept = FALSE /\ r.src = src /\ r.home = "session"
          /\ r \in queue
      BY <1>5, <3>1
    <3>5. \A s \in queue \ {r} : s.src # src BY <3>2
    <3> HIDE DEF old
    <3>6. /\ fate'[r.note] = "replaced"
          /\ \A n \in Notes : n # minted + 1 /\ n \notin NotesOf({r}) => fate'[n] = fate[n]
      BY <1>10, <2>2, <3>1, <3>2
    <3> DEFINE w == upd(r)
    <3>7. /\ w \in Row /\ w.id = r.id /\ w.note = minted + 1 /\ w.src = src
          /\ w.home = "session" /\ w.kept = FALSE /\ queue' = (queue \ {r}) \union {w}
      BY <3>3, <3>4
    <3> HIDE DEF w
    <3>8. \E q \in queue : {r} = {q} /\ w.id = q.id /\ w.src = q.src /\ q.home = "session"
      BY <3>4, <3>7
    <3>9. {r} \in SUBSET queue BY <3>4
    <3> QED BY <1>0, <1>1, <1>2, <1>3, <1>9, <1>10, <1>13, <3>5, <3>6, <3>7, <3>8, <3>9, MintedRows
  <2> QED BY <2>3, <2>4
<1> QED BY <1>7, <1>8, <1>9, <1>11, <1>12, <1>13, BaseNext

LEMMA AddCheckInStep ==
  ASSUME Base, NEW due \in BOOLEAN, AddCheckIn(due)
  PROVE  Base' /\ PassRows({}) /\ (Rows => Rows')
<1>0. Plain /\ PassTyped /\ TypeOK /\ Homes /\ Marks BY PlainNow DEF Base
<1> DEFINE new == CheckInRow(minted + 1, due)
<1>1. /\ queue' = queue \union {new}
      /\ fate' = [fate EXCEPT ![minted + 1] = "open"]
      /\ UNCHANGED <<session, went, seen, recheck, timer, idle, free, cooled>>
      /\ UNCHANGED <<launchWait, puller, ending, endKept, token, told, left, withdrawn>>
      /\ Mint /\ Nudged(queue', puller)
  BY DEF AddCheckIn, clientVars, endVars, gateVars
<1>2. minted + 1 \in Notes /\ minted' = minted + 1 /\ minted' \in 0..MaxNotes
  BY <1>0, <1>1, NewNote
<1>3. /\ new \in Row /\ new.id = minted + 1 /\ new.note = minted + 1 /\ new.src = CheckIn
      /\ new.home = "session" /\ new.kept = FALSE /\ new.class = "wake"
  BY <1>2 DEF CheckInRow, Row, Classes
<1> HIDE DEF new
<1>4. queue' \in SUBSET Row BY <1>0, <1>1, <1>3, TypePass
<1>5. Marked(queue') BY <1>0, <1>1, <1>3 DEF Marked, Marks, All
<1>6. PassStep({}) /\ PassTyped' BY <1>0, <1>1, <1>4, NudgedSteps
<1>7. fate' \in [Notes -> Fates] /\ fate'[minted + 1] = "open"
      /\ \A n \in Notes : n # minted + 1 => fate'[n] = fate[n]
  BY <1>0, <1>1, <1>2 DEF Plain, Fates
<1>8. Plain' BY <1>0, <1>1, <1>2, <1>7, PlainMinted DEF Plain
<1>9. ToldInv' /\ withdrawn' \subseteq Ids(Sending')
  BY <1>0, <1>1, <1>6, SameSending DEF Base, ToldInv, TypeOK
<1>10. ASSUME Rows PROVE Rows'
  <2>1. queue' = (queue \ {}) \union {new} /\ {} \in SUBSET queue BY <1>1
  <2>2. \A n \in Notes : n # minted + 1 /\ n \notin NotesOf({}) => fate'[n] = fate[n] BY <1>7
  <2>3. UNCHANGED <<withdrawn, session, went>> BY <1>1
  <2> QED BY <1>0, <1>2, <1>3, <1>6, <1>7, <1>10, <2>1, <2>2, <2>3, MintedRows
<1> QED BY <1>4, <1>5, <1>6, <1>8, <1>9, <1>10, BaseNext

LEMMA RewordCheckInStep ==
  ASSUME Base, NEW r \in queue, RewordCheckIn(r)
  PROVE  Base' /\ PassRows({}) /\ (Rows /\ r.home # "kept" => Rows')
<1>0. Plain /\ PassTyped /\ TypeOK /\ Homes /\ Marks /\ r \in Row /\ r \in All
  BY PlainNow, TypePass DEF Base, All
<1> DEFINE new == [r EXCEPT !.note = minted + 1, !.tries = 0]
<1>1. /\ queue' = (queue \ {r}) \union {new} /\ r.src = CheckIn
      /\ fate' = [Becomes({r.note}, "replaced") EXCEPT ![minted + 1] = "open"]
      /\ UNCHANGED <<session, went, seen, recheck, timer, idle, free, cooled>>
      /\ UNCHANGED <<launchWait, puller, ending, endKept, token, told, withdrawn>>
      /\ Mint /\ Nudged(queue', puller)
  BY DEF RewordCheckIn, clientVars, endVars, gateVars
<1>2. minted + 1 \in Notes /\ minted' = minted + 1 /\ minted' \in 0..MaxNotes
  BY <1>0, <1>1, NewNote
<1>3. /\ new \in Row /\ new.id = r.id /\ new.note = minted + 1 /\ new.src = r.src
      /\ new.home = r.home /\ new.kept = r.kept /\ new.class = "wake"
  BY <1>0, <1>1, <1>2 DEF Row, Marks
<1> HIDE DEF new
<1>4. queue' \in SUBSET Row BY <1>0, <1>1, <1>3, TypePass
<1>5. Marked(queue') BY <1>0, <1>1, <1>3 DEF Marked, Marks, All
<1>6. PassStep({}) /\ PassTyped' BY <1>0, <1>1, <1>4, NudgedSteps
<1>7. NotesOf({r}) = {r.note} BY DEF NotesOf
<1>8. /\ fate' \in [Notes -> Fates] /\ fate'[minted + 1] = "open"
      /\ \A n \in Notes : n # minted + 1 /\ n \notin NotesOf({r}) => fate'[n] = fate[n]
      /\ \A n \in Notes : n # minted + 1 /\ n \in NotesOf({r}) => fate'[n] = "replaced"
  <2>1. fate' = [Becomes(NotesOf({r}), "replaced") EXCEPT ![minted + 1] = "open"] BY <1>1, <1>7
  <2> QED BY <1>0, <1>2, <2>1, FateOfNew
<1>9. left' \in [Kind -> Nat] /\ left'["notes"] <= MaxNotes
  BY <1>0, SpendIs DEF RewordCheckIn, Kind
<1>10. Plain' BY <1>0, <1>1, <1>2, <1>8, <1>9, PlainMinted
<1>11. ToldInv' /\ withdrawn' \subseteq Ids(Sending')
  BY <1>0, <1>1, <1>6, SameSending DEF Base, ToldInv, TypeOK
<1>12. ASSUME Rows, r.home # "kept" PROVE Rows'
  <2>1. r.note <= minted /\ minted \in Nat /\ r.note \in Nat /\ r.note \in Notes
    BY <1>0, <1>12, QueueAssumption DEF Rows, MintedInv, TypeOK, QueueAssumption, Row, Notes
  <2>2. fate'[r.note] = "replaced" BY <1>7, <1>8, <2>1
  <2>3. r.home = "session" BY <1>0, <1>12 DEF Row
  <2>4. {r} \in SUBSET queue OBVIOUS
  <2>5. \E q \in queue : {r} = {q} /\ new.id = q.id /\ new.src = q.src /\ q.home = "session"
    BY <1>3, <2>3
  <2>6. new.home = "session" /\ new.src = CheckIn BY <1>1, <1>3, <2>3
  <2>7. UNCHANGED <<withdrawn, session, went>> BY <1>1
  <2>8. \A q \in {r} : fate'[q.note] = "replaced" BY <2>2
  <2>9. queue' = (queue \ {r}) \union {new} BY <1>1
  <2> QED BY <1>0, <1>2, <1>3, <1>6, <1>8, <1>12, <2>4, <2>5, <2>6, <2>7, <2>8, <2>9, MintedRows
<1> QED BY <1>4, <1>5, <1>6, <1>10, <1>11, <1>12, BaseNext
-----------------------------------------------------------------------------
(* The paste.                                                              *)

LEMMA PasteBeginsStep ==
  ASSUME Base, NEW p \in Passes, NEW taken \in MayCarry, PasteBegins(p, taken)
  PROVE  /\ Base' /\ (Rows => Rows')
         /\ taken \subseteq queue /\ Sending' = Sending \union taken /\ KeptRows' = KeptRows
<1>0. Plain /\ PassTyped /\ TypeOK /\ Homes /\ Marks /\ pass[p] \in Pass
  BY PlainNow DEF Base, PassTyped
<1>1. \A r \in taken : r \in queue /\ r.home = "session"
  <2>1. taken \in Compositions(Due(queue)) BY DEF MayCarry
  <2> QED BY <2>1, ComposedRows DEF Due, Live
<1>2. /\ queue' = queue \ taken /\ SchedulerAsIs
      /\ pass' = [Moved(p, "paste") EXCEPT ![p].rows = taken]
      /\ UNCHANGED <<minted, withdrawn, session, went, fate, token, told, seen>>
      /\ UNCHANGED <<recheck, timer, idle, free, cooled, launchWait, puller, ending, endKept, left>>
  BY DEF PasteBegins, clientVars, endVars, gateVars, history
<1>3. pass[p].rows = {} /\ pass[p].at = "input"
  BY <1>0 DEF PasteBegins, GateAnswers, At, Homes
<1> DEFINE x == [pass[p] EXCEPT !.at = "paste", !.rows = taken]
<1>4. taken \subseteq Row BY <1>0, <1>1, TypePass
<1>5. x \in Pass /\ x.at = "paste" /\ x.rows = taken /\ x.kept = pass[p].kept
  BY <1>0, <1>4 DEF Pass, Places
<1>6. pass' = [pass EXCEPT ![p] = x] BY <1>0, <1>2 DEF Moved, PassTyped
<1> HIDE DEF x
<1>7. /\ pass' \in [Passes -> Pass] /\ pass'[p] = x
      /\ \A q \in Passes : q # p => pass'[q] = pass[q]
  BY <1>0, <1>5, <1>6 DEF PassTyped
<1>8. \A q \in Passes : /\ pass'[q].kept = pass[q].kept
                        /\ q # p => pass'[q].rows = pass[q].rows /\ pass'[q].at = pass[q].at
                        /\ q = p => pass'[q].rows = taken /\ pass'[q].at = "paste"
  BY <1>5, <1>7
<1>9. Sending' = Sending \union taken /\ KeptRows' = KeptRows
  <2>1. Sending' = Sending \union taken BY <1>3, <1>8 DEF Sending
  <2>2. KeptRows' = KeptRows BY <1>8 DEF KeptRows
  <2> QED BY <2>1, <2>2
<1>10. All' = All BY <1>1, <1>2, <1>9 DEF All
<1>11. Homes' BY <1>0, <1>1, <1>8 DEF Homes
<1>12. Base'
  <2>1. queue' \subseteq Row BY <1>0, <1>2, TypePass
  <2>2. PassTyped' BY <1>0, <1>2, <1>7 DEF PassTyped, SchedulerTyped, SchedulerAsIs
  <2>3. withdrawn' \subseteq Ids(Sending') BY <1>0, <1>2, <1>9 DEF TypeOK, Ids
  <2>4. Plain' BY <1>0, <1>2, PlainGone DEF Plain
  <2>5. TypeOK' /\ left'["notes"] <= MaxNotes
    BY <2>1, <2>2, <2>3, <2>4 DEF TypeOK, Plain, PassTyped, Pass, SchedulerTyped
  <2>6. Marks' BY <1>0, <1>10 DEF Marks
  <2>7. ToldInv' BY <1>2 DEF Base, ToldInv
  <2> QED BY <1>11, <2>5, <2>6, <2>7 DEF Base
<1>13. ASSUME Rows PROVE Rows'
  <2>1. Names' /\ MintedInv' /\ Marks' BY <1>2, <1>10, <1>13 DEF Rows, Names, MintedInv, Marks
  <2>2. Apart'
    <3>1. \A r, s \in queue' : r.id = s.id => r = s BY <1>2, <1>13 DEF Rows, Apart
    <3>2. \A r \in queue', s \in Sending' : r.id # s.id BY <1>1, <1>2, <1>9, <1>13 DEF Rows, Apart
    <3>3. ASSUME NEW a \in Passes, NEW b \in Passes, NEW r \in pass'[a].rows, NEW s \in pass'[b].rows,
                 r.id = s.id
          PROVE  a = b /\ r = s
      <4>1. CASE a = p /\ b = p BY <1>1, <1>8, <1>13, <3>3, <4>1 DEF Rows, Apart
      <4>2. CASE a = p /\ b # p
        <5>1. r \in queue /\ s \in Sending BY <1>1, <1>8, <4>2 DEF Sending
        <5> QED BY <1>13, <3>3, <5>1 DEF Rows, Apart
      <4>3. CASE a # p /\ b = p
        <5>1. s \in queue /\ r \in Sending BY <1>1, <1>8, <4>3 DEF Sending
        <5> QED BY <1>13, <3>3, <5>1 DEF Rows, Apart
      <4>4. CASE a # p /\ b # p BY <1>8, <1>13, <3>3, <4>4 DEF Rows, Apart
      <4> QED BY <4>1, <4>2, <4>3, <4>4
    <3>4. \A a \in Passes : \A r, s \in pass'[a].kept : r.id = s.id => r = s
      BY <1>8, <1>13 DEF Rows, Apart
    <3> QED BY <3>1, <3>2, <3>3, <3>4 DEF Apart
  <2>3. SrcInv'
    <3>1. OneLine(queue') /\ OneLine(taken) BY <1>1, <1>2, <1>13 DEF Rows, SrcInv, OneLine
    <3>2. \A q \in Passes : OneLine(pass'[q].rows) BY <1>8, <1>13, <3>1 DEF Rows, SrcInv
    <3> QED BY <3>1, <3>2 DEF SrcInv
  <2>4. queue' \union Sending' = queue \union Sending BY <1>1, <1>2, <1>9
  <2>5. RunInv'
    <3>1. \A q \in Passes : pass'[q].kept = pass[q].kept BY <1>8
    <3>2. \A r \in queue' : r \in queue BY <1>2
    <3> QED BY <1>2, <1>13, <2>4, <3>1, <3>2 DEF Rows, RunInv
  <2>6. FateInv'
    <3>1. \A r \in taken : r.id \notin withdrawn
      <4> SUFFICES ASSUME NEW r \in taken, r.id \in withdrawn PROVE FALSE OBVIOUS
      <4>1. PICK s \in Sending : s.id = r.id BY <1>0 DEF TypeOK, Ids
      <4> QED BY <1>1, <1>13, <4>1 DEF Rows, Apart
    <3> QED BY <1>1, <1>2, <1>9, <1>13, <3>1 DEF Rows, FateInv
  <2>7. NothingLost'
    <3>1. \A q \in Passes : pass[q].at = "launch" <=> pass'[q].at = "launch" BY <1>3, <1>8
    <3>2. queue \union Out \subseteq queue' \union Out'
      <4> SUFFICES ASSUME NEW r \in queue \union Out PROVE r \in queue' \union Out' OBVIOUS
      <4>1. CASE r \in queue \union Sending BY <2>4, <4>1 DEF Out
      <4>2. CASE r \notin queue \union Sending
        <5>1. PICK q \in Passes : pass[q].at = "launch" /\ r \in pass[q].kept BY <4>2 DEF Out
        <5> QED BY <1>8, <3>1, <5>1 DEF Out
      <4> QED BY <4>1, <4>2
    <3> QED BY <1>2, <1>13, <3>2 DEF Rows, NothingLost, NotesOf
  <2> QED BY <1>11, <2>1, <2>2, <2>3, <2>5, <2>6, <2>7 DEF Rows
<1> QED BY <1>1, <1>9, <1>12, <1>13

(* A pass lets the rows of its paste go. *)
LEMMA LetGo ==
  ASSUME TypeOK, Homes, NEW p \in Passes, pass[p].at \in {"paste", "pasting"}, PassStep({p}),
         withdrawn' = withdrawn \ Ids(pass[p].rows)
  PROVE  /\ withdrawn' \subseteq Ids(Sending') /\ Dropped({p}) = pass[p].rows
         /\ Rows => \A q \in Passes : \A r \in pass[q].rows :
                      q # p /\ r.id \in withdrawn => r.id \in withdrawn'
<1>1. ASSUME NEW i \in withdrawn' PROVE i \in Ids(Sending')
  <2>1. PICK r \in Sending : r.id = i BY DEF TypeOK, Ids
  <2>2. PICK q \in Passes : r \in pass[q].rows BY DEF Sending
  <2>3. q # p BY <2>1, <2>2 DEF Ids
  <2>4. r \in pass'[q].rows BY <2>2, <2>3 DEF PassStep
  <2> QED BY <2>1, <2>4 DEF Ids, Sending
<1>2. Dropped({p}) = pass[p].rows
  <2>1. pass[p].rows \subseteq Dropped({p}) BY DEF Dropped
  <2>2. Dropped({p}) \subseteq pass[p].rows BY DroppedCases
  <2> QED BY <2>1, <2>2
<1>3. ASSUME Rows, NEW q \in Passes, NEW r \in pass[q].rows, q # p, r.id \in withdrawn
      PROVE  r.id \in withdrawn'
  <2>1. \A s \in pass[p].rows : s.id # r.id BY <1>3 DEF Rows, Apart
  <2> QED BY <1>3, <2>1 DEF Ids
<1> QED BY <1>1, <1>2, <1>3

LEMMA PastedStep ==
  ASSUME Base, NEW p \in Passes, Pasted(p)
  PROVE  Base' /\ PassRows({p}) /\ (Rows => Rows')
<1>0. Plain /\ PassTyped /\ TypeOK /\ Homes /\ Marks BY PlainNow DEF Base
<1>1. /\ queue' = queue /\ went' = HandedOut(NotesOf(pass[p].rows)) /\ cooled' = FALSE
      /\ withdrawn' = withdrawn \ Ids(pass[p].rows) /\ pass[p].at = "pasting"
      /\ UNCHANGED <<minted, session, fate, token, told, seen>>
      /\ UNCHANGED <<recheck, timer, idle, free, launchWait, puller, ending, endKept, left>>
  BY DEF Pasted, At, clientVars, endVars
<1>2. queue' \in SUBSET Row /\ Marked(queue') BY <1>0, <1>1, MarkedNow DEF TypeOK
<1>3. PassStep({p}) /\ PassTyped'
  <2>1. NudgedFrom(LiveDone(p), queue', puller) BY <1>1 DEF Pasted
  <2> QED BY <1>0, <1>2, <2>1, LiveDoneSteps
<1>4. /\ withdrawn' \subseteq Ids(Sending') /\ Dropped({p}) = pass[p].rows
      /\ Rows => \A q \in Passes : \A r \in pass[q].rows :
                   q # p /\ r.id \in withdrawn => r.id \in withdrawn'
  BY <1>0, <1>1, <1>3, LetGo
<1>5. /\ went' \in [Notes -> [sure : Nat, late : Nat]]
      /\ \A n \in Notes : went'[n].sure = IF n \in NotesOf(pass[p].rows) THEN went[n].sure + 1
                                                                     ELSE went[n].sure
  BY <1>0, <1>1, HandedOutIs
<1>6. Plain' BY <1>0, <1>1, <1>5 DEF Plain
<1>7. ToldInv' BY <1>1 DEF Base, ToldInv
<1>8. ASSUME Rows PROVE Rows'
  <2>0. {p} \in SUBSET Passes OBVIOUS
  <2>1. TableStep({p})
    <3>1. \A s \in queue : Like(s, s) BY <1>0, LikeItself DEF All
    <3> QED BY <1>1, <1>8, <3>1 DEF TableStep, Rows, Apart, SrcInv
  <2>2. \A n \in Notes : went[n].sure \in Nat BY <1>0 DEF Plain
  <2>3. \A n \in NotesOf(pass[p].rows) : n \notin NotesOf(queue)
    <3> SUFFICES ASSUME NEW r \in pass[p].rows, NEW s \in queue, r.note = s.note PROVE FALSE
      BY DEF NotesOf
    <3>1. r \in Sending /\ r \in All /\ s \in All BY DEF Sending, All
    <3>2. r.id = s.id BY <1>8, <3>1 DEF Rows, Names
    <3> QED BY <1>8, <3>1, <3>2 DEF Rows, Apart
  <2>4. HistoryStep({p})
    <3>1. \A n \in Notes : went'[n].sure # went[n].sure =>
            /\ went'[n].sure = went[n].sure + 1
            /\ n \in NotesOf(queue \union Dropped({p})) /\ n \notin NotesOf(queue')
      BY <1>1, <1>4, <1>5, <2>3 DEF NotesOf
    <3>2. \A n \in Notes : went[n].sure # 0 => went'[n].sure # 0 BY <1>5, <2>2
    <3>3. \A r \in Sending : r.id \in withdrawn => \A s \in queue' : s.id # r.id
      BY <1>1, <1>8 DEF Rows, Apart
    <3> QED BY <1>1, <1>4, <1>8, <3>1, <3>2, <3>3 DEF HistoryStep
  <2>5. NoneForgotten({p})
    <3> SUFFICES ASSUME NEW r \in queue \union Dropped({p})
                 PROVE  \/ r.note \in NotesOf(queue' \union Out')
                        \/ fate'[r.note] # "open" \/ went'[r.note].sure # 0
      BY DEF NoneForgotten
    <3>1. CASE r \in queue BY <1>1, <3>1 DEF NotesOf
    <3>2. CASE r \in pass[p].rows
      <4>1. r \in All /\ r.note \in NotesOf(pass[p].rows) BY <3>2 DEF All, Sending, NotesOf
      <4>2. r.note \in Notes BY <1>0, <4>1, AllRows DEF Row
      <4> QED BY <1>5, <2>2, <4>1, <4>2
    <3> QED BY <1>4, <3>1, <3>2
  <2> QED BY <1>0, <1>3, <1>8, <2>0, <2>1, <2>4, <2>5, Shift
<1> QED BY <1>2, <1>3, <1>4, <1>6, <1>7, <1>8, BaseNext
(* What was not withdrawn is put back, unless a newer line stands. *)
LEMMA RestoredIs ==
  ASSUME TypeOK, Marks, NEW back \in SUBSET All
  PROVE  /\ Restored(queue, back) \in SUBSET Row
         /\ \A s \in Restored(queue, back) :
              \/ \E n \in queue : Like(s, n)
              \/ s \in back /\ Newer(queue, s) = {} /\ Like(s, s)
         /\ \A n \in queue : \E s \in Restored(queue, back) : s.note = n.note
         /\ \A r \in back : Newer(queue, r) = {} => r \in Restored(queue, back)
<1> DEFINE classes(n) == {n.class} \union {r.class : r \in {r \in back : n \in Newer(queue, r)}}
           upd(n) == [n EXCEPT !.class = Strongest(classes(n))]
<1>1. Restored(queue, back) = {upd(n) : n \in queue} \union {r \in back : Newer(queue, r) = {}}
  BY DEF Restored
<1>2. ASSUME NEW n \in queue PROVE Like(upd(n), n)
  <2>1. Like(n, n) /\ n \in Row BY LikeItself, TypePass DEF All
  <2>2. Strongest(classes(n)) \in Classes /\ (n.class = "wake" => Strongest(classes(n)) = "wake")
    BY DEF Strongest, Classes
  <2> HIDE DEF classes
  <2> QED BY <2>1, <2>2 DEF Like, Row
<1> HIDE DEF upd
<1>3. \A r \in back : Like(r, r) /\ r \in Row BY LikeItself DEF Like
<1>4. ASSUME NEW n \in queue PROVE \E s \in Restored(queue, back) : s.note = n.note
  <2>1. upd(n) \in Restored(queue, back) BY <1>1
  <2> QED BY <1>2, <2>1 DEF Like
<1> QED BY <1>1, <1>2, <1>3, <1>4 DEF Like

LEMMA ComeBackSteps ==
  ASSUME Base, NEW p \in Passes, pass[p].at \in {"paste", "pasting"}, RowsComeBack(p),
         PassStep({p}), PassTyped', UNCHANGED <<minted, session, token, told, seen>>,
         Plain', \A n \in Notes : went'[n].sure = went[n].sure
  PROVE  Base' /\ PassRows({p}) /\ (Rows => Rows')
<1>0. Plain /\ PassTyped /\ TypeOK /\ Homes /\ Marks BY PlainNow DEF Base
<1> DEFINE back == {r \in pass[p].rows : r.id \notin withdrawn}
           gone == Superseded(queue, back)
<1>1. /\ queue' = Restored(queue, back) /\ withdrawn' = withdrawn \ Ids(pass[p].rows)
      /\ fate' = Becomes(gone, "replaced")
  BY DEF RowsComeBack
<1>2. /\ withdrawn' \subseteq Ids(Sending') /\ Dropped({p}) = pass[p].rows
      /\ Rows => \A q \in Passes : \A r \in pass[q].rows :
                   q # p /\ r.id \in withdrawn => r.id \in withdrawn'
  BY <1>0, <1>1, LetGo
<1>3. back \in SUBSET All BY DEF All, Sending
<1>4. /\ queue' \in SUBSET Row
      /\ \A s \in queue' : \/ \E n \in queue : Like(s, n)
                           \/ s \in back /\ Newer(queue, s) = {} /\ Like(s, s)
      /\ \A n \in queue : \E s \in queue' : s.note = n.note
      /\ \A r \in back : Newer(queue, r) = {} => r \in queue'
  <2> HIDE DEF back
  <2> QED BY <1>0, <1>1, <1>3, RestoredIs
<1>5. Marked(queue')
  <2> SUFFICES ASSUME NEW s \in queue'
               PROVE  /\ s.home = "kept" \/ s.kept => s.src = CheckIn
                      /\ s.src = CheckIn => s.class = "wake"
    BY DEF Marked
  <2>1. CASE \E n \in queue : Like(s, n) BY <1>0, <2>1 DEF Like, Marks, All
  <2>2. CASE s \in back BY <1>0, <1>3, <2>2 DEF Marks
  <2> QED BY <1>4, <2>1, <2>2
<1>6. ToldInv' BY DEF Base, ToldInv
<1>7. \A n \in gone : \E r \in back : r.note = n /\ Newer(queue, r) # {} BY DEF Superseded, NotesOf
<1>8. \A r \in back : Newer(queue, r) # {} => r.note \in gone BY DEF Superseded, NotesOf
<1> HIDE DEF gone
<1>9. \A n \in Notes : fate'[n] = IF n \in gone THEN "replaced" ELSE fate[n]
  BY <1>0, <1>1, BecomesIs DEF Fates
<1>10. ASSUME Rows PROVE Rows'
  <2>1. TableStep({p})
    <3>1. \A s \in queue' : \E r \in queue \union Dropped({p}) : Like(s, r) BY <1>2, <1>4
    <3>2. ASSUME NEW s \in queue', NEW t \in queue', s.id = t.id PROVE s = t
      <4>1. ASSUME NEW n \in queue, Like(s, n), NEW m \in queue, Like(t, m) PROVE s = t
        <5>1. n = m BY <1>10, <3>2, <4>1 DEF Rows, Apart, Like
        <5> DEFINE classes == {n.class} \union {r.class : r \in {r \in back : n \in Newer(queue, r)}}
        <5>2. \A x \in queue' : x.id = n.id => x = [n EXCEPT !.class = Strongest(classes)]
          <6> SUFFICES ASSUME NEW x \in queue', x.id = n.id
                       PROVE  x = [n EXCEPT !.class = Strongest(classes)]
            OBVIOUS
          <6>1. x \notin back BY <1>10 DEF Rows, Apart, Sending
          <6>2. PICK k \in queue : x = [k EXCEPT !.class = Strongest({@} \union
                                     {r.class : r \in {r \in back : k \in Newer(queue, r)}})]
            BY <1>1, <6>1 DEF Restored
          <6>3. k.id = x.id
            <7>1. k \in Row BY <1>0, TypePass
            <7> QED BY <6>2, <7>1 DEF Row
          <6>4. k = n BY <1>10, <6>3 DEF Rows, Apart
          <6> QED BY <6>2, <6>4
        <5> QED BY <3>2, <4>1, <5>2 DEF Like
      <4>2. ASSUME NEW n \in queue, NEW x \in queue', Like(x, n), NEW y \in back PROVE x.id # y.id
        BY <1>10, <4>2 DEF Rows, Apart, Like, Sending
      <4>3. s \in back /\ t \in back => s = t BY <1>10, <3>2 DEF Rows, Apart
      <4> QED BY <1>4, <3>2, <4>1, <4>2, <4>3
    <3>3. OneLine(queue')
      <4> SUFFICES ASSUME NEW s \in queue', NEW t \in queue', s.src = t.src, s.src # CheckIn
                   PROVE  s = t
        BY DEF OneLine
      <4>1. ASSUME NEW n \in queue, Like(s, n), NEW m \in queue, Like(t, m) PROVE s = t
        <5>1. n = m BY <1>10, <4>1 DEF Rows, SrcInv, OneLine, Like
        <5> QED BY <3>2, <4>1, <5>1 DEF Like
      <4>2. ASSUME NEW n \in queue, NEW x \in queue', Like(x, n), NEW y \in back,
                   Newer(queue, y) = {}, x.src = y.src, x.src # CheckIn
            PROVE  FALSE
        BY <4>2 DEF Newer, Like
      <4>3. s \in back /\ t \in back => s = t BY <1>10 DEF Rows, SrcInv, OneLine
      <4> QED BY <1>4, <4>1, <4>2, <4>3
    <3> QED BY <3>1, <3>2, <3>3 DEF TableStep
  <2>2. ASSUME NEW r \in back, Newer(queue, r) # {} PROVE r.note \notin NotesOf(queue')
    <3> SUFFICES ASSUME NEW s \in queue', s.note = r.note PROVE FALSE BY DEF NotesOf
    <3>1. r \in All /\ r \in Sending BY DEF All, Sending
    <3>2. CASE \E n \in queue : Like(s, n)
      <4>1. PICK n \in queue : Like(s, n) BY <3>2
      <4>2. n \in All /\ n.note = r.note BY <4>1 DEF All, Like
      <4>3. n.id = r.id BY <1>10, <3>1, <4>2 DEF Rows, Names
      <4> QED BY <1>10, <3>1, <4>3 DEF Rows, Apart
    <3>3. CASE s \in back /\ Newer(queue, s) = {}
      <4>1. s.id = r.id BY <1>3, <1>10, <3>3 DEF Rows, Names
      <4>2. s = r BY <1>10, <3>3, <4>1 DEF Rows, Apart
      <4> QED BY <2>2, <3>3, <4>2
    <3> QED BY <1>4, <3>2, <3>3
  <2>3. \A n \in gone : n \notin NotesOf(queue') /\ n \in NotesOf(Dropped({p}))
    <3> SUFFICES ASSUME NEW n \in gone PROVE n \notin NotesOf(queue') /\ n \in NotesOf(Dropped({p}))
      OBVIOUS
    <3>1. PICK r \in back : r.note = n /\ Newer(queue, r) # {} BY <1>7
    <3> QED BY <1>2, <2>2, <3>1 DEF NotesOf
  <2>4. HistoryStep({p})
    <3>1. ASSUME NEW n \in Notes, fate'[n] # fate[n]
          PROVE  /\ fate'[n] # "open" /\ n \notin NotesOf(queue')
                 /\ n \in NotesOf(queue \union Dropped({p}))
      BY <1>9, <2>3, <3>1 DEF NotesOf
    <3>2. ASSUME NEW r \in All, r.home = "kept" PROVE fate'[r.note] = fate[r.note]
      <4>1. r.note \in Notes BY <1>0, AllRows DEF Row
      <4>2. r.note \notin gone
        <5> SUFFICES ASSUME NEW s \in back, s.note = r.note PROVE FALSE BY <1>7
        <5>1. s \in All /\ s.home = "session" BY <1>0, <1>3 DEF Homes
        <5> QED BY <1>10, <3>2, <5>1 DEF Rows, Names
      <4> QED BY <1>9, <4>1, <4>2
    <3>3. ASSUME NEW r \in Sending, r.id \in withdrawn, NEW s \in queue' PROVE s.id # r.id
      <4>1. CASE \E n \in queue : Like(s, n) BY <1>10, <4>1 DEF Rows, Apart, Like
      <4>2. CASE s \in back BY <3>3, <4>2
      <4> QED BY <1>4, <4>1, <4>2
    <3>4. \A r \in Sending : r.id \in withdrawn' => r.id \in withdrawn BY <1>1
    <3> HIDE DEF back
    <3> QED BY <1>2, <1>10, <3>1, <3>2, <3>3, <3>4 DEF HistoryStep
  <2>5. NoneForgotten({p})
    <3> SUFFICES ASSUME NEW r \in queue \union Dropped({p})
                 PROVE  \/ r.note \in NotesOf(queue' \union Out')
                        \/ fate'[r.note] # "open"
      BY DEF NoneForgotten
    <3>1. CASE r \in queue BY <1>4, <3>1 DEF NotesOf
    <3>2. CASE r \in pass[p].rows
      <4>0. r \in Sending /\ r \in All BY <3>2 DEF Sending, All
      <4>1. r.note \in Notes BY <1>0, <4>0, AllRows DEF Row
      <4>2. CASE r.id \in withdrawn
        <5>1. fate[r.note] # "open" BY <1>10, <4>0, <4>2 DEF Rows, FateInv
        <5> QED BY <1>9, <4>1, <5>1
      <4>3. CASE r.id \notin withdrawn /\ Newer(queue, r) = {} BY <1>4, <3>2, <4>3 DEF NotesOf
      <4>4. CASE r.id \notin withdrawn /\ Newer(queue, r) # {}
        <5>1. r.note \in gone BY <1>8, <3>2, <4>4
        <5> QED BY <1>9, <4>1, <5>1
      <4> QED BY <4>2, <4>3, <4>4
    <3> QED BY <1>2, <3>1, <3>2
  <2>6. {p} \in SUBSET Passes OBVIOUS
  <2> QED BY <1>0, <1>10, <2>1, <2>4, <2>5, <2>6, Shift
<1> HIDE DEF back
<1> QED BY <1>2, <1>4, <1>5, <1>6, <1>10, BaseNext
LEMMA HandedOutLateIs ==
  ASSUME Plain, NEW notes
  PROVE  /\ HandedOutLate(notes) \in [Notes -> [sure : Nat, late : Nat]]
         /\ \A n \in Notes : HandedOutLate(notes)[n].sure = went[n].sure
<1>1. \A n \in Notes : went[n] \in [sure : Nat, late : Nat] BY DEF Plain
<1>2. ASSUME NEW n \in Notes
      PROVE  /\ [went[n] EXCEPT !.late = @ + 1] \in [sure : Nat, late : Nat]
             /\ [went[n] EXCEPT !.late = @ + 1].sure = went[n].sure
  BY <1>1
<1> QED BY <1>1, <1>2 DEF HandedOutLate

(* The typing of what a paste that did not happen leaves behind. *)
LEMMA ComeBackTyped ==
  ASSUME Plain, NEW p \in Passes, RowsComeBack(p)
  PROVE  fate' \in [Notes -> Fates]
BY BecomesIs DEF RowsComeBack, Fates

LEMMA ComeBackQueue ==
  ASSUME TypeOK, Marks, NEW p \in Passes, RowsComeBack(p)
  PROVE  queue' \in SUBSET Row
<1> DEFINE back == {r \in pass[p].rows : r.id \notin withdrawn}
<1>1. back \in SUBSET All /\ queue' = Restored(queue, back) BY DEF All, Sending, RowsComeBack
<1> HIDE DEF back
<1> QED BY <1>1, RestoredIs

LEMMA PasteRefusedStep ==
  ASSUME Base, NEW p \in Passes, PasteRefused(p)
  PROVE  Base' /\ PassRows({p}) /\ (Rows => Rows')
<1>0. Plain /\ PassTyped /\ TypeOK /\ Homes /\ Marks BY PlainNow DEF Base
<1>1. /\ UNCHANGED <<minted, session, went, token, told, seen>>
      /\ UNCHANGED <<recheck, timer, idle, free, cooled, launchWait, puller, ending, endKept>>
      /\ pass[p].at = "paste" /\ RowsComeBack(p) /\ NudgedFrom(LiveDone(p), queue', puller)
      /\ UNCHANGED left \/ Spend("faults")
  BY DEF PasteRefused, At, clientVars, endVars, gateVars
<1>2. queue' \in SUBSET Row /\ fate' \in [Notes -> Fates]
  BY <1>0, <1>1, ComeBackQueue, ComeBackTyped
<1>3. PassStep({p}) /\ PassTyped' BY <1>0, <1>1, <1>2, LiveDoneSteps
<1>4. left' \in [Kind -> Nat] /\ left'["notes"] <= MaxNotes BY <1>0, <1>1, SpendOrNot DEF Kind
<1>5. Plain' BY <1>0, <1>1, <1>2, <1>4, PlainGone
<1> QED BY <1>1, <1>3, <1>5, ComeBackSteps

LEMMA PasteThrowsStep ==
  ASSUME Base, NEW p \in Passes, NEW late \in BOOLEAN, PasteThrows(p, late)
  PROVE  Base' /\ PassRows({p}) /\ (Rows => Rows')
<1>0. Plain /\ PassTyped /\ TypeOK /\ Homes /\ Marks BY PlainNow DEF Base
<1> DEFINE notes == IF late THEN NotesOf(pass[p].rows) ELSE {}
<1>1. /\ UNCHANGED <<minted, session, token, told, seen>>
      /\ UNCHANGED <<recheck, timer, idle, free, cooled, launchWait, puller, ending, endKept>>
      /\ pass[p].at = "pasting" /\ RowsComeBack(p)
      /\ NudgedRound(p, queue', launchWait, announced, FALSE)
      /\ Spend("late") \/ Spend("faults")
      /\ went' = HandedOutLate(notes)
  BY DEF PasteThrows, At, clientVars, endVars, gateVars
<1> HIDE DEF notes
<1>2. queue' \in SUBSET Row /\ fate' \in [Notes -> Fates]
  BY <1>0, <1>1, ComeBackQueue, ComeBackTyped
<1>3. PassStep({p}) /\ PassTyped'
  <2>1. announced \in SUBSET Notes /\ FALSE \in BOOLEAN BY <1>0 DEF TypeOK
  <2> QED BY <1>0, <1>1, <1>2, <2>1, RoundSteps
<1>4. left' \in [Kind -> Nat] /\ left'["notes"] <= MaxNotes
  <2>1. CASE Spend("late") BY <1>0, <2>1, SpendIs DEF Kind
  <2>2. CASE Spend("faults") BY <1>0, <2>2, SpendIs DEF Kind
  <2> QED BY <1>1, <2>1, <2>2
<1>5. /\ went' \in [Notes -> [sure : Nat, late : Nat]]
      /\ \A n \in Notes : went'[n].sure = went[n].sure
  BY <1>0, <1>1, HandedOutLateIs
<1>6. Plain' BY <1>0, <1>1, <1>2, <1>4, <1>5 DEF Plain
<1> QED BY <1>1, <1>3, <1>5, <1>6, ComeBackSteps

-----------------------------------------------------------------------------
(* The relaunch.                                                           *)

LEMMA LaunchBeginsStep ==
  ASSUME Base, NEW p \in Passes, LaunchBegins(p)
  PROVE  Base' /\ PassRows({}) /\ (Rows => Rows')
<1>0. Plain /\ PassTyped /\ TypeOK /\ Homes /\ Marks BY PlainNow DEF Base
<1> DEFINE gone == {r \in queue : r.id \in Ids(pass[p].kept)}
<1>1. /\ queue' = queue \ gone /\ pass' = Moved(p, "launch") /\ SchedulerAsIs
      /\ UNCHANGED <<minted, withdrawn, session, went, fate, token, told, seen, left>>
      /\ UNCHANGED <<recheck, timer, idle, free, cooled, launchWait, puller, ending, endKept>>
      /\ pass[p].at = "holder"
  BY DEF LaunchBegins, At, clientVars, endVars, gateVars, history
<1>2. pass[p].rows = {} BY <1>0, <1>1 DEF Homes
<1>3. PassStep({}) /\ PassTyped' BY <1>0, <1>1, <1>2, MovedSteps DEF Places
<1>4. queue' \subseteq Row /\ Marked(queue') BY <1>0, <1>1, MarkedNow DEF TypeOK
<1>5. Plain' BY <1>0, <1>1, PlainGone DEF Plain
<1>6. ToldInv' BY <1>1 DEF Base, ToldInv
<1>7. withdrawn' \subseteq Ids(Sending') BY <1>0, <1>1, <1>3, SameSending DEF TypeOK
<1>8. ASSUME Rows PROVE Rows'
  <2>1. pass'[p].at = "launch" /\ pass'[p].kept = pass[p].kept
    BY <1>0, <1>1 DEF Moved, PassTyped, Pass
  <2>2. ASSUME NEW r \in gone PROVE r.note \in NotesOf(Out')
    <3>1. PICK k \in pass[p].kept : k.id = r.id BY DEF Ids
    <3>2. k \in All /\ r \in All BY DEF All, KeptRows
    <3>3. k.note = r.note BY <1>8, <3>1, <3>2 DEF Rows, Names
    <3>4. k \in Out' BY <2>1 DEF Out
    <3> QED BY <3>3, <3>4 DEF NotesOf
  <2>3. gone \in SUBSET queue OBVIOUS
  <2> HIDE DEF gone
  <2> QED BY <1>0, <1>1, <1>3, <1>8, <2>2, <2>3, RemoveStep
<1> QED BY <1>3, <1>4, <1>5, <1>6, <1>7, <1>8, BaseNext

(* What a launching pass lets go. *)
LEMMA LaunchLetsGo ==
  ASSUME TypeOK, Homes, NEW p \in Passes, pass[p].at = "launch"
  PROVE  Dropped({p}) = pass[p].kept /\ pass[p].rows = {}
<1>1. pass[p].rows = {} BY DEF Homes
<1>2. pass[p].kept \subseteq Dropped({p}) BY DEF Dropped
<1>3. Dropped({p}) \subseteq pass[p].kept BY <1>1, DroppedCases
<1> QED BY <1>1, <1>2, <1>3

(* When it has nothing in a paste, and the history is as it was. *)
LEMMA LaunchSending ==
  ASSUME NEW p \in Passes, PassStep({p}), pass[p].rows = {}
  PROVE  Sending' = Sending
BY DEF PassStep, Sending

LEMMA LaunchedStep ==
  ASSUME Base, NEW p \in Passes, Launched(p)
  PROVE  Base' /\ PassRows({p}) /\ (Rows => Rows')
<1>0. Plain /\ PassTyped /\ TypeOK /\ Homes /\ Marks BY PlainNow DEF Base
<1>1. /\ queue' = queue /\ went' = HandedOut(NotesOf(pass[p].kept)) /\ launchWait' = FALSE
      /\ pass[p].at = "launch" /\ NudgedRound(p, queue', FALSE, Known(queue), FALSE)
      /\ UNCHANGED <<minted, withdrawn, session, fate, token, told, seen, left>>
      /\ UNCHANGED <<recheck, timer, idle, free, cooled, puller, ending, endKept>>
  BY DEF Launched, At, store, clientVars, endVars
<1>2. queue' \in SUBSET Row /\ Marked(queue') BY <1>0, <1>1, MarkedNow DEF TypeOK
<1>3. PassStep({p}) /\ PassTyped'
  <2>1. Known(queue) \in SUBSET Notes /\ FALSE \in BOOLEAN BY <1>0, KnownIs
  <2> QED BY <1>0, <1>1, <1>2, <2>1, RoundSteps
<1>4. Dropped({p}) = pass[p].kept /\ pass[p].rows = {} BY <1>0, <1>1, LaunchLetsGo
<1>5. Sending' = Sending BY <1>3, <1>4, LaunchSending
<1>6. /\ went' \in [Notes -> [sure : Nat, late : Nat]]
      /\ \A n \in Notes : went'[n].sure = IF n \in NotesOf(pass[p].kept) THEN went[n].sure + 1
                                                                     ELSE went[n].sure
  BY <1>0, <1>1, HandedOutIs
<1>7. Plain' BY <1>0, <1>1, <1>6 DEF Plain
<1>8. ToldInv' BY <1>1 DEF Base, ToldInv
<1>9. withdrawn' \subseteq Ids(Sending') BY <1>0, <1>1, <1>5 DEF TypeOK
<1>10. ASSUME Rows PROVE Rows'
  <2>0. {p} \in SUBSET Passes OBVIOUS
  <2>1. TableStep({p})
    <3>1. \A s \in queue : Like(s, s) BY <1>0, LikeItself DEF All
    <3> QED BY <1>1, <1>10, <3>1 DEF TableStep, Rows, Apart, SrcInv
  <2>2. \A n \in Notes : went[n].sure \in Nat BY <1>0 DEF Plain
  <2>3. HistoryStep({p})
    <3>1. session = "running" => \A n \in Notes : went'[n].sure = went[n].sure
      <4>1. session = "running" => NotesOf(pass[p].kept) = {} BY <1>10 DEF Rows, RunInv, NotesOf
      <4> QED BY <1>6, <4>1
    <3>2. \A n \in Notes : went[n].sure # 0 => went'[n].sure # 0 BY <1>6, <2>2
    <3>3. \A r \in Sending : r.id \in withdrawn => \A s \in queue' : s.id # r.id
      BY <1>1, <1>10 DEF Rows, Apart
    <3> QED BY <1>1, <1>10, <3>1, <3>2, <3>3 DEF HistoryStep
  <2>4. NoneForgotten({p})
    <3> SUFFICES ASSUME NEW r \in queue \union Dropped({p})
                 PROVE  r.note \in NotesOf(queue' \union Out') \/ went'[r.note].sure # 0
      BY DEF NoneForgotten
    <3>1. CASE r \in queue BY <1>1, <3>1 DEF NotesOf
    <3>2. CASE r \in pass[p].kept
      <4>1. r \in All /\ r.note \in NotesOf(pass[p].kept) BY <3>2 DEF All, KeptRows, NotesOf
      <4>2. r.note \in Notes BY <1>0, <4>1, AllRows DEF Row
      <4> QED BY <1>6, <2>2, <4>1, <4>2
    <3> QED BY <1>4, <3>1, <3>2
  <2> QED BY <1>0, <1>3, <1>10, <2>0, <2>1, <2>3, <2>4, Shift
<1> QED BY <1>2, <1>3, <1>7, <1>8, <1>9, <1>10, BaseNext
LEMMA LaunchFailsStep ==
  ASSUME Base, NEW p \in Passes, NEW counts \in BOOLEAN, LaunchFails(p, counts)
  PROVE  Base' /\ PassRows({p}) /\ (Rows => Rows')
<1>0. Plain /\ PassTyped /\ TypeOK /\ Homes /\ Marks BY PlainNow DEF Base
<1> DEFINE back == {r \in pass[p].kept : r.id \notin Ids(queue)}
           upd(r) == IF counts /\ r.id \in Ids(pass[p].kept) THEN [r EXCEPT !.tries = @ + 1] ELSE r
<1>1. /\ queue' = {upd(r) : r \in queue \union back} /\ launchWait' = TRUE
      /\ pass[p].at = "launch" /\ NudgedRound(p, queue', TRUE, Known(queue'), FALSE)
      /\ UNCHANGED <<minted, withdrawn, session, went, fate, token, told, seen>>
      /\ UNCHANGED <<recheck, timer, idle, free, cooled, puller, ending, endKept>>
  BY DEF LaunchFails, At, clientVars, endVars, history
<1>2. ASSUME NEW r \in queue \union back PROVE Like(upd(r), r) /\ Like(r, r)
  <2>1. r \in All BY DEF All, KeptRows
  <2>2. Like(r, r) /\ r \in Row BY <1>0, <2>1, LikeItself DEF Like
  <2> HIDE DEF back
  <2> QED BY <2>2 DEF Like, Row
<1> HIDE DEF upd
<1>3. \A s \in queue' : \E r \in queue \union back : s = upd(r) /\ Like(s, r)
  <2> HIDE DEF back
  <2> QED BY <1>1, <1>2
<1>4. queue' \in SUBSET Row
  <2> HIDE DEF back
  <2> QED BY <1>3 DEF Like
<1>5. Marked(queue')
  <2> SUFFICES ASSUME NEW s \in queue'
               PROVE  /\ s.home = "kept" \/ s.kept => s.src = CheckIn
                      /\ s.src = CheckIn => s.class = "wake"
    BY DEF Marked
  <2>1. PICK r \in queue \union back : Like(s, r) BY <1>3
  <2>2. r \in All BY DEF All, KeptRows
  <2> QED BY <1>0, <2>1, <2>2 DEF Like, Marks
<1>6. PassStep({p}) /\ PassTyped'
  <2>1. Known(queue') \in SUBSET Notes /\ FALSE \in BOOLEAN BY <1>0, KnownIs
  <2> QED BY <1>0, <1>1, <1>4, <2>1, RoundSteps
<1>7. Dropped({p}) = pass[p].kept /\ pass[p].rows = {} BY <1>0, <1>1, LaunchLetsGo
<1>8. Sending' = Sending BY <1>6, <1>7, LaunchSending
<1>9. left' \in [Kind -> Nat] /\ left'["notes"] <= MaxNotes BY <1>0, SpendIs DEF LaunchFails, Kind
<1>10. Plain' BY <1>0, <1>1, <1>9 DEF Plain
<1>11. ToldInv' BY <1>1 DEF Base, ToldInv
<1>12. withdrawn' \subseteq Ids(Sending') BY <1>0, <1>1, <1>8 DEF TypeOK
<1>13. ASSUME Rows PROVE Rows'
  <2>0. {p} \in SUBSET Passes OBVIOUS
  <2>1. \A r, q \in queue \union back : r.id = q.id => r = q
    <3>1. \A r \in back, q \in queue : r.id # q.id BY DEF Ids
    <3>2. \A r, q \in back : r.id = q.id => r = q BY <1>13 DEF Rows, Apart
    <3>3. \A r, q \in queue : r.id = q.id => r = q BY <1>13 DEF Rows, Apart
    <3> HIDE DEF back
    <3> QED BY <3>1, <3>2, <3>3
  <2>2. \A r \in back : r.src = CheckIn /\ r.home = "kept" /\ r \in All
    BY <1>0 DEF Homes, Marks, All, KeptRows
  <2>3. TableStep({p})
    <3>1. \A s \in queue' : \E r \in queue \union Dropped({p}) : Like(s, r) BY <1>3, <1>7
    <3>2. ASSUME NEW s \in queue', NEW t \in queue', s.id = t.id PROVE s = t
      <4>1. PICK r \in queue \union back : s = upd(r) /\ Like(s, r) BY <1>3
      <4>2. PICK q \in queue \union back : t = upd(q) /\ Like(t, q) BY <1>3
      <4>3. r = q BY <2>1, <3>2, <4>1, <4>2 DEF Like
      <4> QED BY <4>1, <4>2, <4>3
    <3>3. OneLine(queue')
      <4> SUFFICES ASSUME NEW s \in queue', NEW t \in queue', s.src = t.src, s.src # CheckIn
                   PROVE  s = t
        BY DEF OneLine
      <4>1. PICK r \in queue \union back : s = upd(r) /\ Like(s, r) BY <1>3
      <4>2. PICK q \in queue \union back : t = upd(q) /\ Like(t, q) BY <1>3
      <4>3. r.src = q.src /\ r.src # CheckIn BY <4>1, <4>2 DEF Like
      <4>4. r \in queue /\ q \in queue BY <2>2, <4>3
      <4>5. r = q BY <1>13, <4>3, <4>4 DEF Rows, SrcInv, OneLine
      <4> QED BY <4>1, <4>2, <4>5
    <3> QED BY <1>1, <3>1, <3>2, <3>3 DEF TableStep
  <2>4. HistoryStep({p})
    <3>1. ASSUME NEW r \in Sending, r.id \in withdrawn, NEW s \in queue' PROVE s.id # r.id
      <4>1. PICK k \in queue \union back : Like(s, k) BY <1>3
      <4>2. CASE k \in queue BY <1>13, <4>1, <4>2 DEF Rows, Apart, Like
      <4>3. CASE k \in back
        <5>1. r \in All /\ r.home = "session" BY <1>0 DEF All, Sending, Homes
        <5> QED BY <1>13, <2>2, <4>1, <4>3, <5>1 DEF Rows, Names, Like
      <4> QED BY <4>2, <4>3
    <3> QED BY <1>1, <1>13, <3>1 DEF HistoryStep
  <2>5. NoneForgotten({p})
    <3> SUFFICES ASSUME NEW r \in queue \union Dropped({p})
                 PROVE  r.note \in NotesOf(queue' \union Out')
      BY DEF NoneForgotten
    <3>1. ASSUME NEW k \in queue \union back PROVE k.note \in NotesOf(queue' \union Out')
      <4>1. upd(k) \in queue' /\ upd(k).note = k.note BY <1>1, <1>2 DEF Like
      <4> QED BY <4>1 DEF NotesOf
    <3>2. CASE r \in queue \union back BY <3>1, <3>2
    <3>3. CASE r \in pass[p].kept /\ r \notin back
      <4>1. PICK k \in queue : k.id = r.id BY <3>3 DEF Ids
      <4>2. k \in All /\ r \in All BY <3>3 DEF All, KeptRows
      <4>3. k.note = r.note BY <1>13, <4>1, <4>2 DEF Rows, Names
      <4> QED BY <3>1, <4>3
    <3> QED BY <1>7, <3>2, <3>3
  <2> QED BY <1>0, <1>6, <1>13, <2>0, <2>3, <2>4, <2>5, Shift
<1> HIDE DEF back
<1> QED BY <1>4, <1>5, <1>6, <1>10, <1>11, <1>12, <1>13, BaseNext

-----------------------------------------------------------------------------
(* The end of the session, and a restart of the daemon.                    *)

LEMMA EndedStep ==
  ASSUME Base, Ended
  PROVE  Base' /\ PassRows({}) /\ (Rows => Rows')
<1>0. Plain /\ PassTyped /\ TypeOK /\ Homes /\ Marks BY PlainNow DEF Base
<1> DEFINE S == {r \in queue : r.home = "kept" \/ r.kept}
           upd(r) == IF r.kept THEN [r EXCEPT !.home = "kept"] ELSE r
           gone == NotesOf({r \in Live(queue) : ~r.kept})
<1>1. /\ queue' = {upd(r) : r \in S} /\ fate' = Becomes(gone, "ended")
      /\ session' = "gone" /\ ending' = "no" /\ endKept' = FALSE
      /\ UNCHANGED <<minted, withdrawn, went, token, told, seen, left>>
      /\ UNCHANGED <<recheck, timer, idle, free, cooled, launchWait, puller>>
  BY DEF Ended, clientVars, gateVars
<1>2. ASSUME NEW r \in S
      PROVE  /\ upd(r) \in Row /\ upd(r).id = r.id /\ upd(r).note = r.note
             /\ upd(r).src = r.src /\ upd(r).home = "kept" /\ upd(r).src = CheckIn
             /\ upd(r).class = "wake" /\ r \in queue /\ r \in All
  <2>1. r \in queue /\ r \in Row /\ r \in All BY <1>0, TypePass DEF All
  <2>2. r.src = CheckIn /\ r.class = "wake" BY <1>0, <2>1 DEF Marks
  <2>3. r.home = "kept" \/ r.kept OBVIOUS
  <2> HIDE DEF S
  <2> QED BY <2>1, <2>2, <2>3 DEF Row
<1> HIDE DEF upd
<1>3. \A s \in queue' : \E r \in S : s = upd(r) BY <1>1
<1>4. queue' \in SUBSET Row
  <2> HIDE DEF S
  <2> QED BY <1>2, <1>3
<1>5. Marked(queue')
  <2> HIDE DEF S
  <2> QED BY <1>2, <1>3 DEF Marked
<1>6. PassStep({}) /\ PassTyped'
  <2>1. CASE endKept
    <3>1. Nudged(queue', puller) BY <2>1 DEF Ended
    <3> QED BY <1>0, <1>4, <3>1, NudgedSteps
  <2>2. CASE ~endKept
    <3>1. UNCHANGED <<pass, running, again, announced>> BY <2>2 DEF Ended, passVars
    <3> QED BY <1>0, <3>1, SamePasses DEF PassTyped, SchedulerTyped
  <2> QED BY <2>1, <2>2
<1>7. Sending' = Sending BY <1>6, SameSending
<1> HIDE DEF gone
<1>8. /\ fate' \in [Notes -> Fates]
      /\ \A n \in Notes : fate'[n] = IF n \in gone THEN "ended" ELSE fate[n]
  BY <1>0, <1>1, BecomesIs DEF Fates
<1>9. Plain' BY <1>0, <1>1, <1>8 DEF Plain
<1>10. ToldInv' BY <1>1 DEF Base, ToldInv
<1>11. withdrawn' \subseteq Ids(Sending') BY <1>0, <1>1, <1>7 DEF TypeOK
<1>12. ASSUME Rows PROVE Rows'
  <2>1. KeptRows' \subseteq KeptRows \union queue' BY <1>6 DEF PassStep, KeptRows
  <2>2. ASSUME NEW s \in All'
        PROVE  \/ \E r \in S : s = upd(r)
               \/ s \in Sending \/ s \in KeptRows
    BY <1>3, <1>7, <2>1 DEF All
  <2>3. \A r \in S, s \in Sending : r.id # s.id /\ r.note # s.note
    <3> SUFFICES ASSUME NEW r \in S, NEW s \in Sending PROVE r.id # s.id /\ r.note # s.note OBVIOUS
    <3>1. r \in queue /\ r \in All /\ s \in All BY <1>2 DEF All
    <3>2. r.id # s.id BY <1>12, <3>1 DEF Rows, Apart
    <3> QED BY <1>12, <3>1, <3>2 DEF Rows, Names
  <2>4. \A s \in Sending : s \in All /\ s.home = "session" BY <1>0 DEF All, Sending, Homes
  <2>5. \A s \in KeptRows : s \in All /\ s.home = "kept" BY <1>0 DEF All, KeptRows, Homes
  <2>6. ASSUME NEW s \in All'
        PROVE  \E r \in All : /\ r.id = s.id /\ r.note = s.note /\ r.src = s.src
                              /\ (r \in S /\ s.home = "kept") \/ r = s
    <3>1. CASE \E r \in S : s = upd(r)
      <4> HIDE DEF S
      <4> QED BY <1>2, <3>1
    <3>2. CASE s \in Sending \/ s \in KeptRows BY <2>4, <2>5, <3>2
    <3> QED BY <2>2, <3>1, <3>2
  <2>7. Names'
    <3> SUFFICES ASSUME NEW r \in All', NEW s \in All'
                 PROVE  /\ r.id = s.id <=> r.note = s.note
                        /\ r.id = s.id => r.home = s.home /\ r.src = s.src
      BY DEF Names
    <3>1. PICK a \in All : a.id = r.id /\ a.note = r.note /\ a.src = r.src BY <2>6
    <3>2. PICK b \in All : b.id = s.id /\ b.note = s.note /\ b.src = s.src BY <2>6
    <3>3. /\ a.id = b.id <=> a.note = b.note
          /\ a.id = b.id => a.home = b.home /\ a.src = b.src
      BY <1>12 DEF Rows, Names
    <3>4. ASSUME NEW x \in All', NEW y \in All', x.id = y.id, x \in Sending PROVE y.home = "session"
      <4>1. CASE \E q \in S : y = upd(q)
        <5>1. PICK q \in S : y = upd(q) BY <4>1
        <5>2. q.id = y.id
          <6> HIDE DEF S
          <6> QED BY <1>2, <5>1
        <5> QED BY <2>3, <3>4, <5>2
      <4>2. CASE y \in Sending BY <2>4, <4>2
      <4>3. CASE y \in KeptRows BY <1>12, <2>4, <2>5, <3>4, <4>3 DEF Rows, Names
      <4> QED BY <2>2, <4>1, <4>2, <4>3
    <3>5. ASSUME NEW x \in All', x \notin Sending PROVE x.home = "kept"
      <4>1. CASE \E q \in S : x = upd(q)
        <5> HIDE DEF S
        <5> QED BY <1>2, <4>1
      <4> QED BY <2>2, <2>5, <3>5, <4>1
    <3>6. r.id = s.id => r.home = s.home BY <2>4, <3>4, <3>5
    <3> QED BY <3>1, <3>2, <3>3, <3>6
  <2>8. MintedInv'
    <3> SUFFICES ASSUME NEW s \in All' PROVE s.id <= minted /\ s.note <= minted
      BY <1>1 DEF MintedInv
    <3>1. PICK a \in All : a.id = s.id /\ a.note = s.note BY <2>6
    <3> QED BY <1>12, <3>1 DEF Rows, MintedInv
  <2>9. Apart'
    <3>1. ASSUME NEW s \in queue', NEW t \in queue', s.id = t.id PROVE s = t
      <4>1. PICK r \in S : s = upd(r) BY <1>3
      <4>2. PICK q \in S : t = upd(q) BY <1>3
      <4>3. r.id = q.id /\ r \in queue /\ q \in queue
        <5> HIDE DEF S
        <5> QED BY <1>2, <3>1, <4>1, <4>2
      <4>4. r = q BY <1>12, <4>3 DEF Rows, Apart
      <4> QED BY <4>1, <4>2, <4>4
    <3>2. ASSUME NEW s \in queue', NEW t \in Sending PROVE s.id # t.id
      <4>1. PICK r \in S : s = upd(r) BY <1>3
      <4>2. r.id = s.id
        <5> HIDE DEF S
        <5> QED BY <1>2, <4>1
      <4> QED BY <2>3, <4>2
    <3>3. \A p \in Passes : pass'[p].rows = pass[p].rows BY <1>6 DEF PassStep
    <3>4. \A p \in Passes : \A r, s \in pass'[p].kept : r.id = s.id => r = s
      BY <1>6, <1>12, <3>1 DEF PassStep, Rows, Apart
    <3>5. \A p, q \in Passes : \A r \in pass'[p].rows, s \in pass'[q].rows :
            r.id = s.id => p = q /\ r = s
      BY <1>12, <3>3 DEF Rows, Apart
    <3> QED BY <1>7, <3>1, <3>2, <3>4, <3>5 DEF Apart
  <2>10. Homes' /\ Marks'
    <3>1. Base' BY <1>4, <1>5, <1>6, <1>9, <1>10, <1>11, BaseNext
    <3> QED BY <3>1 DEF Base
  <2>11. SrcInv'
    <3>1. OneLine(queue')
      <4> HIDE DEF S
      <4> QED BY <1>2, <1>3 DEF OneLine
    <3>2. \A p \in Passes : pass'[p].rows = pass[p].rows BY <1>6 DEF PassStep
    <3> QED BY <1>12, <3>1, <3>2 DEF Rows, SrcInv
  <2>12. RunInv' BY <1>1 DEF RunInv
  <2>13. ASSUME NEW n \in gone
         PROVE  \E r \in queue : r.note = n /\ r.home = "session" /\ ~r.kept
    BY DEF gone, NotesOf, Live
  <2>14. ASSUME NEW s \in All, s \in queue => s \in S PROVE fate'[s.note] = fate[s.note]
    <3>1. s.note \in Notes BY <1>0, AllRows DEF Row
    <3>2. s.note \notin gone
      <4> SUFFICES ASSUME NEW r \in queue, r.note = s.note, r.home = "session", ~r.kept PROVE FALSE
        BY <2>13
      <4>1. r \in All BY DEF All
      <4>2. r.id = s.id /\ r.home = s.home BY <1>12, <4>1 DEF Rows, Names
      <4>3. CASE s \in queue BY <1>12, <2>14, <4>2, <4>3 DEF Rows, Apart
      <4>4. CASE s \in Sending BY <1>12, <4>2, <4>4 DEF Rows, Apart
      <4>5. CASE s \in KeptRows BY <2>5, <4>2, <4>5
      <4> QED BY <4>3, <4>4, <4>5 DEF All
    <3> QED BY <1>8, <3>1, <3>2
  <2>15. FateInv'
    <3>1. ASSUME NEW s \in queue' PROVE fate'[s.note] \notin Settled
      <4>1. PICK r \in S : s = upd(r) BY <1>3
      <4>2. r.note = s.note /\ r \in queue /\ r \in All
        <5> HIDE DEF S
        <5> QED BY <1>2, <4>1
      <4> QED BY <1>12, <2>14, <4>1, <4>2 DEF Rows, FateInv
    <3>2. \A s \in Sending : fate'[s.note] = fate[s.note]
      <4>1. \A s \in Sending : s \notin queue BY <1>12 DEF Rows, Apart
      <4> QED BY <2>4, <2>14, <4>1
    <3>3. \A s \in KeptRows : fate'[s.note] = fate[s.note]
      <4>1. \A s \in KeptRows : s \in queue => s \in S BY <2>5
      <4> QED BY <2>5, <2>14, <4>1
    <3> QED BY <1>1, <1>7, <1>12, <2>1, <3>1, <3>2, <3>3 DEF Rows, FateInv
  <2>16. NothingLost'
    <3> SUFFICES ASSUME NEW n \in Notes, fate'[n] = "open", went[n].sure = 0
                 PROVE  n \in NotesOf(queue' \union Out')
      BY <1>1 DEF NothingLost
    <3>1. fate[n] = "open" /\ n \notin gone BY <1>8
    <3>2. PICK r \in queue \union Out : r.note = n BY <1>12, <3>1 DEF Rows, NothingLost, NotesOf
    <3>3. CASE r \in S
      <4>1. upd(r) \in queue' BY <1>1, <3>3
      <4>2. upd(r).note = n
        <5> HIDE DEF S
        <5> QED BY <1>2, <3>2, <3>3
      <4> QED BY <4>1, <4>2 DEF NotesOf
    <3>4. CASE r \in queue /\ r \notin S
      <4>1. r.home = "session" /\ ~r.kept
        <5>1. r \in Row BY <1>0, <3>4, TypePass
        <5> QED BY <3>4, <5>1 DEF Row
      <4>2. n \in gone BY <3>2, <3>4, <4>1 DEF gone, NotesOf, Live
      <4> QED BY <3>1, <4>2
    <3>5. CASE r \in Out
      <4>1. r \in Out' BY <1>6, <1>7, <3>5 DEF PassStep, Out
      <4> QED BY <3>2, <4>1 DEF NotesOf
    <3> QED BY <3>2, <3>3, <3>4, <3>5
  <2> QED BY <2>7, <2>8, <2>9, <2>10, <2>11, <2>12, <2>15, <2>16 DEF Rows
<1> HIDE DEF S
<1> QED BY <1>4, <1>5, <1>6, <1>9, <1>10, <1>11, <1>12, BaseNext
LEMMA RestartStep ==
  ASSUME Base, Restart
  PROVE  Base' /\ PassRows(Passes) /\ (Rows => Rows')
<1>0. Plain /\ PassTyped /\ TypeOK /\ Homes /\ Marks BY PlainNow DEF Base
<1>1. /\ queue' = queue /\ withdrawn' = {} /\ running' = TRUE /\ again' = FALSE
      /\ announced' = Ids(Due(queue)) /\ recheck' = FALSE /\ timer' = FALSE
      /\ cooled' = TRUE /\ launchWait' = FALSE /\ puller' = "none"
      /\ ending' = "no" /\ endKept' = FALSE
      /\ UNCHANGED <<minted, idle, free, token, told, session, went, seen>>
  BY DEF Restart
<1>2. fate' = [n \in Notes |-> IF n \in NotesOf(Out) /\ fate[n] = "open" THEN "lost" ELSE fate[n]]
  BY DEF Restart
<1>3. PICK own \in SUBSET Passes :
        pass' = [p \in Passes |-> IF p \in own THEN Begun(queue, "none", FALSE) ELSE Off]
  BY DEF Restart
<1>4. queue \in SUBSET Row /\ queue' \subseteq Row /\ Marked(queue')
  BY <1>0, <1>1, TypePass, MarkedNow
<1>5. Anew(Begun(queue, "none", FALSE), queue') BY <1>1, <1>4, BegunAnew
<1>6. \A p \in Passes : pass'[p].rows = {} /\ pass'[p].kept \subseteq {r \in queue' : r.home = "kept" /\ r.due}
  BY <1>3, <1>5, OffIs DEF Anew
<1>7. PassStep(Passes) BY <1>6 DEF PassStep
<1>8. PassTyped'
  <2>1. pass' \in [Passes -> Pass] BY <1>3, <1>5, OffIs DEF Anew
  <2>2. announced' \subseteq Notes BY <1>1, <1>4 DEF Ids, Due, Live, Row
  <2> QED BY <1>1, <2>1, <2>2 DEF PassTyped, SchedulerTyped
<1>9. /\ fate' \in [Notes -> Fates]
      /\ \A n \in Notes : fate'[n] # fate[n] => fate'[n] = "lost" /\ n \in NotesOf(Out)
      /\ \A n \in Notes : n \in NotesOf(Out) => fate'[n] # "open"
  BY <1>0, <1>2 DEF Plain, Fates
<1>10. left' \in [Kind -> Nat] /\ left'["notes"] <= MaxNotes BY <1>0, SpendIs DEF Restart, Kind
<1>11. Plain' BY <1>0, <1>1, <1>9, <1>10 DEF Plain
<1>12. ToldInv' BY <1>1 DEF Base, ToldInv
<1>13. withdrawn' \subseteq Ids(Sending') BY <1>1
<1>14. ASSUME Rows PROVE Rows'
  <2>0. Passes \in SUBSET Passes OBVIOUS
  <2>1. TableStep(Passes)
    <3>1. \A s \in queue : Like(s, s) BY <1>0, LikeItself DEF All
    <3> QED BY <1>1, <1>14, <3>1 DEF TableStep, Rows, Apart, SrcInv
  <2>2. Out = Dropped(Passes) BY DEF Out, Sending, Dropped
  <2>3. HistoryStep(Passes)
    <3>1. \A r \in Sending : r.id \in withdrawn => \A s \in queue' : s.id # r.id
      BY <1>1, <1>14 DEF Rows, Apart
    <3>2. \A r \in All : r.note \in Notes BY <1>0, AllRows DEF Row
    <3>3. "lost" \notin Settled /\ "lost" # "open" BY DEF Settled
    <3> QED BY <1>1, <1>9, <2>2, <3>1, <3>2, <3>3 DEF HistoryStep, NotesOf
  <2>4. NoneForgotten(Passes)
    <3> SUFFICES ASSUME NEW r \in queue \union Out
                 PROVE  r.note \in NotesOf(queue' \union Out') \/ fate'[r.note] # "open"
      BY <2>2 DEF NoneForgotten
    <3>1. CASE r \in queue BY <1>1, <3>1 DEF NotesOf
    <3>2. CASE r \in Out
      <4>1. r \in All BY <2>0, <2>2, <3>2, DroppedIs DEF All
      <4>2. r.note \in Notes /\ r.note \in NotesOf(Out) BY <1>0, <3>2, <4>1, AllRows DEF Row, NotesOf
      <4> QED BY <1>9, <4>2
    <3> QED BY <3>1, <3>2
  <2> QED BY <1>0, <1>7, <1>14, <2>0, <2>1, <2>3, <2>4, Shift
<1>15. Passes \in SUBSET Passes OBVIOUS
<1> QED BY <1>4, <1>7, <1>8, <1>11, <1>12, <1>13, <1>14, <1>15, BaseNext

-----------------------------------------------------------------------------
(* The whole.                                                              *)

LEMMA StutterStep == ASSUME Base, UNCHANGED vars PROVE Base' /\ PassRows({}) /\ (Rows => Rows')
<1>1. /\ UNCHANGED <<queue, minted, withdrawn, pass, running, again, announced, recheck, timer>>
      /\ UNCHANGED <<idle, free, cooled, launchWait, puller, token, told, session, ending, endKept>>
      /\ UNCHANGED <<went, fate, seen, left>>
  BY DEF vars, store, passVars, gateVars, clientVars, endVars, history
<1>2. Sending' = Sending /\ KeptRows' = KeptRows /\ Out' = Out
  BY <1>1 DEF Sending, KeptRows, Out
<1>3. All' = All BY <1>1, <1>2 DEF All
<1>4. TypeOK' BY <1>1, <1>2 DEF Base, TypeOK
<1>5. Homes' /\ Marks' /\ ToldInv' BY <1>1, <1>3 DEF Base, Homes, Marks, ToldInv
<1>6. Base' BY <1>1, <1>4, <1>5 DEF Base
<1>7. ASSUME Rows PROVE Rows'
  <2>1. Names' /\ MintedInv' BY <1>1, <1>3, <1>7 DEF Rows, Names, MintedInv
  <2>2. Apart' /\ SrcInv' BY <1>1, <1>2, <1>7 DEF Rows, Apart, SrcInv
  <2>3. RunInv' BY <1>1, <1>2, <1>7 DEF Rows, RunInv
  <2>4. FateInv' /\ NothingLost' BY <1>1, <1>2, <1>7 DEF Rows, FateInv, NothingLost
  <2> QED BY <1>5, <2>1, <2>2, <2>3, <2>4 DEF Rows
<1>8. PassRows({}) BY <1>1, <1>2 DEF PassRows
<1> QED BY <1>6, <1>7, <1>8

LEMMA InitRows == Init => Base /\ Rows
<1> SUFFICES ASSUME Init PROVE Base /\ Rows OBVIOUS
<1> USE DEF Init
<1>1. \A p \in Passes : pass[p] = Off OBVIOUS
<1>2. Sending = {} /\ KeptRows = {} /\ Out = {} BY <1>1, OffIs DEF Sending, KeptRows, Out
<1>3. All = {} BY <1>2 DEF All
<1>4. left \in [Kind -> Nat] /\ left["notes"] <= MaxNotes /\ 0 \in 0..MaxNotes
  BY QueueAssumption DEF QueueAssumption
<1>5. pass \in [Passes -> Pass] BY OffIs
<1>6. TypeOK BY <1>2, <1>4, <1>5 DEF TypeOK, Pass, Fates
<1>7. Homes /\ Marks /\ ToldInv BY <1>1, <1>3, OffIs DEF Homes, Marks, ToldInv
<1>8. Names /\ MintedInv BY <1>3 DEF Names, MintedInv
<1>9. Apart /\ SrcInv BY <1>1, <1>2, OffIs DEF Apart, SrcInv, OneLine
<1>10. RunInv BY <1>1, OffIs DEF RunInv
<1>11. FateInv /\ NothingLost BY <1>2 DEF FateInv, NothingLost
<1> QED BY <1>4, <1>6, <1>7, <1>8, <1>9, <1>10, <1>11 DEF Base, Rows

LEMMA ProduceSteps == ASSUME Base, Produce PROVE Base' /\ (Rows /\ ~KeptEdit => Rows')
<1>1. CASE \E src \in Sources, class \in Classes : AddEvent(src, class) BY <1>1, AddEventStep
<1>2. CASE \E src \in Sources : Withdraw(src) BY <1>2, WithdrawStep
<1>3. CASE \E due \in BOOLEAN : AddCheckIn(due) BY <1>3, AddCheckInStep
<1>4. CASE \E r \in queue : CancelLine(r) BY <1>4, CancelLineStep
<1>5. CASE \E r \in queue : MoveCheckIn(r) BY <1>5, MoveCheckInStep
<1>6. CASE \E r \in queue : RewordCheckIn(r) BY <1>6, RewordCheckInStep DEF KeptEdit
<1>7. CASE \E r \in queue : CancelCheckIn(r) BY <1>7, CancelCheckInStep DEF KeptEdit
<1>8. CASE PromoteReplies BY <1>8, PromoteRepliesStep
<1> QED BY <1>1, <1>2, <1>3, <1>4, <1>5, <1>6, <1>7, <1>8 DEF Produce

LEMMA WorldSteps == ASSUME Base, World PROVE Base' /\ (Rows => Rows')
BY BecomesDueStep, NudgedStill, WorldStill DEF World

LEMMA ClientSteps == ASSUME Base, Client PROVE Base' /\ (Rows => Rows')
<1>1. CASE PullerAttaches BY <1>1, NudgedStill
<1>2. CASE PollEnds \/ PullerDies \/ ClientShows \/ ClientDies BY <1>2, ClientStill
<1>3. CASE \E taken \in Compositions(Rides) : PeekRide(taken) BY <1>3, ClientStill
<1>4. CASE \E taken \in Compositions(Rides) : TakeRide(taken)
  <2>1. PICK taken \in Compositions(Rides) : TakeRide(taken) BY <1>4
  <2>2. taken \in SUBSET queue BY <2>1, ComposedRows DEF Rides, Due, Live
  <2> QED BY <2>1, <2>2, TakenSteps
<1>5. CASE ConfirmRide BY <1>5, ConfirmRideStep
<1> QED BY <1>1, <1>2, <1>3, <1>4, <1>5 DEF Client

LEMMA FinishSteps == ASSUME Base, Finish PROVE Base' /\ (Rows => Rows')
<1>1. CASE (\E keep \in BOOLEAN : EndAsked(keep)) \/ EndFails BY <1>1, EndMarksStep
<1>2. CASE EndLocks BY <1>2, MoreStill
<1>3. CASE Ended BY <1>3, EndedStep
<1>4. CASE Restart BY <1>4, RestartStep
<1> QED BY <1>1, <1>2, <1>3, <1>4 DEF Finish

LEMMA DeliverSteps == ASSUME Base, NEW p \in Passes, Deliver(p) PROVE Base' /\ (Rows => Rows')
<1>1. CASE HoldOn(p) \/ GateAsksInput(p) \/ PasteLocks(p) BY <1>1, ScheduleStill
<1>2. CASE PullerIsGone(p) \/ PasteNotYet(p) BY <1>2, MoreStill
<1>3. CASE \E taken \in MayCarry : PullerTakes(p, taken)
  <2>1. PICK taken \in MayCarry : PullerTakes(p, taken) BY <1>3
  <2>2. taken \in Compositions(Due(queue)) BY <2>1 DEF MayCarry
  <2>3. taken \in SUBSET queue BY <2>2, ComposedRows DEF Due, Live
  <2> QED BY <2>1, <2>3, TakenSteps
<1>4. CASE \E taken \in MayCarry : PasteBegins(p, taken) BY <1>4, PasteBeginsStep
<1>5. CASE Pasted(p) BY <1>5, PastedStep
<1>6. CASE PasteRefused(p) BY <1>6, PasteRefusedStep
<1>7. CASE \E late \in BOOLEAN : PasteThrows(p, late) BY <1>7, PasteThrowsStep
<1> QED BY <1>1, <1>2, <1>3, <1>4, <1>5, <1>6, <1>7 DEF Deliver

LEMMA RelaunchSteps == ASSUME Base, NEW p \in Passes, Relaunch(p) PROVE Base' /\ (Rows => Rows')
<1>1. CASE KeptPart(p) BY <1>1, ScheduleStill
<1>2. CASE HolderFound(p) BY <1>2, HolderFoundStep
<1>3. CASE LaunchBegins(p) BY <1>3, LaunchBeginsStep
<1>4. CASE Launched(p) BY <1>4, LaunchedStep
<1>5. CASE \E counts \in BOOLEAN : LaunchFails(p, counts) BY <1>5, LaunchFailsStep
<1> QED BY <1>1, <1>2, <1>3, <1>4, <1>5 DEF Relaunch

LEMMA NextRows == ASSUME Base, [Next]_vars PROVE Base' /\ (Rows /\ ~KeptEdit => Rows')
<1>1. CASE Produce BY <1>1, ProduceSteps
<1>2. CASE World BY <1>2, WorldSteps
<1>3. CASE Client BY <1>3, ClientSteps
<1>4. CASE Finish BY <1>4, FinishSteps
<1>5. CASE \E p \in Passes : Deliver(p) BY <1>5, DeliverSteps
<1>6. CASE \E p \in Passes : Relaunch(p) BY <1>6, RelaunchSteps
<1>7. CASE \E p \in Passes : Arm(p) BY <1>7, ScheduleStill
<1>8. CASE RecheckFires \/ TimerFires BY <1>8, NudgedStill
<1>9. CASE UNCHANGED vars BY <1>9, StutterStep
<1> QED BY <1>1, <1>2, <1>3, <1>4, <1>5, <1>6, <1>7, <1>8, <1>9 DEF Next
(* The session row does not come back. *)
LEMMA SessionEnds == ASSUME Base, [Next]_vars, session' = "running" PROVE session = "running"
<1> SUFFICES session' = session \/ session' = "gone" BY DEF Base, TypeOK
<1>1. CASE Produce
  BY <1>1 DEF Produce, AddEvent, Withdraw, AddCheckIn, CancelLine, Recall, MoveCheckIn,
              RewordCheckIn, CancelCheckIn, PromoteReplies, endVars
<1>2. CASE World
  BY <1>2 DEF World, BecomesDue, AgentState, Typing, CoolsDown, LaunchWaitOver, GraceOver, endVars
<1>3. CASE Client
  BY <1>3 DEF Client, PullerAttaches, PollEnds, PullerDies, TakeRide, PeekRide, ClientShows,
              ConfirmRide, ClientDies, endVars
<1>4. CASE Finish BY <1>4 DEF Finish, EndAsked, EndLocks, Ended, EndFails, Restart
<1>5. CASE \E p \in Passes : Deliver(p)
  BY <1>5 DEF Deliver, HoldOn, GateAsksInput, PullerIsGone, PullerTakes, PasteBegins, PasteLocks,
              PasteNotYet, Pasted, PasteRefused, PasteThrows, endVars
<1>6. CASE \E p \in Passes : Relaunch(p)
  BY <1>6 DEF Relaunch, KeptPart, HolderFound, LaunchBegins, Launched, LaunchFails, endVars
<1>7. CASE (\E p \in Passes : Arm(p)) \/ RecheckFires \/ TimerFires
  BY <1>7 DEF Arm, Ends, RecheckFires, TimerFires, endVars
<1>8. CASE UNCHANGED vars BY <1>8 DEF vars, endVars
<1> QED BY <1>1, <1>2, <1>3, <1>4, <1>5, <1>6, <1>7, <1>8 DEF Next

(* The state is well formed, and a running session is handed each note at  *)
(* most once, whatever passes, pullers, hooks and clients take rows from   *)
(* the table at a time, and whichever pastes fail.                         *)
THEOREM HandedOutOnce == Spec => []OncePerNote
<1> DEFINE Inv == Base /\ (session = "running" => Rows)
<1>1. Init => Inv BY InitRows
<1>2. Inv /\ [Next]_vars => Inv'
  <2> SUFFICES ASSUME Inv, [Next]_vars PROVE Inv' OBVIOUS
  <2>1. Base' /\ (Rows /\ ~KeptEdit => Rows') BY NextRows
  <2>2. ASSUME session' = "running" PROVE Rows'
    <3>1. session = "running" BY <2>2, SessionEnds
    <3>2. ~KeptEdit BY <3>1 DEF KeptEdit, Rows, RunInv
    <3> QED BY <2>1, <3>1, <3>2
  <2> QED BY <2>1, <2>2
<1>3. Inv => OncePerNote
  <2> SUFFICES ASSUME Inv PROVE OncePerNote OBVIOUS
  <2>1. session = "running" => \A n \in Notes : went[n].sure <= 1 BY DEF Rows, RunInv
  <2> QED BY <2>1 DEF Base, OncePerNote
<1> QED BY <1>1, <1>2, <1>3, PTL DEF Spec

LEMMA RowsHold == Spec /\ [][~KeptEdit]_vars => [](Base /\ Rows)
<1>1. Init => Base /\ Rows BY InitRows
<1>2. Base /\ Rows /\ [Next]_vars /\ [~KeptEdit]_vars => (Base /\ Rows)'
  <2> SUFFICES ASSUME Base, Rows, [Next]_vars, [~KeptEdit]_vars PROVE (Base /\ Rows)' OBVIOUS
  <2>1. CASE UNCHANGED vars BY <2>1, StutterStep
  <2>2. CASE ~KeptEdit BY <2>2, NextRows
  <2> QED BY <2>1, <2>2
<1> QED BY <1>1, <1>2, PTL DEF Spec

(* While the owner gives no new text to a check-in that outlived its       *)
(* session, and cancels none, no note is lost between the table, the       *)
(* pastes and the launches, whatever fails, ends or restarts.              *)
THEOREM NoNoteLost == Spec /\ [][~KeptEdit]_vars => []NothingLost
<1>1. Base /\ Rows => NothingLost BY DEF Rows
<1> QED BY <1>1, RowsHold, PTL

(* ... and what was replaced, withdrawn, confirmed or ended is not queued  *)
(* again by a paste or a launch that fails after it.                       *)
THEOREM SettledIsGone == Spec /\ [][~KeptEdit]_vars => []SettledStaysOut
<1>1. Base /\ Rows => SettledStaysOut
  <2> SUFFICES ASSUME Rows, NEW n \in NotesOf(queue) PROVE fate[n] \notin Settled
    BY DEF SettledStaysOut
  <2> QED BY DEF Rows, FateInv, NotesOf
<1> QED BY <1>1, RowsHold, PTL
-----------------------------------------------------------------------------
(* What one step may do to what waits: the action properties.              *)

(* A line of the source still is a wake, or one of its rows went out or    *)
(* was settled, or is lost in a restart.                                   *)
WakeOn(src) ==
  \/ \E s \in queue' \union Sending' : s.src = src /\ IsWake(s)
  \/ \E r \in queue \union Sending :
       r.src = src /\ \/ went'[r.note] # went[r.note]
                      \/ fate'[r.note] \in {"recalled", "shown", "ended", "lost"}

WakesStay ==
  \A r \in queue \union Sending :
    r.src \in Sources /\ IsWake(r) /\ r.id \notin withdrawn => WakeOn(r.src)

(* What a session's row, queued or in a paste, was taken for stays open    *)
(* unless it is settled.                                                   *)
OpenInv ==
  \A r \in queue \union Sending :
    r.home = "session" /\ r.id \notin withdrawn => fate[r.note] = "open"

OpenStays ==
  \A s \in queue' \union Sending' :
    s.home = "session" /\ s.id \notin withdrawn' =>
      \/ fate'[s.note] \in Settled \union {"open"}
      \/ \E r \in queue \union Sending :
           /\ r.note = s.note /\ r.home = "session" /\ r.id \notin withdrawn
           /\ fate'[s.note] = fate[s.note]

(* What goes out of the table is due, or is out of another pass' reach.    *)
OutWhenDue ==
  \A r \in queue :
    went'[r.note] # went[r.note] => r.due \/ r.note \in NotesOf(Sending \union KeptRows)

StepFacts == WakesStay /\ OpenStays /\ OutWhenDue

(* A kept row that is not due was not due before. *)
DueStays ==
  \A s \in queue' :
    s.home = "session" \/ s.due \/ \E r \in queue : r.id = s.id /\ ~r.due

LEMMA StillSending == ASSUME PassRows({}) PROVE Sending' = Sending
BY DEF PassRows, Sending

(* An id in the table is not withdrawn. *)
LEMMA QueuedNotWithdrawn ==
  ASSUME Base, Rows, NEW r \in queue
  PROVE  r.id \notin withdrawn
<1> SUFFICES ASSUME r.id \in withdrawn PROVE FALSE OBVIOUS
<1>1. PICK s \in Sending : s.id = r.id BY DEF Base, TypeOK, Ids
<1> QED BY <1>1 DEF Rows, Apart

(* Steps that let no paste go. *)
LEMMA SlideFacts ==
  ASSUME Base, Rows, PassRows({}), withdrawn \subseteq withdrawn',
         \A r \in queue : r.src \in Sources /\ IsWake(r) => WakeOn(r.src),
         \A s \in queue' : \/ s.home = "kept" \/ fate'[s.note] \in Settled \union {"open"}
                           \/ \E r \in queue : /\ r.note = s.note /\ r.home = "session"
                                               /\ fate'[s.note] = fate[s.note],
         \A s \in Sending : \/ s.id \in withdrawn' \/ fate'[s.note] \in Settled \union {"open"}
                            \/ fate'[s.note] = fate[s.note],
         OutWhenDue
  PROVE  StepFacts
<1>1. Sending' = Sending BY StillSending
<1>2. WakesStay
  <2> SUFFICES ASSUME NEW r \in queue \union Sending, r.src \in Sources, IsWake(r)
               PROVE  WakeOn(r.src)
    BY DEF WakesStay
  <2>1. CASE r \in Sending BY <1>1, <2>1 DEF WakeOn
  <2>2. CASE r \in queue BY <2>2
  <2> QED BY <2>1, <2>2
<1>3. OpenStays
  <2> SUFFICES ASSUME NEW s \in queue' \union Sending', s.home = "session", s.id \notin withdrawn'
               PROVE  \/ fate'[s.note] \in Settled \union {"open"}
                      \/ \E r \in queue \union Sending :
                           /\ r.note = s.note /\ r.home = "session" /\ r.id \notin withdrawn
                           /\ fate'[s.note] = fate[s.note]
    BY DEF OpenStays
  <2>1. CASE s \in queue' BY <2>1, QueuedNotWithdrawn
  <2>2. CASE s \in Sending' BY <1>1, <2>2
  <2> QED BY <2>1, <2>2
<1> QED BY <1>2, <1>3 DEF StepFacts

(* Steps that leave the table and the history alone. *)
LEMMA StillFacts ==
  ASSUME Base, Rows, PassRows({}), UNCHANGED <<queue, withdrawn, went, fate>>
  PROVE  StepFacts /\ DueStays
<1>1. \A r \in queue : IsWake(r) => WakeOn(r.src) BY DEF WakeOn
<1>2. \A s \in queue' : s.home \in {"kept", "session"} BY DEF Base, TypeOK, Row
<1>3. OutWhenDue BY DEF OutWhenDue
<1>4. DueStays BY DEF DueStays
<1> QED BY <1>1, <1>2, <1>3, <1>4, SlideFacts

(* Steps that change rows in place. *)
LEMMA InPlaceFacts ==
  ASSUME Base, Rows, PassRows({}), UNCHANGED <<withdrawn, went, fate>>,
         \A r \in queue : IsWake(r) => \E s \in queue' : s.src = r.src /\ IsWake(s),
         \A s \in queue' : \E r \in queue : s.note = r.note /\ s.home = r.home
  PROVE  StepFacts
<1>1. \A r \in queue : IsWake(r) => WakeOn(r.src) BY DEF WakeOn
<1>2. \A s \in queue : s.home \in {"kept", "session"} BY DEF Base, TypeOK, Row
<1>3. OutWhenDue BY DEF OutWhenDue
<1> QED BY <1>1, <1>2, <1>3, SlideFacts

LEMMA RowIs == ASSUME Base, NEW r \in queue PROVE r \in Row /\ r.note \in Notes
BY DEF Base, TypeOK, Row

LEMMA EditFacts ==
  ASSUME Base, Rows, NEW r \in queue, MoveCheckIn(r) \/ BecomesDue(r)
  PROVE  StepFacts /\ (DueStays \/ KeptMove)
<1>1. PassRows({}) BY MoveCheckInStep, BecomesDueStep
<1>2. PICK new : /\ new \in {[r EXCEPT !.due = FALSE, !.tries = 0], [r EXCEPT !.due = TRUE]}
                 /\ queue' = (queue \ {r}) \union {new}
                 /\ BecomesDue(r) => new = [r EXCEPT !.due = TRUE]
                 /\ UNCHANGED <<withdrawn, went, fate>>
  <2>1. CASE MoveCheckIn(r)
    BY <2>1 DEF MoveCheckIn, BecomesDue, history
  <2>2. CASE BecomesDue(r) BY <2>2 DEF BecomesDue, history
  <2> QED BY <2>1, <2>2
<1>3. /\ new.note = r.note /\ new.home = r.home /\ new.src = r.src /\ new.class = r.class
      /\ new.id = r.id /\ (BecomesDue(r) => new.due)
  BY <1>2, RowIs DEF Row
<1>4. \A q \in queue : IsWake(q) => \E s \in queue' : s.src = q.src /\ IsWake(s)
  BY <1>2, <1>3 DEF IsWake
<1>5. \A s \in queue' : \E q \in queue : s.note = q.note /\ s.home = q.home BY <1>2, <1>3
<1>6. DueStays \/ KeptMove
  <2>1. CASE new.due \/ new.home = "session" BY <1>2, <1>3, <2>1 DEF DueStays
  <2>2. CASE ~new.due /\ new.home # "session"
    <3>1. r.home = "kept" /\ MoveCheckIn(r) BY <1>3, <2>2, RowIs DEF Row
    <3> QED BY <3>1 DEF KeptMove
  <2> QED BY <2>1, <2>2
<1> QED BY <1>1, <1>2, <1>4, <1>5, <1>6, InPlaceFacts

LEMMA PromoteFacts ==
  ASSUME Base, Rows, PromoteReplies
  PROVE  StepFacts /\ DueStays
<1>1. PassRows({}) BY PromoteRepliesStep
<1>2. queue' = {IF r.class = "reply" THEN [r EXCEPT !.class = "wake"] ELSE r : r \in queue}
      /\ UNCHANGED <<withdrawn, went, fate>>
  BY DEF PromoteReplies, history
<1>3. ASSUME NEW r \in queue, NEW s, s = IF r.class = "reply" THEN [r EXCEPT !.class = "wake"] ELSE r
      PROVE  /\ s.note = r.note /\ s.home = r.home /\ s.src = r.src /\ s.id = r.id /\ s.due = r.due
             /\ IsWake(r) => IsWake(s)
  BY <1>3, RowIs DEF IsWake, Row
<1> DEFINE f(r) == IF r.class = "reply" THEN [r EXCEPT !.class = "wake"] ELSE r
<1>4. ASSUME NEW q \in queue, IsWake(q) PROVE \E s \in queue' : s.src = q.src /\ IsWake(s)
  <2>1. f(q) \in queue' BY <1>2
  <2>2. f(q).src = q.src /\ IsWake(f(q)) BY <1>3, <1>4
  <2> QED BY <2>1, <2>2
<1>5. ASSUME NEW s \in queue'
      PROVE  \E q \in queue : s.note = q.note /\ s.home = q.home /\ s.id = q.id /\ s.due = q.due
  <2>1. PICK q \in queue : s = f(q) BY <1>2
  <2> QED BY <1>3, <2>1
<1> HIDE DEF f
<1>6. DueStays BY <1>5 DEF DueStays
<1> QED BY <1>1, <1>2, <1>4, <1>5, <1>6, InPlaceFacts

LEMMA EndMarksFacts ==
  ASSUME Base, Rows, (\E keep \in BOOLEAN : EndAsked(keep)) \/ EndFails
  PROVE  StepFacts /\ DueStays
<1>1. PassRows({}) BY EndMarksStep
<1>2. UNCHANGED <<withdrawn, went, fate>> BY DEF EndAsked, EndFails, history
<1>3. /\ \A r \in queue : \E s \in queue' :
           s \in {r, [r EXCEPT !.kept = TRUE], [r EXCEPT !.kept = FALSE]}
      /\ \A s \in queue' : \E r \in queue :
           s \in {r, [r EXCEPT !.kept = TRUE], [r EXCEPT !.kept = FALSE]}
  <2>1. CASE \E keep \in BOOLEAN : EndAsked(keep)
    <3>1. PICK keep \in BOOLEAN : EndAsked(keep) BY <2>1
    <3> DEFINE mine == {r \in queue : r.src = CheckIn /\ r.home = "session"}
    <3>2. queue' = IF keep THEN {IF r \in mine THEN [r EXCEPT !.kept = TRUE] ELSE r : r \in queue}
                           ELSE queue
      BY <3>1 DEF EndAsked
    <3> QED BY <3>2
  <2>2. CASE EndFails BY <2>2 DEF EndFails
  <2> QED BY <2>1, <2>2
<1>4. ASSUME NEW r \in queue, NEW s \in {r, [r EXCEPT !.kept = TRUE], [r EXCEPT !.kept = FALSE]}
      PROVE  /\ s.note = r.note /\ s.home = r.home /\ s.src = r.src /\ s.id = r.id /\ s.due = r.due
             /\ IsWake(r) => IsWake(s)
  BY RowIs DEF IsWake, Row
<1>5. \A q \in queue : IsWake(q) => \E s \in queue' : s.src = q.src /\ IsWake(s) BY <1>3, <1>4
<1>6. \A s \in queue' : \E q \in queue : s.note = q.note /\ s.home = q.home /\ s.id = q.id /\ s.due = q.due
  BY <1>3, <1>4
<1>7. DueStays BY <1>6 DEF DueStays
<1> QED BY <1>1, <1>2, <1>5, <1>6, <1>7, InPlaceFacts

-----------------------------------------------------------------------------
(* ... the steps that leave the table as it is.                            *)

LEMMA WorldClientFacts ==
  ASSUME Base, Rows,
         \/ Typing \/ CoolsDown \/ LaunchWaitOver \/ GraceOver
         \/ PollEnds \/ PullerDies \/ ClientShows \/ ClientDies
         \/ \E taken \in Compositions(Rides) : PeekRide(taken)
         \/ AgentState \/ RecheckFires \/ TimerFires \/ PullerAttaches
  PROVE  StepFacts /\ DueStays
<1>1. PassRows({}) BY WorldStill, ClientStill, NudgedStill
<1>2. UNCHANGED <<queue, withdrawn, went, fate>>
  BY DEF Typing, CoolsDown, LaunchWaitOver, GraceOver, PollEnds, PullerDies, ClientShows,
         ClientDies, PeekRide, AgentState, RecheckFires, TimerFires, PullerAttaches, store, history
<1> QED BY <1>1, <1>2, StillFacts

LEMMA SchedulerFacts ==
  ASSUME Base, Rows,
         \/ EndLocks \/ UNCHANGED vars
         \/ \E p \in Passes : \/ Arm(p) \/ HoldOn(p) \/ GateAsksInput(p) \/ PasteLocks(p)
                              \/ KeptPart(p) \/ PasteNotYet(p) \/ PullerIsGone(p)
  PROVE  StepFacts /\ DueStays
<1>1. PassRows({}) BY ScheduleStill, MoreStill, StutterStep
<1>2. UNCHANGED <<queue, withdrawn, went, fate>>
  BY DEF EndLocks, vars, Arm, Ends, HoldOn, GateAsksInput, PasteLocks, KeptPart, PasteNotYet,
         PullerIsGone, store, history
<1> QED BY <1>1, <1>2, StillFacts

-----------------------------------------------------------------------------
(* ... those that take rows from the table.                                *)

LEMMA SameNote ==
  ASSUME Rows, NEW r \in All, NEW s \in All, r.note = s.note
  PROVE  /\ r.id = s.id /\ r.home = s.home /\ r.src = s.src
         /\ r \in queue /\ s \in queue => r = s
         /\ ~(r \in queue /\ s \in Sending)
<1>1. r.id = s.id /\ r.home = s.home /\ r.src = s.src BY DEF Rows, Names
<1> QED BY <1>1 DEF Rows, Apart

LEMMA GoneFacts ==
  ASSUME Base, Rows, PassRows({}), queue' \subseteq queue, withdrawn \subseteq withdrawn',
         \A r \in queue \ queue' : r.src \in Sources /\ IsWake(r) =>
           \/ went'[r.note] # went[r.note]
           \/ fate'[r.note] \in {"recalled", "shown", "ended", "lost"},
         \A s \in queue \union Sending :
           s.home = "kept" \/ fate'[s.note] = fate[s.note] \/ fate'[s.note] \in Settled,
         OutWhenDue
  PROVE  StepFacts /\ DueStays
<1>1. ASSUME NEW r \in queue, r.src \in Sources, IsWake(r) PROVE WakeOn(r.src)
  <2>1. CASE r \in queue' BY <1>1, <2>1 DEF WakeOn
  <2>2. CASE r \notin queue' BY <1>1, <2>2 DEF WakeOn
  <2> QED BY <2>1, <2>2
<1>2. \A s \in queue : s.home \in {"kept", "session"} BY DEF Base, TypeOK, Row
<1>3. \A s \in Sending : s.home = "session" BY DEF Rows, Homes, Sending
<1>4. DueStays BY DEF DueStays
<1> QED BY <1>1, <1>2, <1>3, <1>4, SlideFacts

LEMMA RecallFacts ==
  ASSUME Base, Rows, NEW r \in queue, CancelLine(r) \/ CancelCheckIn(r)
  PROVE  StepFacts /\ DueStays
<1>1. PassRows({}) BY CancelLineStep, CancelCheckInStep
<1>2. queue' = queue \ {r} /\ fate' = Becomes({r.note}, "recalled") /\ UNCHANGED <<withdrawn, went>>
  BY DEF CancelLine, CancelCheckIn, Recall
<1>3. \A n \in Notes : fate'[n] = IF n = r.note THEN "recalled" ELSE fate[n]
  BY <1>2 DEF Becomes
<1>4. \A s \in queue \union Sending : s.note \in Notes BY AllRows DEF Base, All, Row
<1>5. "recalled" \in Settled BY DEF Settled
<1>6. OutWhenDue BY <1>2 DEF OutWhenDue
<1> QED BY <1>1, <1>2, <1>3, <1>4, <1>5, <1>6, GoneFacts

LEMMA WithdrawFacts ==
  ASSUME Base, Rows, NEW src \in Sources, Withdraw(src)
  PROVE  StepFacts /\ DueStays
<1>1. PassRows({}) BY WithdrawStep
<1> DEFINE rows == {r \in queue : r.src = src}
           out == {r \in Sending : r.src = src}
<1>2. /\ queue' = queue \ rows /\ withdrawn' = withdrawn \union Ids(out)
      /\ fate' = Becomes(NotesOf(rows \union out), "recalled") /\ UNCHANGED went
  BY DEF Withdraw
<1>3. \A n \in Notes : fate'[n] = IF n \in NotesOf(rows \union out) THEN "recalled" ELSE fate[n]
  BY <1>2 DEF Becomes
<1>4. \A s \in queue \union Sending : s.note \in Notes BY AllRows DEF Base, All, Row
<1>5. "recalled" \in Settled BY DEF Settled
<1>6. OutWhenDue BY <1>2 DEF OutWhenDue
<1>7. \A r \in queue \ queue' : fate'[r.note] = "recalled" BY <1>2, <1>3, <1>4 DEF NotesOf
<1>8. queue' \subseteq queue /\ withdrawn \subseteq withdrawn' BY <1>2
<1> HIDE DEF rows, out
<1> QED BY <1>1, <1>3, <1>4, <1>5, <1>6, <1>7, <1>8, GoneFacts

LEMMA ConfirmRideFacts ==
  ASSUME Base, Rows, ConfirmRide
  PROVE  StepFacts /\ DueStays
<1>1. PassRows({}) BY ConfirmRideStep
<1>2. /\ queue' = queue \ Confirmed /\ told /\ UNCHANGED <<withdrawn, went>>
      /\ fate' = Becomes(NotesOf(Confirmed) \intersect seen, "shown")
  BY DEF ConfirmRide
<1>3. \A n \in Notes : fate'[n] = IF n \in NotesOf(Confirmed) \intersect seen THEN "shown" ELSE fate[n]
  BY <1>2 DEF Becomes
<1>4. \A s \in queue \union Sending : s.note \in Notes BY AllRows DEF Base, All, Row
<1>5. "shown" \in Settled BY DEF Settled
<1>6. OutWhenDue BY <1>2 DEF OutWhenDue
<1>7. ASSUME NEW r \in queue \ queue' PROVE fate'[r.note] = "shown"
  <2>1. r \in Confirmed BY <1>2
  <2>2. r.note \in seen
    <3>1. <<r.id, r.note>> \in token BY <2>1 DEF Confirmed, Mark
    <3>2. <<r.id, r.note>>[2] \in seen BY <1>2, <3>1 DEF Base, ToldInv
    <3> QED BY <3>2
  <2>3. r.note \in NotesOf(Confirmed) BY <2>1 DEF NotesOf
  <2> QED BY <1>3, <1>4, <2>2, <2>3
<1>8. queue' \subseteq queue BY <1>2
<1> QED BY <1>1, <1>2, <1>3, <1>4, <1>5, <1>6, <1>7, <1>8, GoneFacts

(* Rows that a pass remembers are check-ins. *)
LEMMA KeptAre ==
  ASSUME Base, Rows, NEW p \in Passes, NEW r \in All, r.id \in Ids(pass[p].kept)
  PROVE  r.home = "kept" /\ r.src \notin Sources
<1>1. PICK k \in pass[p].kept : k.id = r.id BY DEF Ids
<1>2. k \in All /\ k.home = "kept" BY <1>1 DEF All, KeptRows, Rows, Homes
<1>3. r.home = "kept" BY <1>1, <1>2 DEF Rows, Names
<1> QED BY <1>3, QueueAssumption DEF Rows, Marks, QueueAssumption

LEMMA HolderFoundFacts ==
  ASSUME Base, Rows, NEW p \in Passes, HolderFound(p)
  PROVE  StepFacts /\ DueStays
<1>1. PassRows({}) BY HolderFoundStep
<1> DEFINE rows == {r \in queue : r.id \in Ids(pass[p].kept)}
<1>2. queue' = queue \ rows /\ fate' = Becomes(NotesOf(rows), "moved") /\ UNCHANGED <<withdrawn, went>>
  BY DEF HolderFound
<1>3. \A n \in Notes : fate'[n] = IF n \in NotesOf(rows) THEN "moved" ELSE fate[n]
  BY <1>2 DEF Becomes
<1>4. \A s \in queue \union Sending : s.note \in Notes BY AllRows DEF Base, All, Row
<1>5. \A r \in rows : r \in queue /\ r \in All /\ r.home = "kept" /\ r.src \notin Sources BY KeptAre DEF All
<1>6. OutWhenDue BY <1>2 DEF OutWhenDue
<1> HIDE DEF rows
<1>7. ASSUME NEW s \in queue \union Sending PROVE s.home = "kept" \/ fate'[s.note] = fate[s.note]
  <2>1. CASE s.note \notin NotesOf(rows) BY <1>3, <1>4, <2>1
  <2>2. CASE s.note \in NotesOf(rows)
    <3>1. PICK r \in rows : r.note = s.note BY <2>2 DEF NotesOf
    <3>2. s \in All BY DEF All
    <3> QED BY <1>5, <3>1, <3>2, SameNote
  <2> QED BY <2>1, <2>2
<1>8. queue' \subseteq queue /\ \A r \in queue \ queue' : r.src \notin Sources BY <1>2, <1>5
<1> QED BY <1>1, <1>2, <1>6, <1>7, <1>8, GoneFacts

LEMMA LaunchBeginsFacts ==
  ASSUME Base, Rows, NEW p \in Passes, LaunchBegins(p)
  PROVE  StepFacts /\ DueStays
<1>1. PassRows({}) BY LaunchBeginsStep
<1>2. queue' = {r \in queue : r.id \notin Ids(pass[p].kept)} /\ UNCHANGED <<withdrawn, went, fate>>
  BY DEF LaunchBegins, history
<1>3. queue' \subseteq queue /\ \A r \in queue \ queue' : r.src \notin Sources
  BY <1>2, KeptAre DEF All
<1>4. OutWhenDue BY <1>2 DEF OutWhenDue
<1> QED BY <1>1, <1>2, <1>3, <1>4, GoneFacts

(* A note was handed out when its count says so. *)
LEMMA HandedOutTells ==
  ASSUME Plain, NEW notes, NEW n \in Notes
  PROVE  /\ HandedOut(notes)[n] # went[n] <=> n \in notes
         /\ HandedOutLate(notes)[n] # went[n] <=> n \in notes
<1>1. went[n] \in [sure : Nat, late : Nat] BY DEF Plain
<1>2. [went[n] EXCEPT !.sure = @ + 1].sure # went[n].sure BY <1>1
<1>3. [went[n] EXCEPT !.late = @ + 1].late # went[n].late BY <1>1
<1> QED BY <1>2, <1>3 DEF HandedOut, HandedOutLate

LEMMA TakenFacts ==
  ASSUME Base, Rows, NEW taken \in SUBSET queue, \A r \in taken : r.due,
         TakeRide(taken) \/ \E p \in Passes : PullerTakes(p, taken)
  PROVE  StepFacts /\ DueStays
<1>1. PassRows({}) BY TakenSteps
<1>2. queue' = queue \ taken /\ went' = HandedOut(NotesOf(taken)) /\ UNCHANGED <<withdrawn, fate>>
  BY DEF TakeRide, PullerTakes
<1>3. \A s \in queue \union Sending : s.note \in Notes BY AllRows DEF Base, All, Row
<1>4. \A n \in Notes : went'[n] # went[n] <=> n \in NotesOf(taken)
  BY <1>2, HandedOutTells, PlainNow
<1>5. \A r \in queue \ queue' : went'[r.note] # went[r.note] BY <1>2, <1>3, <1>4 DEF NotesOf
<1>6. OutWhenDue
  <2> SUFFICES ASSUME NEW r \in queue, went'[r.note] # went[r.note] PROVE r.due BY DEF OutWhenDue
  <2>1. PICK t \in taken : t.note = r.note BY <1>3, <1>4 DEF NotesOf
  <2>2. t = r BY <2>1, SameNote DEF All
  <2> QED BY <2>1, <2>2
<1>7. queue' \subseteq queue BY <1>2
<1> QED BY <1>1, <1>2, <1>5, <1>6, <1>7, GoneFacts

-----------------------------------------------------------------------------
(* ... those that queue a note.                                            *)

LEMMA MintFacts ==
  ASSUME Base, Rows, PassRows({}), UNCHANGED <<withdrawn, went>>,
         NEW gone \in SUBSET queue, NEW w, queue' = (queue \ gone) \union {w},
         \/ gone = {} /\ w.home = "session"
         \/ \E r \in queue : /\ gone = {r} /\ w.src = r.src /\ w.id = r.id /\ w.due = r.due
                             /\ IsWake(r) => IsWake(w),
         fate'[w.note] = "open",
         \A n \in Notes : fate'[n] = fate[n] \/ fate'[n] \in {"open", "replaced"}
  PROVE  StepFacts /\ DueStays
<1>1. \A r \in queue : IsWake(r) => WakeOn(r.src) BY DEF WakeOn
<1>2. \A s \in queue \union Sending : s.note \in Notes BY AllRows DEF Base, All, Row
<1>3. \A s \in queue : s.home \in {"kept", "session"} BY DEF Base, TypeOK, Row
<1>4. "replaced" \in Settled BY DEF Settled
<1>5. OutWhenDue BY DEF OutWhenDue
<1>6. DueStays BY DEF DueStays
<1> QED BY <1>1, <1>2, <1>3, <1>4, <1>5, <1>6, SlideFacts

LEMMA AddEventFacts ==
  ASSUME Base, Rows, NEW src \in Sources, NEW class \in Classes, AddEvent(src, class)
  PROVE  StepFacts /\ DueStays
<1>0. PassRows({}) /\ Plain BY AddEventStep, PlainNow
<1> DEFINE old == {r \in queue : r.src = src}
           new == EventRow(minted + 1, src, class)
           upd(r) == [r EXCEPT !.note = minted + 1, !.class = Strongest({@, class})]
<1>1. /\ queue' = IF old = {} THEN queue \union {new} ELSE (queue \ old) \union {upd(r) : r \in old}
      /\ fate' = [Becomes(NotesOf(old), "replaced") EXCEPT ![minted + 1] = "open"]
      /\ UNCHANGED <<withdrawn, went>> /\ Mint
  BY DEF AddEvent
<1>2. minted + 1 \in Notes BY <1>0, <1>1, NewNote
<1>3. /\ fate'[minted + 1] = "open"
      /\ \A n \in Notes : fate'[n] = fate[n] \/ fate'[n] \in {"open", "replaced"}
  BY <1>0, <1>1, <1>2, FateOfNew
<1>4. src # CheckIn BY QueueAssumption DEF QueueAssumption
<1>5. CASE old = {}
  <2>1. new.home = "session" /\ new.note = minted + 1 BY DEF EventRow
  <2>2. queue' = (queue \ {}) \union {new} BY <1>1, <1>5
  <2> HIDE DEF new, old
  <2> DEFINE none == {}
  <2>3. none \in SUBSET queue /\ none = {} /\ queue' = (queue \ none) \union {new} BY <2>2
  <2> HIDE DEF none
  <2> QED BY <1>0, <1>1, <1>3, <2>1, <2>3, MintFacts
<1>6. CASE old # {}
  <2>1. PICK r \in old : TRUE BY <1>6
  <2>2. r \in queue /\ r \in Row /\ r.src = src BY <2>1, RowIs
  <2>3. old = {r} BY <1>4, <2>1 DEF Rows, SrcInv, OneLine
  <2>4. queue' = (queue \ {r}) \union {upd(r)} BY <1>1, <2>3
  <2>5. /\ upd(r).note = minted + 1 /\ upd(r).src = r.src /\ upd(r).id = r.id
        /\ upd(r).due = r.due /\ (r.class = "wake" => upd(r).class = "wake")
    BY <2>2 DEF Row, Strongest
  <2> HIDE DEF upd, old
  <2> DEFINE w == upd(r)
             gone == {r}
  <2>6. /\ w.note = minted + 1 /\ w.src = r.src /\ w.id = r.id /\ w.due = r.due
        /\ IsWake(r) => IsWake(w)
    BY <2>5 DEF IsWake
  <2>7. gone \in SUBSET queue /\ gone = {r} /\ queue' = (queue \ gone) \union {w} BY <2>2, <2>4
  <2> HIDE DEF w, gone
  <2> QED BY <1>0, <1>1, <1>3, <2>2, <2>6, <2>7, MintFacts
<1> QED BY <1>5, <1>6

LEMMA AddCheckInFacts ==
  ASSUME Base, Rows, NEW due \in BOOLEAN, AddCheckIn(due)
  PROVE  StepFacts /\ DueStays
<1>0. PassRows({}) /\ Plain BY AddCheckInStep, PlainNow
<1> DEFINE w == CheckInRow(minted + 1, due)
           none == {}
<1>1. /\ queue' = queue \union {w} /\ fate' = [fate EXCEPT ![minted + 1] = "open"]
      /\ UNCHANGED <<withdrawn, went>> /\ Mint
  BY DEF AddCheckIn
<1>2. minted + 1 \in Notes BY <1>0, <1>1, NewNote
<1>3. /\ fate'[minted + 1] = "open"
      /\ \A n \in Notes : fate'[n] = fate[n] \/ fate'[n] \in {"open", "replaced"}
  BY <1>0, <1>1, <1>2 DEF Plain
<1>4. w.home = "session" /\ w.note = minted + 1 BY DEF CheckInRow
<1>5. none \in SUBSET queue /\ none = {} /\ queue' = (queue \ none) \union {w} BY <1>1
<1> HIDE DEF w, none
<1> QED BY <1>0, <1>1, <1>3, <1>4, <1>5, MintFacts

LEMMA RewordCheckInFacts ==
  ASSUME Base, Rows, NEW r \in queue, RewordCheckIn(r)
  PROVE  StepFacts /\ DueStays
<1>0. PassRows({}) /\ Plain /\ r \in Row BY RewordCheckInStep, PlainNow, RowIs
<1> DEFINE w == [r EXCEPT !.note = minted + 1, !.tries = 0]
           gone == {r}
<1>1. /\ queue' = (queue \ {r}) \union {w}
      /\ fate' = [Becomes({r.note}, "replaced") EXCEPT ![minted + 1] = "open"]
      /\ UNCHANGED <<withdrawn, went>> /\ Mint
  BY DEF RewordCheckIn
<1>2. minted + 1 \in Notes BY <1>0, <1>1, NewNote
<1>3. /\ fate'[minted + 1] = "open"
      /\ \A n \in Notes : fate'[n] = fate[n] \/ fate'[n] \in {"open", "replaced"}
  BY <1>0, <1>1, <1>2, FateOfNew
<1>4. /\ w.note = minted + 1 /\ w.src = r.src /\ w.id = r.id /\ w.due = r.due
      /\ IsWake(r) => IsWake(w)
  BY <1>0 DEF Row, IsWake
<1>5. gone \in SUBSET queue /\ gone = {r} /\ queue' = (queue \ gone) \union {w} BY <1>1
<1> HIDE DEF w, gone
<1> QED BY <1>0, <1>1, <1>3, <1>4, <1>5, MintFacts

-----------------------------------------------------------------------------
(* ... the paste.                                                          *)

LEMMA PasteBeginsFacts ==
  ASSUME Base, Rows, NEW p \in Passes, NEW taken \in MayCarry, PasteBegins(p, taken)
  PROVE  StepFacts /\ DueStays
<1>1. taken \subseteq queue /\ Sending' = Sending \union taken BY PasteBeginsStep
<1>2. queue' = queue \ taken /\ UNCHANGED <<withdrawn, went, fate>> BY DEF PasteBegins, history
<1>3. queue' \union Sending' = queue \union Sending BY <1>1, <1>2
<1>4. WakesStay BY <1>3 DEF WakesStay, WakeOn
<1>5. OpenStays BY <1>2, <1>3 DEF OpenStays
<1>6. OutWhenDue BY <1>2 DEF OutWhenDue
<1>7. DueStays BY <1>2 DEF DueStays
<1> QED BY <1>4, <1>5, <1>6, <1>7 DEF StepFacts

(* A paste that is over: what the others hold is as it was. *)
LEMMA PasteOver ==
  ASSUME Rows, NEW p \in Passes, PassRows({p}), withdrawn' = withdrawn \ Ids(pass[p].rows)
  PROVE  /\ \A r \in Sending : r \in Sending' \/ r \in pass[p].rows
         /\ \A s \in Sending' : s \in Sending /\ (s.id \notin withdrawn' => s.id \notin withdrawn)
<1>1. ASSUME NEW r \in Sending PROVE r \in Sending' \/ r \in pass[p].rows
  <2>1. PICK q \in Passes : r \in pass[q].rows BY DEF Sending
  <2> QED BY <2>1 DEF PassRows, Sending
<1>2. ASSUME NEW s \in Sending' PROVE s \in Sending /\ (s.id \notin withdrawn' => s.id \notin withdrawn)
  <2>1. PICK q \in Passes : q # p /\ s \in pass[q].rows BY DEF PassRows, Sending
  <2>2. s.id \notin Ids(pass[p].rows) BY <2>1 DEF Ids, Rows, Apart
  <2> QED BY <2>1, <2>2 DEF Sending
<1> QED BY <1>1, <1>2

LEMMA PastedFacts ==
  ASSUME Base, Rows, NEW p \in Passes, Pasted(p)
  PROVE  StepFacts /\ DueStays
<1>1. PassRows({p}) /\ Plain BY PastedStep, PlainNow
<1>2. /\ queue' = queue /\ went' = HandedOut(NotesOf(pass[p].rows)) /\ fate' = fate
      /\ withdrawn' = withdrawn \ Ids(pass[p].rows)
  BY DEF Pasted
<1>3. \A n \in Notes : went'[n] # went[n] <=> n \in NotesOf(pass[p].rows)
  BY <1>1, <1>2, HandedOutTells
<1>4. \A s \in queue \union Sending : s.note \in Notes BY AllRows DEF Base, All, Row
<1>5. /\ \A r \in Sending : r \in Sending' \/ r \in pass[p].rows
      /\ \A s \in Sending' : s \in Sending /\ (s.id \notin withdrawn' => s.id \notin withdrawn)
  BY <1>1, <1>2, PasteOver
<1>6. \A r \in pass[p].rows : r \in Sending /\ r.note \in NotesOf(pass[p].rows)
  BY DEF Sending, NotesOf
<1>7. WakesStay
  <2> SUFFICES ASSUME NEW r \in queue \union Sending, IsWake(r) PROVE WakeOn(r.src)
    BY DEF WakesStay
  <2>1. CASE r \in queue' \union Sending' BY <2>1 DEF WakeOn
  <2>2. CASE r \in pass[p].rows BY <1>3, <1>4, <1>6, <2>2 DEF WakeOn
  <2> QED BY <1>2, <1>5, <2>1, <2>2
<1>8. OpenStays BY <1>2, <1>5, QueuedNotWithdrawn DEF OpenStays
<1>9. OutWhenDue BY <1>3, <1>4, <1>6 DEF OutWhenDue, NotesOf
<1>10. DueStays BY <1>2 DEF DueStays
<1> QED BY <1>7, <1>8, <1>9, <1>10 DEF StepFacts

LEMMA ComeBackFacts ==
  ASSUME Base, Rows, NEW p \in Passes,
         PasteRefused(p) \/ \E late \in BOOLEAN : PasteThrows(p, late)
  PROVE  StepFacts /\ DueStays
<1>0. PassRows({p}) /\ Plain BY PasteRefusedStep, PasteThrowsStep, PlainNow
<1> DEFINE back == {r \in pass[p].rows : r.id \notin withdrawn}
           gone == Superseded(queue, back)
           over(n) == {r.class : r \in {r \in back : n \in Newer(queue, r)}}
           upd(n) == [n EXCEPT !.class = Strongest({@} \union over(n))]
<1>1. RowsComeBack(p) BY DEF PasteRefused, PasteThrows
<1>2. /\ queue' = {upd(n) : n \in queue} \union {r \in back : Newer(queue, r) = {}}
      /\ withdrawn' = withdrawn \ Ids(pass[p].rows)
      /\ fate' = Becomes(gone, "replaced")
  BY <1>1 DEF RowsComeBack, Restored
<1>3. \A n \in Notes : fate'[n] = fate[n] \/ fate'[n] = "replaced" BY <1>2 DEF Becomes
<1>4. \A n \in Notes : went'[n] # went[n] => n \in NotesOf(pass[p].rows)
  <2>1. CASE PasteRefused(p) BY <2>1 DEF PasteRefused
  <2>2. CASE \E late \in BOOLEAN : PasteThrows(p, late)
    <3>1. PICK late \in BOOLEAN : PasteThrows(p, late) BY <2>2
    <3> DEFINE notes == IF late THEN NotesOf(pass[p].rows) ELSE {}
    <3>2. went' = HandedOutLate(notes) BY <3>1 DEF PasteThrows
    <3>3. notes \subseteq NotesOf(pass[p].rows) OBVIOUS
    <3> HIDE DEF notes
    <3> QED BY <1>0, <3>2, <3>3, HandedOutTells
  <2> QED BY <2>1, <2>2
<1>5. /\ \A r \in Sending : r \in Sending' \/ r \in pass[p].rows
      /\ \A s \in Sending' : s \in Sending /\ (s.id \notin withdrawn' => s.id \notin withdrawn)
  BY <1>0, <1>2, PasteOver
<1>6. ASSUME NEW n \in queue
      PROVE  /\ upd(n) \in queue' /\ upd(n).src = n.src /\ upd(n).note = n.note
             /\ upd(n).home = n.home /\ upd(n).id = n.id /\ upd(n).due = n.due
             /\ "wake" \in {n.class} \union over(n) => IsWake(upd(n))
  <2>1. n \in Row /\ upd(n) \in queue' BY <1>2, RowIs
  <2>2. "wake" \in {n.class} \union over(n) => Strongest({n.class} \union over(n)) = "wake"
    BY DEF Strongest
  <2> HIDE DEF over
  <2> QED BY <2>1, <2>2 DEF Row, IsWake
<1>7. \A r \in back : r \in Sending /\ r.home = "session" BY DEF Sending, Rows, Homes
<1>8. \A s \in queue' : (\E n \in queue : s = upd(n)) \/ s \in back BY <1>2
<1>9. WakesStay
  <2> SUFFICES ASSUME NEW r \in queue \union Sending, r.src \in Sources, IsWake(r),
                      r.id \notin withdrawn
               PROVE  \E s \in queue' \union Sending' : s.src = r.src /\ IsWake(s)
    BY DEF WakesStay, WakeOn
  <2>1. CASE r \in queue
    <3>1. "wake" \in {r.class} \union over(r) BY DEF IsWake
    <3> HIDE DEF upd, over
    <3> QED BY <1>6, <2>1, <3>1
  <2>2. CASE r \in Sending' BY <2>2
  <2>3. CASE r \in back /\ Newer(queue, r) = {} BY <1>2, <2>3
  <2>4. CASE r \in back /\ Newer(queue, r) # {}
    <3>1. PICK n \in Newer(queue, r) : TRUE BY <2>4
    <3>2. n \in queue /\ n.src = r.src BY <3>1 DEF Newer
    <3>3. "wake" \in over(n) BY <2>4, <3>1 DEF IsWake
    <3>4. upd(n) \in queue' /\ upd(n).src = r.src /\ IsWake(upd(n)) BY <1>6, <3>2, <3>3
    <3> HIDE DEF upd
    <3> QED BY <3>4
  <2> QED BY <1>5, <2>1, <2>2, <2>3, <2>4
<1> HIDE DEF upd, over
<1>10. OpenStays
  <2> SUFFICES ASSUME NEW s \in queue' \union Sending', s.home = "session", s.id \notin withdrawn'
               PROVE  \/ fate'[s.note] \in Settled \union {"open"}
                      \/ \E r \in queue \union Sending :
                           /\ r.note = s.note /\ r.home = "session" /\ r.id \notin withdrawn
                           /\ fate'[s.note] = fate[s.note]
    BY DEF OpenStays
  <2>1. \E r \in queue \union Sending :
          r.note = s.note /\ r.home = "session" /\ r.id \notin withdrawn
    <3>1. CASE s \in Sending' BY <1>5, <3>1
    <3>2. CASE s \in back BY <1>7, <3>2
    <3>3. CASE \E n \in queue : s = upd(n) BY <1>6, <3>3, QueuedNotWithdrawn
    <3> QED BY <1>8, <3>1, <3>2, <3>3
  <2>2. s.note \in Notes BY <2>1, AllRows DEF Base, All, Row
  <2> QED BY <1>3, <2>1, <2>2 DEF Settled
<1>11. OutWhenDue
  <2>1. \A s \in queue : s.note \in Notes BY RowIs
  <2> QED BY <1>4, <2>1 DEF OutWhenDue, NotesOf, Sending
<1>12. DueStays BY <1>6, <1>7, <1>8 DEF DueStays
<1> QED BY <1>9, <1>10, <1>11, <1>12 DEF StepFacts

-----------------------------------------------------------------------------
(* ... the launch, End and a restart.                                      *)

LEMMA LaunchRows ==
  ASSUME Base, NEW p \in Passes, pass[p].at = "launch", PassRows({p})
  PROVE  PassRows({})
<1>1. pass[p].rows = {} BY DEF Base, Homes
<1> QED BY <1>1 DEF PassRows

LEMMA LaunchedFacts ==
  ASSUME Base, Rows, NEW p \in Passes, Launched(p)
  PROVE  StepFacts /\ DueStays
<1>1. PassRows({}) /\ Plain BY LaunchedStep, LaunchRows, PlainNow DEF Launched, At
<1>2. /\ UNCHANGED <<queue, withdrawn, fate>> /\ went' = HandedOut(NotesOf(pass[p].kept))
  BY DEF Launched, store
<1>3. \A s \in queue : s.note \in Notes /\ s.home \in {"kept", "session"}
  BY RowIs DEF Row
<1>4. \A r \in queue : IsWake(r) => WakeOn(r.src) BY <1>2 DEF WakeOn
<1>5. OutWhenDue
  <2>1. \A n \in Notes : went'[n] # went[n] <=> n \in NotesOf(pass[p].kept)
    BY <1>1, <1>2, HandedOutTells
  <2> QED BY <1>3, <2>1 DEF OutWhenDue, NotesOf, KeptRows
<1>6. DueStays BY <1>2 DEF DueStays
<1> QED BY <1>1, <1>2, <1>3, <1>4, <1>5, <1>6, SlideFacts

LEMMA LaunchFailsFacts ==
  ASSUME Base, Rows, NEW p \in Passes, NEW counts \in BOOLEAN, LaunchFails(p, counts)
  PROVE  StepFacts /\ DueStays
<1>1. PassRows({}) BY LaunchFailsStep, LaunchRows DEF LaunchFails, At
<1> DEFINE back == {r \in pass[p].kept : r.id \notin Ids(queue)}
           upd(r) == IF counts /\ r.id \in Ids(pass[p].kept) THEN [r EXCEPT !.tries = @ + 1] ELSE r
<1>2. queue' = {upd(r) : r \in queue \union back} /\ UNCHANGED <<withdrawn, went, fate>>
  BY DEF LaunchFails, history
<1>3. \A r \in back : r \in All /\ r.home = "kept" /\ r.due BY DEF All, KeptRows, Rows, Homes
<1>4. ASSUME NEW r \in queue \union back
      PROVE  /\ upd(r).src = r.src /\ upd(r).note = r.note /\ upd(r).home = r.home
             /\ upd(r).id = r.id /\ upd(r).due = r.due /\ (IsWake(r) => IsWake(upd(r)))
  <2>1. r \in Row BY <1>3, AllRows DEF Base, All
  <2> QED BY <2>1 DEF Row, IsWake
<1> HIDE DEF upd, back
<1>5. \A s \in queue' : \E r \in queue \union back : s = upd(r) BY <1>2
<1>6. \A r \in queue : IsWake(r) => WakeOn(r.src)
  <2> SUFFICES ASSUME NEW r \in queue, IsWake(r)
               PROVE  \E s \in queue' : s.src = r.src /\ IsWake(s)
    BY DEF WakeOn
  <2>1. upd(r) \in queue' BY <1>2
  <2> QED BY <1>4, <2>1
<1>7. \A s \in queue' : \/ s.home = "kept"
                        \/ \E r \in queue : /\ r.note = s.note /\ r.home = "session"
                                            /\ fate'[s.note] = fate[s.note]
  <2> SUFFICES ASSUME NEW s \in queue'
               PROVE  \/ s.home = "kept"
                      \/ \E r \in queue : r.note = s.note /\ r.home = "session"
    BY <1>2
  <2>1. PICK r \in queue \union back : s = upd(r) BY <1>5
  <2>2. r.home \in {"kept", "session"} BY <1>3, RowIs DEF Row
  <2> QED BY <1>3, <1>4, <2>1, <2>2
<1>8. OutWhenDue BY <1>2 DEF OutWhenDue
<1>9. DueStays BY <1>3, <1>4, <1>5 DEF DueStays
<1> QED BY <1>1, <1>2, <1>6, <1>7, <1>8, <1>9, SlideFacts

LEMMA EndedFacts ==
  ASSUME Base, Rows, Ended
  PROVE  StepFacts /\ DueStays
<1>1. PassRows({}) BY EndedStep
<1> DEFINE S == {r \in queue : r.home = "kept" \/ r.kept}
           upd(r) == IF r.kept THEN [r EXCEPT !.home = "kept"] ELSE r
           gone == {r \in Live(queue) : ~r.kept}
<1>2. /\ queue' = {upd(r) : r \in S} /\ fate' = Becomes(NotesOf(gone), "ended")
      /\ UNCHANGED <<withdrawn, went>>
  BY DEF Ended
<1>3. \A n \in Notes : fate'[n] = IF n \in NotesOf(gone) THEN "ended" ELSE fate[n]
  BY <1>2 DEF Becomes
<1>4. \A s \in queue \union Sending : s.note \in Notes BY AllRows DEF Base, All, Row
<1>5. ASSUME NEW r \in queue, r.src \in Sources PROVE WakeOn(r.src)
  <2>1. r.src # CheckIn BY <1>5, QueueAssumption DEF QueueAssumption
  <2>2. r.home # "kept" /\ ~r.kept BY <2>1 DEF Rows, Marks, All
  <2>3. r \in gone BY <2>2, RowIs DEF Live, Row
  <2>4. fate'[r.note] = "ended" BY <1>3, <1>4, <2>3 DEF NotesOf
  <2> QED BY <2>4 DEF WakeOn
<1>6. ASSUME NEW s \in queue' PROVE s.home = "kept" /\ \E r \in queue : r.id = s.id /\ r.due = s.due
  <2>1. PICK r \in S : s = upd(r) BY <1>2
  <2>2. r \in queue /\ r \in Row /\ (r.home = "kept" \/ r.kept) BY RowIs
  <2> QED BY <2>1, <2>2 DEF Row
<1>7. OutWhenDue BY <1>2 DEF OutWhenDue
<1>8. DueStays BY <1>6 DEF DueStays
<1>9. "ended" \in Settled BY DEF Settled
<1> HIDE DEF S, gone
<1> QED BY <1>1, <1>2, <1>3, <1>4, <1>5, <1>6, <1>7, <1>8, <1>9, SlideFacts

(* What was in a paste is lost, and nothing else. *)
LEMMA RestartFacts ==
  ASSUME Base, Rows, OpenInv, Restart
  PROVE  StepFacts /\ DueStays
<1>1. PassRows(Passes) BY RestartStep
<1>2. /\ fate' = [n \in Notes |-> IF n \in NotesOf(Out) /\ fate[n] = "open" THEN "lost" ELSE fate[n]]
      /\ withdrawn' = {} /\ UNCHANGED <<queue, went>>
  BY DEF Restart
<1>3. Sending' = {} BY <1>1 DEF PassRows, Sending
<1>4. \A s \in queue \union Sending : s.note \in Notes BY AllRows DEF Base, All, Row
<1>5. ASSUME NEW r \in Sending, r.id \notin withdrawn PROVE fate'[r.note] = "lost"
  <2>1. r.home = "session" BY DEF Rows, Homes, Sending
  <2>2. fate[r.note] = "open" BY <1>5, <2>1 DEF OpenInv
  <2>3. r.note \in NotesOf(Out) BY DEF Out, NotesOf
  <2> QED BY <1>2, <1>4, <2>2, <2>3
<1>6. ASSUME NEW s \in queue, s.home = "session" PROVE fate'[s.note] = fate[s.note]
  <2> SUFFICES s.note \notin NotesOf(Out) BY <1>2, <1>4
  <2> SUFFICES ASSUME NEW r \in Out, r.note = s.note PROVE FALSE BY DEF NotesOf
  <2>1. r \in Sending \/ r \in KeptRows BY DEF Out, KeptRows
  <2>2. r \in All /\ s \in All /\ (r \in KeptRows => r.home = "kept")
    BY <2>1 DEF All, Rows, Homes, KeptRows
  <2> QED BY <1>6, <2>1, <2>2, SameNote
<1>7. WakesStay BY <1>2, <1>5 DEF WakesStay, WakeOn
<1>8. OpenStays BY <1>2, <1>3, <1>6, QueuedNotWithdrawn DEF OpenStays
<1>9. OutWhenDue BY <1>2 DEF OutWhenDue
<1>10. DueStays BY <1>2 DEF DueStays
<1> QED BY <1>7, <1>8, <1>9, <1>10 DEF StepFacts

-----------------------------------------------------------------------------
(* The steps together.                                                     *)

LEMMA NextFacts ==
  ASSUME Base, Rows, OpenInv, [Next]_vars
  PROVE  StepFacts /\ (DueStays \/ KeptMove)
<1>1. CASE Produce
  <2>1. CASE \E src \in Sources, class \in Classes : AddEvent(src, class) BY <2>1, AddEventFacts
  <2>2. CASE \E src \in Sources : Withdraw(src) BY <2>2, WithdrawFacts
  <2>3. CASE \E due \in BOOLEAN : AddCheckIn(due) BY <2>3, AddCheckInFacts
  <2>4. CASE \E r \in queue : CancelLine(r) \/ CancelCheckIn(r) BY <2>4, RecallFacts
  <2>5. CASE \E r \in queue : MoveCheckIn(r) BY <2>5, EditFacts
  <2>6. CASE \E r \in queue : RewordCheckIn(r) BY <2>6, RewordCheckInFacts
  <2>7. CASE PromoteReplies BY <2>7, PromoteFacts
  <2> QED BY <1>1, <2>1, <2>2, <2>3, <2>4, <2>5, <2>6, <2>7 DEF Produce
<1>2. CASE World BY <1>2, EditFacts, WorldClientFacts DEF World
<1>3. CASE Client
  <2>1. CASE PullerAttaches \/ PollEnds \/ PullerDies \/ ClientShows \/ ClientDies
    BY <2>1, WorldClientFacts
  <2>2. CASE \E taken \in Compositions(Rides) : PeekRide(taken) BY <2>2, WorldClientFacts
  <2>3. CASE \E taken \in Compositions(Rides) : TakeRide(taken)
    <3>1. PICK taken \in Compositions(Rides) : TakeRide(taken) BY <2>3
    <3>2. \A r \in taken : r \in queue /\ r.due BY <3>1, ComposedRows DEF Rides, Due, Live
    <3>3. taken \in SUBSET queue BY <3>2
    <3> QED BY <3>1, <3>2, <3>3, TakenFacts
  <2>4. CASE ConfirmRide BY <2>4, ConfirmRideFacts
  <2> QED BY <1>3, <2>1, <2>2, <2>3, <2>4 DEF Client
<1>4. CASE Finish BY <1>4, EndMarksFacts, SchedulerFacts, EndedFacts, RestartFacts DEF Finish
<1>5. CASE \E p \in Passes : Deliver(p)
  <2>1. PICK p \in Passes : Deliver(p) BY <1>5
  <2>2. CASE \/ HoldOn(p) \/ GateAsksInput(p) \/ PasteLocks(p) \/ PullerIsGone(p) \/ PasteNotYet(p)
    BY <2>2, SchedulerFacts
  <2>3. CASE \E taken \in MayCarry : PullerTakes(p, taken)
    <3>1. PICK taken \in MayCarry : PullerTakes(p, taken) BY <2>3
    <3>2. taken \in Compositions(Due(queue)) BY <3>1 DEF MayCarry
    <3>3. \A r \in taken : r \in queue /\ r.due BY <3>2, ComposedRows DEF Due, Live
    <3>4. taken \in SUBSET queue BY <3>3
    <3> QED BY <3>1, <3>3, <3>4, TakenFacts
  <2>4. CASE \E taken \in MayCarry : PasteBegins(p, taken) BY <2>4, PasteBeginsFacts
  <2>5. CASE Pasted(p) BY <2>5, PastedFacts
  <2>6. CASE PasteRefused(p) \/ \E late \in BOOLEAN : PasteThrows(p, late) BY <2>6, ComeBackFacts
  <2> QED BY <2>1, <2>2, <2>3, <2>4, <2>5, <2>6 DEF Deliver
<1>6. CASE \E p \in Passes : Relaunch(p)
  <2>1. PICK p \in Passes : Relaunch(p) BY <1>6
  <2>2. CASE KeptPart(p) BY <2>2, SchedulerFacts
  <2>3. CASE HolderFound(p) BY <2>3, HolderFoundFacts
  <2>4. CASE LaunchBegins(p) BY <2>4, LaunchBeginsFacts
  <2>5. CASE Launched(p) BY <2>5, LaunchedFacts
  <2>6. CASE \E counts \in BOOLEAN : LaunchFails(p, counts) BY <2>6, LaunchFailsFacts
  <2> QED BY <2>1, <2>2, <2>3, <2>4, <2>5, <2>6 DEF Relaunch
<1>7. CASE (\E p \in Passes : Arm(p)) \/ UNCHANGED vars BY <1>7, SchedulerFacts
<1>8. CASE RecheckFires \/ TimerFires BY <1>8, WorldClientFacts
<1> QED BY <1>1, <1>2, <1>3, <1>4, <1>5, <1>6, <1>7, <1>8 DEF Next

(* What a step puts into a paste was in the table, due, and with a wake;   *)
(* what a pass remembers anew is in the table after it.                    *)
LEMMA CarriedHasWake ==
  ASSUME Base, NEW taken \in MayCarry
  PROVE  (\A r \in taken : r \in queue /\ r.due) /\ \E w \in taken : IsWake(w)
<1>1. taken \in Compositions(Due(queue)) /\ \E w \in Due(queue) : IsWake(w) BY DEF MayCarry
<1>2. \A r \in taken : r \in queue /\ r.due BY <1>1, ComposedRows DEF Due, Live
<1>3. PICK w \in Due(queue) : IsWake(w) BY <1>1
<1>4. PICK r \in taken : TRUE BY <1>1 DEF Compositions
<1>5. CASE w \in taken BY <1>2, <1>5, <1>3
<1>6. CASE w \notin taken
  <2>1. Place(r) <= Place(w) BY <1>1, <1>3, <1>4, <1>6 DEF Compositions
  <2>2. Place(r) # 3 BY <1>3, <2>1 DEF Place
  <2>3. r.src = CheckIn \/ IsWake(r) BY <2>2 DEF Place
  <2>4. IsWake(r) BY <1>2, <1>4, <2>3 DEF IsWake, Base, Marks, All
  <2> QED BY <1>2, <1>4, <2>4
<1> QED BY <1>5, <1>6

LEMMA NextPassRows ==
  ASSUME Base, [Next]_vars
  PROVE  \/ \E p \in Passes, taken \in MayCarry :
              PasteBegins(p, taken) /\ Sending' = Sending \union taken /\ KeptRows' = KeptRows
         \/ /\ KeptRows' \subseteq KeptRows \union {r \in queue' : r.home = "kept" /\ r.due}
            /\ Sending' \subseteq Sending
<1> SUFFICES ASSUME ~\E p \in Passes, taken \in MayCarry : PasteBegins(p, taken)
             PROVE  \E own : PassRows(own)
  BY PasteBeginsStep DEF PassRows
<1>1. CASE Produce
  BY <1>1, AddEventStep, WithdrawStep, AddCheckInStep, CancelLineStep, MoveCheckInStep,
     RewordCheckInStep, CancelCheckInStep, PromoteRepliesStep
  DEF Produce
<1>2. CASE World BY <1>2, BecomesDueStep, NudgedStill, WorldStill DEF World
<1>3. CASE Client
  <2>1. CASE \E taken \in Compositions(Rides) : TakeRide(taken)
    <3>1. PICK taken \in Compositions(Rides) : TakeRide(taken) BY <2>1
    <3>2. taken \in SUBSET queue BY <3>1, ComposedRows DEF Rides, Due, Live
    <3> QED BY <3>1, <3>2, TakenSteps
  <2> QED BY <1>3, <2>1, NudgedStill, ClientStill, ConfirmRideStep DEF Client
<1>4. CASE Finish BY <1>4, EndMarksStep, MoreStill, EndedStep, RestartStep DEF Finish
<1>5. CASE \E p \in Passes : Deliver(p)
  <2>1. PICK p \in Passes : Deliver(p) BY <1>5
  <2>2. CASE \E taken \in MayCarry : PullerTakes(p, taken)
    <3>1. PICK taken \in MayCarry : PullerTakes(p, taken) BY <2>2
    <3>2. taken \in SUBSET queue BY <3>1, CarriedHasWake
    <3> QED BY <3>1, <3>2, TakenSteps
  <2>3. CASE HoldOn(p) \/ GateAsksInput(p) \/ PasteLocks(p) BY <2>3, ScheduleStill
  <2>4. CASE PullerIsGone(p) \/ PasteNotYet(p) BY <2>4, MoreStill
  <2>5. CASE Pasted(p) \/ PasteRefused(p) BY <2>5, PastedStep, PasteRefusedStep
  <2>6. CASE \E late \in BOOLEAN : PasteThrows(p, late) BY <2>6, PasteThrowsStep
  <2> QED BY <2>1, <2>2, <2>3, <2>4, <2>5, <2>6 DEF Deliver
<1>6. CASE \E p \in Passes : Relaunch(p)
  BY <1>6, ScheduleStill, HolderFoundStep, LaunchBeginsStep, LaunchedStep, LaunchFailsStep
  DEF Relaunch
<1>7. CASE \E p \in Passes : Arm(p) BY <1>7, ScheduleStill
<1>8. CASE RecheckFires \/ TimerFires BY <1>8, NudgedStill
<1>9. CASE UNCHANGED vars BY <1>9, StutterStep
<1> QED BY <1>1, <1>2, <1>3, <1>4, <1>5, <1>6, <1>7, <1>8, <1>9 DEF Next

(* Only a puller that is served ends a poll with something handed out. *)
LEMMA PullerServed ==
  ASSUME [Next]_vars, puller = "alive", puller' = "grace", went' # went
  PROVE  \E p \in Passes, taken \in MayCarry : PullerTakes(p, taken)
<1> SUFFICES ASSUME ~\E p \in Passes, taken \in MayCarry : PullerTakes(p, taken)
             PROVE  puller' = puller \/ puller' # "grace" \/ went' = went
  OBVIOUS
<1>1. CASE Produce
  BY <1>1 DEF Produce, AddEvent, Withdraw, AddCheckIn, CancelLine, Recall, MoveCheckIn,
              RewordCheckIn, CancelCheckIn, PromoteReplies, clientVars
<1>2. CASE World
  BY <1>2 DEF World, BecomesDue, AgentState, Typing, CoolsDown, LaunchWaitOver, GraceOver, clientVars
<1>3. CASE Client
  BY <1>3 DEF Client, PullerAttaches, PollEnds, PullerDies, TakeRide, PeekRide, ClientShows,
              ConfirmRide, ClientDies, clientVars, history
<1>4. CASE Finish BY <1>4 DEF Finish, EndAsked, EndLocks, Ended, EndFails, Restart, clientVars
<1>5. CASE \E p \in Passes : Deliver(p)
  BY <1>5 DEF Deliver, HoldOn, GateAsksInput, PullerIsGone, PasteBegins, PasteLocks,
              PasteNotYet, Pasted, PasteRefused, PasteThrows, clientVars, history
<1>6. CASE \E p \in Passes : Relaunch(p)
  BY <1>6 DEF Relaunch, KeptPart, HolderFound, LaunchBegins, Launched, LaunchFails, clientVars
<1>7. CASE (\E p \in Passes : Arm(p)) \/ RecheckFires \/ TimerFires
  BY <1>7 DEF Arm, Ends, RecheckFires, TimerFires, clientVars
<1>8. CASE UNCHANGED vars BY <1>8 DEF vars, clientVars
<1> QED BY <1>1, <1>2, <1>3, <1>4, <1>5, <1>6, <1>7, <1>8 DEF Next

-----------------------------------------------------------------------------
(* The theorems.                                                           *)

(* A kept row that a pass remembers is due, if it is in the table.         *)
DueInv == \A r \in queue, s \in KeptRows : r.id = s.id => r.due

LEMMA OpenNext ==
  ASSUME Base, Rows, OpenInv, [Next]_vars, Rows'
  PROVE  OpenInv'
<1> SUFFICES ASSUME NEW s \in queue' \union Sending', s.home = "session", s.id \notin withdrawn'
             PROVE  fate'[s.note] = "open"
  BY DEF OpenInv
<1>1. fate'[s.note] \notin Settled BY DEF Rows, FateInv
<1>2. OpenStays BY NextFacts DEF StepFacts
<1> QED BY <1>1, <1>2 DEF OpenStays, OpenInv

LEMMA DueNext ==
  ASSUME Base, Rows, OpenInv, DueInv, [Next]_vars, ~KeptMove, Rows'
  PROVE  DueInv'
<1> SUFFICES ASSUME NEW r \in queue', NEW s \in KeptRows', r.id = s.id PROVE r.due
  BY DEF DueInv
<1>1. s.home = "kept" /\ r.home = "kept"
  <2>1. s.home = "kept" BY DEF Rows, Homes, KeptRows
  <2>2. r \in All' /\ s \in All' BY DEF All
  <2> QED BY <2>1, <2>2 DEF Rows, Names
<1>2. CASE s \in queue' /\ s.due BY <1>2 DEF Rows, Apart
<1>3. CASE s \in KeptRows
  <2>1. DueStays BY NextFacts
  <2> QED BY <1>1, <1>3, <2>1 DEF DueStays, DueInv
<1> QED BY <1>2, <1>3, NextPassRows

LEMMA OpenHolds == Spec /\ [][~KeptEdit]_vars => [](Base /\ Rows /\ OpenInv)
<1>1. Init => OpenInv
  <2> SUFFICES ASSUME Init PROVE OpenInv OBVIOUS
  <2>1. queue = {} /\ Sending = {} BY DEF Init, Sending, Off
  <2> QED BY <2>1 DEF OpenInv
<1>2. OpenInv /\ Base /\ Rows /\ Rows' /\ [Next]_vars => OpenInv' BY OpenNext
<1> QED BY <1>1, <1>2, RowsHold, PTL DEF Spec

LEMMA DueHolds ==
  Spec /\ [][~KeptEdit]_vars /\ [][~KeptMove]_vars => [](Base /\ Rows /\ OpenInv /\ DueInv)
<1>1. Init => DueInv
  <2> SUFFICES ASSUME Init PROVE DueInv OBVIOUS
  <2>1. queue = {} BY DEF Init
  <2> QED BY <2>1 DEF DueInv
<1>2. Base /\ Rows /\ OpenInv /\ DueInv /\ Rows' /\ [Next]_vars /\ [~KeptMove]_vars => DueInv'
  <2> SUFFICES ASSUME Base, Rows, OpenInv, DueInv, Rows', [Next]_vars, [~KeptMove]_vars
               PROVE  DueInv'
    OBVIOUS
  <2>1. CASE ~KeptMove BY <2>1, DueNext
  <2>2. CASE UNCHANGED vars
    <3>1. queue' = queue /\ KeptRows' = KeptRows BY <2>2 DEF vars, store, passVars, KeptRows
    <3> QED BY <3>1 DEF DueInv
  <2> QED BY <2>1, <2>2
<1> QED BY <1>1, <1>2, OpenHolds, PTL DEF Spec

(* A queued wake stays a wake until one of its source's rows goes out, is  *)
(* withdrawn, confirmed or ended, or is lost in a restart: neither newer   *)
(* ride-along lines nor the rows a failed paste puts back make it less.    *)
THEOREM WakesAreKept == Spec /\ [][~KeptEdit]_vars => WakeStaysWake
<1> DEFINE Step ==
      \A src \in Sources :
        WakeFor(src, queue \union Sending)
          => \/ \E r \in queue' \union Sending' : r.src = src /\ IsWake(r)
             \/ \E r \in queue \union Sending :
                  r.src = src /\ \/ went'[r.note] # went[r.note]
                                 \/ fate'[r.note] \in {"recalled", "shown", "ended", "lost"}
<1>1. Base /\ Rows /\ OpenInv /\ [Next]_vars => [Step]_vars
  <2> SUFFICES ASSUME Base, Rows, OpenInv, [Next]_vars PROVE Step OBVIOUS
  <2>1. WakesStay BY NextFacts DEF StepFacts
  <2> QED BY <2>1 DEF WakesStay, WakeOn, WakeFor
<1> QED BY <1>1, OpenHolds, PTL DEF Spec, WakeStaysWake

(* A ride-along line leaves for the pane or the puller only with a wake,   *)
(* whatever became of the wake that the pass saw before its gate.          *)
THEOREM RidesHaveCompany == Spec /\ [][~KeptEdit]_vars => RideNeverAlone
<1> DEFINE Step ==
      \A r \in queue :
       /\ r \notin queue'
       /\ r \in Sending' \/ (puller = "alive" /\ puller' = "grace"
                               /\ went'[r.note] # went[r.note])
       => \E w \in queue \ queue' : IsWake(w)
<1>1. Base /\ Rows /\ [Next]_vars => [Step]_vars
  <2> SUFFICES ASSUME Base, Rows, [Next]_vars, NEW r \in queue, r \notin queue',
                      r \in Sending' \/ (puller = "alive" /\ puller' = "grace"
                                           /\ went'[r.note] # went[r.note])
               PROVE  \E w \in queue \ queue' : IsWake(w)
    OBVIOUS
  <2>1. CASE r \in Sending'
    <3>1. r \notin Sending BY DEF Rows, Apart
    <3>2. PICK p \in Passes, taken \in MayCarry : PasteBegins(p, taken)
      BY <2>1, <3>1, NextPassRows
    <3>3. queue' = queue \ taken BY <3>2 DEF PasteBegins
    <3> QED BY <3>3, CarriedHasWake
  <2>2. CASE puller = "alive" /\ puller' = "grace" /\ went'[r.note] # went[r.note]
    <3>1. PICK p \in Passes, taken \in MayCarry : PullerTakes(p, taken)
      BY <2>2, PullerServed
    <3>2. queue' = queue \ taken BY <3>1 DEF PullerTakes
    <3> QED BY <3>2, CarriedHasWake
  <2> QED BY <2>1, <2>2
<1> QED BY <1>1, RowsHold, PTL DEF Spec, RideNeverAlone

(* Nothing goes out before it is due: not by a paste, a puller or a hook   *)
(* that took it from the table, nor by the launch of a pass that remembers *)
(* it from before.                                                         *)
THEOREM WaitsForItsTime ==
  Spec /\ [][~KeptEdit]_vars /\ [][~KeptMove]_vars => NotBeforeDue
<1> DEFINE Step ==
      \A r \in queue :
       r.note \in NotesOf(Sending') \/ went'[r.note] # went[r.note]
         => r.due
<1>1. Base /\ Rows /\ OpenInv /\ DueInv /\ [Next]_vars => [Step]_vars
  <2> SUFFICES ASSUME Base, Rows, OpenInv, DueInv, [Next]_vars, NEW r \in queue,
                      r.note \in NotesOf(Sending') \/ went'[r.note] # went[r.note]
               PROVE  r.due
    OBVIOUS
  <2>1. r \in All BY DEF All
  <2>2. CASE r.note \in NotesOf(Sending \union KeptRows)
    <3>1. PICK s \in Sending \union KeptRows : s.note = r.note BY <2>2 DEF NotesOf
    <3>2. s \in All BY DEF All
    <3> QED BY <2>1, <3>1, <3>2, SameNote DEF DueInv
  <2>3. CASE went'[r.note] # went[r.note]
    <3>1. OutWhenDue BY NextFacts DEF StepFacts
    <3> QED BY <2>2, <2>3, <3>1 DEF OutWhenDue
  <2>4. CASE r.note \in NotesOf(Sending')
    <3>1. PICK s \in Sending' : s.note = r.note BY <2>4 DEF NotesOf
    <3>2. CASE s \in Sending BY <2>2, <3>1, <3>2 DEF NotesOf
    <3>3. CASE s \notin Sending
      <4>1. PICK taken \in MayCarry : s \in taken BY <3>3, NextPassRows
      <4>2. s \in queue /\ s.due BY <4>1, CarriedHasWake
      <4> QED BY <2>1, <3>1, <4>2, SameNote DEF All
    <3> QED BY <3>2, <3>3
  <2> QED BY <2>3, <2>4
<1> QED BY <1>1, DueHolds, PTL DEF Spec, NotBeforeDue

(* What leaves the table may leave it: both of the above.                  *)
THEOREM NothingLeavesEarly ==
  Spec /\ [][~KeptEdit]_vars /\ [][~KeptMove]_vars => MayGo
BY WaitsForItsTime, RidesHaveCompany, PTL DEF MayGo
=============================================================================
