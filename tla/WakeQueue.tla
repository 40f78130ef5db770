------------------------------ MODULE WakeQueue ------------------------------
(***************************************************************************)
(* The delivery queue of one session (packages/tether/src/wakes.ts,        *)
(* deliveries.ts, wake-runtime.ts and the End route of lifecycle-api.ts):  *)
(* producers queue event lines, agents and the owner queue check-ins, and  *)
(* one scheduler hands them to the agent - by a gated paste, to a native   *)
(* puller, with the agent's next natural turn, or, for a check-in kept     *)
(* past End, as the prompt of a new session.                               *)
(*                                                                         *)
(* A step is what the daemon does between two awaits.  The passes of the   *)
(* scheduler are the processes: tick() folds calls into one more round of  *)
(* the pass that runs, but `running` is set only once the pass has reached *)
(* its first await, and cleared when any pass ends, so several may run.    *)
(* A note is the number it was queued under; a row keeps the number of its *)
(* first note as its id.  Time is left out: a row is due or not, and what  *)
(* depends on the clock (quietSeconds, PULLER_GRACE_MS, the relaunch       *)
(* retry) is over or not.  `reached` and the delivery records are not      *)
(* modelled; the senders of a ride-along reply are the class "reply".  A   *)
(* note moved to a session that already holds the conversation leaves the  *)
(* model.                                                                  *)
(***************************************************************************)
EXTENDS Integers, FiniteSets

CONSTANTS Sources,        \* who queues event lines
          AnswerSources,  \* those that carry an owner's answer to an ask
          MaxTries,       \* WakePolicy.relaunchAttempts
          Passes,         \* bound: passes that run at a time
          MaxNotes,       \* bound: notes queued
          Budgets         \* bounds: how often each Kind of step happens, per scenario

CheckIn == "check-in"

(* "passes" and "notes" are how many there may be; the others are spent:   *)
(* long polls of native pullers, ride-along lines taken or peeked at, the  *)
(* agent getting busy or the owner typing, check-ins edited, requests to   *)
(* End, restarts, what fails, and pastes that fail after they took effect. *)
Kind == {"passes", "notes", "polls", "rides", "turns", "edits", "ends",
         "restarts", "faults", "late"}

ASSUME QueueAssumption ==
  /\ CheckIn \notin Sources
  /\ AnswerSources \subseteq Sources
  /\ MaxTries \in Nat \ {0}
  /\ Passes # {} /\ IsFiniteSet(Passes)
  /\ MaxNotes \in Nat
  /\ Budgets \subseteq [Kind -> Nat]
  /\ \A b \in Budgets : b["notes"] <= MaxNotes

Notes == 1..MaxNotes
Classes == {"ride", "reply", "wake"}
Fates == {"none", "open", "replaced", "recalled", "shown", "ended", "moved",
          "lost"}

VARIABLES queue,      \* the wakes table
          minted,     \* how many notes were queued
          withdrawn,  \* ids of rows in a paste whose source took them back
          pass,       \* the passes: where each is, and what it read
          running,    \* WakeScheduler.running is set
          again,      \* one more round was asked for
          announced,  \* ids of rows republished as due
          recheck, timer,      \* the interval and the timeout are armed
          idle,       \* the agent's prompt takes a line
          free,       \* nobody typed lately, the input line is empty
          cooled,     \* quietSeconds have passed since the last delivery
          launchWait, \* a failed relaunch waits out its retry
          puller,     \* the native puller; "grace": it polled just now
          token, told,         \* a client's peek, and whether it showed it
          session,    \* the session row is there
          ending,     \* End of the session
          endKept,    \* the End has marked check-ins to outlive it
          went,       \* history: how often each note was handed out, and how
                      \* often by a paste whose failure was reported after it
          fate,       \* history: what became of each note
          seen,       \* history: notes a peeking client showed
          left        \* what is left of the scenario's budget

store == <<queue, minted, withdrawn>>
passVars == <<pass, running, again, announced>>
gateVars == <<idle, free, cooled, launchWait>>
clientVars == <<puller, token, told>>
endVars == <<session, ending, endKept>>
history == <<went, fate, seen>>
vars == <<store, passVars, recheck, timer, gateVars, clientVars, endVars,
          history, left>>

Spend(b) == left[b] > 0 /\ left' = [left EXCEPT ![b] = @ - 1]

-----------------------------------------------------------------------------
(* Rows.                                                                   *)

Row == [id : Notes, note : Notes, src : Sources \union {CheckIn},
        class : Classes, due : BOOLEAN, kept : BOOLEAN,
        home : {"session", "kept"}, tries : Nat]

EventRow(n, src, class) ==
  [id |-> n, note |-> n, src |-> src, class |-> class, due |-> TRUE,
   kept |-> FALSE, home |-> "session", tries |-> 0]

CheckInRow(n, due) ==
  [id |-> n, note |-> n, src |-> CheckIn, class |-> "wake", due |-> due,
   kept |-> FALSE, home |-> "session", tries |-> 0]

Ids(rows) == {r.id : r \in rows}
NotesOf(rows) == {r.note : r \in rows}
Live(rows) == {r \in rows : r.home = "session"}
Due(rows) == {r \in Live(rows) : r.due}

(* The row alone justifies waking the session.                             *)
IsWake(r) == r.class = "wake"

(* The session's next natural turn may take the row.                       *)
RidesAlong(r) ==
  r.src # CheckIn /\ (r.class # "wake" \/ r.src \in AnswerSources)

Stalled(r) == r.home = "kept" /\ r.tries >= MaxTries
DueKept(rows) == {r \in rows : r.home = "kept" /\ r.due /\ ~Stalled(r)}

(* Merging never makes a wake ride-along, nor drops a reply's senders.     *)
Strongest(classes) ==
  IF "wake" \in classes THEN "wake"
  ELSE IF "reply" \in classes THEN "reply" ELSE "ride"

(* What one delivery may carry of `rows`: event wakes first, then          *)
(* check-ins, then ride-along lines, as many as fit its budget but one.    *)
Place(r) == IF r.src = CheckIn THEN 2 ELSE IF IsWake(r) THEN 1 ELSE 3
Compositions(rows) ==
  {taken \in SUBSET rows :
    /\ taken # {}
    /\ \A r \in rows \ taken, s \in taken : Place(s) <= Place(r)}

(* Rows put back after a delivery that did not happen: a newer line of the *)
(* same source stands, as a wake if the line it replaces was one.          *)
Newer(rows, r) == {n \in rows : n.src = r.src /\ r.src # CheckIn}
RestoredPlain(rows, back) ==
  rows \union {r \in back : Newer(rows, r) = {}}

Restored(rows, back) ==
  {[n EXCEPT !.class = Strongest({@} \union
      {r.class : r \in {r \in back : n \in Newer(rows, r)}})] : n \in rows}
    \union {r \in back : Newer(rows, r) = {}}
Superseded(rows, back) == NotesOf({r \in back : Newer(rows, r) # {}})

HandedOut(notes) ==
  [n \in Notes |-> IF n \in notes THEN [went[n] EXCEPT !.sure = @ + 1] ELSE went[n]]
HandedOutLate(notes) ==
  [n \in Notes |-> IF n \in notes THEN [went[n] EXCEPT !.late = @ + 1] ELSE went[n]]
Becomes(notes, f) == [n \in Notes |-> IF n \in notes THEN f ELSE fate[n]]

-----------------------------------------------------------------------------
(* The passes.  A pass is at "off" when it does not run; `native` is what  *)
(* deliverLive read before its gate, `kept` the kept rows it started with, *)
(* `rows` those it took out of the table for a paste (the rows of all      *)
(* passes are WakeScheduler.sending).                                      *)

Off == [at |-> "off", native |-> FALSE, kept |-> {}, rows |-> {}]
Sending == UNION {pass[p].rows : p \in Passes}
Out == Sending \union
         UNION {pass[p].kept : p \in {p \in Passes : pass[p].at = "launch"}}

(* A pass runs up to its first await: it lists the due rows, and asks the  *)
(* gate when one of them may wake the session.  `puller` and `waits` (a    *)
(* relaunch waits out its retry) are those of the new state.               *)
Begun(rows, plr, waits) ==
  LET asks == \E r \in Due(rows) : IsWake(r)
  IN  [at |-> IF asks THEN "gate"
              ELSE IF DueKept(rows) # {} /\ ~waits THEN "holder" ELSE "kept",
       native |-> asks /\ plr # "none", kept |-> DueKept(rows), rows |-> {}]

(* The passes of `own` begin.  Rows due for the first time are announced:  *)
(* changed() nudges the scheduler in the middle of tick(), and unless a    *)
(* pass is known to run one more begins (as long as the bound allows it).  *)
Spare(base, own) ==
  LET spare == {p \in Passes \ own : base[p].at = "off"}
  IN  IF Cardinality(Passes \ spare) < left["passes"] THEN spare ELSE {}

Begin(base, own, rows, plr, waits, known) ==
  LET fresh == Ids(Due(rows)) \ known
      spare == Spare(base, own)
      nests == fresh # {} /\ ~running /\ spare # {}
  IN  \E nested \in {{}} \union {{p} : p \in spare} :
        /\ nested # {} <=> nests
        /\ pass' = [p \in Passes |->
                      IF p \in own \union nested
                        THEN Begun(rows, plr, waits) ELSE base[p]]
        /\ again' = (fresh # {} /\ running)
        /\ announced' = known \union fresh

(* nudge(): `base` is what the step itself made of the passes.             *)
NudgedFrom(base, rows, plr) ==
  IF running \/ Spare(base, {}) = {}
    THEN pass' = base /\ again' = TRUE /\ UNCHANGED <<running, announced>>
    ELSE /\ \E p \in Spare(base, {}) :
              Begin(base, {p}, rows, plr, launchWait, announced)
         /\ running' = TRUE

Nudged(rows, plr) == NudgedFrom(pass, rows, plr)

(* A pass is through: it goes round again when asked to.                   *)
Round(p, rows, known) ==
  IF again
    THEN /\ Begin(pass, {p}, rows, puller, launchWait, known)
         /\ running' = (running \/ Ids(Due(rows)) \ known # {})
    ELSE /\ pass' = [pass EXCEPT ![p] = [Off EXCEPT !.at = "exit"]]
         /\ announced' = known
         /\ UNCHANGED <<running, again>>

(* ... after a change that nudged the scheduler (and asked it once more).  *)
NudgedRound(p, rows, waits, known, asked) ==
  LET through == [pass EXCEPT ![p] = [Off EXCEPT !.at = "exit"]]
  IN  /\ IF running \/ Spare(pass, {}) = {}
           THEN Begin(pass, {p}, rows, puller, waits, known)
           ELSE \E q \in Spare(pass, {}) :
                  Begin(through, IF asked THEN {p, q} ELSE {q}, rows, puller,
                        waits, known)
      /\ running' = TRUE

-----------------------------------------------------------------------------
Init ==
  /\ queue = {} /\ minted = 0 /\ withdrawn = {}
  /\ pass = [p \in Passes |-> Off]
  /\ running = FALSE /\ again = FALSE /\ announced = {}
  /\ recheck = FALSE /\ timer = FALSE
  /\ idle \in BOOLEAN /\ free \in BOOLEAN
  /\ cooled = TRUE /\ launchWait = FALSE
  /\ puller = "none" /\ token = {} /\ told = FALSE
  /\ session = "running" /\ ending = "no" /\ endKept = FALSE
  /\ went = [n \in Notes |-> [sure |-> 0, late |-> 0]]
  /\ fate = [n \in Notes |-> "none"]
  /\ seen = {}
  /\ left \in Budgets

-----------------------------------------------------------------------------
(* Producers and the owner.                                                *)

Mint == minted < left["notes"] /\ minted' = minted + 1

(* A line of `src`: it replaces the one still queued.                      *)
AddEvent(src, class) ==
  /\ session = "running" /\ Mint
  /\ LET old == {r \in queue : r.src = src}
         row == EventRow(minted + 1, src, class)
     IN  /\ queue' = IF old = {} THEN queue \union {row}
                     ELSE (queue \ old) \union
                          {[r EXCEPT !.note = minted + 1,
                                     !.class = Strongest({@, class})]
                             : r \in old}
         /\ fate' = [Becomes(NotesOf(old), "replaced")
                       EXCEPT ![minted + 1] = "open"]
  /\ Nudged(queue', puller)
  /\ UNCHANGED <<withdrawn, recheck, timer, gateVars, clientVars,
                 endVars, went, seen, left>>

(* Its producer takes the line back; one being pasted cannot be stopped.   *)
Withdraw(src) ==
  LET rows == {r \in queue : r.src = src}
      out == {r \in Sending : r.src = src}
  IN  /\ rows \union out # {}
      /\ queue' = queue \ rows
      /\ withdrawn' = withdrawn \union Ids(out)
      /\ fate' = Becomes(NotesOf(rows \union out), "recalled")
      /\ IF rows = {} THEN UNCHANGED passVars ELSE Nudged(queue', puller)
      /\ UNCHANGED <<minted, recheck, timer, gateVars, clientVars,
                     endVars, went, seen, left>>

Recall(r) ==
  /\ queue' = queue \ {r}
  /\ fate' = Becomes({r.note}, "recalled")
  /\ Nudged(queue', puller)
  /\ UNCHANGED <<minted, withdrawn, recheck, timer, gateVars,
                 clientVars, endVars, went, seen>>

(* The queued answer of an ask that is answered again, done or withdrawn.  *)
CancelLine(r) ==
  /\ r.src \in AnswerSources
  /\ Recall(r) /\ UNCHANGED left

(* A lane went idle on a wait of its own: its queued replies become wakes. *)
PromoteReplies ==
  /\ session = "running"
  /\ \E r \in queue : r.class = "reply"
  /\ queue' = {IF r.class = "reply" THEN [r EXCEPT !.class = "wake"] ELSE r
                 : r \in queue}
  /\ Nudged(queue', puller)
  /\ UNCHANGED <<minted, withdrawn, recheck, timer, gateVars,
                 clientVars, endVars, history, left>>

AddCheckIn(due) ==
  /\ session = "running" /\ Mint
  /\ queue' = queue \union {CheckInRow(minted + 1, due)}
  /\ fate' = [fate EXCEPT ![minted + 1] = "open"]
  /\ Nudged(queue', puller)
  /\ UNCHANGED <<withdrawn, recheck, timer, gateVars, clientVars,
                 endVars, went, seen, left>>

(* PATCH moves the check-in to a later time, or gives it another note.     *)
MoveCheckIn(r) ==
  /\ r.src = CheckIn /\ Spend("edits")
  /\ queue' = (queue \ {r}) \union {[r EXCEPT !.due = FALSE, !.tries = 0]}
  /\ Nudged(queue', puller)
  /\ UNCHANGED <<minted, withdrawn, recheck, timer, gateVars,
                 clientVars, endVars, history>>

RewordCheckIn(r) ==
  /\ r.src = CheckIn /\ Spend("edits") /\ Mint
  /\ queue' = (queue \ {r})
                \union {[r EXCEPT !.note = minted + 1, !.tries = 0]}
  /\ fate' = [Becomes({r.note}, "replaced") EXCEPT ![minted + 1] = "open"]
  /\ Nudged(queue', puller)
  /\ UNCHANGED <<withdrawn, recheck, timer, gateVars, clientVars,
                 endVars, went, seen>>

CancelCheckIn(r) == r.src = CheckIn /\ Spend("edits") /\ Recall(r)

-----------------------------------------------------------------------------
(* The clock, the agent and the owner.                                     *)

BecomesDue(r) ==
  /\ ~r.due
  /\ queue' = (queue \ {r}) \union {[r EXCEPT !.due = TRUE]}
  /\ UNCHANGED <<minted, withdrawn, passVars, recheck, timer,
                 gateVars, clientVars, endVars, history, left>>

(* A change of the agent's state is reported and nudges the scheduler.     *)
AgentState ==
  /\ idle' = ~idle
  /\ IF idle THEN Spend("turns") ELSE UNCHANGED left
  /\ Nudged(queue, puller)
  /\ UNCHANGED <<store, recheck, timer, free, cooled, launchWait, clientVars,
                 endVars, history>>

(* Keys and drafts nudge nobody.                                           *)
Typing ==
  /\ free' = ~free
  /\ IF free THEN Spend("turns") ELSE UNCHANGED left
  /\ UNCHANGED <<store, passVars, recheck, timer, idle, cooled, launchWait,
                 clientVars, endVars, history>>

CoolsDown ==
  /\ ~cooled /\ cooled' = TRUE
  /\ UNCHANGED <<store, passVars, recheck, timer, idle, free, launchWait,
                 clientVars, endVars, history, left>>

LaunchWaitOver ==
  /\ launchWait /\ launchWait' = FALSE
  /\ UNCHANGED <<store, passVars, recheck, timer, idle, free, cooled,
                 clientVars, endVars, history, left>>

GraceOver ==
  /\ puller = "grace" /\ puller' = "none"
  /\ UNCHANGED <<store, passVars, recheck, timer, gateVars, token, told,
                 endVars, history, left>>

-----------------------------------------------------------------------------
(* The scheduler.                                                          *)

(* The loop is over, its `finally` has yet to run: a nudge in between asks *)
(* for a round nobody runs.  Then arm() looks at the table.                *)
Ends(p) ==
  /\ pass[p].at = "exit"
  /\ pass' = [pass EXCEPT ![p] = Off] /\ running' = FALSE
  /\ timer' = \E r \in queue : ~r.due
  /\ UNCHANGED <<store, again, announced, gateVars, clientVars, endVars,
                 history, left>>

ArmTimer(p) == Ends(p) /\ recheck' = FALSE

Arm(p) ==
  Ends(p) /\ recheck' = \E r \in queue : r.due /\ IsWake(r) /\ ~Stalled(r)

RecheckFires ==
  /\ recheck
  /\ Nudged(queue, puller)
  /\ UNCHANGED <<store, recheck, timer, gateVars, clientVars, endVars,
                 history, left>>

TimerFires ==
  /\ timer /\ timer' = FALSE
  /\ Nudged(queue, puller)
  /\ UNCHANGED <<store, recheck, gateVars, clientVars, endVars, history,
                 left>>

At(p, place) == pass[p].at = place
Moved(p, place) == [pass EXCEPT ![p].at = place]
SchedulerAsIs == UNCHANGED <<running, again, announced>>

(* deliverLive is through with the session, and its kept rows are next.    *)
LiveDone(p) ==
  [pass EXCEPT ![p] = [@ EXCEPT !.at = "kept", !.native = FALSE, !.rows = {}]]

AgentReady == session = "running" /\ idle /\ cooled

(* The awaited gate has answered, and nothing more is awaited.             *)
GateAnswers(p) ==
  IF pass[p].native THEN At(p, "gate") /\ AgentReady
                    ELSE At(p, "input") /\ free

HoldOn(p) ==
  /\ \/ At(p, "gate") /\ ~AgentReady
     \/ At(p, "input") /\ ~free
     \/ GateAnswers(p) /\ ~\E r \in Due(queue) : IsWake(r)
     \/ GateAnswers(p) /\ pass[p].native /\ puller \notin {"alive", "dead"}
  /\ pass' = LiveDone(p) /\ SchedulerAsIs
  /\ UNCHANGED <<store, recheck, timer, gateVars, clientVars, endVars,
                 history, left>>

GateAsksInput(p) ==
  /\ At(p, "gate") /\ ~pass[p].native /\ AgentReady
  /\ pass' = Moved(p, "input") /\ SchedulerAsIs
  /\ UNCHANGED <<store, recheck, timer, gateVars, clientVars, endVars,
                 history, left>>

(* Mutant: whether a wake is still due is not asked again. *)
MayCarryStale == Compositions(Due(queue))

(* The rows are read again: what was cancelled meanwhile does not go out.  *)
MayCarry ==
  IF \E r \in Due(queue) : IsWake(r) THEN Compositions(Due(queue)) ELSE {}

PullerTakes(p, taken) ==
  /\ GateAnswers(p) /\ pass[p].native /\ puller = "alive"
  /\ queue' = queue \ taken
  /\ went' = HandedOut(NotesOf(taken))
  /\ puller' = "grace" /\ cooled' = FALSE
  /\ NudgedFrom(LiveDone(p), queue', puller')
  /\ UNCHANGED <<minted, withdrawn, recheck, timer, idle, free, launchWait,
                 token, told, endVars, fate, seen, left>>

(* Its client is gone: the rows stay, and the poll ends.                   *)
PullerIsGone(p) ==
  /\ GateAnswers(p) /\ pass[p].native /\ puller = "dead"
  /\ MayCarry # {}
  /\ puller' = "grace"
  /\ NudgedFrom(LiveDone(p), queue, puller')
  /\ UNCHANGED <<store, recheck, timer, gateVars, token, told, endVars,
                 history, left>>

PasteBeginsKeeping(p, taken) ==
  /\ GateAnswers(p) /\ ~pass[p].native
  /\ pass' = [Moved(p, "paste") EXCEPT ![p].rows = taken]
  /\ SchedulerAsIs
  /\ UNCHANGED <<store, recheck, timer, gateVars, clientVars, endVars,
                 history, left>>

PasteBegins(p, taken) ==
  /\ GateAnswers(p) /\ ~pass[p].native
  /\ queue' = queue \ taken
  /\ pass' = [Moved(p, "paste") EXCEPT ![p].rows = taken]
  /\ SchedulerAsIs
  /\ UNCHANGED <<minted, withdrawn, recheck, timer, gateVars, clientVars,
                 endVars, history, left>>

(* pasteIntoRunningSession tries the lifecycle lock; while it is held, or  *)
(* the agent's pane is not settled, it tries again for MUTATION_WAIT_MS.   *)
(* An End that waits for the lock is served first.                         *)
PasteLocks(p) ==
  /\ At(p, "paste") /\ session = "running" /\ ending = "no"
  /\ ~\E q \in Passes : At(q, "pasting")
  /\ pass' = Moved(p, "pasting") /\ SchedulerAsIs
  /\ UNCHANGED <<store, recheck, timer, gateVars, clientVars, endVars,
                 history, left>>

PasteNotYet(p) ==
  /\ At(p, "pasting") /\ Spend("faults")
  /\ pass' = Moved(p, "paste") /\ SchedulerAsIs
  /\ UNCHANGED <<store, recheck, timer, gateVars, clientVars, endVars,
                 history>>

Pasted(p) ==
  /\ At(p, "pasting")
  /\ went' = HandedOut(NotesOf(pass[p].rows))
  /\ withdrawn' = withdrawn \ Ids(pass[p].rows)
  /\ cooled' = FALSE
  /\ NudgedFrom(LiveDone(p), queue, puller)
  /\ UNCHANGED <<queue, minted, recheck, timer, idle, free, launchWait,
                 clientVars, endVars, fate, seen, left>>

RowsAllComeBack(p) ==
  /\ queue' = Restored(queue, pass[p].rows)
  /\ withdrawn' = withdrawn \ Ids(pass[p].rows)
  /\ fate' = Becomes(Superseded(queue, pass[p].rows), "replaced")

RowsComeBack(p) ==
  LET back == {r \in pass[p].rows : r.id \notin withdrawn}
  IN  /\ queue' = Restored(queue, back)
      /\ withdrawn' = withdrawn \ Ids(pass[p].rows)
      /\ fate' = Becomes(Superseded(queue, back), "replaced")

(* The session is gone, or was not free to be pasted into for 5 seconds.   *)
PasteRefused(p) ==
  /\ At(p, "paste")
  /\ IF session = "gone" \/ ending # "no" THEN UNCHANGED left
     ELSE Spend("faults")
  /\ RowsComeBack(p)
  /\ NudgedFrom(LiveDone(p), queue', puller)
  /\ UNCHANGED <<minted, recheck, timer, gateVars, clientVars, endVars, went,
                 seen>>

(* The tmux command fails, `late` when the pane has the text all the same. *)
(* The error ends the pass.                                                *)
PasteThrows(p, late) ==
  /\ At(p, "pasting")
  /\ Spend(IF late THEN "late" ELSE "faults")
  /\ went' = HandedOutLate(IF late THEN NotesOf(pass[p].rows) ELSE {})
  /\ RowsComeBack(p)
  /\ NudgedRound(p, queue', launchWait, announced, FALSE)
  /\ UNCHANGED <<minted, recheck, timer, gateVars, clientVars, endVars, seen>>

-----------------------------------------------------------------------------
(* A kept check-in relaunches its conversation.                            *)

Known(rows) == announced \intersect Ids(rows)

KeptPart(p) ==
  /\ At(p, "kept")
  /\ IF pass[p].kept = {} \/ launchWait
       THEN Round(p, queue, Known(queue))
       ELSE pass' = Moved(p, "holder") /\ SchedulerAsIs
  /\ UNCHANGED <<store, recheck, timer, gateVars, clientVars, endVars,
                 history, left>>

(* The conversation was resumed by hand: that session gets the check-ins.  *)
HolderFound(p) ==
  LET rows == {r \in queue : r.id \in Ids(pass[p].kept)}
  IN  /\ At(p, "holder") /\ Spend("faults")
      /\ queue' = queue \ rows
      /\ fate' = Becomes(NotesOf(rows), "moved")
      /\ NudgedRound(p, queue', launchWait, Known(queue'), TRUE)
      /\ UNCHANGED <<minted, withdrawn, recheck, timer, gateVars, clientVars,
                     endVars, went, seen>>

(* The rows are not read again.                                            *)
LaunchBegins(p) ==
  /\ At(p, "holder")
  /\ queue' = {r \in queue : r.id \notin Ids(pass[p].kept)}
  /\ pass' = Moved(p, "launch") /\ SchedulerAsIs
  /\ UNCHANGED <<minted, withdrawn, recheck, timer, gateVars, clientVars,
                 endVars, history, left>>

Launched(p) ==
  /\ At(p, "launch")
  /\ went' = HandedOut(NotesOf(pass[p].kept))
  /\ launchWait' = FALSE
  /\ NudgedRound(p, queue, FALSE, Known(queue), FALSE)
  /\ UNCHANGED <<store, recheck, timer, idle, free, cooled, clientVars,
                 endVars, fate, seen, left>>

(* The host says not now, or the launch failed and counts an attempt.  A   *)
(* row that is back already stays as it is.                                *)
LaunchFails(p, counts) ==
  /\ At(p, "launch") /\ Spend("faults")
  /\ LET back == {r \in pass[p].kept : r.id \notin Ids(queue)}
     IN  queue' = {IF counts /\ r.id \in Ids(pass[p].kept)
                     THEN [r EXCEPT !.tries = @ + 1] ELSE r
                     : r \in queue \union back}
  /\ launchWait' = TRUE
  /\ NudgedRound(p, queue', TRUE, Known(queue'), FALSE)
  /\ UNCHANGED <<minted, withdrawn, recheck, timer, idle, free, cooled,
                 clientVars, endVars, history>>

-----------------------------------------------------------------------------
(* Native pullers, and clients that take ride-along lines.                 *)

(* A newer puller replaces an older one, whose poll ends empty.            *)
PullerAttaches ==
  /\ session = "running" /\ Spend("polls")
  /\ puller' = "alive"
  /\ Nudged(queue, puller')
  /\ UNCHANGED <<store, recheck, timer, gateVars, token, told, endVars,
                 history>>

PollEnds ==
  /\ puller \in {"alive", "dead"} /\ puller' = "grace"
  /\ UNCHANGED <<store, passVars, recheck, timer, gateVars, token, told,
                 endVars, history, left>>

PullerDies ==
  /\ puller = "alive" /\ puller' = "dead" /\ Spend("faults")
  /\ UNCHANGED <<store, passVars, recheck, timer, gateVars, token, told,
                 endVars, history>>

Rides == {r \in Due(queue) : RidesAlong(r)}
Mark(r) == <<r.id, r.note>>

TakeRide(taken) ==
  /\ session = "running" /\ Spend("rides")
  /\ queue' = queue \ taken
  /\ went' = HandedOut(NotesOf(taken))
  /\ Nudged(queue', puller)
  /\ UNCHANGED <<minted, withdrawn, recheck, timer, gateVars,
                 clientVars, endVars, fate, seen>>

PeekRide(taken) ==
  /\ session = "running" /\ token = {} /\ Spend("rides")
  /\ token' = {Mark(r) : r \in taken} /\ told' = FALSE
  /\ UNCHANGED <<store, passVars, recheck, timer, gateVars, puller, endVars,
                 history>>

ClientShows ==
  /\ token # {} /\ ~told
  /\ told' = TRUE /\ seen' = seen \union {m[2] : m \in token}
  /\ UNCHANGED <<store, passVars, recheck, timer, gateVars, puller, token,
                 endVars, went, fate, left>>

(* The rows the token names, unless one was replaced or made a wake since. *)
(* The client may not hear the answer, and confirm again.                  *)
ConfirmedById ==
  {r \in queue : RidesAlong(r) /\ \E m \in token : m[1] = r.id}

Confirmed == {r \in queue : RidesAlong(r) /\ Mark(r) \in token}

ConfirmRide ==
  /\ session = "running" /\ told
  /\ queue' = queue \ Confirmed
  /\ fate' = Becomes(NotesOf(Confirmed) \intersect seen, "shown")
  /\ \/ token' = {} /\ told' = FALSE
     \/ UNCHANGED <<token, told>>
  /\ IF Confirmed = {} THEN UNCHANGED passVars ELSE Nudged(queue', puller)
  /\ UNCHANGED <<minted, withdrawn, recheck, timer, gateVars, puller,
                 endVars, went, seen, left>>

ClientDies ==
  /\ token # {} /\ token' = {} /\ told' = FALSE
  /\ UNCHANGED <<store, passVars, recheck, timer, gateVars, puller, endVars,
                 history, left>>

-----------------------------------------------------------------------------
(* End, with `keepWakes` or without, and a restart of the daemon.          *)

EndAsked(keep) ==
  /\ session = "running" /\ ending = "no" /\ Spend("ends")
  /\ LET mine == {r \in queue : r.src = CheckIn /\ r.home = "session"}
     IN  /\ endKept' = (keep /\ mine # {})
         /\ queue' = IF keep
                     THEN {IF r \in mine THEN [r EXCEPT !.kept = TRUE] ELSE r
                             : r \in queue}
                     ELSE queue
  /\ ending' = "waiting"
  /\ UNCHANGED <<minted, withdrawn, passVars, recheck, timer,
                 gateVars, clientVars, session, history>>

EndLocks ==
  /\ ending = "waiting" /\ ~\E p \in Passes : At(p, "pasting")
  /\ ending' = "holding"
  /\ UNCHANGED <<store, passVars, recheck, timer, gateVars, clientVars,
                 session, endKept, history, left>>

(* The trigger on the deleted session row drops or detaches its wakes.     *)
Ended ==
  /\ ending = "holding"
  /\ session' = "gone" /\ ending' = "no" /\ endKept' = FALSE
  /\ queue' = {IF r.kept THEN [r EXCEPT !.home = "kept"] ELSE r
                 : r \in {r \in queue : r.home = "kept" \/ r.kept}}
  /\ fate' = Becomes(NotesOf({r \in Live(queue) : ~r.kept}), "ended")
  /\ IF endKept THEN Nudged(queue', puller) ELSE UNCHANGED passVars
  /\ UNCHANGED <<minted, withdrawn, recheck, timer, gateVars,
                 clientVars, went, seen, left>>

(* Busy, stale or blocked: the marks are taken back.                       *)
EndFails ==
  /\ ending # "no" /\ ending' = "no" /\ endKept' = FALSE
  /\ queue' = IF endKept
              THEN {IF r.home = "session" THEN [r EXCEPT !.kept = FALSE]
                    ELSE r : r \in queue}
              ELSE queue
  /\ UNCHANGED <<minted, withdrawn, passVars, recheck, timer,
                 gateVars, clientVars, session, history, left>>

(* What was taken out of the table is lost.  start() begins a pass.        *)
Restart ==
  /\ Spend("restarts")
  /\ fate' = [n \in Notes |->
                IF n \in NotesOf(Out) /\ fate[n] = "open" THEN "lost"
                ELSE fate[n]]
  /\ withdrawn' = {}
  /\ \E own \in SUBSET Passes :
       /\ Cardinality(own) =
            IF Due(queue) = {} \/ left["passes"] = 1 THEN 1 ELSE 2
       /\ pass' = [p \in Passes |->
                     IF p \in own THEN Begun(queue, "none", FALSE) ELSE Off]
  /\ running' = TRUE /\ again' = FALSE /\ announced' = Ids(Due(queue))
  /\ recheck' = FALSE /\ timer' = FALSE
  /\ cooled' = TRUE /\ launchWait' = FALSE
  /\ puller' = "none"
  /\ ending' = "no" /\ endKept' = FALSE
  /\ UNCHANGED <<queue, minted, idle, free, token, told, session, went, seen>>

-----------------------------------------------------------------------------
Produce ==
  \/ \E src \in Sources, class \in Classes : AddEvent(src, class)
  \/ \E src \in Sources : Withdraw(src)
  \/ \E due \in BOOLEAN : AddCheckIn(due)
  \/ \E r \in queue : CancelLine(r) \/ MoveCheckIn(r) \/ RewordCheckIn(r)
                        \/ CancelCheckIn(r)
  \/ PromoteReplies

World ==
  \/ \E r \in queue : BecomesDue(r)
  \/ AgentState \/ Typing \/ CoolsDown \/ LaunchWaitOver \/ GraceOver

Deliver(p) ==
  \/ HoldOn(p) \/ GateAsksInput(p) \/ PullerIsGone(p)
  \/ \E taken \in MayCarry : PullerTakes(p, taken) \/ PasteBegins(p, taken)
  \/ PasteLocks(p) \/ PasteNotYet(p) \/ Pasted(p) \/ PasteRefused(p)
  \/ \E late \in BOOLEAN : PasteThrows(p, late)

Relaunch(p) ==
  \/ KeptPart(p) \/ HolderFound(p) \/ LaunchBegins(p) \/ Launched(p)
  \/ \E counts \in BOOLEAN : LaunchFails(p, counts)

Client ==
  \/ PullerAttaches \/ PollEnds \/ PullerDies
  \/ \E taken \in Compositions(Rides) : TakeRide(taken) \/ PeekRide(taken)
  \/ ClientShows \/ ConfirmRide \/ ClientDies

Finish ==
  \/ \E keep \in BOOLEAN : EndAsked(keep)
  \/ EndLocks \/ Ended \/ EndFails \/ Restart

Next ==
  \/ Produce \/ World \/ Client \/ Finish
  \/ \E p \in Passes : Deliver(p) \/ Relaunch(p) \/ Arm(p)
  \/ RecheckFires \/ TimerFires

Spec == Init /\ [][Next]_vars

-----------------------------------------------------------------------------
(* The states; an id is remembered as withdrawn only while its row is in a *)
(* paste, so that a row put back can be delivered later.                   *)
Places == {"off", "gate", "input", "paste", "pasting", "kept", "holder",
           "launch", "exit"}

TypeOK ==
  /\ queue \subseteq Row /\ minted \in 0..MaxNotes
  /\ pass \in [Passes -> [at : Places, native : BOOLEAN,
                          kept : SUBSET Row, rows : SUBSET Row]]
  /\ withdrawn \subseteq Ids(Sending)
  /\ running \in BOOLEAN /\ again \in BOOLEAN /\ announced \subseteq Notes
  /\ recheck \in BOOLEAN /\ timer \in BOOLEAN
  /\ idle \in BOOLEAN /\ free \in BOOLEAN
  /\ cooled \in BOOLEAN /\ launchWait \in BOOLEAN
  /\ puller \in {"none", "grace", "alive", "dead"}
  /\ token \subseteq Notes \X Notes /\ told \in BOOLEAN
  /\ session \in {"running", "gone"}
  /\ ending \in {"no", "waiting", "holding"} /\ endKept \in BOOLEAN
  /\ went \in [Notes -> [sure : Nat, late : Nat]]
  /\ fate \in [Notes -> Fates]
  /\ seen \subseteq Notes
  /\ left \in [Kind -> Nat]

Settled == {"replaced", "recalled", "shown", "ended"}

(* Each wake is handed to its session at most once: a note goes out again  *)
(* only after a paste that failed with the text in the pane, however many  *)
(* passes of the scheduler, pullers and hooks take rows from the table.    *)
OncePerNote ==
  /\ TypeOK
  /\ session = "running" => \A n \in Notes : went[n].sure <= 1

(* No line is lost: a note nobody replaced, took back, confirmed, ended or *)
(* lost in a restart has been handed out, or is queued or on its way out.  *)
(* (The rows leave the table before the paste, and before a relaunch.)     *)
NothingLost ==
  \A n \in Notes :
    fate[n] = "open" /\ went[n].sure = 0 => n \in NotesOf(queue \union Out)

(* What was replaced, withdrawn, confirmed or ended is not queued again:   *)
(* not by a paste that fails after its source took the line back, nor by a *)
(* token that was issued for an older line.                                *)
SettledStaysOut ==
  \A n \in NotesOf(queue) : fate[n] \notin Settled

(* A ride-along line never pastes or wakes a puller on its own: whenever   *)
(* rows leave for the pane or the puller, a wake is among them.            *)
RideNeverAlone ==
  [][\A r \in queue :
       /\ r \notin queue'
       /\ r \in Sending' \/ (puller = "alive" /\ puller' = "grace"
                               /\ went'[r.note] # went[r.note])
       => \E w \in queue \ queue' : IsWake(w)]_vars

(* A queued wake stays a wake until it goes out or its source withdraws    *)
(* it: newer ride-along lines of its source, queued before or during a     *)
(* paste that fails, do not make it ride-along.                            *)
WakeFor(src, rows) ==
  \E r \in rows : r.src = src /\ IsWake(r) /\ r.id \notin withdrawn
WakeStaysWake ==
  [][\A src \in Sources :
       WakeFor(src, queue \union Sending)
         => \/ \E r \in queue' \union Sending' : r.src = src /\ IsWake(r)
            \/ \E r \in queue \union Sending :
                 r.src = src /\ \/ went'[r.note] # went[r.note]
                                \/ fate'[r.note] \in {"recalled", "shown",
                                                      "ended", "lost"}]_vars

(* Nothing goes out before it is due: a check-in moved while its delivery  *)
(* was gated waits for its new time.                                       *)
NotBeforeDue ==
  [][\A r \in queue :
       r.note \in NotesOf(Sending') \/ went'[r.note] # went[r.note]
         => r.due]_vars

(* What leaves the table may leave it: it is due, and a wake is with it.   *)
MayGo == NotBeforeDue /\ RideNeverAlone

-----------------------------------------------------------------------------
(* Fairness: awaits are answered, timers fire, and the clock goes on.  The *)
(* agent gets idle and the owner stops typing, as the budget lets them.    *)

Fairness ==
  /\ \A p \in Passes :
       WF_vars(Deliver(p)) /\ WF_vars(Relaunch(p)) /\ WF_vars(Arm(p))
  /\ WF_vars(RecheckFires) /\ WF_vars(TimerFires)
  /\ WF_vars(\E r \in queue : BecomesDue(r))
  /\ WF_vars(CoolsDown) /\ WF_vars(LaunchWaitOver) /\ WF_vars(GraceOver)
  /\ WF_vars(PollEnds)
  /\ WF_vars(~idle /\ AgentState) /\ WF_vars(~free /\ Typing)
  /\ WF_vars(ending = "waiting" /\ (EndLocks \/ EndFails))
  /\ WF_vars(ending = "holding" /\ (Ended \/ EndFails))

FairSpec == Spec /\ Fairness

(* A wake of a running session goes out (or is taken back): it is not      *)
(* forgotten between the gates, the nudges and the re-checks.              *)
WakeGoesOut ==
  (session = "running" /\ \E r \in Live(queue) : IsWake(r))
    ~> (session = "gone" \/ ~\E r \in Live(queue) : IsWake(r))

(* A kept check-in relaunches its conversation once it is due, or has      *)
(* stalled after relaunchAttempts.                                         *)
KeptGoesOut ==
  (\E r \in queue : r.home = "kept" /\ ~Stalled(r))
    ~> ~\E r \in queue : r.home = "kept" /\ ~Stalled(r)

(* Whatever waits in the queue to be handed out leaves it.                 *)
QueueDrains == WakeGoesOut /\ KeptGoesOut
=============================================================================
