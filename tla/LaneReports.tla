---------------------------- MODULE LaneReports ----------------------------
(***************************************************************************)
(* Lane reports (packages/tether/src/lane-reports.ts): a lane an agent      *)
(* launched tells its launcher that it went idle, is blocked or ended, as   *)
(* lines on the launcher's delivery queue; composed with the session waits  *)
(* (waits.ts) that may carry the same news, and with the End of the lane,   *)
(* whose delete trigger writes an outbox row.                               *)
(*                                                                         *)
(* One lane of this computer. Turns of its agent are numbered by the idle   *)
(* they end in: "turn" is the agent's own clock (stateAgentAt) at its last  *)
(* idle. The reporter sees the agent through polls, so turns may be too     *)
(* short to be seen. Of the durations only their order counts: "held" is  *)
(* 0, then past the settle time, then past the quiet of a repeat or the     *)
(* floor between two lines.                                                 *)
(*                                                                         *)
(* Left out: lanes on other hosts, model switches, ride-along replies, the  *)
(* cycle check of watches, in-place transfers, and --block clients.         *)
(***************************************************************************)
EXTENDS Naturals, Sequences

CONSTANTS
  None,        \* no memory, no cursor, no wait, nobody
  Root,        \* the lane's coordinator
  Launcher,    \* its parent: the session that launched it
  Others,      \* sessions that are neither, and may watch the lane
  Budgets      \* bounds: how often each kind of outside event happens, per scenario

Kind == {"turn", "block", "tell", "exit", "return", "send", "wait", "settled", "party",
         "watch", "end", "restart"}

LaneAssumption ==
  /\ Budgets \subseteq [Kind -> Nat]
  /\ Launcher \notin Others /\ Root \notin Others

ASSUME LaneAssumption

Party == {Root, Launcher} \union Others

VARIABLES
  lane,     \* the lane's row: "open" or "deleted"
  agent,    \* the agent in the pane
  view,     \* its state as Tether publishes it, the descriptor of the lane
  memory,   \* what the reporter remembers of the lane, or None
  cursor,   \* its row in lane_reports, or None once forgotten
  wait,     \* each party's session wait on the lane
  queue,    \* the lines queued on each party's delivery queue
  acted,    \* parties that sent to the lane, or armed a wait, since its last went-idle line
  told,     \* the turn in which the lane last sent each party a message of its own
  gone,     \* parties that have ended
  watch,    \* lane_watches: "watch", "unwatch" or None per party
  ending,   \* parties whose End of the lane runs
  mark,     \* session_end_requests: who asked for the End that runs
  outbox,   \* lane_outbox: the row the delete trigger wrote
  input,    \* whether the agent has a message to take, and whose send awaits its handler
  left,     \* how many outside events of each kind may still happen
  past      \* history: lines per turn, real turns, what is owed, who heard the end

vars == <<lane, agent, view, memory, cursor, wait, queue, acted, told, gone, watch,
          ending, mark, outbox, input, left, past>>

-----------------------------------------------------------------------------
(* State.                                                                  *)

ViewState == {"unknown", "working", "idle", "blocked"}
Agent == [state: {"working", "idle", "blocked", "exited"}, turn: Nat, gen: Nat, own: BOOLEAN]
View == [state: ViewState, turn: Nat, gen: Nat, own: BOOLEAN]
Memory == [held: 0..2, seen: Nat, heldIdle: Nat, known: BOOLEAN, timer: {None} \union 1..2]
Cursor == [gen: Nat, finished: Nat, repeat: BOOLEAN, before: BOOLEAN, reachedAfter: Nat,
           blocked: BOOLEAN, reset: BOOLEAN, ended: BOOLEAN]
Wait == [until: {"finished", "ended"}, since: Nat, state: {"armed", "fired", "over"},
         onIt: BOOLEAN, outcome: {None, "until", "gone", "timeout"}]
Line == [kind: {"finished", "blocked", "ended", "wait"}, ride: BOOLEAN]

NoneAssumption ==
  None \notin Party \union Memory \union Cursor \union Wait \union [by: Party \union {None}]
              \union {"owner", "until", "gone", "timeout", "watch", "unwatch"}

ASSUME NoneAssumption

NoView == [state |-> "unknown", turn |-> 0, gen |-> 0, own |-> FALSE]

(* The descriptor of the lane, as a poll of its agent makes it. *)
Sighting ==
  LET state == IF agent.state = "exited" THEN "unknown" ELSE agent.state
  IN [state |-> state, turn |-> IF state = "unknown" THEN view.turn ELSE agent.turn,
      gen |-> agent.gen, own |-> agent.own]

(* The state in view has held for the settle time. *)
Stood == memory # None /\ memory.held > 0

AgentGone == agent.state = "exited"
Receiver(p) == p \notin gone
Armed(p) == wait[p] # None /\ wait[p].state = "armed"

(* Who gets a report now: the launcher, or the root standing in for it, and
   the explicit watchers. *)
Receivers ==
  LET lineage == IF Receiver(Launcher) THEN {Launcher} ELSE {Root}
      watchers == {p \in Party : watch[p] = "watch"}
  IN {p \in lineage \union watchers : watch[p] # "unwatch" /\ Receiver(p)}

(* Who gets no line of an end that "by" asked for: the ender, and the root
   when the ender is the launcher, an explicit watcher aside. *)
Spared(by) ==
  {p \in Party : p = by \/ (p = Root /\ by = Launcher /\ watch[p] # "watch")}

(* As a bug: any wait that fired counts for the end. *)
HeardFromAnyFired(p, outcome, turn) ==
  /\ wait[p] # None
  /\ LET w == wait[p]
     IN \/ outcome = "ended" /\ w.state \in {"armed", "fired"}
        \/ /\ outcome = "finished" /\ w.until = "finished" /\ turn > w.since
           /\ w.state = "armed" \/ (w.state = "fired" /\ w.onIt /\ w.outcome = "until")

(* p hears of the event from its own wait on the lane: one still armed that
   fires on it, or one that fired on it. *)
HeardFrom(p, outcome, turn) ==
  /\ wait[p] # None
  /\ LET w == wait[p]
         fired == w.state = "fired" /\ (w.onIt \/ memory = None)
     IN \/ /\ outcome = "ended"
           /\ \/ w.state = "armed"
              \/ fired /\ (w.outcome = "gone" \/ (w.until = "ended" /\ w.outcome = "until"))
        \/ /\ outcome = "finished" /\ w.until = "finished" /\ turn > w.since
           /\ w.state = "armed" \/ (fired /\ w.outcome = "until")

(* A line replaces the undelivered one of its source; a wake stays a wake. *)
Queued(lines, line) ==
  LET old == {l \in lines : l.kind = line.kind}
  IN (lines \ old) \union {[line EXCEPT !.ride = @ /\ \A l \in old : l.ride]}

QueuedTo(to, line) == [p \in Party |-> IF p \in to THEN Queued(queue[p], line) ELSE queue[p]]

(* A fired wait counts only for the observation it fired on. *)
Passed(w) == IF w = None THEN None ELSE [w EXCEPT !.onIt = FALSE]

(* An outside event, within its scenario's budget. *)
Spend(kind) ==
  /\ left[kind] > 0
  /\ left' = [left EXCEPT ![kind] = @ - 1]

-----------------------------------------------------------------------------
(* The reporter.  v is the sighting, m and c the memory and the cursor it   *)
(* works on.                                                               *)

(* fire: the went-idle line, to those who do not hear of the turn from their
   wait and were not told by the lane itself in that turn. *)
FireFinished(v, m, c, repeat, beforeReach) ==
  LET turn == v.turn
      hearers == {p \in Receivers : ~HeardFrom(p, "finished", turn)}
      to == {p \in hearers : told[p] < m.seen \/ told[p] <= c.finished \/ told[p] <= m.heldIdle}
      toldAll == to = {} /\ hearers # {}
      wakes == {o \in past.owed : turn > o}
      late == {o \in past.late : turn > o}
  IN /\ queue' = QueuedTo(to, [kind |-> "finished", ride |-> repeat])
     /\ cursor' = [c EXCEPT !.finished = turn,
                            !.repeat = @ \/ ~(toldAll \/ beforeReach)]
     /\ acted' = IF toldAll THEN acted ELSE {}
     /\ memory' = [m EXCEPT !.seen = 0, !.heldIdle = 0, !.timer = None]
     /\ past' = [past EXCEPT
           !.lines = [p \in Party |-> IF p \in to THEN Append(@[p], turn) ELSE @[p]],
           !.owed = IF toldAll THEN @ ELSE @ \ wakes,
           !.late = IF toldAll THEN @ ELSE @ \ late,
           !.hidden = @ \/ (\E p \in hearers \ to : told[p] < turn),
           !.rode = @ \/ (repeat /\ wakes # {} /\ to # {}),
           !.rodeLate = @ \/ (repeat /\ late # {} /\ to # {})]

FireBlocked(v, m, c) ==
  /\ queue' = QueuedTo({p \in Receivers : ~HeardFrom(p, "blocked", v.turn)},
                       [kind |-> "blocked", ride |-> FALSE])
  /\ cursor' = [c EXCEPT !.blocked = TRUE, !.repeat = FALSE]
  /\ memory' = [m EXCEPT !.timer = None]
  /\ UNCHANGED <<acted, past>>

EndLine == [kind |-> "ended", ride |-> FALSE]

(* The agent left its pane for good: the lane has ended. *)
FireExited(v, m, c) ==
  LET to == {p \in Receivers : ~HeardFrom(p, "ended", v.turn)}
  IN /\ queue' = QueuedTo(to, EndLine)
     /\ cursor' = [c EXCEPT !.ended = TRUE, !.repeat = FALSE]
     /\ memory' = [m EXCEPT !.timer = None]
     /\ past' = [past EXCEPT !.heardEnd = @ \union to, !.endFor = Receivers]
     /\ UNCHANGED acted

(* As a bug: what is held gets no timer. *)
LaterForgotten(m, c, held) ==
  /\ memory' = [m EXCEPT !.timer = None]
  /\ cursor' = c
  /\ UNCHANGED <<queue, acted, past>>

Later(m, c, held) ==
  /\ memory' = [m EXCEPT !.timer = held]
  /\ cursor' = c
  /\ UNCHANGED <<queue, acted, past>>

(* evaluate: what the last observation calls for, now or when its time is up. *)
Evaluate(v, m, c) ==
  LET unreported == v.state = "idle" /\ v.turn > c.finished
      beforeReach == c.reachedAfter # 0 /\ v.turn <= c.reachedAfter
      c1 == IF beforeReach THEN c ELSE [c EXCEPT !.reachedAfter = 0, !.before = FALSE]
      again == IF beforeReach THEN c1.before ELSE c1.repeat
      anew == again /\ acted \intersect Receivers # {}
      c2 == IF anew THEN [c1 EXCEPT !.repeat = FALSE] ELSE c1
      repeat == again /\ ~anew
      newBlock == v.state = "blocked" /\ ~c.blocked
      quit == v.state = "unknown" /\ AgentGone
  IN \/ /\ ~c.ended /\ unreported /\ (c.reset \/ v.own)
        /\ cursor' = [c EXCEPT !.finished = v.turn, !.reset = FALSE]
        /\ memory' = [m EXCEPT !.seen = 0, !.heldIdle = 0, !.timer = None]
        /\ UNCHANGED <<queue, acted, past>>
     \/ /\ ~c.ended /\ unreported /\ ~c.reset /\ ~v.own
        /\ \E due \in IF repeat THEN {2} ELSE {1, 2} :
             IF m.held < due THEN Later(m, c2, due) ELSE FireFinished(v, m, c2, repeat, beforeReach)
     \/ /\ ~c.ended /\ newBlock
        /\ IF m.held < 1 THEN Later(m, c, 1) ELSE FireBlocked(v, m, c)
     \/ /\ ~c.ended /\ quit
        /\ IF m.held < 1 THEN Later(m, c, 1) ELSE FireExited(v, m, c)
     \/ /\ c.ended \/ ~(unreported \/ newBlock \/ quit)
        /\ memory' = [m EXCEPT !.timer = None]
        /\ cursor' = c
        /\ UNCHANGED <<queue, acted, past>>

(* observe: the memory and the cursor as the sighting leaves them. *)
Remembered(v) ==
  LET m == IF memory = None
             THEN [held |-> 0, seen |-> 0, heldIdle |-> 0, known |-> FALSE,
                   timer |-> None]
             ELSE memory
      same == memory # None /\ view.state = v.state /\ view.turn = v.turn
      inTurn == v.state \in {"working", "blocked"}
      next == /\ inTurn /\ view.state = "idle"
              /\ view.turn > cursor.finished /\ view.turn > m.heldIdle
      now == v.turn + 1
  IN [m EXCEPT !.held = IF same THEN @ ELSE 0,
               !.known = @ \/ v.state # "unknown",
               !.heldIdle = IF next THEN view.turn ELSE @,
               !.seen = IF ~inTurn THEN @
                        ELSE IF @ = 0 \/ (next /\ m.held > 0) THEN now ELSE @]

(* As a bug: a new generation is nothing special. *)
RecordedAsBefore(v) ==
  LET inTurn == v.state \in {"working", "blocked"}
  IN [cursor EXCEPT !.ended = FALSE, !.gen = v.gen,
                    !.reset = ~inTurn /\ (@ \/ cursor.ended),
                    !.repeat = @ /\ ~cursor.ended,
                    !.blocked = @ /\ v.state \notin {"working", "idle"}]

Recorded(v) ==
  LET back == cursor.ended
      anew == cursor.gen # v.gen
      inTurn == v.state \in {"working", "blocked"}
  IN [cursor EXCEPT
        !.ended = FALSE, !.gen = v.gen,
        !.reset = ~inTurn /\ (@ \/ back \/ (anew /\ (memory = None \/ memory.known))),
        !.repeat = @ /\ ~back /\ ~anew,
        !.blocked = @ /\ v.state \notin {"working", "idle"}]

Observe(v) ==
  IF cursor.ended /\ (v.state = "unknown" \/ AgentGone)
    THEN UNCHANGED <<memory, cursor, queue, acted, past>>
    ELSE Evaluate(v, Remembered(v), Recorded(v))

(* A poll of the agent: a change is published, to the reporter at once. *)
Poll ==
  /\ lane = "open"
  /\ Sighting # view \/ memory = None
  /\ view' = Sighting
  /\ wait' = IF memory # None /\ (view.state = Sighting.state /\ view.turn = Sighting.turn)
               THEN wait ELSE [p \in Party |-> Passed(wait[p])]
  /\ Observe(Sighting)
  /\ UNCHANGED <<lane, agent, told, gone, watch, ending, mark, outbox, input, left>>

TimerFires ==
  /\ lane = "open" /\ memory # None /\ memory.timer # None
  /\ memory.held >= memory.timer
  /\ Evaluate(view, memory, cursor)
  /\ UNCHANGED <<lane, agent, view, wait, told, gone, watch, ending, mark, outbox, input, left>>

(* The reporter knows of the agent's last idle: it has seen it, or dealt with it
   before. *)
Noticed ==
  agent.turn = view.turn \/ agent.turn <= cursor.finished \/ agent.turn <= cursor.reachedAfter

(* What reached the lane after the agent's last idle is owed a wake; late is
   what came after an idle that no poll had seen. *)
Owes ==
  past' = IF Noticed THEN [past EXCEPT !.owed = @ \union {agent.turn}]
          ELSE [past EXCEPT !.late = @ \union {agent.turn}]

(* As a bug: the held line of an idle from before is not told apart. *)
ReachedAtOnce ==
  /\ input.sent # None
  /\ input' = [input EXCEPT !.sent = None]
  /\ acted' = acted \union ({input.sent} \intersect Party)
  /\ IF lane = "deleted" \/ cursor = None \/ cursor.ended THEN UNCHANGED <<cursor, past>>
     ELSE /\ cursor' = [cursor EXCEPT !.repeat = FALSE]
          /\ Owes
  /\ UNCHANGED <<lane, agent, view, memory, wait, queue, told, gone, watch, ending, mark, outbox,
                 left>>

(* reached: something got to the lane that may be work. *)
Reached ==
  /\ input.sent # None
  /\ input' = [input EXCEPT !.sent = None]
  /\ acted' = acted \union ({input.sent} \intersect Party)
  /\ IF lane = "deleted" \/ cursor = None \/ cursor.ended THEN UNCHANGED <<cursor, past>>
     ELSE LET held == /\ memory # None /\ view.state = "idle"
                      /\ view.turn > cursor.finished
                      /\ cursor.reachedAfter # view.turn
          IN /\ cursor' = [cursor EXCEPT
                  !.repeat = FALSE,
                  !.before = IF held THEN cursor.repeat ELSE @,
                  !.reachedAfter = IF held THEN view.turn ELSE @]
             /\ Owes
  /\ UNCHANGED <<lane, agent, view, memory, wait, queue, told, gone, watch, ending, mark, outbox,
                 left>>

(* sessionVerdict of an armed wait: "timeout" when only its deadline is left. *)
Verdict(w) ==
  IF lane = "deleted" \/ (view.state = "unknown" /\ AgentGone)
    THEN IF w.until = "ended" THEN "until" ELSE "gone"
  ELSE IF w.until = "finished" /\ view.state = "idle" /\ view.turn > w.since /\ ~view.own /\ Stood
    THEN "until"
  ELSE "timeout"

(* What a settled wait of p leaves: its line, and whether p heard the end. *)
Says(p, w) ==
  LET ended == w.outcome = "gone" \/ (w.outcome = "until" /\ w.until = "ended")
  IN /\ wait' = [wait EXCEPT ![p] = w]
     /\ queue' = [queue EXCEPT ![p] = Queued(@, [kind |-> "wait", ride |-> FALSE])]
     /\ past' = [past EXCEPT !.heardEnd = IF ended THEN @ \union {p} ELSE @]

-----------------------------------------------------------------------------
(* The agent, and time.                                                    *)

NextTurn == agent.turn + 1

(* A turn may be too short to see; two of them between two polls are not
   (while Tether is down they are). *)
AgentWorks ==
  /\ lane = "open" /\ agent.state \in {"idle", "blocked"}
  /\ view.turn = agent.turn \/ memory = None
  /\ agent' = [agent EXCEPT !.state = "working", !.own = FALSE]
  /\ input' = [input EXCEPT !.message = FALSE]
  /\ UNCHANGED <<lane, view, memory, cursor, wait, queue, acted, told, gone, watch, ending,
                 mark, outbox, left, past>>

(* A turn ends; "own" says that the agent waits on something of its own. *)
AgentIdles ==
  /\ lane = "open" /\ agent.state = "working"
  /\ \E own \in BOOLEAN :
       agent' = [agent EXCEPT !.state = "idle", !.turn = NextTurn, !.own = own]
  /\ Spend("turn")
  /\ past' = [past EXCEPT !.real = @ \union {NextTurn}]
  /\ UNCHANGED <<lane, view, memory, cursor, wait, queue, acted, told, gone, watch, ending,
                 mark, outbox, input>>

AgentBlocks ==
  /\ lane = "open" /\ agent.state = "working"
  /\ agent' = [agent EXCEPT !.state = "blocked"]
  /\ Spend("block")
  /\ UNCHANGED <<lane, view, memory, cursor, wait, queue, acted, told, gone, watch, ending,
                 mark, outbox, input, past>>

(* The lane sends p a message of its own in the turn under way. *)
AgentTells(p) ==
  /\ lane = "open" /\ agent.state = "working" /\ Receiver(p)
  /\ told' = [told EXCEPT ![p] = NextTurn]
  /\ Spend("tell")
  /\ UNCHANGED <<lane, agent, view, memory, cursor, wait, queue, acted, gone, watch, ending,
                 mark, outbox, input, past>>

(* An agent that came back is seen before it leaves again. *)
AgentExits ==
  /\ lane = "open" /\ agent.state # "exited"
  /\ Stood => view.state # "unknown"
  /\ agent' = [agent EXCEPT !.state = "exited", !.own = FALSE]
  /\ Spend("exit")
  /\ UNCHANGED <<lane, view, memory, cursor, wait, queue, acted, told, gone, watch, ending,
                 mark, outbox, input, past>>

(* A new agent in the session comes up idle by its own clock: a respawn or a
   recovery with a new generation, a resume by hand without one. *)
AgentReturns ==
  /\ lane = "open"
  /\ \E gen \in {agent.gen, agent.gen + 1} :
       /\ gen = agent.gen => agent.state = "exited"
       /\ agent' = [state |-> "idle", turn |-> NextTurn, gen |-> gen, own |-> FALSE]
       /\ past' = IF gen # agent.gen /\ (memory = None \/ memory.known) THEN past
                  ELSE [past EXCEPT !.real = @ \union {NextTurn}]
  /\ Spend("return")
  /\ UNCHANGED <<lane, view, memory, cursor, wait, queue, acted, told, gone, watch, ending,
                 mark, outbox, input>>

(* Every wait is looked at on each event of the lane, long before a settle
   time has passed. *)
WaitsSettled == \A p \in Party : Armed(p) => Verdict(wait[p]) = "timeout"

(* The state in view has held longer, as the polls agree. *)
TimePasses ==
  /\ lane = "open" /\ memory # None /\ view = Sighting /\ WaitsSettled
  /\ memory.held < 2
  /\ memory' = [memory EXCEPT !.held = @ + 1]
  /\ UNCHANGED <<lane, agent, view, cursor, wait, queue, acted, told, gone, watch, ending, mark,
                 outbox, input, left, past>>

-----------------------------------------------------------------------------
(* Sessions around the lane.                                               *)

(* A message is typed into the lane ("sender" is a party, or the owner);
   its handler goes on once tmux has answered (Reached). *)
Send(sender) ==
  /\ lane = "open" /\ agent.state # "exited"
  /\ input.sent = None /\ (sender \in Party => Receiver(sender))
  /\ input' = [message |-> TRUE, sent |-> sender]
  /\ Spend("send")
  /\ UNCHANGED <<lane, agent, view, memory, cursor, wait, queue, acted, told, gone, watch,
                 ending, mark, outbox, past>>

(* p arms a wait on the lane; one whose condition holds fires at once. *)
ArmWait(p) ==
  /\ lane = "open" /\ Receiver(p)
  /\ ~Armed(p)
  /\ \E until \in {"finished", "ended"}, since \in {t \in 0..view.turn : view.turn <= t + 1} :
       LET w == [until |-> until, since |-> since, state |-> "armed", onIt |-> FALSE, outcome |-> None]
       IN IF Verdict(w) = "timeout"
            THEN wait' = [wait EXCEPT ![p] = w] /\ UNCHANGED <<queue, past>>
            ELSE Says(p, [w EXCEPT !.state = "fired", !.onIt = TRUE, !.outcome = Verdict(w)])
  /\ acted' = acted \union {p}
  /\ Spend("wait")
  /\ UNCHANGED <<lane, agent, view, memory, cursor, told, gone, watch, ending, mark,
                 outbox, input>>

(* A look at p's wait finds that its condition holds. *)
WaitFires(p) ==
  /\ Armed(p) /\ Verdict(wait[p]) # "timeout"
  /\ Says(p, [wait[p] EXCEPT !.state = "fired", !.onIt = TRUE, !.outcome = Verdict(wait[p])])
  /\ UNCHANGED <<lane, agent, view, memory, cursor, acted, told, gone, watch, ending, mark,
                 outbox, input, left>>

(* Its deadline has passed. *)
WaitTimesOut(p) ==
  /\ Armed(p) /\ Verdict(wait[p]) = "timeout"
  /\ Spend("settled")
  /\ Says(p, [wait[p] EXCEPT !.state = "over", !.outcome = "timeout"])
  /\ UNCHANGED <<lane, agent, view, memory, cursor, acted, told, gone, watch, ending, mark,
                 outbox, input>>

CancelWait(p) ==
  /\ Armed(p)
  /\ wait' = [wait EXCEPT ![p].state = "over"]
  /\ past' = [past EXCEPT !.declined = @ \union {p}]
  /\ Spend("settled")
  /\ UNCHANGED <<lane, agent, view, memory, cursor, queue, acted, told, gone, watch, ending,
                 mark, outbox, input>>

(* p ends: its queue, its waits and its watches go with its row.  (A root that
   ends passes its lanes on: a transfer.) *)
PartyEnds(p) ==
  /\ p # Root /\ Receiver(p) /\ p \notin ending
  /\ gone' = gone \union {p}
  /\ queue' = [queue EXCEPT ![p] = {}]
  /\ wait' = [wait EXCEPT ![p] = None]
  /\ watch' = [watch EXCEPT ![p] = None]
  /\ Spend("party")
  /\ UNCHANGED <<lane, agent, view, memory, cursor, acted, told, ending, mark, outbox, input,
                  past>>

(* setWatch: a lineage receiver needs no watch, and only one can unwatch. *)
SetWatch(p, mode) ==
  /\ lane = "open" /\ Receiver(p)
  /\ LET lineage == p = Launcher \/ (mode = "unwatch" /\ p = Root)
     IN watch' = [watch EXCEPT ![p] = IF lineage = (mode = "unwatch") THEN mode ELSE None]
  /\ Spend("watch")
  /\ UNCHANGED <<lane, agent, view, memory, cursor, wait, queue, acted, told, gone, ending,
                 mark, outbox, input, past>>

-----------------------------------------------------------------------------
(* The End of the lane, and restarts.                                      *)

(* p asks for the End; the first one's mark stands. *)
EndStarts(p) ==
  /\ lane = "open" /\ Receiver(p) /\ p \notin ending
  /\ ending' = ending \union {p}
  /\ mark' = IF mark = None THEN p ELSE mark
  /\ Spend("end")
  /\ UNCHANGED <<lane, agent, view, memory, cursor, wait, queue, acted, told, gone, watch,
                 outbox, input, past>>

(* The row is deleted; the trigger copies the mark into the outbox. An End
   nobody named (the owner's) does the same. *)
LaneDeleted ==
  /\ lane = "open"
  /\ lane' = "deleted"
  /\ outbox' = [by |-> mark]
  /\ view' = NoView
  /\ input' = [input EXCEPT !.message = FALSE]
  /\ UNCHANGED <<agent, memory, cursor, wait, queue, acted, told, gone, watch, ending, mark, left,
                 past>>

(* The End answers, done or not; it takes back the mark it set. *)
EndAnswers(p) ==
  /\ p \in ending
  /\ ending' = ending \ {p}
  /\ mark' = IF mark = p THEN None ELSE mark
  /\ UNCHANGED <<lane, agent, view, memory, cursor, wait, queue, acted, told, gone, watch,
                 outbox, input, left, past>>

(* drainOutbox: in one transaction the stale lines of those who need no line
   are withdrawn, the end is told, cursor and watches go, the row is taken. *)
Drain ==
  /\ outbox # None
  /\ LET by == outbox.by
         to == {p \in Receivers \ Spared(by) : ~HeardFrom(p, "ended", 0)}
         fires == cursor = None \/ ~cursor.ended
         kept == [p \in Party |->
                    {l \in queue[p] : ~(p \in Spared(by) /\ l.kind # "wait") /\ ~(p = by)}]
     IN /\ queue' = [p \in Party |-> IF fires /\ p \in to THEN Queued(kept[p], EndLine) ELSE kept[p]]
        /\ wait' = [p \in Party |-> IF p = by /\ Armed(p)
                                      THEN [wait[p] EXCEPT !.state = "over"] ELSE wait[p]]
        /\ past' = [past EXCEPT !.ender = by,
                                !.heardEnd = IF fires THEN @ \union to ELSE @,
                                !.endFor = IF fires THEN Receivers \ Spared(by) ELSE @]
  /\ cursor' = None /\ memory' = None
  /\ watch' = [p \in Party |-> None]
  /\ outbox' = None
  /\ UNCHANGED <<lane, agent, view, acted, told, gone, ending, mark, input, left>>

(* The daemon stops and starts: memory is gone, and the marks of Ends that
   a crash interrupted. *)
Restart ==
  /\ Spend("restart")
  /\ view' = NoView /\ memory' = None
  /\ told' = [p \in Party |-> 0]
  /\ ending' = {} /\ mark' = None
  /\ input' = [input EXCEPT !.sent = None]
  /\ UNCHANGED <<lane, agent, cursor, wait, queue, acted, gone, watch, outbox, past>>

-----------------------------------------------------------------------------
Init ==
  /\ lane = "open"
  /\ agent = [state |-> "idle", turn |-> 0, gen |-> 0, own |-> FALSE]
  /\ view = NoView
  /\ memory = [held |-> 0, seen |-> 0, heldIdle |-> 0, known |-> FALSE, timer |-> None]
  /\ cursor = [gen |-> 0, finished |-> 0, repeat |-> FALSE, before |-> FALSE,
               reachedAfter |-> 0, blocked |-> FALSE, reset |-> FALSE, ended |-> FALSE]
  /\ wait = [p \in Party |-> None] /\ watch = [p \in Party |-> None]
  /\ queue = [p \in Party |-> {}]
  /\ acted = {} /\ gone = {} /\ ending = {}
  /\ told = [p \in Party |-> 0]
  /\ mark = None /\ outbox = None
  /\ input = [message |-> FALSE, sent |-> None]
  /\ left \in Budgets
  /\ past = [lines |-> [p \in Party |-> << >>], real |-> {}, owed |-> {}, late |-> {}, rode |-> FALSE,
             rodeLate |-> FALSE, hidden |-> FALSE, ender |-> None, heardEnd |-> {}, endFor |-> {},
             declined |-> {}]

Reporter == Poll \/ TimerFires \/ Reached \/ Drain
AgentSteps == AgentWorks \/ AgentIdles \/ AgentBlocks \/ AgentExits \/ AgentReturns
              \/ \E p \in Party : AgentTells(p)
Sessions == \/ \E p \in Party : \/ ArmWait(p) \/ WaitFires(p) \/ WaitTimesOut(p) \/ CancelWait(p)
                                \/ PartyEnds(p) \/ EndStarts(p) \/ EndAnswers(p)
                                \/ \E mode \in {"watch", "unwatch"} : SetWatch(p, mode)
            \/ \E sender \in Party \union {"owner"} : Send(sender)
            \/ LaneDeleted \/ Restart

Next == Reporter \/ AgentSteps \/ TimePasses \/ Sessions

Spec == Init /\ [][Next]_vars

(* Polls, timers and the clock go on; what an agent takes from its input it
   works on. *)
FairSpec == /\ Spec
            /\ WF_vars(Poll) /\ WF_vars(TimerFires) /\ WF_vars(TimePasses)
            /\ WF_vars(Drain) /\ \A p \in Party : WF_vars(WaitFires(p))

-----------------------------------------------------------------------------
(* Properties.                                                             *)

TypeOK ==
  /\ lane \in {"open", "deleted"}
  /\ left \in [Kind -> Nat]
  /\ agent \in Agent /\ view \in View
  /\ memory \in Memory \union {None} /\ cursor \in Cursor \union {None}
  /\ wait \in [Party -> Wait \union {None}]
  /\ queue \in [Party -> SUBSET Line]
  /\ acted \subseteq Party /\ gone \subseteq Party /\ told \in [Party -> Nat]
  /\ watch \in [Party -> {None, "watch", "unwatch"}]
  /\ ending \subseteq Party /\ mark \in Party \union {None}
  /\ outbox \in [by: Party \union {None}] \union {None}

(* A went-idle line is for a turn the agent really ended, and no session gets
   the line of a turn twice or after the line of a later one: not by restarts,
   respawns, returns or waits. *)
TurnsOnce ==
  /\ TypeOK
  /\ \A p \in Party : \A i \in DOMAIN past.lines[p] :
       /\ past.lines[p][i] \in past.real
       /\ \A j \in 1..(i - 1) : past.lines[p][j] < past.lines[p][i]

(* "Its next went-idle line is a first line (a wake), never a ride-along
   repeat", and an idle from before "must not use up the reset": after
   something reached the lane, the next line of a turn that its agent ended
   after that is a wake. Not so when no poll had seen the agent's last idle by
   then (late): README.md says why. *)
ReachedWorkWakes == ~past.rode

(* The same, of whatever reached the lane. *)
EveryReachWakes == ~past.rode /\ ~past.rodeLate

(* Once the lane is gone and its outbox drained, each session its end was for
   has the line, or its own wait says or will say it; and the session that
   ended it keeps no line of it. *)
EndReachesAll ==
  \A p \in past.endFor \ (gone \union past.declined \union {past.ender}) :
    p \in past.heardEnd \/ Armed(p)
EnderHearsNothing == past.ender # None => queue[past.ender] = {}
EndIsHeard == lane = "deleted" /\ outbox = None => EndReachesAll /\ EnderHearsNothing

(* The comment on a turn's start: "A message from an earlier turn never hides
   this one's idle". *)
NeverHidden == ~past.hidden

(* A lane that rests idle after a turn is told of, unless it has ended. *)
IdleIsReported ==
  (lane = "open" /\ agent.state = "idle")
    ~> (lane = "deleted" \/ agent.state # "idle" \/ cursor.finished = agent.turn)

=============================================================================
