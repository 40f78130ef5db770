------------------------------- MODULE Waits -------------------------------
(***************************************************************************)
(* Waits (packages/tether/src/waits.ts): a session, or a client that blocks *)
(* on a long poll, asks to be told when something is ready; composed with   *)
(* the End route that keeps a session's waits past its end                  *)
(* (lifecycle-api.ts) and with the delete trigger on waits (schema.ts).     *)
(*                                                                         *)
(* One waiter session. What a wait's look reads of its thing is one of      *)
(* "not", "ready" or "gone". A pane's delivery queue is WakeQueue's: here a *)
(* line is counted when it is queued.                                      *)
(*                                                                         *)
(* Left out: the rules of each kind, cursors, the pruning of old waits, the *)
(* processes of a "cmd" wait, and waits over already told (quiet).          *)
(***************************************************************************)
EXTENDS Naturals, FiniteSets

CONSTANTS
  None,      \* no row, no call, no key, nothing
  Id,        \* the waits: one per call that arms
  Ref,       \* the things waited on
  Key,       \* the keys a caller may give
  EndCall,   \* calls of the End route
  MaxArmed,  \* policy: maxWaitsPerSession
  Budgets    \* bounds: how often each kind of outside event happens, per scenario

Kind == {"arm", "change", "deadline", "cancel", "poll", "end", "restart"}

WaitsAssumption ==
  /\ MaxArmed \in Nat /\ Budgets \subseteq [Kind -> Nat]
  /\ None \notin {"until", "gone", "timeout"}
ASSUME WaitsAssumption

VARIABLES
  session,   \* the waiter's row: "here" or "ended"
  call,      \* an arm that awaits the look at its caller, per wait
  row,       \* the rows of the waits table
  reading,   \* what a look reads of each thing
  due,       \* waits whose deadline has passed
  pending,   \* things poked since the last look; all of them when Tether starts
  poll,      \* the long poll on a wait: "none", "open" (a listener) or "called" (it was told)
  given,     \* the state of the wait that its client was last given
  end,       \* the End calls: their step, and whether they keep waits
  told,      \* history: lines queued, and relaunches asked for, per wait
  left       \* how many outside events of each kind may still happen

vars == <<session, call, row, reading, due, pending, poll, given, end, told, left>>

Call == [by: {"waiter", "client"}, ref: Ref, key: Key \union {None}]
Row == [by: {"waiter", "client", "nobody"}, ref: Ref, key: Key \union {None}, kept: BOOLEAN,
        state: {"armed", "fired", "timed_out", "cancelled"},
        outcome: {None, "until", "gone", "timeout"}]
End == [step: {"idle", "snapshot", "deleting", "ended", "refused"}, keep: BOOLEAN, kept: SUBSET Id]

Rows == {i \in Id : row[i] # None}
Armed == {i \in Rows : row[i].state = "armed"}
OfWaiter == {i \in Rows : row[i].by = "waiter"}

Spend(kind) == left[kind] > 0 /\ left' = [left EXCEPT ![kind] = @ - 1]

-----------------------------------------------------------------------------
(* Looks.                                                                  *)

(* evaluate: what a look makes of a wait, or None. *)
Verdict(i, w) ==
  CASE reading[w.ref] = "ready" -> "until"
    [] reading[w.ref] = "gone" -> "gone"
    [] reading[w.ref] = "not" /\ i \in due -> "timeout"
    [] OTHER -> None

(* settle: the compare-and-set of a wait's end; its key is let go. *)
Settled(w, state, outcome) ==
  IF w.state = "armed" THEN [w EXCEPT !.state = state, !.outcome = outcome, !.key = None] ELSE w

Fired(i, w) ==
  LET outcome == Verdict(i, w)
  IN IF outcome = None THEN w
     ELSE Settled(w, IF outcome = "timeout" THEN "timed_out" ELSE "fired", outcome)

(* Mutant: a kept wait tells the session that is being ended, too. *)
TellsBoth(i, w) ==
  [lines |-> IF w.by = "waiter" THEN 1 ELSE 0,
   relaunches |-> IF w.kept /\ Verdict(i, w) = "until" THEN 1 ELSE 0]

(* What the fire of w, its row before, tells: a kept wait only relaunches. *)
Tells(i, w) ==
  LET outcome == Verdict(i, w)
  IN [lines |-> IF ~w.kept /\ w.by = "waiter" THEN 1 ELSE 0,
      relaunches |-> IF w.kept /\ outcome = "until" THEN 1 ELSE 0]

(* A look at the waits in "at", each fired in a transaction of its own. *)
LookAt(at, rows) ==
  LET fires == {i \in at : rows[i] # None /\ rows[i].state = "armed" /\ Verdict(i, rows[i]) # None}
  IN /\ row' = [i \in Id |-> IF i \in fires THEN Fired(i, rows[i]) ELSE rows[i]]
     /\ told' = [i \in Id |->
                   IF i \notin fires THEN told[i]
                   ELSE [lines |-> told[i].lines + Tells(i, rows[i]).lines,
                         relaunches |-> told[i].relaunches + Tells(i, rows[i]).relaunches]]
     /\ poll' = [i \in Id |-> IF i \in fires /\ poll[i] = "open" THEN "called" ELSE poll[i]]

(* The look soon after a poke: at the waits on what was poked, and at those
   past their deadline. *)
Check ==
  /\ pending # {}
  /\ pending' = {}
  /\ LookAt({i \in Armed : row[i].ref \in pending \/ i \in due}, row)
  /\ UNCHANGED <<session, call, reading, due, given, end, left>>

(* Mutant: it looks at the waits of a session only. *)
FullCheckOfWaiters ==
  /\ LookAt(Armed \intersect OfWaiter, row)
  /\ UNCHANGED <<session, call, reading, due, pending, given, end, left>>

(* The timer: at the next deadline or settle time, at the latest after 60 s,
   it looks at every armed wait. *)
FullCheck ==
  /\ LookAt(Armed, row)
  /\ UNCHANGED <<session, call, reading, due, pending, given, end, left>>

-----------------------------------------------------------------------------
(* Arming, cancelling, polling.                                            *)

Quiet == [lines |-> 0, relaunches |-> 0]

(* Ids are random: which fresh one a call takes makes no difference. *)
Fresh == {i \in Id : row[i] = None /\ call[i] = None /\ told[i] = Quiet}

(* The waiter's own tool or agent is looked at across an await. *)
ArmCalled(i) ==
  /\ i \in Fresh /\ i = CHOOSE j \in Fresh : TRUE
  /\ Spend("arm")
  /\ \E by \in {"waiter", "client"}, ref \in Ref, key \in Key \union {None} :
       /\ by = "waiter" => session = "here"
       /\ by = "client" => key = None
       /\ call' = [call EXCEPT ![i] = [by |-> by, ref |-> ref, key |-> key]]
  /\ UNCHANGED <<session, row, reading, due, pending, poll, given, end, told>>

(* What the caller's key names already. *)
SameKey(c) == {j \in Armed : c.key # None /\ row[j].by = "waiter" /\ row[j].key = c.key}

(* Mutant: the limit was looked at before the await. *)
ArmableByKey(c) == SameKey(c) = {}

Armable(c) ==
  /\ SameKey(c) = {}
  /\ c.by = "waiter" => Cardinality(Armed \intersect OfWaiter) < MaxArmed

Inserted(c) ==
  [by |-> c.by, ref |-> c.ref, key |-> c.key, kept |-> FALSE, state |-> "armed", outcome |-> None]

(* The key, the limit and the insert after the await are one step, with a
   look at the new wait. *)
ArmGoesOn(i) ==
  /\ call[i] # None
  /\ call' = [call EXCEPT ![i] = None]
  /\ IF Armable(call[i]) THEN LookAt({i}, [row EXCEPT ![i] = Inserted(call[i])])
     ELSE UNCHANGED <<row, told, poll>>
  /\ UNCHANGED <<session, reading, due, pending, given, end, left>>

(* notMainAgent: the caller is a subagent. *)
ArmRefused(i) ==
  /\ call[i] # None /\ call[i].by = "waiter"
  /\ call' = [call EXCEPT ![i] = None]
  /\ UNCHANGED <<session, row, reading, due, pending, poll, given, end, told, left>>

Cancel(i) ==
  /\ i \in Armed
  /\ Spend("cancel")
  /\ row' = [row EXCEPT ![i] = Settled(row[i], "cancelled", None)]
  /\ poll' = [poll EXCEPT ![i] = IF @ = "open" THEN "called" ELSE @]
  /\ UNCHANGED <<session, call, reading, due, pending, given, end, told>>

(* waitFor: a wait still armed gets a listener in the step that read it. *)
Poll(i) ==
  /\ i \in Rows /\ poll[i] = "none"
  /\ Spend("poll")
  /\ IF i \in Armed THEN poll' = [poll EXCEPT ![i] = "open"] /\ UNCHANGED given
     ELSE given' = [given EXCEPT ![i] = row[i].state] /\ UNCHANGED poll
  /\ UNCHANGED <<session, call, row, reading, due, pending, end, told>>

State(i) == IF row[i] = None THEN None ELSE row[i].state

(* The listener was called: the client is given the wait as it is now. *)
PollAnswers(i) ==
  /\ poll[i] = "called"
  /\ poll' = [poll EXCEPT ![i] = "none"]
  /\ given' = [given EXCEPT ![i] = State(i)]
  /\ UNCHANGED <<session, call, row, reading, due, pending, end, told, left>>

(* Its seconds are up; the client asks again. *)
PollTimesOut(i) ==
  /\ poll[i] = "open"
  /\ poll' = [poll EXCEPT ![i] = "none"]
  /\ given' = [given EXCEPT ![i] = State(i)]
  /\ UNCHANGED <<session, call, row, reading, due, pending, end, told, left>>

-----------------------------------------------------------------------------
(* What is waited on, and time.                                            *)

(* A change of a thing pokes the waits on it. *)
Change(r) ==
  /\ Spend("change")
  /\ \E now \in {"not", "ready", "gone"} :
       now # reading[r] /\ reading[r] # "gone" /\ reading' = [reading EXCEPT ![r] = now]
  /\ pending' = pending \union {r}
  /\ UNCHANGED <<session, call, row, due, poll, given, end, told>>

DeadlinePasses(i) ==
  /\ i \in Armed \ due
  /\ Spend("deadline")
  /\ due' = due \union {i}
  /\ UNCHANGED <<session, call, row, reading, pending, poll, given, end, told>>

-----------------------------------------------------------------------------
(* The End of the waiter, and restarts.                                    *)

(* An End that is to keep the waits takes its snapshot across an await. *)
EndCalled(e) ==
  /\ end[e].step = "idle" /\ session = "here"
  /\ e = CHOOSE f \in EndCall : end[f].step = "idle"     \* any: they are alike
  /\ Spend("end")
  /\ \E keep \in BOOLEAN :
       LET snapshot == keep /\ Armed \intersect OfWaiter # {}
       IN end' = [end EXCEPT ![e] = [step |-> IF snapshot THEN "snapshot" ELSE "deleting",
                                     keep |-> keep, kept |-> {}]]
  /\ UNCHANGED <<session, call, row, reading, due, pending, poll, given, told>>

(* keep: every armed wait of the session outlives it, without its key. *)
EndKeeps(e) ==
  /\ end[e].step = "snapshot"
  /\ LET kept == Armed \intersect OfWaiter
     IN /\ row' = [i \in Id |-> IF i \in kept THEN [row[i] EXCEPT !.kept = TRUE, !.key = None]
                                ELSE row[i]]
        /\ end' = [end EXCEPT ![e].step = "deleting", ![e].kept = kept]
  /\ UNCHANGED <<session, call, reading, due, pending, poll, given, told, left>>

(* The session is deleted: its waits go, the kept ones lose their waiter. *)
EndDeletes(e) ==
  /\ end[e].step = "deleting" /\ session = "here"
  /\ session' = "ended"
  /\ end' = [end EXCEPT ![e].step = "ended"]
  /\ row' = [i \in Id |-> IF i \notin OfWaiter THEN row[i]
                          ELSE IF row[i].kept THEN [row[i] EXCEPT !.by = "nobody"]
                          ELSE None]
  /\ UNCHANGED <<call, reading, due, pending, poll, given, told, left>>

(* busy, blocked, stale or absent: an End that kept waits takes the marks of
   a session still there back. *)
EndFails(e) ==
  /\ end[e].step = "deleting"
  /\ end' = [end EXCEPT ![e].step = "refused"]
  /\ row' = [i \in Id |-> IF end[e].kept # {} /\ session = "here" /\ i \in OfWaiter
                          THEN [row[i] EXCEPT !.kept = FALSE] ELSE row[i]]
  /\ UNCHANGED <<session, call, reading, due, pending, poll, given, told, left>>

(* Tether stops and starts: its start looks at every armed wait. *)
Restart ==
  /\ Spend("restart")
  /\ call' = [i \in Id |-> None]
  /\ poll' = [i \in Id |-> "none"]
  /\ end' = [e \in EndCall |-> IF end[e].step \in {"snapshot", "deleting"}
                               THEN [end[e] EXCEPT !.step = "refused"] ELSE end[e]]
  /\ pending' = Ref
  /\ UNCHANGED <<session, row, reading, due, given, told>>

-----------------------------------------------------------------------------
Init ==
  /\ session = "here"
  /\ call = [i \in Id |-> None] /\ row = [i \in Id |-> None]
  /\ reading = [r \in Ref |-> "not"]
  /\ due = {} /\ pending = {}
  /\ poll = [i \in Id |-> "none"] /\ given = [i \in Id |-> None]
  /\ end = [e \in EndCall |-> [step |-> "idle", keep |-> FALSE, kept |-> {}]]
  /\ told = [i \in Id |-> Quiet]
  /\ left \in Budgets

Service == Check \/ FullCheck \/ \E i \in Id : ArmGoesOn(i) \/ PollAnswers(i) \/ PollTimesOut(i)
Outside ==
  \/ \E i \in Id : ArmCalled(i) \/ ArmRefused(i) \/ Cancel(i) \/ Poll(i) \/ DeadlinePasses(i)
  \/ \E r \in Ref : Change(r)
  \/ Restart
Ends == \E e \in EndCall : EndCalled(e) \/ EndKeeps(e) \/ EndDeletes(e) \/ EndFails(e)

Next == Service \/ Outside \/ Ends

Spec == Init /\ [][Next]_vars

(* The timer is set again by every look, and a listener's promise runs. *)
FairSpec == Spec /\ WF_vars(FullCheck) /\ \A i \in Id : WF_vars(PollAnswers(i))

-----------------------------------------------------------------------------
TypeOK ==
  /\ session \in {"here", "ended"}
  /\ call \in [Id -> Call \union {None}] /\ row \in [Id -> Row \union {None}]
  /\ reading \in [Ref -> {"not", "ready", "gone"}]
  /\ due \subseteq Id /\ pending \subseteq Ref
  /\ poll \in [Id -> {"none", "open", "called"}]
  /\ given \in [Id -> {None, "armed", "fired", "timed_out", "cancelled"}]
  /\ end \in [EndCall -> End]
  /\ told \in [Id -> [lines: 0..1, relaunches: 0..1]]
  /\ \A i \in Rows : row[i].state # "armed" \/ row[i].kept \/ row[i].by # "waiter"
                     => row[i].key = None

(* The limit and the keys of a session's armed waits hold, though the arm
   that checks them awaited the look at its caller: no other call of the same
   waiter, no cancel and no kept wait comes between the check and the insert
   (WaitService.arm; the unique index waits_key). *)
KeysAndLimit ==
  /\ TypeOK
  /\ Cardinality(Armed \intersect OfWaiter) <= MaxArmed
  /\ \A i, j \in Armed \intersect OfWaiter : i # j /\ row[i].key = row[j].key => row[i].key = None

(* Every outcome is told once and only as its waiter can still hear it: what
   is ready is one line to the waiter or, kept, one relaunch of its
   conversation, never both and never neither, whatever looks, marks of an
   End, failed Ends and restarts come between; armed and cancelled waits tell
   nothing, and a relaunch is only for a condition that was met
   (WaitService.fire, WaitStore.settle, keep, unkeep). *)
ToldOnce ==
  \A i \in Id :
    LET lines == told[i].lines
        relaunches == told[i].relaunches
    IN /\ lines + relaunches <= 1
       /\ i \in Rows /\ row[i].state \in {"armed", "cancelled"} => lines + relaunches = 0
       /\ i \in Rows /\ row[i].by # "client" /\ row[i].outcome = "until" => lines + relaunches = 1
       /\ i \in Rows /\ relaunches = 1 => row[i].outcome = "until"
       /\ i \in Rows /\ poll[i] = "open" => row[i].state = "armed"

(* What an End answered it kept is still there: neither the delete of the
   session nor another End's failure takes a kept wait away (lifecycle-api's
   End with keepWakes; docs/api-v1.md: "its armed waits are kept"). *)
KeptOutlives == \A e \in EndCall : end[e].step = "ended" => end[e].kept \subseteq Rows

(* "A waiter's waits end with it" (docs/api-v1.md): no wait of an ended
   session is armed unless it is kept. *)
WaitsEndWithTheirWaiter == session = "ended" => Armed \intersect OfWaiter = {}

(* A wait whose condition is met, or which is past its deadline, is settled,
   or the condition passes again: with a poke that looked too early, after a
   restart and for the waits kept past their waiter, which nothing pokes for
   (WaitService.schedule, check). *)
ReadyIsSettled ==
  \A i \in Id : (i \in Armed /\ Verdict(i, row[i]) # None)
                  ~> (i \notin Armed \/ Verdict(i, row[i]) = None)

=============================================================================
