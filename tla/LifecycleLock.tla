---------------------------- MODULE LifecycleLock ----------------------------
(***************************************************************************)
(* Who works on which session, and when (packages/tether/src/lifecycle):   *)
(* the per-session lifecycle lock and its callers - terminal attach, which *)
(* waits, the operations that try once, the coalesced End, which waits at  *)
(* most RETIRE_WAIT_MS - and the pane-exit queue, which reconciles every   *)
(* session of one tmux server after a pane of it exited.  SessionLifecycle *)
(* says what an operation does under the lock; here it begins, may change  *)
(* what is left of the session, and ends.                                  *)
(*                                                                         *)
(* A step is what the daemon does between two awaits.  A queued pass lists *)
(* its rows and looks at the first lock one step after it was queued: the  *)
(* code does so at once, which is the schedule where nothing intervenes.   *)
(* All sessions are bound to one tmux server; catalog order is their       *)
(* number.  A daemon that quits is a daemon that crashes.                  *)
(***************************************************************************)
EXTENDS Integers

CONSTANTS Sessions,     \* the sessions of the server, numbered
          Callers,      \* the requests of POST /v1/sessions/:id/end
          None,         \* no caller
          MaxOps,       \* bound: operations begun, End apart
          MaxFaults,    \* bound: queries, cleanups and watches that fail
          MaxCrashes,   \* bound: restarts of the daemon
          Spent         \* scenarios: what of the three bounds is used up at the start

Holders == {"free", "attach", "operation", "recovery", "reconcile", "startup"}

ASSUME LockAssumption ==
  /\ Sessions \subseteq Int
  /\ None \notin Callers
  /\ Callers \cap Holders = {}
  /\ MaxOps \in Nat /\ MaxFaults \in Nat /\ MaxCrashes \in Nat
  /\ Spent \subseteq (0..MaxOps) \X (0..MaxFaults) \X (0..MaxCrashes)

VARIABLES session,   \* what is left of each session
          owner,     \* who holds its lifecycle lock; a caller: its End
          attach,    \* its terminal attach (sessionStartPromises: one at a time)
          pending,   \* CoalescedLifecycleIntent: an End was asked for
          request,   \* retireRequests: the caller to answer
          answer,    \* what each caller of End was told
          queue,     \* the pane-exit queue of the server, and its pass
          watch,     \* the watcher of the marker directory
          startup,   \* startup reconciliation
          begun, faults, crashes      \* used of MaxOps, MaxFaults, MaxCrashes

vars == <<session, owner, attach, pending, request, answer, queue, watch,
          startup, begun, faults, crashes>>
endVars == <<pending, request, answer>>
lockVars == <<owner, attach, endVars>>
bounds == <<begun, faults, crashes>>

Free(s) == owner[s] = "free"
Listed == {s \in Sessions : session[s] # "deleted"}
Up == startup.pc = "up"
First(S, s) == s \in S /\ \A t \in S : s <= t

Begin == Up /\ begun < MaxOps /\ begun' = begun + 1
Fault == faults < MaxFaults /\ faults' = faults + 1

(* CoalescedLifecycleIntent.active, from take to complete: an End holds    *)
(* the lock.                                                               *)
Active(s) == owner[s] \in Callers

-----------------------------------------------------------------------------
(* PaneExitReconciliationQueue.                                            *)

QueueState ==
  [pc         : {"idle", "list", "check", "settle", "reconcile", "verify"},
   todo       : SUBSET Sessions,    \* rows its loop has still to visit
   dirty      : BOOLEAN,
   blockers   : SUBSET Sessions,    \* deferred; history: for which locks
   unresolved : BOOLEAN]

(* Without a pass in flight there is no follow-up to start.                *)
Queue == {q \in QueueState : q.pc = "idle" => q.todo = {} /\ ~q.dirty}

NoQueue == [pc |-> "idle", todo |-> {}, dirty |-> FALSE, blockers |-> {},
            unresolved |-> FALSE]

Queued(q) ==
  IF q.pc = "idle" THEN [q EXCEPT !.pc = "list"] ELSE [q EXCEPT !.dirty = TRUE]

Observed(q) == Queued([q EXCEPT !.unresolved = TRUE])

Retried(q) == IF q.unresolved THEN Queued(q) ELSE q

Deferred(q, s) == [q EXCEPT !.blockers = @ \cup {s}]

DeferralReleased(q) ==
  IF q.blockers # {} THEN Queued([q EXCEPT !.blockers = {}]) ELSE q

(* Mutant: a resolved pass also settles the exits observed during it.      *)
ResolvedHasty(q, ok) ==
  [q EXCEPT !.pc = IF q.dirty THEN "list" ELSE "idle", !.todo = {}, !.dirty = FALSE,
            !.unresolved = ~(ok /\ q.blockers = {})]

(* The pass is over with this result; a dirty one is followed by another.  *)
Resolved(q, ok) ==
  [q EXCEPT !.pc = IF q.dirty THEN "list" ELSE "idle",
            !.todo = {},
            !.dirty = FALSE,
            !.unresolved = ~(ok /\ ~q.dirty /\ q.blockers = {})]

-----------------------------------------------------------------------------
(* Release of the lock of s, by an operation that told callers `told' and  *)
(* leaves the queue at q: waiters are woken; a pending End takes the lock  *)
(* at once or, when its caller has given up, is forgotten; a deferral is   *)
(* followed up.                                                            *)

(* Mutant: the waiters are not resolved.                                   *)
StillWaiting(a) == IF a = "held" THEN "none" ELSE a

Woken(a) == IF a = "waiting" THEN "woken" ELSE IF a = "held" THEN "none" ELSE a

(* Mutant: a pending End is left for a later release.                      *)
ReleaseUndrained(s, q, told) ==
  /\ attach' = [attach EXCEPT ![s] = Woken(@)]
  /\ owner' = [owner EXCEPT ![s] = "free"]
  /\ answer' = told
  /\ queue' = DeferralReleased(q)
  /\ UNCHANGED <<pending, request>>

ReleaseTelling(s, q, told) ==
  LET c == IF s \in pending THEN request[s] ELSE None IN
  /\ attach' = [attach EXCEPT ![s] = Woken(@)]
  /\ pending' = pending \ {s}
  /\ owner' = [owner EXCEPT ![s] = IF c = None THEN "free" ELSE c]
  /\ request' = IF c = None THEN request ELSE [request EXCEPT ![s] = None]
  /\ answer' = IF c = None THEN told ELSE [told EXCEPT ![c] = "served"]
  /\ queue' = DeferralReleased(q)

Release(s, q) == ReleaseTelling(s, q, answer)

(* A resolved waiter runs before any other task can ask for the lock.      *)
Available(s) == Free(s) /\ attach[s] # "woken"

Acquire(s, who) == owner' = [owner EXCEPT ![s] = who]

-----------------------------------------------------------------------------
(* The watcher of the marker directory.  The marker stays on disk; only    *)
(* the event that announced it is consumed.                                *)

Emitted(w) == [w EXCEPT !.marker = TRUE, !.event = w.on]

Seen(q) == IF watch.marker THEN Observed(q) ELSE q

(* ensurePaneExitFsWatcher: the watcher w runs, cannot be started, or is   *)
(* started, and the queue is left at q, or at started.                     *)
Ensure(w, q, started) ==
  \/ w.on /\ watch' = w /\ queue' = q /\ UNCHANGED faults
  \/ ~w.on /\ watch' = w /\ queue' = q /\ Fault
  \/ ~w.on /\ watch' = [w EXCEPT !.on = TRUE] /\ queue' = started /\ UNCHANGED faults

DeliverEvent ==
  /\ watch.on /\ watch.event
  /\ watch' = [watch EXCEPT !.event = FALSE]
  /\ queue' = Observed(queue)
  /\ UNCHANGED <<session, lockVars, startup, bounds>>

(* The watcher is revived once in the life of the daemon.                  *)
WatcherFails ==
  /\ watch.on /\ Fault
  /\ watch' = [watch EXCEPT !.on = FALSE, !.event = FALSE,
                            !.revival = IF @ = "unused" THEN "due" ELSE @]
  /\ UNCHANGED <<session, lockVars, queue, startup, begun, crashes>>

WatcherRevival ==
  /\ watch.revival = "due"
  /\ Ensure([watch EXCEPT !.revival = "used"], queue, Seen(queue))
  /\ UNCHANGED <<session, lockVars, startup, begun, crashes>>

-----------------------------------------------------------------------------
(* Terminal attach: ensureSessionSerialized.                               *)

(* retryUnresolvedPaneExitReconciliation, under the lock of the session.   *)
Again(q) == IF watch.marker THEN Observed(q) ELSE Retried(q)
RetryUnresolved == Ensure(watch, Again(queue), Again(Seen(queue)))

AttachOwned(s) ==
  /\ Acquire(s, "attach")
  /\ attach' = [attach EXCEPT ![s] = "held"]

AttachWaits(s) ==
  /\ attach' = [attach EXCEPT ![s] = "waiting"]
  /\ UNCHANGED <<owner, queue, watch, faults>>

AttachCall(s) ==
  /\ Begin /\ s \in Listed /\ attach[s] = "none"
  /\ \/ Free(s) /\ AttachOwned(s) /\ RetryUnresolved
     \/ ~Free(s) /\ AttachWaits(s)
  /\ UNCHANGED <<session, endVars, startup, crashes>>

(* The session may have been deleted while it waited.                      *)
AttachRetry(s) ==
  /\ attach[s] = "woken"
  /\ \/ Free(s) /\ s \in Listed /\ AttachOwned(s) /\ RetryUnresolved
     \/ Free(s) /\ s \notin Listed /\ AttachOwned(s) /\ UNCHANGED <<queue, watch, faults>>
     \/ ~Free(s) /\ AttachWaits(s)
  /\ UNCHANGED <<session, endVars, startup, begun, crashes>>

AttachFinish(s) ==
  /\ owner[s] = "attach"
  /\ Release(s, queue)
  /\ UNCHANGED <<session, watch, startup, bounds>>

(* sessionDiagnostics looks for an unresolved exit as well, without a lock.*)
Diagnose ==
  /\ Begin /\ Listed # {} /\ RetryUnresolved
  /\ UNCHANGED <<session, lockVars, startup, crashes>>

-----------------------------------------------------------------------------
(* Operations that try the lock once: replacement, terminal input, an      *)
(* administrative mutation, each lock of a coordinator transfer.  One that *)
(* finds it held answers busy.                                             *)

OperationBegins(s) ==
  /\ Begin /\ s \in Listed /\ Available(s) /\ Acquire(s, "operation")
  /\ UNCHANGED <<session, attach, endVars, queue, watch, startup, faults, crashes>>

(* A replaced pane exits.                                                  *)
OperationFinish(s) ==
  /\ owner[s] = "operation"
  /\ watch' \in {watch, Emitted(watch)}
  /\ Release(s, queue)
  /\ UNCHANGED <<session, startup, bounds>>

(* reconcileManagedWidget under the lock: what an exited pane left is      *)
(* drained and its scope cleared, unless a query or the cleanup fails.     *)
Reconciled(s) ==
  \/ /\ session' = [session EXCEPT ![s] = IF @ = "exited" THEN "settled" ELSE @]
     /\ UNCHANGED faults
  \/ session[s] = "exited" /\ Fault /\ UNCHANGED session

(* Crash recovery: reconcileSessionNow.                                    *)
RecoveryBegins(s) ==
  /\ Begin /\ s \in Listed
  /\ \/ Available(s) /\ Acquire(s, "recovery") /\ UNCHANGED queue
     \/ ~Free(s) /\ queue' = Deferred(queue, s) /\ UNCHANGED owner
  /\ UNCHANGED <<session, attach, endVars, watch, startup, faults, crashes>>

RecoveryFinish(s) ==
  /\ owner[s] = "recovery"
  /\ Reconciled(s) /\ Release(s, queue)
  /\ UNCHANGED <<watch, startup, begun, crashes>>

-----------------------------------------------------------------------------
(* End.                                                                    *)

EndCalled(c) == Up /\ answer[c] = "idle"

Answered(c, what) == answer' = [answer EXCEPT ![c] = what]

EndRefused(c, s) ==
  /\ EndCalled(c) /\ s \in Listed /\ request[s] # None
  /\ Answered(c, "busy")
  /\ UNCHANGED <<session, owner, attach, pending, request, queue, watch, startup, bounds>>

EndTaken(c, s) ==
  /\ EndCalled(c) /\ s \in Listed /\ request[s] = None /\ Available(s)
  /\ Acquire(s, c) /\ Answered(c, "served")
  /\ pending' = pending \ {s}
  /\ UNCHANGED <<session, attach, request, queue, watch, startup, bounds>>

EndWaits(c, s) ==
  /\ EndCalled(c) /\ s \in Listed /\ request[s] = None /\ ~Free(s)
  /\ request' = [request EXCEPT ![s] = c] /\ Answered(c, "waiting")
  /\ pending' = IF Active(s) THEN pending ELSE pending \cup {s}
  /\ UNCHANGED <<session, owner, attach, queue, watch, startup, bounds>>

(* Mutant: the request stays beside its intent.                            *)
EndTimeoutKept(s) ==
  /\ request[s] # None /\ answer[request[s]] = "waiting"
  /\ Answered(request[s], "busy")
  /\ UNCHANGED <<session, owner, attach, pending, request, queue, watch, startup, bounds>>

(* RETIRE_WAIT_MS is over.  The coalesced intent stays behind.             *)
EndTimeout(s) ==
  /\ request[s] # None
  /\ Answered(request[s], "busy")
  /\ request' = [request EXCEPT ![s] = None]
  /\ UNCHANGED <<session, owner, attach, pending, queue, watch, startup, bounds>>

(* The row is deleted once its pane and scopes are gone; otherwise End     *)
(* answers absent, stale or blocked.                                       *)
EndFinish(s) ==
  /\ Active(s)
  /\ \/ /\ session[s] # "running"
        /\ session' = [session EXCEPT ![s] = "deleted"]
        /\ ReleaseTelling(s, queue, [answer EXCEPT ![owner[s]] = "ended"])
     \/ /\ UNCHANGED session
        /\ ReleaseTelling(s, queue, [answer EXCEPT ![owner[s]] = "blocked"])
  /\ UNCHANGED <<watch, startup, bounds>>

-----------------------------------------------------------------------------
(* The pass: handlePaneExitWatcherCompletion.                              *)

Loop(pc) == queue.pc = pc
Visited(s, pc) == [queue EXCEPT !.pc = pc, !.todo = @ \ {s}]

PassLists ==
  /\ Loop("list")
  /\ queue' = [queue EXCEPT !.pc = "check", !.todo = Listed]
  /\ UNCHANGED <<session, lockVars, watch, startup, bounds>>

(* Mutant: a held session is passed over.                                  *)
PassSkips(s) ==
  /\ Loop("check") /\ First(queue.todo, s)
  /\ queue' = IF Free(s) THEN [queue EXCEPT !.pc = "settle"] ELSE Visited(s, "check")
  /\ UNCHANGED <<session, lockVars, watch, startup, bounds>>

(* A held session is deferred; the server is settled for a free one.       *)
PassChecks(s) ==
  /\ Loop("check") /\ First(queue.todo, s)
  /\ queue' = IF Free(s) THEN [queue EXCEPT !.pc = "settle"]
                         ELSE Deferred(Visited(s, "check"), s)
  /\ UNCHANGED <<session, lockVars, watch, startup, bounds>>

PassAcquires(s) ==
  /\ Loop("settle") /\ First(queue.todo, s)
  /\ \/ /\ Available(s) /\ Acquire(s, "reconcile")
        /\ queue' = [queue EXCEPT !.pc = "reconcile"]
     \/ ~Free(s) /\ queue' = Deferred(Visited(s, "check"), s) /\ UNCHANGED owner
  /\ UNCHANGED <<session, attach, endVars, watch, startup, bounds>>

PassReconciles(s) ==
  /\ Loop("reconcile") /\ owner[s] = "reconcile"
  /\ Reconciled(s) /\ Release(s, Visited(s, "check"))
  /\ UNCHANGED <<watch, startup, begun, crashes>>

PassListsAgain ==
  /\ Loop("check") /\ queue.todo = {}
  /\ queue' = [queue EXCEPT !.pc = "verify", !.todo = Listed]
  /\ UNCHANGED <<session, lockVars, watch, startup, bounds>>

(* The second loop gives up at a row that is held, exited but not cleared, *)
(* or in an unknown state.                                                 *)
PassVerifies(s) ==
  /\ Loop("verify") /\ First(queue.todo, s)
  /\ \/ /\ ~Free(s) \/ session[s] = "exited"
        /\ queue' = Resolved(queue, FALSE) /\ UNCHANGED faults
     \/ Free(s) /\ queue' = Resolved(queue, FALSE) /\ Fault
     \/ /\ Free(s) /\ session[s] # "exited"
        /\ queue' = Visited(s, "verify") /\ UNCHANGED faults
  /\ UNCHANGED <<session, lockVars, watch, startup, begun, crashes>>

PassEnds ==
  /\ Loop("verify") /\ queue.todo = {}
  /\ queue' = Resolved(queue, TRUE)
  /\ UNCHANGED <<session, lockVars, watch, startup, bounds>>

(* An unexpected exception outside a reconciliation.                       *)
PassThrows ==
  /\ queue.pc \in {"check", "settle", "verify"} /\ Fault
  /\ queue' = Resolved(queue, FALSE)
  /\ UNCHANGED <<session, lockVars, watch, startup, begun, crashes>>

Pass ==
  \/ PassLists \/ PassListsAgain \/ PassEnds
  \/ \E s \in Sessions : \/ PassChecks(s) \/ PassAcquires(s)
                         \/ PassReconciles(s) \/ PassVerifies(s)

-----------------------------------------------------------------------------
(* Startup: the watcher first, then every row in turn; the API serves when *)
(* it is over.  The pass that a retained marker starts runs beside it.     *)

StartupWatch ==
  /\ startup.pc = "watch"
  /\ Ensure(watch, queue, Seen(queue))
  /\ startup' = [pc |-> "rows", todo |-> Listed]
  /\ UNCHANGED <<session, lockVars, begun, crashes>>

StartupAcquires(s) ==
  /\ startup.pc = "rows" /\ First(startup.todo, s)
  /\ \/ /\ Free(s) /\ Acquire(s, "startup")
        /\ startup' = [startup EXCEPT !.pc = "reconcile"] /\ UNCHANGED queue
     \/ /\ ~Free(s) /\ queue' = Deferred(queue, s)
        /\ startup' = [startup EXCEPT !.todo = @ \ {s}] /\ UNCHANGED owner
  /\ UNCHANGED <<session, attach, endVars, watch, bounds>>

StartupReconciles(s) ==
  /\ startup.pc = "reconcile" /\ owner[s] = "startup"
  /\ Reconciled(s) /\ Release(s, queue)
  /\ startup' = [pc |-> "rows", todo |-> startup.todo \ {s}]
  /\ UNCHANGED <<watch, begun, crashes>>

StartupEnds ==
  /\ startup.pc = "rows" /\ startup.todo = {}
  /\ startup' = [startup EXCEPT !.pc = "up"]
  /\ UNCHANGED <<session, lockVars, queue, watch, bounds>>

Startup ==
  \/ StartupWatch \/ StartupEnds
  \/ \E s \in Sessions : StartupAcquires(s) \/ StartupReconciles(s)

-----------------------------------------------------------------------------
(* The host, and the daemon's death.  Markers and sessions outlive it.     *)

(* The pane's process exits, by itself or because an operation killed it.  *)
SessionExits(s) ==
  /\ session[s] = "running"
  /\ session' = [session EXCEPT ![s] = "exited"]
  /\ watch' = Emitted(watch)
  /\ UNCHANGED <<lockVars, queue, startup, bounds>>

Crash ==
  /\ crashes < MaxCrashes /\ crashes' = crashes + 1
  /\ owner' = [s \in Sessions |-> "free"]
  /\ attach' = [s \in Sessions |-> "none"]
  /\ pending' = {}
  /\ request' = [s \in Sessions |-> None]
  /\ answer' = [c \in Callers |-> IF answer[c] \in {"waiting", "served"} THEN "lost"
                                  ELSE answer[c]]
  /\ queue' = NoQueue
  /\ watch' = [on |-> FALSE, event |-> FALSE, marker |-> watch.marker, revival |-> "unused"]
  /\ startup' = [pc |-> "watch", todo |-> {}]
  /\ UNCHANGED <<session, begun, faults>>

Init ==
  /\ session = [s \in Sessions |-> "running"]
  /\ owner = [s \in Sessions |-> "free"]
  /\ attach = [s \in Sessions |-> "none"]
  /\ pending = {}
  /\ request = [s \in Sessions |-> None]
  /\ answer = [c \in Callers |-> "idle"]
  /\ queue = NoQueue
  /\ watch = [on |-> FALSE, event |-> FALSE, marker |-> FALSE, revival |-> "unused"]
  /\ startup = [pc |-> "watch", todo |-> {}]
  /\ \E u \in Spent : begun = u[1] /\ faults = u[2] /\ crashes = u[3]

-----------------------------------------------------------------------------
Finish(s) == AttachFinish(s) \/ OperationFinish(s) \/ RecoveryFinish(s) \/ EndFinish(s)

Call ==
  \/ Diagnose
  \/ \E s \in Sessions : AttachCall(s) \/ OperationBegins(s) \/ RecoveryBegins(s)
  \/ \E c \in Callers, s \in Sessions : EndRefused(c, s) \/ EndTaken(c, s) \/ EndWaits(c, s)

Locked == \E s \in Sessions : AttachRetry(s) \/ Finish(s) \/ EndTimeout(s)

Watching == DeliverEvent \/ WatcherRevival

Next ==
  \/ Call \/ Locked \/ Watching \/ Pass \/ PassThrows \/ Startup
  \/ WatcherFails \/ Crash \/ \E s \in Sessions : SessionExits(s)

(* The event loop runs every task that can run; timers fire.               *)
Fairness ==
  /\ WF_vars(Pass) /\ WF_vars(Startup) /\ WF_vars(DeliverEvent) /\ WF_vars(WatcherRevival)
  /\ \A s \in Sessions : WF_vars(AttachRetry(s)) /\ WF_vars(Finish(s)) /\ WF_vars(EndTimeout(s))

Spec == Init /\ [][Next]_vars
FairSpec == Spec /\ Fairness

-----------------------------------------------------------------------------
TypeOK ==
  /\ session \in [Sessions -> {"running", "exited", "settled", "deleted"}]
  /\ owner \in [Sessions -> Holders \cup Callers]
  /\ attach \in [Sessions -> {"none", "waiting", "woken", "held"}]
  /\ pending \subseteq Sessions
  /\ request \in [Sessions -> Callers \cup {None}]
  /\ answer \in [Callers -> {"idle", "waiting", "served", "ended", "blocked", "busy", "lost"}]
  /\ queue \in Queue
  /\ watch \in [on : BOOLEAN, event : BOOLEAN, marker : BOOLEAN,
                revival : {"unused", "due", "used"}]
  /\ startup \in [pc : {"watch", "rows", "reconcile", "up"}, todo : SUBSET Sessions]
  /\ begun \in 0..MaxOps /\ faults \in 0..MaxFaults /\ crashes \in 0..MaxCrashes

(* CoalescedLifecycleIntent: "a competing reconciliation cannot lose it".  *)
(* While an End is asked for, something else holds the lock - so no attach *)
(* and no reconciliation can take it before the End does - and that is not *)
(* an End itself.                                                          *)
IntentServed == \A s \in pending : ~Free(s) /\ ~Active(s)

(* An attach sleeps only while the lock it waits for is held: no release   *)
(* goes by without waking it.                                              *)
WaiterNotForgotten ==
  \A s \in Sessions : attach[s] = "waiting" => ~Free(s)

(* A follow-up pass that was deferred has an operation still to run that   *)
(* will queue it: every session it was deferred for is still held.         *)
DeferralHeld == \A s \in queue.blockers : ~Free(s)

(* Whoever releases a lock hands it on: to the End that is asked for, to   *)
(* the attaches that wait for it, and to the pass that was deferred to it. *)
Handover == IntentServed /\ WaiterNotForgotten /\ DeferralHeld

(* endSession: "otherwise gets busy with nothing applied".  A caller that  *)
(* was told busy is not, and will not be, the one whose End runs; no two   *)
(* sessions are ended for one caller.                                      *)
BusyAppliesNothing ==
  \A c \in Callers : answer[c] = "busy" =>
    \A s \in Sessions : request[s] # c /\ owner[s] # c

(* "The marker is level-triggered evidence": an exited session that was    *)
(* not cleaned up stays known - an event is on its way, the queue is not   *)
(* resolved - so the next trigger retries it, unless nobody is watching.   *)
ExitRemembered ==
  Up /\ watch.on =>
    \A s \in Sessions : session[s] = "exited" => watch.event \/ queue.unresolved

(* Every caller of End is answered.                                        *)
EndAnswered ==
  \A c \in Callers : answer[c] \in {"waiting", "served"} ~> answer[c] \notin {"waiting", "served"}

(* An attach that waits gets the lock, also behind Ends and passes.        *)
AttachProceeds ==
  \A s \in Sessions : attach[s] \in {"waiting", "woken"} ~> attach[s] \in {"held", "none"}

(* Both who may wait for a lock are served.                                *)
LockIsServed == EndAnswered /\ AttachProceeds

(* A detached exit is cleaned up without anyone asking, whoever held the   *)
(* session meanwhile and though Tether restarts, where no query, cleanup   *)
(* or watch fails.                                                         *)
ExitReconciled ==
  faults = MaxFaults => \A s \in Sessions : session[s] = "exited" ~> session[s] # "exited"

(* docs/api-v1.md on busy: "Another lifecycle operation holds the session".*)
BusyMeansHeld ==
  [][\A s \in Sessions : request[s] # None /\ answer'[request[s]] = "busy" => ~Free(s)]_vars
=============================================================================
