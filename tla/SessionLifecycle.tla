-------------------------- MODULE SessionLifecycle --------------------------
(***************************************************************************)
(* The lifecycle of ONE Tether session (packages/tether/src/lifecycle):    *)
(* its durable catalog row, the tmux servers, pane and systemd scopes that *)
(* hold its processes on the host, and the operations that move it under   *)
(* the per-session lifecycle lock - attach, replace, End and               *)
(* reconciliation - with the daemon crashing between any two of their      *)
(* steps.                                                                  *)
(*                                                                         *)
(* A step of an operation is what the code does between two awaits (or     *)
(* between a catalog write and the command that follows it).  The host     *)
(* moves between any two steps.  A command may take effect and still       *)
(* report an error; a query may fail; both are choices of the action.      *)
(*                                                                         *)
(* Simplifications.  A unit name and its invocation id are one scope id,   *)
(* a tmux session id and its sole pane id are one session id.  A gate      *)
(* process is numbered when tmux forks it; the session it opens and the    *)
(* scope systemd places it in carry that number.  The launch nonce, a      *)
(* fresh 128-bit value per promotion, is the number of the gate process    *)
(* that was promoted.  A command that timed out has, or has not, taken     *)
(* effect when its timeout is reported.  Legacy sessions, sessions of      *)
(* another instance, and panes the user splits or respawns by hand are     *)
(* left out.                                                               *)
(***************************************************************************)
EXTENDS Naturals

CONSTANTS MaxPid,      \* bound: gate processes ever forked for the session
          MaxServer,   \* bound: tmux server generations
          Fences       \* whether callers of End name a generation

ASSUME BoundsAssumption == /\ MaxPid \in Nat
                           /\ MaxServer \in Nat
                           /\ Fences \subseteq BOOLEAN

VARIABLES row,      \* the session's row in the catalog (durable)
          phase,    \* the catalog's phase of each tmux server generation (durable)
          host,     \* what each tmux server generation really is
          pane,     \* the session's pane on each tmux server
          left,     \* processes of a scope other than a pane's root process
          nextPid,  \* the number of the next gate process
          op,       \* the operation that holds the lifecycle lock
          endReq,   \* an End request that waits for the lock
          ready     \* startup is over: the API serves

vars == <<row, phase, host, pane, left, nextPid, op, endReq, ready>>
hostVars == <<host, pane, left, nextPid>>
daemonVars == <<endReq, ready>>

Pids == 1..MaxPid
Servers == 1..MaxServer

-----------------------------------------------------------------------------
(* The catalog row.  0 is a NULL column.                                   *)

Row == [listed  : BOOLEAN,              \* FALSE: the row was deleted
        srv     : 0..MaxServer,         \* tmux_server_id; 0 is 'unallocated'
        sess    : 0..MaxPid,            \* tmux_session_id and pane_id
        scope   : 0..MaxPid,            \* scope_unit and scope_invocation_id
        pending : 0..MaxPid,            \* pending_scope_unit and its invocation
        ver     : {0, 1},               \* lifecycle_version
        launch  : {"none", "gated", "dispatched"},
        nonce   : 0..MaxPid]            \* launch_nonce

NewRow == [listed |-> TRUE, srv |-> 0, sess |-> 0, scope |-> 0, pending |-> 0,
           ver |-> 0, launch |-> "none", nonce |-> 0]
NoRow == [NewRow EXCEPT !.listed = FALSE]

ReconciledAbsent(r) == r.sess = 0 /\ r.launch = "none" /\ r.nonce = 0

NeverAllocated(r) ==
  r.srv = 0 /\ r.scope = 0 /\ r.pending = 0 /\ ReconciledAbsent(r)

(* Mutant: the server column alone is released.                            *)
UnboundServerOnly(r) == [r EXCEPT !.srv = 0]

(* clearReconciledDeadTmuxServerBinding, after the identity was cleared.   *)
Unbound(r) == [NewRow EXCEPT !.ver = r.ver]

-----------------------------------------------------------------------------
(* The host.                                                               *)

Work == {"launched", "typed"}   \* started by a launch line, or by the user at a gate

Pane == [pid : 0..MaxPid, sess : 0..MaxPid, scope : 0..MaxPid,
         root : {"gate"} \cup Work,
         sent : BOOLEAN]                \* history: it was sent a launch line

NewPane(p, s, sc) ==
  [pid |-> p, sess |-> s, scope |-> sc, root |-> "gate", sent |-> FALSE]
NoPane == NewPane(0, 0, 0)

(* What is left in the scopes once the root process of pane p is gone: a   *)
(* launched one may leave detached descendants.                            *)
Residue(p) ==
  {left} \cup (IF p.root = "launched" /\ p.scope # 0
               THEN {[left EXCEPT ![p.scope] = @ \cup {"launched"}]} ELSE {})

Live(g) == host[g] = "up" /\ pane[g].pid # 0

(* The roster of the row's server lists its session: by stable id once the *)
(* row has one, by name before.                                            *)
Present(r) == r.srv # 0 /\ Live(r.srv) /\ r.sess \in {0, pane[r.srv].sess}

(* What internalSessionState may answer for row r.                         *)
Answers(r, v) ==
  \/ v = "unknown" /\ ~r.listed
  \/ v = "unknown" /\ r.srv # 0 /\ phase[r.srv] \in {"provisioning", "active"}
  \/ v = "present" /\ r.srv # 0 /\ phase[r.srv] = "active" /\ Present(r)
  \/ /\ v = "absent" /\ r.listed
     /\ \/ r.srv = 0
        \/ r.srv # 0 /\ phase[r.srv] = "dead"
        \/ r.srv # 0 /\ phase[r.srv] = "active" /\ ~Present(r)

(* The observation tombstones a server whose exact process is gone.        *)
PhaseSeen(r, v) ==
  IF v = "absent" /\ r.srv # 0 /\ host[r.srv] = "down"
  THEN [phase EXCEPT ![r.srv] = "dead"] ELSE phase

Verified(r) ==
  /\ r.ver = 1 /\ r.scope # 0 /\ r.sess # 0
  /\ Present(r) /\ pane[r.srv].scope = r.scope

(* What managedGateState may read of pane p: a failed read is ambiguous.   *)
GateReads(p, s) ==
  \/ s = "ambiguous"
  \/ s = "active-workload" /\ p.root # "gate"
  \/ s = "inert" /\ p.root = "gate" /\ p.scope # 0 /\ left[p.scope] = {}

Decision(gate, r, dispatchGate) ==
  IF gate = "ambiguous" THEN "blocked"
  ELSE IF gate = "active-workload" THEN "recovered"
  ELSE IF \/ r.pending # 0 /\ r.pending = r.scope
          \/ ~dispatchGate
          \/ r.launch = "dispatched" THEN "blocked-replay"
  ELSE IF r.launch = "gated" THEN "dispatch" ELSE "blocked"

-----------------------------------------------------------------------------
(* The operation that holds the lock.                                      *)

Kinds == {"none", "attach", "replace", "end", "reconcile"}
Steps == {"idle", "observe", "create", "spawn", "settle", "promote", "recover",
          "inspect", "regate", "mark", "recheck", "send", "after", "supersede",
          "setPending", "respawn", "stop", "kill", "stopped", "drain",
          "drained", "finalise"}

Operation ==
  [kind   : Kinds,
   pc     : Steps,
   exp    : Row,                    \* the row generation its CAS expects
   pid    : 0..MaxPid,              \* the gate it promoted or inspected
   fresh  : BOOLEAN,                \* it forked that gate itself
   former : 0..MaxPid,              \* replace: the scope being replaced
   inert  : BOOLEAN,                \* replace: the former pane was an inert gate
   proven : BOOLEAN,                \* replace: so is the one in the same scope
   target : 0..MaxPid,              \* the scope being drained
   then   : {"idle", "inspect", "setPending", "cleanup", "finalise"},
                                    \* what follows the drain
   saw    : 0..MaxPid,              \* End: the launch its caller knew of
   fenced : BOOLEAN]                \* End: the caller named a generation

(* Only a cleanup is followed by another look at the scopes left.          *)
Op == {o \in Operation : o.pc = "supersede" => o.then # "cleanup"}

Idle == [kind |-> "none", pc |-> "idle", exp |-> NoRow, pid |-> 0, fresh |-> FALSE,
         former |-> 0, inert |-> FALSE, proven |-> FALSE, target |-> 0,
         then |-> "idle", saw |-> 0, fenced |-> FALSE]

NoRequest == [gen |-> NoRow, fenced |-> FALSE, saw |-> 0]

At(pc) == op.pc = pc
Done == op' = Idle
Goto(pc) == op' = [op EXCEPT !.pc = pc]

(* A compare-and-set of the row: the generation the operation last read.   *)
Cas(new) == row = op.exp /\ row' = new

(* The launch attempt is over.  A replacement whose gate was promoted      *)
(* still disposes of the former scope, whatever the outcome.               *)
Finish == IF op.kind = "replace" /\ op.pid # 0 THEN Goto("after") ELSE Done

(* Mutant: the former scope is left for a later operation.                 *)
SupersedeLater(next) ==
  op' = IF next = "idle" THEN Idle ELSE [op EXCEPT !.pc = next]

(* reconcileSupersededPendingScope is called and `next' follows success.   *)
Supersede(next) == op' = [op EXCEPT !.pc = "supersede", !.then = next]

(* Recovery is blocked: the pane is preserved, a former scope still tried. *)
Blocked == IF row.pending # 0 THEN Supersede("idle") ELSE Done

Drain(s, next) == [op EXCEPT !.pc = "drain", !.target = s, !.then = next]

(* Cleanup of an absent session with row r: the pending scope, then the    *)
(* current one, then the catalog.  End refuses a row without a scope whose *)
(* session identity was never reconciled away.                             *)
Cleanup(r) ==
  IF r.pending # 0 THEN [Drain(r.pending, "cleanup") EXCEPT !.exp = r]
  ELSE IF r.scope # 0 THEN [Drain(r.scope, "finalise") EXCEPT !.exp = r]
  ELSE IF op.kind = "end" /\ ~ReconciledAbsent(r) THEN Idle
  ELSE [op EXCEPT !.pc = "finalise", !.exp = r]

Init ==
  /\ row = NewRow
  /\ phase = [g \in Servers |-> "unused"]
  /\ host = [g \in Servers |-> "none"]
  /\ pane = [g \in Servers |-> NoPane]
  /\ left = [s \in Pids |-> {}]
  /\ nextPid = 1
  /\ op = Idle
  /\ endReq = NoRequest
  /\ ready = FALSE

-----------------------------------------------------------------------------
(* Operations start when the lock is free.                                 *)

Start(kind) ==
  /\ op = Idle /\ row.listed
  /\ op' = [Idle EXCEPT !.kind = kind, !.pc = "observe", !.exp = row]
  /\ UNCHANGED <<row, phase, hostVars, daemonVars>>

(* Terminal attach: ensureSession.                                         *)
StartAttach == ready /\ Start("attach")

(* respawnAndRelaunch; a version-0 session is refused.                     *)
StartReplace == ready /\ row.ver = 1 /\ Start("replace")

(* reconcileManagedWidget: startup, a pane exit, crash recovery.           *)
StartReconcile == Start("reconcile")

(* A caller reads the session's generation for a later End: it knows of    *)
(* the launch that generation records.                                     *)
RequestEnd ==
  /\ ready /\ row.listed /\ ~endReq.gen.listed
  /\ \E f \in Fences :
       endReq' = [gen |-> IF f THEN row ELSE NewRow, fenced |-> f,
                  saw |-> IF f /\ row.launch = "dispatched" THEN row.nonce ELSE 0]
  /\ UNCHANGED <<row, phase, hostVars, op, ready>>

(* It never calls, or its End waited RETIRE_WAIT_MS and answered busy.     *)
EndBusy ==
  /\ ready /\ endReq.gen.listed
  /\ endReq' = NoRequest
  /\ UNCHANGED <<row, phase, hostVars, op, ready>>

(* Mutant: the generation is not compared.                                 *)
StaleNever == FALSE

Stale == endReq.fenced /\ row # endReq.gen

TakeEnd ==
  /\ ready /\ op = Idle /\ endReq.gen.listed
  /\ endReq' = NoRequest
  /\ UNCHANGED <<phase, hostVars, ready>>

EndRefused ==
  /\ TakeEnd
  /\ ~row.listed \/ Stale \/ (row.ver = 0 /\ ~NeverAllocated(row))
  /\ UNCHANGED <<row, op>>

(* Mutant: any row that was not promoted is taken for never allocated.     *)
EndUnmanaged ==
  /\ TakeEnd
  /\ row.listed /\ ~Stale /\ row.ver = 0
  /\ row' = NoRow
  /\ UNCHANGED op

EndNeverAllocated ==
  /\ TakeEnd
  /\ row.listed /\ ~Stale /\ row.ver = 0 /\ NeverAllocated(row)
  /\ row' = NoRow
  /\ UNCHANGED op

EndBegins ==
  /\ TakeEnd
  /\ row.listed /\ ~Stale /\ row.ver = 1
  /\ op' = [Idle EXCEPT !.kind = "end", !.pc = "observe", !.exp = row,
                        !.saw = endReq.saw, !.fenced = endReq.fenced]
  /\ UNCHANGED row

(* discardNeverAllocated: a create that was refused takes its row back,    *)
(* without the lock.                                                       *)
DiscardNeverAllocated ==
  /\ ready /\ row.listed /\ NeverAllocated(row)
  /\ row' = NoRow
  /\ UNCHANGED <<phase, hostVars, op, daemonVars>>

-----------------------------------------------------------------------------
(* What the operation does first: observe the session.                     *)

(* A reconciliation first tries to recover a provisioning server.          *)
ReconcileProvisioning ==
  /\ At("observe") /\ op.kind = "reconcile"
  /\ row.srv # 0 /\ phase[row.srv] = "provisioning" /\ host[row.srv] = "up"
  /\ phase' = [phase EXCEPT ![row.srv] = "active"]
  /\ UNCHANGED <<row, hostVars, op, daemonVars>>

Observed(v) ==
  /\ At("observe") /\ Answers(row, v)
  /\ phase' = PhaseSeen(row, v)
  /\ UNCHANGED <<hostVars, daemonVars>>

ObserveUnknown == Observed("unknown") /\ Done /\ UNCHANGED row

ObservePresent ==
  /\ Observed("present")
  /\ IF op.kind = "end" THEN Goto("stop") ELSE Goto("recover")
  /\ UNCHANGED row

(* Only a never-allocated row is created; the root prompt, the launch      *)
(* guard, linger and admission may each still refuse.                      *)
AttachAbsent ==
  /\ Observed("absent") /\ op.kind = "attach"
  /\ Done \/ (NeverAllocated(row) /\ Goto("create"))
  /\ UNCHANGED row

ReplaceAbsent == Observed("absent") /\ op.kind = "replace" /\ Done /\ UNCHANGED row

(* A row that never reached promotion gives its dead server back.          *)
ReconcileUnpromoted ==
  /\ Observed("absent") /\ op.kind = "reconcile" /\ row.ver = 0
  /\ row' = IF /\ row.srv # 0 /\ PhaseSeen(row, "absent")[row.srv] = "dead"
               /\ row.scope = 0 /\ row = op.exp
            THEN Unbound(row) ELSE row
  /\ Done

CleanupAbsent ==
  /\ Observed("absent") /\ op.kind \in {"end", "reconcile"} /\ row.ver = 1
  /\ op' = Cleanup(row)
  /\ UNCHANGED row

-----------------------------------------------------------------------------
(* Create a session: bind the row to a server, then fork the gate.         *)

Current == {g \in Servers : phase[g] \in {"provisioning", "active"}}

Bind(g) ==
  /\ row.listed /\ row.srv = 0
  /\ row' = [row EXCEPT !.srv = g]
  /\ op' = [op EXCEPT !.pc = "spawn", !.exp = row']

(* The current managed server is reachable.                                *)
CreateOnCurrent ==
  /\ At("create")
  /\ \E g \in Current : phase[g] = "active" /\ host[g] = "up" /\ Bind(g)
  /\ UNCHANGED <<phase, hostVars, daemonVars>>

(* There is none: a new generation is recorded before it is launched.      *)
CreateOnNew ==
  /\ At("create") /\ Current = {}
  /\ \E g \in Servers :
       /\ phase[g] = "unused"
       /\ \/ Bind(g) /\ phase' = [phase EXCEPT ![g] = "provisioning"]
          \/ ~row.listed /\ Done /\ phase' = [phase EXCEPT ![g] = "dead"] /\ UNCHANGED row
  /\ UNCHANGED <<hostVars, daemonVars>>

(* A current server that is not provably reachable has no competitor.  A   *)
(* probe that proves it dead tombstones it, and still fails the call.      *)
CreateRefused ==
  /\ At("create")
  /\ phase' \in {phase, [g \in Servers |-> IF g \in Current /\ host[g] = "down"
                                              /\ phase[g] = "active"
                                           THEN "dead" ELSE phase[g]]}
  /\ Done
  /\ UNCHANGED <<row, hostVars, daemonVars>>

(* new-session on the bound server: it forks the gate unless it fails.     *)
SpawnSession ==
  /\ At("spawn") /\ phase[row.srv] # "provisioning"
  /\ \/ /\ host[row.srv] = "up" /\ pane[row.srv].pid = 0 /\ nextPid \in Pids
        /\ pane' = [pane EXCEPT ![row.srv] = NewPane(nextPid, nextPid, 0)]
        /\ nextPid' = nextPid + 1
        /\ Done \/ op' = [op EXCEPT !.pc = "promote", !.fresh = TRUE]
     \/ Done /\ UNCHANGED <<pane, nextPid>>
  /\ UNCHANGED <<row, phase, host, left, daemonVars>>

(* systemd-run of a new server: the unit starts, now or later, or never.   *)
SpawnServer ==
  /\ At("spawn") /\ phase[row.srv] = "provisioning"
  /\ \E h \in {"starting", "down"} : host' = [host EXCEPT ![row.srv] = h]
  /\ Goto("settle")
  /\ UNCHANGED <<row, phase, pane, left, nextPid, daemonVars>>

(* The new server proves its identity within the settle window, or is left *)
(* in provisioning.                                                        *)
Settle ==
  /\ At("settle")
  /\ \/ /\ host[row.srv] = "up" /\ phase[row.srv] = "provisioning"
        /\ phase' = [phase EXCEPT ![row.srv] = "active"]
        /\ op' = [op EXCEPT !.pc = "promote", !.fresh = TRUE]
     \/ Done /\ UNCHANGED phase
  /\ UNCHANGED <<row, hostVars, daemonVars>>

-----------------------------------------------------------------------------
(* Promote a gate, inspect it, and send it its launch line once.           *)

(* recordManagedPane: tmux's scope for the gate becomes the row's.         *)
Promote ==
  /\ At("promote")
  /\ Present(row) /\ pane[row.srv].scope # 0
  /\ Cas([row EXCEPT !.scope = pane[row.srv].scope, !.sess = pane[row.srv].sess,
                     !.ver = 1, !.launch = "gated", !.nonce = pane[row.srv].pid])
  /\ IF op.fresh /\ op.kind = "replace" /\ row'.scope = op.former /\ ~op.inert
     THEN Done
     ELSE op' = [op EXCEPT !.pc = "inspect", !.pid = row'.nonce, !.exp = row']
  /\ UNCHANGED <<phase, hostVars, daemonVars>>

(* No exact scope within the settle window: the gate is preserved.         *)
PromoteFails ==
  /\ At("promote")
  /\ IF op.fresh THEN Done ELSE Blocked
  /\ UNCHANGED <<row, phase, hostVars, daemonVars>>

(* Mutant: a pane found by recovery is always promoted again.              *)
RecoverPromotes ==
  /\ At("recover") /\ Present(row)
  /\ Goto("promote")
  /\ UNCHANGED <<row, phase, hostVars, daemonVars>>

(* recoverInterruptedManagedPane finds the session's pane.                 *)
Recover ==
  /\ At("recover") /\ Present(row)
  /\ IF row.ver = 1 /\ row.scope = pane[row.srv].scope /\ row.sess = pane[row.srv].sess
     THEN op' = [op EXCEPT !.pc = "inspect", !.pid = pane[row.srv].pid]
     ELSE Goto("promote")
  /\ UNCHANGED <<row, phase, hostVars, daemonVars>>

RecoverBlocked ==
  /\ At("recover")
  /\ IF row.ver = 0 THEN Done ELSE Blocked
  /\ UNCHANGED <<row, phase, hostVars, daemonVars>>

(* The operation's own gate must still be alone.                           *)
InspectOwn ==
  /\ At("inspect") /\ op.fresh
  /\ \/ /\ Verified(row) /\ pane[row.srv].pid = op.pid
        /\ GateReads(pane[row.srv], "inert")
        /\ op' = [op EXCEPT !.pc = "mark",
                            !.proven = op.inert /\ row.scope = op.former]
     \/ Finish
  /\ UNCHANGED <<row, phase, hostVars, daemonVars>>

(* Recovery of a gate some earlier operation left.  Only a replacement     *)
(* continues behind a recovered workload or an unreplayable gate.          *)
InspectFound ==
  /\ At("inspect") /\ ~op.fresh /\ Verified(row)
  /\ \E gate \in {"inert", "active-workload", "ambiguous"} :
       /\ GateReads(pane[row.srv], gate)
       /\ LET decision == Decision(gate, row, op.kind # "replace")
          IN \/ decision = "blocked" /\ Blocked
             \/ decision = "recovered" /\ op.kind = "replace" /\ Supersede("setPending")
             \/ decision = "recovered" /\ op.kind # "replace" /\ Blocked
             \/ decision = "dispatch" /\ row.pending # 0 /\ Supersede("inspect")
             \/ decision = "dispatch" /\ row.pending = 0 /\ Goto("mark")
             \/ decision = "blocked-replay" /\ op.kind # "replace" /\ Blocked
             \/ decision = "blocked-replay" /\ op.kind = "replace" /\ Goto("regate")
  /\ UNCHANGED <<row, phase, hostVars, daemonVars>>

InspectUnverified ==
  /\ At("inspect") /\ ~op.fresh /\ Blocked
  /\ UNCHANGED <<row, phase, hostVars, daemonVars>>

(* A replacement verifies the unreplayable gate again before it goes on;   *)
(* one whose former workload shared its scope is never replaced.           *)
Regate ==
  /\ At("regate")
  /\ \/ /\ row.pending # row.scope /\ Verified(row)
        /\ GateReads(pane[row.srv], "inert")
        /\ op' = [op EXCEPT !.pc = "supersede", !.then = "setPending", !.inert = TRUE]
     \/ Done
  /\ UNCHANGED <<row, phase, hostVars, daemonVars>>

(* markManagedGateDispatched: the intent to launch is durable before the   *)
(* line is sent; the pane-exit bridge must be ready.                       *)
Mark ==
  /\ At("mark") /\ row.launch = "gated"
  /\ Cas([row EXCEPT !.launch = "dispatched"])
  /\ op' = [op EXCEPT !.pc = "recheck", !.exp = row']
  /\ UNCHANGED <<phase, hostVars, daemonVars>>

Recheck ==
  /\ At("recheck") /\ Verified(row) /\ pane[row.srv].pid = op.pid
  /\ GateReads(pane[row.srv], "inert")
  /\ Goto("send")
  /\ UNCHANGED <<row, phase, hostVars, daemonVars>>

(* Admission, the bridge, the intent or a changed gate stops the launch.   *)
LaunchStopped ==
  /\ At("mark") \/ At("recheck")
  /\ Finish
  /\ UNCHANGED <<row, phase, hostVars, daemonVars>>

(* The launch line is typed into the row's pane, or the command fails.     *)
Send ==
  /\ At("send")
  /\ \/ Present(row) /\ pane' = [pane EXCEPT ![row.srv].sent = TRUE]
     \/ UNCHANGED pane
  /\ Finish
  /\ UNCHANGED <<row, phase, host, left, nextPid, daemonVars>>

-----------------------------------------------------------------------------
(* Replace the pane's process; dispose of former scopes.                   *)

(* Mutant: the pane is respawned without recording its former scope.       *)
SetPendingForgotten ==
  /\ At("setPending")
  /\ \/ Verified(row) /\ op' = [op EXCEPT !.pc = "respawn", !.former = row.scope]
     \/ Done
  /\ UNCHANGED <<row, phase, hostVars, daemonVars>>

(* The scope about to be replaced becomes cleanup authority first.         *)
SetPending ==
  /\ At("setPending")
  /\ \/ /\ Verified(row) /\ Cas([row EXCEPT !.pending = row.scope])
        /\ op' = [op EXCEPT !.pc = "respawn", !.former = row.scope, !.exp = row']
     \/ Done /\ UNCHANGED row
  /\ UNCHANGED <<phase, hostVars, daemonVars>>

(* respawn-pane kills the pane's process and forks a gate, still in the    *)
(* former scope or not yet placed.                                         *)
Respawn ==
  /\ At("respawn") /\ Present(row) /\ nextPid \in Pids
  /\ left' \in Residue(pane[row.srv])
  /\ \E sc \in {0, op.former} :
       pane' = [pane EXCEPT ![row.srv] = NewPane(nextPid, @.sess, sc)]
  /\ nextPid' = nextPid + 1
  /\ Done \/ op' = [op EXCEPT !.pc = "promote", !.fresh = TRUE, !.pid = 0]
  /\ UNCHANGED <<row, phase, host, daemonVars>>

RespawnFails ==
  /\ At("respawn") /\ Done
  /\ UNCHANGED <<row, phase, hostVars, daemonVars>>

(* The promoted gate is current: the former scope can go.  In the same     *)
(* scope only a proven singleton gate clears it.                           *)
After ==
  /\ At("after")
  /\ \/ row.scope # op.former /\ op' = Drain(op.former, "idle") /\ UNCHANGED row
     \/ /\ row.scope = op.former /\ op.proven /\ Done
        /\ row' = [row EXCEPT !.pending = IF @ = op.former THEN 0 ELSE @]
     \/ row.scope = op.former /\ ~op.proven /\ Done /\ UNCHANGED row
  /\ UNCHANGED <<phase, hostVars, daemonVars>>

(* Where an operation goes once no former scope is pending.                *)
Then == IF op.then = "idle" THEN Idle
        ELSE [op EXCEPT !.pc = op.then, !.exp = row']

SupersedeNone ==
  /\ At("supersede") /\ row.pending = 0
  /\ UNCHANGED row /\ op' = Then
  /\ UNCHANGED <<phase, hostVars, daemonVars>>

(* Pending equals current: only the workload it named may clear it.        *)
SupersedeCurrent ==
  /\ At("supersede") /\ row.pending # 0 /\ row.pending = row.scope
  /\ Verified(row) /\ GateReads(pane[row.srv], "active-workload")
  /\ row' = [row EXCEPT !.pending = 0] /\ op' = Then
  /\ UNCHANGED <<phase, hostVars, daemonVars>>

SupersedeFormer ==
  /\ At("supersede") /\ row.pending # 0 /\ row.pending # row.scope /\ Verified(row)
  /\ op' = Drain(row.pending, op.then)
  /\ UNCHANGED <<row, phase, hostVars, daemonVars>>

(* Mutant: a former scope that cannot be drained is passed over.           *)
SupersedeIgnored ==
  /\ At("supersede") /\ row.pending # 0
  /\ UNCHANGED row /\ op' = Then
  /\ UNCHANGED <<phase, hostVars, daemonVars>>

(* Mutant: it is waited for, with the lock held.                           *)
SupersedeWaits ==
  /\ At("supersede") /\ row.pending # 0 /\ row.pending = row.scope
  /\ Done
  /\ UNCHANGED <<row, phase, hostVars, daemonVars>>

SupersedeRefused ==
  /\ At("supersede") /\ row.pending # 0 /\ Done
  /\ UNCHANGED <<row, phase, hostVars, daemonVars>>

(* stopOwnedPaneScope kills every process of exactly one scope.  It fails, *)
(* or cannot verify what it did.                                           *)
DrainScope ==
  /\ At("drain")
  /\ \/ /\ left' = [left EXCEPT ![op.target] = {}]
        /\ pane' = [g \in Servers |-> IF pane[g].scope = op.target THEN NoPane ELSE pane[g]]
        /\ Done \/ Goto("drained")
     \/ Done /\ UNCHANGED <<left, pane>>
  /\ UNCHANGED <<row, phase, host, nextPid, daemonVars>>

(* Only the value that was cleaned is cleared.                             *)
Drained ==
  /\ At("drained")
  /\ \/ op.then = "finalise" /\ UNCHANGED row /\ op' = Then
     \/ /\ op.then # "finalise"
        /\ row' = [row EXCEPT !.pending = IF @ = op.target THEN 0 ELSE @]
        /\ op' = IF op.then = "cleanup" THEN Cleanup(row') ELSE Then
  /\ UNCHANGED <<phase, hostVars, daemonVars>>

-----------------------------------------------------------------------------
(* Stop a session (End), and give up the identity of an absent one.        *)

(* The pane is exact and the generation is still the caller's.             *)
Stop ==
  /\ At("stop")
  /\ \/ Verified(row) /\ row = op.exp /\ Goto("kill")
     \/ Done
  /\ UNCHANGED <<row, phase, hostVars, daemonVars>>

Kill ==
  /\ At("kill") /\ Verified(row)
  /\ left' \in Residue(pane[row.srv])
  /\ pane' = [pane EXCEPT ![row.srv] = NoPane]
  /\ Goto("stopped")
  /\ UNCHANGED <<row, phase, host, nextPid, daemonVars>>

KillFails ==
  /\ At("kill") /\ Goto("stopped")
  /\ UNCHANGED <<row, phase, hostVars, daemonVars>>

Stopped ==
  /\ At("stopped")
  /\ \E v \in {"absent", "present", "unknown"} :
       /\ Answers(row, v)
       /\ phase' = PhaseSeen(row, v)
       /\ IF v = "absent" /\ row = op.exp THEN op' = Cleanup(row) ELSE Done
  /\ UNCHANGED <<row, hostVars, daemonVars>>

(* Every scope is drained and the session is absent still: End deletes the *)
(* row, reconciliation clears its identity and a dead server's binding.    *)
Finalise ==
  /\ At("finalise")
  /\ \E v \in {"absent", "present", "unknown"} :
       /\ Answers(row, v)
       /\ phase' = PhaseSeen(row, v)
       /\ row' = IF v # "absent" \/ row.pending # 0 \/ row # op.exp THEN row
                 ELSE IF op.kind = "end" THEN NoRow
                 ELSE IF row.srv # 0 /\ phase'[row.srv] = "active"
                      THEN [Unbound(row) EXCEPT !.srv = row.srv]
                 ELSE Unbound(row)
  /\ Done
  /\ UNCHANGED <<hostVars, daemonVars>>

(* Crash recovery returns a drained row to never-allocated.                *)
ReleaseCrashed ==
  /\ ready /\ op = Idle /\ row.listed
  /\ row.srv # 0 /\ row.scope = 0 /\ row.pending = 0
  /\ Answers(row, "absent")
  /\ phase' = PhaseSeen(row, "absent")
  /\ ReconciledAbsent(row) /\ (phase'[row.srv] = "dead" \/ row.ver = 1)
  /\ row' = Unbound(row)
  /\ UNCHANGED <<hostVars, op, daemonVars>>

-----------------------------------------------------------------------------
(* The host and the user.                                                  *)

daemonState == <<row, phase, op, daemonVars>>

(* A server unit whose start was queued comes up, or fails.                *)
ServerStarts(g) ==
  /\ host[g] = "starting" /\ nextPid \in Pids
  /\ host' = [host EXCEPT ![g] = "up"]
  /\ pane' = [pane EXCEPT ![g] = NewPane(nextPid, nextPid, 0)]
  /\ nextPid' = nextPid + 1
  /\ UNCHANGED <<left, daemonState>>

ServerDies(g) ==
  /\ host[g] \in {"starting", "up"}
  /\ host' = [host EXCEPT ![g] = "down"]
  /\ left' \in Residue(pane[g])
  /\ pane' = [pane EXCEPT ![g] = NoPane]
  /\ UNCHANGED <<nextPid, daemonState>>

(* tmux asks systemd for a scope of its own for the gate it forked.        *)
PlaceScope(g) ==
  /\ pane[g].pid # 0 /\ pane[g].scope = 0
  /\ pane' = [pane EXCEPT ![g].scope = pane[g].pid]
  /\ UNCHANGED <<host, left, nextPid, daemonState>>

(* A gate reads the line it was sent and becomes the workload.             *)
GateRuns(g) ==
  /\ pane[g].root = "gate" /\ pane[g].sent
  /\ pane' = [pane EXCEPT ![g].root = "launched"]
  /\ UNCHANGED <<host, left, nextPid, daemonState>>

(* The user types at a gate: exec of a program, or a background job.       *)
UserTypes(g) ==
  /\ pane[g].root = "gate" /\ pane[g].scope # 0
  /\ \/ pane' = [pane EXCEPT ![g].root = "typed"] /\ UNCHANGED left
     \/ left' = [left EXCEPT ![pane[g].scope] = @ \cup {"typed"}] /\ UNCHANGED pane
  /\ UNCHANGED <<host, nextPid, daemonState>>

PaneExits(g) ==
  /\ pane[g].pid # 0
  /\ left' \in Residue(pane[g])
  /\ pane' = [pane EXCEPT ![g] = NoPane]
  /\ UNCHANGED <<host, nextPid, daemonState>>

ResidueExits(s) ==
  /\ left[s] # {}
  /\ left' = [left EXCEPT ![s] = {}]
  /\ UNCHANGED <<host, pane, nextPid, daemonState>>

Host ==
  \/ \E g \in Servers : \/ ServerStarts(g) \/ ServerDies(g) \/ PlaceScope(g)
                        \/ GateRuns(g) \/ UserTypes(g) \/ PaneExits(g)
  \/ \E s \in Pids : ResidueExits(s)

-----------------------------------------------------------------------------
(* The daemon crashes and starts again, at any point; it settles the       *)
(* servers it left before it is ready.  While it is down only the host     *)
(* moves, as it may before any step of startup.                            *)

Crash ==
  /\ op' = Idle /\ endReq' = NoRequest /\ ready' = FALSE
  /\ UNCHANGED <<row, phase, hostVars>>

Ready ==
  /\ ~ready /\ op = Idle /\ ready' = TRUE
  /\ UNCHANGED <<row, phase, hostVars, op, endReq>>

(* Mutant: a queued start job is not looked for.                           *)
StartupServerHasty(g) ==
  /\ ~ready /\ op = Idle /\ phase[g] = "provisioning"
  /\ \/ host[g] = "up" /\ phase' = [phase EXCEPT ![g] = "active"]
     \/ host[g] # "up" /\ phase' = [phase EXCEPT ![g] = "dead"]
  /\ UNCHANGED <<row, hostVars, op, daemonVars>>

(* Startup recovers a provisioning server, or proves socket, unit, job and *)
(* cgroup absent and tombstones it.                                        *)
StartupServer(g) ==
  /\ ~ready /\ op = Idle /\ phase[g] = "provisioning"
  /\ \/ host[g] = "up" /\ phase' = [phase EXCEPT ![g] = "active"]
     \/ host[g] \in {"none", "down"} /\ phase' = [phase EXCEPT ![g] = "dead"]
  /\ UNCHANGED <<row, hostVars, op, daemonVars>>

(* Startup reads the session's stable ids from a reachable server.         *)
BindRoster(g) ==
  /\ ~ready /\ op = Idle
  /\ phase[g] = "active" /\ Live(g)
  /\ row.listed /\ row.srv \in {0, g} /\ row.sess \in {0, pane[g].sess}
  /\ row.srv = g \/ (row.scope = 0 /\ row.pending = 0)
  /\ row' = [row EXCEPT !.srv = g, !.sess = pane[g].sess]
  /\ UNCHANGED <<phase, hostVars, op, daemonVars>>

(* Any reader's probe tombstones an active server that is gone.            *)
ProbeServer(g) ==
  /\ phase[g] = "active" /\ host[g] = "down"
  /\ phase' = [phase EXCEPT ![g] = "dead"]
  /\ UNCHANGED <<row, hostVars, op, daemonVars>>

Daemon ==
  \/ Crash \/ Ready
  \/ \E g \in Servers : StartupServer(g) \/ BindRoster(g) \/ ProbeServer(g)

-----------------------------------------------------------------------------
Begin == \/ StartAttach \/ StartReplace \/ StartReconcile \/ RequestEnd \/ EndBusy
         \/ EndRefused \/ EndNeverAllocated \/ EndBegins
         \/ DiscardNeverAllocated \/ ReleaseCrashed

Observing == \/ ReconcileProvisioning \/ ObserveUnknown \/ ObservePresent
             \/ AttachAbsent \/ ReplaceAbsent \/ ReconcileUnpromoted \/ CleanupAbsent

Creating == \/ CreateOnCurrent \/ CreateOnNew \/ CreateRefused
            \/ SpawnSession \/ SpawnServer \/ Settle

Launching == \/ Promote \/ PromoteFails \/ Recover \/ RecoverBlocked
             \/ InspectOwn \/ InspectFound \/ InspectUnverified \/ Regate
             \/ Mark \/ Recheck \/ LaunchStopped \/ Send

Replacing == \/ SetPending \/ Respawn \/ RespawnFails \/ After
             \/ SupersedeNone \/ SupersedeCurrent \/ SupersedeFormer
             \/ SupersedeRefused \/ DrainScope \/ Drained

Ending == Stop \/ Kill \/ KillFails \/ Stopped \/ Finalise

OpStep == Observing \/ Creating \/ Launching \/ Replacing \/ Ending

(* An ended session whose daemon runs has nothing left to do.              *)
Ended == ~row.listed /\ op = Idle /\ UNCHANGED vars

Next == Begin \/ OpStep \/ Host \/ Daemon \/ Ended

(* The event loop runs the operation that holds the lock to its end.       *)
Spec == Init /\ [][Next]_vars /\ WF_vars(OpStep)

-----------------------------------------------------------------------------
TypeOK ==
  /\ row \in Row
  /\ phase \in [Servers -> {"unused", "provisioning", "active", "dead"}]
  /\ host \in [Servers -> {"none", "starting", "up", "down"}]
  /\ pane \in [Servers -> Pane]
  /\ left \in [Pids -> SUBSET Work]
  /\ nextPid \in 1..(MaxPid + 1)
  /\ op \in Op
  /\ endReq \in [gen : Row, fenced : BOOLEAN, saw : 0..MaxPid]
  /\ ready \in BOOLEAN

(* "A live agent is never relaunched" and "a dispatched gate is never      *)
(* replayed": no crash, timeout or retry sends a launch line to a gate     *)
(* process that was sent one before.                                       *)
LaunchOnce ==
  op.pc = "send" /\ Present(row) => ~pane[row.srv].sent

(* The row's columns belong together: a scope is stored with its session,  *)
(* server and version, a launch state with its nonce, and a former scope   *)
(* is remembered only beside a current one.  A torn row is cleanup         *)
(* authority lost ("malformed"), and no step leaves one.                   *)
RowCoherent ==
  /\ row.scope # 0 => row.sess # 0 /\ row.srv # 0 /\ row.ver = 1
  /\ row.pending # 0 => row.scope # 0
  /\ (row.launch = "none") = (row.nonce = 0)
  /\ (row.nonce = 0) = (row.scope = 0)
  /\ row.sess # 0 => row.srv # 0

(* Scope s holds launched work, or a gate that is about to run its line.   *)
Launched(s) == \/ "launched" \in left[s]
               \/ \E g \in Servers : /\ pane[g].pid # 0 /\ pane[g].scope = s
                                     /\ \/ pane[g].root = "launched"
                                        \/ pane[g].root = "gate" /\ pane[g].sent

(* Every scope in which work Tether launched may still run is named by the *)
(* row: the only authority its cleanup has.  So the row is deleted only    *)
(* after every launched process is gone.                                   *)
CleanupAuthority ==
  \A s \in Pids : Launched(s) => row.listed /\ s \in {row.scope, row.pending}

(* The comment in recoverInterruptedManagedPane: a former generation is    *)
(* drained before a recovered gate is advanced, "otherwise restart         *)
(* recovery could briefly run two workloads".  A replacement sends before  *)
(* it drains, and overlaps at most the one scope it replaces.              *)
OneTreeAtDispatch ==
  op.pc = "send" =>
    \A s \in Pids : Launched(s) => \/ s = row.scope
                                   \/ op.kind = "replace" /\ s = op.former

(* No interleaving of attach, crash and server loss opens a second tmux    *)
(* session for the row while a first one lives.                            *)
OneSession ==
  \A g, h \in Servers : Live(g) /\ Live(h) => g = h

(* A session is not deleted while tmux still runs it.                      *)
EndedIsGone == ~row.listed => \A g \in Servers : ~Live(g)

(* An End that names a generation never kills a workload whose launch that *)
(* generation did not already record.                                      *)
FencedEnd ==
  op.pc = "kill" /\ op.fenced /\ Verified(row) /\ pane[row.srv].sent
    => pane[row.srv].pid = op.saw

(* The detailed session keeps the contract of SessionContract: running is  *)
(* the set of scopes with launched work.                                   *)
Contract == INSTANCE SessionContract
              WITH Scopes <- Pids,
                   listed <- row.listed,
                   running <- {s \in Pids : Launched(s)}
KeepsContract == Contract!Spec

(* The lock is always given back.                                          *)
OperationEnds == op.kind # "none" ~> op.kind = "none"
=============================================================================
