----------------------- MODULE SessionLifecycleProofs -----------------------
(***************************************************************************)
(* Theorems about SessionLifecycle, for any number of gate processes and   *)
(* tmux server generations.                                                *)
(***************************************************************************)
EXTENDS SessionLifecycle, TLAPS

-----------------------------------------------------------------------------
(* Typing.                                                                 *)

LEMMA ConstantTypes ==
  /\ NewRow \in Row /\ NoRow \in Row
  /\ Idle \in Op
  /\ NoPane \in Pane
<1>1. NewRow \in Row BY BoundsAssumption DEF NewRow, Row
<1>2. NoRow \in Row BY <1>1 DEF NoRow, Row
<1>3. Idle \in Op BY <1>2, BoundsAssumption DEF Idle, Op, Operation, Kinds, Steps
<1>4. NoPane \in Pane BY BoundsAssumption DEF NoPane, NewPane, Pane, Work
<1> QED BY <1>1, <1>2, <1>3, <1>4

LEMMA PaneTypes ==
  ASSUME NEW p \in Pids, NEW s \in 0..MaxPid, NEW sc \in 0..MaxPid
  PROVE  NewPane(p, s, sc) \in Pane
BY BoundsAssumption DEF NewPane, Pane, Pids, Work

LEMMA ResidueTypes ==
  ASSUME left \in [Pids -> SUBSET Work], NEW p \in Pane, NEW l \in Residue(p)
  PROVE  l \in [Pids -> SUBSET Work]
BY BoundsAssumption DEF Residue, Work, Pids, Pane

LEMMA PresentTypes == row \in Row /\ Present(row) => row.srv \in Servers
BY BoundsAssumption DEF Present, Row, Servers

LEMMA BindTypes ==
  ASSUME row \in Row, NEW g \in Servers
  PROVE  /\ [row EXCEPT !.srv = g] \in Row
         /\ \A s \in 0..MaxPid : [row EXCEPT !.srv = g, !.sess = s] \in Row
<1>1. g \in 0..MaxServer BY BoundsAssumption DEF Servers
<1>2. [row EXCEPT !.srv = g] \in Row BY <1>1 DEF Row
<1>3. ASSUME NEW s \in 0..MaxPid PROVE [row EXCEPT !.srv = g, !.sess = s] \in Row
  BY <1>1 DEF Row
<1> QED BY <1>2, <1>3

LEMMA PromoteTypes ==
  ASSUME row \in Row, NEW p \in Pane
  PROVE  [row EXCEPT !.scope = p.scope, !.sess = p.sess, !.ver = 1,
                     !.launch = "gated", !.nonce = p.pid] \in Row
<1>1. p.scope \in 0..MaxPid /\ p.sess \in 0..MaxPid /\ p.pid \in 0..MaxPid
  BY DEF Pane
<1> QED BY <1>1 DEF Row

LEMMA ReleaseTypes ==
  ASSUME row \in Row
  PROVE  Unbound(row) \in Row /\ [Unbound(row) EXCEPT !.srv = row.srv] \in Row
BY ConstantTypes DEF Unbound, Row

LEMMA PaneUpdates ==
  ASSUME NEW p \in Pane
  PROVE  /\ \A s \in 0..MaxPid : [p EXCEPT !.scope = s] \in Pane
         /\ \A t \in BOOLEAN : [p EXCEPT !.sent = t] \in Pane
         /\ \A w \in Work : [p EXCEPT !.root = w] \in Pane
BY DEF Pane

(* Every way an action moves the operation on keeps its local state typed. *)
LEMMA StepNames ==
  \A pc \in {"create", "spawn", "settle", "promote", "recover", "inspect",
             "regate", "mark", "recheck", "send", "after", "setPending",
             "respawn", "stop", "kill", "stopped", "drained", "finalise"} :
    pc \in Steps \ {"supersede"}
BY DEF Steps

LEMMA GotoTypes ==
  ASSUME op \in Op, NEW pc \in Steps \ {"supersede"}, Goto(pc)
  PROVE  op' \in Op
BY DEF Goto, Op, Operation

LEMMA DoneTypes == Done => op' \in Op
BY ConstantTypes DEF Done

LEMMA SupersedeTypes ==
  ASSUME op \in Op, NEW t \in {"idle", "inspect", "setPending"}, Supersede(t)
  PROVE  op' \in Op
BY DEF Supersede, Op, Operation, Steps

LEMMA FinishTypes == op \in Op /\ Finish => op' \in Op
BY GotoTypes, DoneTypes, StepNames DEF Finish

LEMMA BlockedTypes == op \in Op /\ Blocked => op' \in Op
BY SupersedeTypes, DoneTypes DEF Blocked

LEMMA DrainTypes ==
  ASSUME op \in Op, NEW s \in 0..MaxPid,
         NEW t \in {"idle", "inspect", "setPending", "cleanup", "finalise"}
  PROVE  Drain(s, t) \in Op
BY DEF Drain, Op, Operation, Steps

LEMMA CleanupTypes ==
  ASSUME op \in Op, NEW r \in Row
  PROVE  Cleanup(r) \in Op
<1>1. Idle \in Op BY ConstantTypes
<1>2. ASSUME NEW s \in 0..MaxPid,
             NEW t \in {"idle", "inspect", "setPending", "cleanup", "finalise"}
      PROVE  [Drain(s, t) EXCEPT !.exp = r] \in Op
  BY DEF Drain, Op, Operation, Steps
<1>3. [op EXCEPT !.pc = "finalise", !.exp = r] \in Op BY DEF Op, Operation, Steps
<1>4. r.pending \in 0..MaxPid /\ r.scope \in 0..MaxPid BY DEF Row
<1> QED BY <1>1, <1>2, <1>3, <1>4 DEF Cleanup

LEMMA ThenTypes ==
  ASSUME op \in Op, row' \in Row, op.then # "cleanup"
  PROVE  Then \in Op
<1>1. CASE op.then = "idle" BY <1>1, ConstantTypes DEF Then
<1>2. CASE op.then # "idle"
  <2>1. op.then \in {"inspect", "setPending", "finalise"} BY <1>2 DEF Op, Operation
  <2>2. op.then \in Steps \ {"supersede"} BY <2>1, StepNames
  <2>3. [op EXCEPT !.pc = op.then, !.exp = row'] \in Op BY <2>2 DEF Op, Operation
  <2> QED BY <2>3, <1>2 DEF Then
<1> QED BY <1>1, <1>2

LEMMA ExpectTypes ==
  ASSUME op \in Op, row' \in Row, NEW pc \in Steps \ {"supersede"}
  PROVE  /\ [op EXCEPT !.pc = pc, !.exp = row'] \in Op
         /\ [op EXCEPT !.pc = pc, !.pid = row'.nonce, !.exp = row'] \in Op
BY DEF Op, Operation, Row

LEMMA FreshTypes ==
  ASSUME op \in Op
  PROVE  /\ [op EXCEPT !.pc = "promote", !.fresh = TRUE] \in Op
         /\ [op EXCEPT !.pc = "promote", !.fresh = TRUE, !.pid = 0] \in Op
<1>1. [op EXCEPT !.pc = "promote", !.fresh = TRUE] \in Op
  BY DEF Op, Operation, Steps
<1>2. [op EXCEPT !.pc = "promote", !.fresh = TRUE, !.pid = 0] \in Op
  <2>1. 0 \in 0..MaxPid BY BoundsAssumption
  <2> QED BY <2>1 DEF Op, Operation, Steps
<1> QED BY <1>1, <1>2

-----------------------------------------------------------------------------
(* One lemma per group of actions, one step per action.                    *)

LEMMA BeginTypes == TypeOK /\ Begin => TypeOK'
<1> SUFFICES ASSUME TypeOK, Begin PROVE TypeOK' OBVIOUS
<1> USE BoundsAssumption, ConstantTypes DEF TypeOK, hostVars, daemonVars
<1>1. ASSUME NEW kind \in Kinds, Start(kind) PROVE TypeOK'
  <2>1. [Idle EXCEPT !.kind = kind, !.pc = "observe", !.exp = row] \in Op
    BY DEF Op, Operation, Steps
  <2> QED BY <1>1, <2>1 DEF Start
<1>2. CASE StartAttach BY <1>1, <1>2 DEF StartAttach, Kinds
<1>3. CASE StartReplace BY <1>1, <1>3 DEF StartReplace, Kinds
<1>4. CASE StartReconcile BY <1>1, <1>4 DEF StartReconcile, Kinds
<1>5. CASE RequestEnd BY <1>5 DEF RequestEnd, Row
<1>6. CASE EndBusy BY <1>6 DEF EndBusy, NoRequest
<1>7. CASE EndRefused BY <1>7 DEF EndRefused, TakeEnd, NoRequest
<1>8. CASE EndNeverAllocated BY <1>8 DEF EndNeverAllocated, TakeEnd, NoRequest
<1>9. CASE EndBegins
  <2>1. [Idle EXCEPT !.kind = "end", !.pc = "observe", !.exp = row,
                     !.saw = endReq.saw, !.fenced = endReq.fenced] \in Op
    BY DEF Op, Operation, Steps, Kinds
  <2> QED BY <1>9, <2>1 DEF EndBegins, TakeEnd, NoRequest
<1>10. CASE DiscardNeverAllocated BY <1>10 DEF DiscardNeverAllocated
<1>11. CASE ReleaseCrashed BY <1>11 DEF ReleaseCrashed, Unbound, PhaseSeen, Row
<1> QED BY <1>2, <1>3, <1>4, <1>5, <1>6, <1>7, <1>8, <1>9, <1>10, <1>11 DEF Begin

LEMMA ObservingTypes == TypeOK /\ Observing => TypeOK'
<1> SUFFICES ASSUME TypeOK, Observing PROVE TypeOK' OBVIOUS
<1> USE BoundsAssumption, ConstantTypes DEF TypeOK, hostVars, daemonVars
<1>1. CASE ReconcileProvisioning BY <1>1 DEF ReconcileProvisioning
<1>2. CASE ObserveUnknown BY <1>2, DoneTypes DEF ObserveUnknown, Observed, PhaseSeen
<1>3. CASE ObservePresent
  BY <1>3, GotoTypes, StepNames DEF ObservePresent, Observed, PhaseSeen
<1>4. CASE AttachAbsent
  BY <1>4, GotoTypes, DoneTypes, StepNames DEF AttachAbsent, Observed, PhaseSeen
<1>5. CASE ReplaceAbsent BY <1>5, DoneTypes DEF ReplaceAbsent, Observed, PhaseSeen
<1>6. CASE ReconcileUnpromoted
  BY <1>6, DoneTypes DEF ReconcileUnpromoted, Observed, PhaseSeen, Unbound, Row
<1>7. CASE CleanupAbsent BY <1>7, CleanupTypes DEF CleanupAbsent, Observed, PhaseSeen
<1> QED BY <1>1, <1>2, <1>3, <1>4, <1>5, <1>6, <1>7 DEF Observing

LEMMA CreatingTypes == TypeOK /\ Creating => TypeOK'
<1> SUFFICES ASSUME TypeOK, Creating PROVE TypeOK' OBVIOUS
<1> USE BoundsAssumption, ConstantTypes DEF TypeOK, hostVars, daemonVars
<1>1. ASSUME NEW g \in Servers, Bind(g) PROVE row' \in Row /\ op' \in Op
  <2>1. row' \in Row BY <1>1, BindTypes DEF Bind
  <2> QED BY <1>1, <2>1, ExpectTypes, StepNames DEF Bind
<1>2. CASE CreateOnCurrent BY <1>1, <1>2 DEF CreateOnCurrent, Current
<1>3. CASE CreateOnNew BY <1>1, <1>3, DoneTypes DEF CreateOnNew
<1>4. CASE CreateRefused BY <1>4, DoneTypes DEF CreateRefused
<1>5. CASE SpawnSession
  BY <1>5, FreshTypes, DoneTypes, PaneTypes DEF SpawnSession, Pids
<1>6. CASE SpawnServer BY <1>6, GotoTypes, StepNames DEF SpawnServer
<1>7. CASE Settle BY <1>7, FreshTypes, DoneTypes DEF Settle
<1> QED BY <1>2, <1>3, <1>4, <1>5, <1>6, <1>7 DEF Creating

LEMMA LaunchingTypes == TypeOK /\ Launching => TypeOK'
<1> SUFFICES ASSUME TypeOK, Launching PROVE TypeOK' OBVIOUS
<1> USE BoundsAssumption, ConstantTypes DEF TypeOK, hostVars, daemonVars
<1>1. CASE Promote
  <2>1. row.srv \in Servers BY <1>1, PresentTypes DEF Promote
  <2>2. row' \in Row BY <1>1, <2>1, PromoteTypes DEF Promote, Cas
  <2> QED BY <1>1, <2>2, ExpectTypes, DoneTypes, StepNames DEF Promote
<1>2. CASE PromoteFails BY <1>2, DoneTypes, BlockedTypes DEF PromoteFails
<1>3. CASE Recover
  <2>1. row.srv \in Servers BY <1>3, PresentTypes DEF Recover
  <2>2. [op EXCEPT !.pc = "inspect", !.pid = pane[row.srv].pid] \in Op
    BY <2>1, StepNames DEF Op, Operation, Pane
  <2> QED BY <1>3, <2>2, GotoTypes, StepNames DEF Recover
<1>4. CASE RecoverBlocked BY <1>4, DoneTypes, BlockedTypes DEF RecoverBlocked
<1>5. CASE InspectOwn
  <2>1. [op EXCEPT !.pc = "mark", !.proven = op.inert /\ row.scope = op.former] \in Op
    BY StepNames DEF Op, Operation
  <2> QED BY <1>5, <2>1, FinishTypes DEF InspectOwn
<1>6. CASE InspectFound
  BY <1>6, BlockedTypes, SupersedeTypes, GotoTypes, StepNames DEF InspectFound
<1>7. CASE InspectUnverified BY <1>7, BlockedTypes DEF InspectUnverified
<1>8. CASE Regate
  <2>1. [op EXCEPT !.pc = "supersede", !.then = "setPending", !.inert = TRUE] \in Op
    BY DEF Op, Operation, Steps
  <2> QED BY <1>8, <2>1, DoneTypes DEF Regate
<1>9. CASE Mark
  <2>1. row' \in Row BY <1>9 DEF Mark, Cas, Row
  <2> QED BY <1>9, <2>1, ExpectTypes, StepNames DEF Mark
<1>10. CASE Recheck BY <1>10, GotoTypes, StepNames DEF Recheck
<1>11. CASE LaunchStopped BY <1>11, FinishTypes DEF LaunchStopped
<1>12. CASE Send
  <2>1. CASE Present(row) /\ pane' = [pane EXCEPT ![row.srv].sent = TRUE]
    <3>1. row.srv \in Servers BY <2>1, PresentTypes
    <3>2. pane' \in [Servers -> Pane] BY <2>1, <3>1, PaneUpdates
    <3> QED BY <1>12, <3>2, FinishTypes DEF Send
  <2>2. CASE UNCHANGED pane BY <1>12, <2>2, FinishTypes DEF Send
  <2> QED BY <1>12, <2>1, <2>2 DEF Send
<1> QED BY <1>1, <1>2, <1>3, <1>4, <1>5, <1>6, <1>7, <1>8, <1>9, <1>10, <1>11, <1>12
        DEF Launching

LEMMA ReplacingTypes == TypeOK /\ Replacing => TypeOK'
<1> SUFFICES ASSUME TypeOK, Replacing PROVE TypeOK' OBVIOUS
<1> USE BoundsAssumption, ConstantTypes DEF TypeOK, hostVars, daemonVars
<1>1. CASE SetPending
  <2>1. CASE Done /\ UNCHANGED row BY <1>1, <2>1, DoneTypes DEF SetPending
  <2>2. CASE ~(Done /\ UNCHANGED row)
    <3>1. row' \in Row BY <1>1, <2>2 DEF SetPending, Cas, Row
    <3>2. row.scope \in 0..MaxPid BY DEF Row
    <3>3. [op EXCEPT !.pc = "respawn", !.former = row.scope, !.exp = row'] \in Op
      BY <3>1, <3>2, StepNames DEF Op, Operation
    <3> QED BY <1>1, <2>2, <3>1, <3>3 DEF SetPending
  <2> QED BY <2>1, <2>2
<1>2. CASE Respawn
  <2>1. row.srv \in Servers BY <1>2, PresentTypes DEF Respawn
  <2>2. op.former \in 0..MaxPid BY DEF Op, Operation
  <2>3. pane[row.srv] \in Pane /\ pane[row.srv].sess \in 0..MaxPid BY <2>1 DEF Pane
  <2>4. pane' \in [Servers -> Pane] BY <1>2, <2>1, <2>2, <2>3, PaneTypes DEF Respawn
  <2>5. left' \in [Pids -> SUBSET Work] BY <1>2, <2>3, ResidueTypes DEF Respawn
  <2>6. op' \in Op BY <1>2, FreshTypes, DoneTypes DEF Respawn
  <2> QED BY <1>2, <2>4, <2>5, <2>6 DEF Respawn, Pids
<1>3. CASE RespawnFails BY <1>3, DoneTypes DEF RespawnFails
<1>4. CASE After
  <2>1. row' \in Row BY <1>4 DEF After, Row
  <2>2. op' \in Op
    <3>1. op.former \in 0..MaxPid BY DEF Op, Operation
    <3> QED BY <1>4, <3>1, DrainTypes, DoneTypes DEF After
  <2> QED BY <1>4, <2>1, <2>2 DEF After
<1>5. op.pc = "supersede" => op.then # "cleanup" BY DEF Op
<1>6. CASE SupersedeNone BY <1>5, <1>6, ThenTypes DEF SupersedeNone, At
<1>7. CASE SupersedeCurrent
  <2>1. row' \in Row BY <1>7 DEF SupersedeCurrent, Row
  <2> QED BY <1>5, <1>7, <2>1, ThenTypes DEF SupersedeCurrent, At
<1>8. CASE SupersedeFormer
  <2>1. row.pending \in 0..MaxPid BY DEF Row
  <2>2. op.then \in {"idle", "inspect", "setPending", "cleanup", "finalise"}
    BY DEF Op, Operation
  <2> QED BY <1>8, <2>1, <2>2, DrainTypes DEF SupersedeFormer
<1>9. CASE SupersedeRefused BY <1>9, DoneTypes DEF SupersedeRefused
<1>10. CASE DrainScope
  <2>1. op' \in Op BY <1>10, DoneTypes, GotoTypes, StepNames DEF DrainScope
  <2>2. pane' \in [Servers -> Pane] BY <1>10 DEF DrainScope
  <2>3. left' \in [Pids -> SUBSET Work] BY <1>10 DEF DrainScope
  <2> QED BY <1>10, <2>1, <2>2, <2>3 DEF DrainScope
<1>11. CASE Drained
  <2>1. row' \in Row BY <1>11 DEF Drained, Row
  <2>2. op' \in Op BY <1>11, <2>1, ThenTypes, CleanupTypes DEF Drained
  <2> QED BY <1>11, <2>1, <2>2 DEF Drained
<1> QED BY <1>1, <1>2, <1>3, <1>4, <1>6, <1>7, <1>8, <1>9, <1>10, <1>11 DEF Replacing

LEMMA EndingTypes == TypeOK /\ Ending => TypeOK'
<1> SUFFICES ASSUME TypeOK, Ending PROVE TypeOK' OBVIOUS
<1> USE BoundsAssumption, ConstantTypes DEF TypeOK, hostVars, daemonVars
<1>1. CASE Stop BY <1>1, GotoTypes, DoneTypes, StepNames DEF Stop
<1>2. CASE Kill
  <2>1. row.srv \in Servers BY <1>2, PresentTypes DEF Kill, Verified
  <2>2. left' \in [Pids -> SUBSET Work] BY <1>2, <2>1, ResidueTypes DEF Kill
  <2> QED BY <1>2, <2>2, GotoTypes, StepNames DEF Kill
<1>3. CASE KillFails BY <1>3, GotoTypes, StepNames DEF KillFails
<1>4. CASE Stopped BY <1>4, DoneTypes, CleanupTypes DEF Stopped, PhaseSeen
<1>5. CASE Finalise
  <2>1. row' \in Row BY <1>5, ReleaseTypes DEF Finalise
  <2>2. phase' \in [Servers -> {"unused", "provisioning", "active", "dead"}]
    BY <1>5 DEF Finalise, PhaseSeen
  <2> QED BY <1>5, <2>1, <2>2, DoneTypes DEF Finalise
<1> QED BY <1>1, <1>2, <1>3, <1>4, <1>5 DEF Ending

LEMMA HostTypes == TypeOK /\ Host => TypeOK'
<1> SUFFICES ASSUME TypeOK, Host PROVE TypeOK' OBVIOUS
<1> USE BoundsAssumption, ConstantTypes DEF TypeOK, daemonState, daemonVars
<1>1. ASSUME NEW g \in Servers, ServerStarts(g) PROVE TypeOK'
  BY <1>1, PaneTypes DEF ServerStarts, Pids
<1>2. ASSUME NEW g \in Servers, ServerDies(g) PROVE TypeOK'
  BY <1>2, ResidueTypes DEF ServerDies
<1>3. ASSUME NEW g \in Servers, PlaceScope(g) PROVE TypeOK'
  BY <1>3 DEF PlaceScope, Pane
<1>4. ASSUME NEW g \in Servers, GateRuns(g) PROVE TypeOK'
  BY <1>4 DEF GateRuns, Pane, Work
<1>5. ASSUME NEW g \in Servers, UserTypes(g) PROVE TypeOK'
  <2>1. pane' \in [Servers -> Pane]
    <3>1. "typed" \in Work BY DEF Work
    <3>2. pane[g] \in Pane BY <1>5
    <3>3. [pane[g] EXCEPT !.root = "typed"] \in Pane BY <3>1, <3>2, PaneUpdates
    <3> QED BY <1>5, <3>3 DEF UserTypes
  <2>2. left' \in [Pids -> SUBSET Work] BY <1>5 DEF UserTypes, Work
  <2> QED BY <1>5, <2>1, <2>2 DEF UserTypes
<1>6. ASSUME NEW g \in Servers, PaneExits(g) PROVE TypeOK'
  BY <1>6, ResidueTypes DEF PaneExits
<1>7. ASSUME NEW s \in Pids, ResidueExits(s) PROVE TypeOK'
  BY <1>7 DEF ResidueExits
<1> QED BY <1>1, <1>2, <1>3, <1>4, <1>5, <1>6, <1>7 DEF Host

LEMMA DaemonTypes == TypeOK /\ Daemon => TypeOK'
<1> SUFFICES ASSUME TypeOK, Daemon PROVE TypeOK' OBVIOUS
<1> USE BoundsAssumption, ConstantTypes DEF TypeOK, hostVars, daemonVars
<1>1. CASE Crash
  <2>1. NoRequest \in [gen : Row, fenced : BOOLEAN, saw : 0..MaxPid]
    BY DEF NoRequest
  <2> QED BY <1>1, <2>1 DEF Crash
<1>2. CASE Ready BY <1>2 DEF Ready
<1>3. ASSUME NEW g \in Servers, StartupServer(g) PROVE TypeOK'
  BY <1>3 DEF StartupServer
<1>4. ASSUME NEW g \in Servers, BindRoster(g) PROVE TypeOK'
  <2>1. pane[g].sess \in 0..MaxPid BY <1>4 DEF Pane
  <2>2. row' \in Row BY <1>4, <2>1, BindTypes DEF BindRoster
  <2> QED BY <1>4, <2>2 DEF BindRoster
<1>5. ASSUME NEW g \in Servers, ProbeServer(g) PROVE TypeOK'
  BY <1>5 DEF ProbeServer
<1> QED BY <1>1, <1>2, <1>3, <1>4, <1>5 DEF Daemon

LEMMA InitTypes == Init => TypeOK
<1> SUFFICES ASSUME Init PROVE TypeOK OBVIOUS
<1>1. NoRequest \in [gen : Row, fenced : BOOLEAN, saw : 0..MaxPid]
  BY BoundsAssumption, ConstantTypes DEF NoRequest
<1>2. nextPid \in 1..(MaxPid + 1) BY BoundsAssumption DEF Init
<1> QED BY <1>1, <1>2, ConstantTypes DEF Init, TypeOK

(* Every variable keeps its type: the columns of the row, the phases, the  *)
(* panes, and the local state of the operation under way.                  *)
THEOREM TypeCorrect == Spec => []TypeOK
<1>1. TypeOK /\ [Next]_vars => TypeOK'
  <2> SUFFICES ASSUME TypeOK, [Next]_vars PROVE TypeOK' OBVIOUS
  <2>1. CASE Begin BY <2>1, BeginTypes
  <2>2. CASE OpStep
    BY <2>2, ObservingTypes, CreatingTypes, LaunchingTypes, ReplacingTypes, EndingTypes
       DEF OpStep
  <2>3. CASE Host BY <2>3, HostTypes
  <2>4. CASE Daemon BY <2>4, DaemonTypes
  <2>5. CASE Ended \/ UNCHANGED vars BY <2>5 DEF Ended, vars, TypeOK
  <2> QED BY <2>1, <2>2, <2>3, <2>4, <2>5 DEF Next
<1> QED BY <1>1, InitTypes, PTL DEF Spec

-----------------------------------------------------------------------------
(* The inductive invariant behind the launch and binding properties.       *)

(* What the catalog knows of a server is never ahead of the host: a server *)
(* recorded dead has no process, only a reachable one has a pane, and one  *)
(* that is about to be launched was never launched before.                 *)
ServerInv(g) ==
  /\ phase[g] = "dead" => host[g] \in {"none", "down"}
  /\ phase[g] = "unused" => host[g] = "none"
  /\ host[g] = "starting" => phase[g] = "provisioning"
  /\ pane[g].pid # 0 => host[g] = "up"
  /\ op.pc = "spawn" /\ row.srv = g /\ phase[g] = "provisioning" => host[g] = "none"

(* The row is bound to any server that has, or may still get, its pane.    *)
BindingInv(g) ==
  /\ host[g] = "starting" => row.srv = g /\ row.sess = 0
  /\ pane[g].pid # 0 => row.srv = g /\ row.sess \in {0, pane[g].sess}

(* Everything the row says of a pane that was sent its launch line.        *)
Recorded(g) ==
  /\ row.srv = g /\ Live(g)
  /\ row.ver = 1 /\ row.launch = "dispatched"
  /\ row.scope = pane[g].scope /\ row.scope # 0
  /\ row.sess = pane[g].sess /\ row.sess # 0

(* While a gate is made, promoted, or about to be sent its line, no pane   *)
(* was sent one.                                                           *)
Unsent == \A g \in Servers : ~pane[g].sent
Opening == {"create", "spawn", "settle", "promote", "recheck", "send"}

OperationInv ==
  /\ op.pc \in Opening => Unsent
  /\ op.pc \in {"create", "spawn", "settle"} => row.sess = 0
  /\ op.pc \in {"recheck", "send"} => row.launch = "dispatched"
  /\ op.pc = "send" => /\ row.srv # 0 /\ host[row.srv] \in {"up", "down"}
                       /\ Present(row) => Recorded(row.srv)

IInv ==
  /\ ~row.listed => row.srv = 0
  /\ \A g \in Servers : /\ ServerInv(g) /\ BindingInv(g)
                        /\ pane[g].sent => Recorded(g)
  /\ OperationInv

-----------------------------------------------------------------------------
(* Facts about the definitions the steps are made of.                      *)

LEMMA NoPaneFields == NoPane.pid = 0 /\ ~NoPane.sent
BY DEF NoPane, NewPane

LEMMA PaneFields ==
  \A p, s, sc : /\ NewPane(p, s, sc).pid = p /\ NewPane(p, s, sc).sess = s
               /\ ~NewPane(p, s, sc).sent
BY DEF NewPane

LEMMA RowFields ==
  /\ NoRow.srv = 0 /\ NoRow.sess = 0
  /\ \A r : Unbound(r).srv = 0 /\ Unbound(r).sess = 0 /\ Unbound(r).listed
  /\ \A r, g : [Unbound(r) EXCEPT !.srv = g].sess = 0 /\ [Unbound(r) EXCEPT !.srv = g].listed
BY DEF NoRow, NewRow, Unbound

LEMMA IdleStep == Idle.pc = "idle" BY DEF Idle

LEMMA GotoStep == ASSUME op \in Op, NEW pc, Goto(pc) PROVE op'.pc = pc
BY DEF Op, Operation, Goto

(* Whatever moves the operation on outside the launch ends in no opening.  *)
LEMMA OtherSteps ==
  ASSUME op \in Op
  PROVE  /\ Done => op'.pc \notin Opening
         /\ Finish => op'.pc \notin Opening
         /\ Blocked => op'.pc \notin Opening
         /\ \A t : Supersede(t) => op'.pc \notin Opening
         /\ \A s, t : Drain(s, t).pc \notin Opening
         /\ \A r : Cleanup(r).pc \notin Opening
         /\ Then.pc \notin Opening
<1> USE IdleStep DEF Opening
<1>1. Done => op'.pc \notin Opening BY DEF Done
<1>2. \A t : Supersede(t) => op'.pc \notin Opening BY DEF Supersede, Op, Operation
<1>3. Finish => op'.pc \notin Opening BY <1>1, GotoStep DEF Finish
<1>4. Blocked => op'.pc \notin Opening BY <1>1, <1>2 DEF Blocked
<1>5. \A s, t : Drain(s, t).pc = "drain" BY DEF Drain, Op, Operation
<1>6. \A s, t, r : [Drain(s, t) EXCEPT !.exp = r].pc = "drain"
  BY DEF Drain, Op, Operation
<1>7. \A r : [op EXCEPT !.pc = "finalise", !.exp = r].pc = "finalise"
  BY DEF Op, Operation
<1>8. \A r : Cleanup(r).pc \notin Opening BY <1>6, <1>7 DEF Cleanup
<1>9. Then.pc \notin Opening
  <2>1. op.then # "idle" => [op EXCEPT !.pc = op.then, !.exp = row'].pc = op.then
    BY DEF Op, Operation
  <2>2. op.then \notin Opening BY DEF Op, Operation
  <2> QED BY <2>1, <2>2 DEF Then
<1> QED BY <1>1, <1>2, <1>3, <1>4, <1>5, <1>8, <1>9

(* An operation that expects a row it just wrote, or owns a fresh gate.    *)
LEMMA NextSteps ==
  ASSUME op \in Op
  PROVE  /\ \A pc, r : [op EXCEPT !.pc = pc, !.exp = r].pc = pc
         /\ \A pc, n : [op EXCEPT !.pc = pc, !.pid = n].pc = pc
         /\ [op EXCEPT !.pc = "promote", !.fresh = TRUE].pc = "promote"
         /\ [op EXCEPT !.pc = "promote", !.fresh = TRUE, !.pid = 0].pc = "promote"
         /\ [op EXCEPT !.pc = "supersede", !.then = "setPending", !.inert = TRUE].pc
              = "supersede"
BY DEF Op, Operation

-----------------------------------------------------------------------------
(* The frames the actions fall into.                                       *)

(* A phase moves only with proof of what the server is.                    *)
Proved ==
  \A g \in Servers : \/ phase'[g] = phase[g]
                     \/ phase'[g] = "dead" /\ host[g] \in {"none", "down"}
                     \/ phase'[g] = "active" /\ host[g] = "up"

LEMMA SeenProved ==
  ASSUME TypeOK, NEW v, phase' = PhaseSeen(row, v)
  PROVE  Proved
BY DEF TypeOK, Proved, PhaseSeen

(* The row and the host stand, and no opening begins.                      *)
LEMMA CalmStep ==
  ASSUME TypeOK, IInv, Proved, UNCHANGED <<row, host, pane>>,
         op'.pc \notin Opening \/ op'.pc = op.pc
  PROVE  IInv'
<1>1. ASSUME NEW g \in Servers PROVE ServerInv(g)'
  BY <1>1 DEF IInv, ServerInv, Proved, Opening
<1>2. ASSUME NEW g \in Servers PROVE BindingInv(g)' /\ (pane[g].sent => Recorded(g))'
  BY <1>2 DEF IInv, BindingInv, Recorded, Live
<1>3. OperationInv'
  BY DEF IInv, OperationInv, Opening, Unsent, Present, Recorded, Live
<1> QED BY <1>1, <1>2, <1>3 DEF IInv

(* Only the pending scope of the row changes.                              *)
LEMMA PendingStep ==
  ASSUME TypeOK, IInv, UNCHANGED <<phase, host, pane>>, op'.pc \notin Opening,
         NEW s, row' = [row EXCEPT !.pending = s]
  PROVE  IInv'
<1>1. /\ row'.listed = row.listed /\ row'.srv = row.srv /\ row'.sess = row.sess
      /\ row'.scope = row.scope /\ row'.ver = row.ver /\ row'.launch = row.launch
  BY DEF TypeOK, Row
<1>2. ASSUME NEW g \in Servers PROVE ServerInv(g)'
  BY <1>1, <1>2 DEF IInv, ServerInv, Opening
<1>3. ASSUME NEW g \in Servers PROVE BindingInv(g)' /\ (pane[g].sent => Recorded(g))'
  BY <1>1, <1>3 DEF IInv, BindingInv, Recorded, Live
<1>4. OperationInv' BY DEF OperationInv, Opening
<1> QED BY <1>1, <1>2, <1>3, <1>4 DEF IInv

(* No server has, or can still get, a pane.                                *)
Empty == \A g \in Servers : pane[g].pid = 0 /\ host[g] # "starting"

LEMMA UnboundEmpty == TypeOK /\ IInv /\ row.srv = 0 => Empty /\ Unsent
BY DEF IInv, BindingInv, Recorded, Empty, Unsent, Servers

(* A proof of absence leaves no pane, and none to come.                    *)
LEMMA AbsentEmpty ==
  ASSUME TypeOK, IInv, Answers(row, "absent")
  PROVE  Empty
<1>1. CASE row.srv = 0 BY <1>1, UnboundEmpty
<1>2. CASE row.srv # 0
  <2>1. row.srv \in Servers BY <1>2, BoundsAssumption DEF TypeOK, Row, Servers
  <2>2. \/ phase[row.srv] = "dead"
        \/ phase[row.srv] = "active" /\ ~Present(row)
    BY <1>2 DEF Answers
  <2>3. ServerInv(row.srv) /\ BindingInv(row.srv) BY <2>1 DEF IInv
  <2>4. pane[row.srv].pid = 0 /\ host[row.srv] # "starting"
    BY <1>2, <2>2, <2>3 DEF ServerInv, BindingInv, Present, Live
  <2> QED BY <2>4 DEF IInv, BindingInv, Empty
<1> QED BY <1>1, <1>2

(* The row is released while there is no pane.                             *)
LEMMA ReleaseStep ==
  ASSUME TypeOK, IInv, Empty, Proved, UNCHANGED <<host, pane>>,
         row'.sess = 0, row'.listed \/ row'.srv = 0,
         op'.pc \notin Opening \/ (op' = op /\ row'.srv = 0 /\ row.launch # "dispatched")
  PROVE  IInv'
<1>1. Unsent BY DEF Empty, IInv, Recorded, Live, Unsent
<1>2. ASSUME NEW g \in Servers PROVE ServerInv(g)'
  BY <1>2 DEF IInv, Empty, ServerInv, Proved, Opening, Servers
<1>3. ASSUME NEW g \in Servers PROVE BindingInv(g)' /\ (pane[g].sent => Recorded(g))'
  BY <1>1, <1>3 DEF Empty, BindingInv, Unsent
<1>4. OperationInv' BY <1>1 DEF IInv, OperationInv, Opening, Unsent
<1> QED BY <1>2, <1>3, <1>4 DEF IInv

(* Panes disappear, and a server may die with its own.                     *)
LEMMA GoneStep ==
  ASSUME TypeOK, IInv, UNCHANGED <<row, phase>>,
         op'.pc \notin Opening \/ op'.pc = op.pc,
         \A g \in Servers :
           /\ pane'[g] = pane[g] \/ pane'[g] = NoPane
           /\ \/ host'[g] = host[g]
              \/ /\ host[g] \in {"starting", "up"} /\ host'[g] = "down"
                 /\ pane'[g] = NoPane
  PROVE  IInv'
<1> USE NoPaneFields
<1>1. ASSUME NEW g \in Servers PROVE ServerInv(g)'
  BY <1>1 DEF IInv, ServerInv, Opening
<1>2. ASSUME NEW g \in Servers PROVE BindingInv(g)' /\ (pane[g].sent => Recorded(g))'
  BY <1>2 DEF IInv, BindingInv, Recorded, Live
<1>3. OperationInv'
  <2>1. Unsent => Unsent' BY DEF Unsent
  <2>2. row.srv # 0 => row.srv \in Servers BY BoundsAssumption DEF TypeOK, Row, Servers
  <2> QED BY <2>1, <2>2 DEF IInv, OperationInv, Opening, Present, Recorded, Live
<1> QED BY <1>1, <1>2, <1>3 DEF IInv

-----------------------------------------------------------------------------
(* One lemma per group of actions, one step per action.                    *)

LEMMA BeginKeeps == TypeOK /\ IInv /\ Begin => IInv'
<1> SUFFICES ASSUME TypeOK, IInv, Begin PROVE IInv' OBVIOUS
<1> USE DEF hostVars, daemonVars
<1>1. op \in Op BY DEF TypeOK
<1>2. UNCHANGED phase => Proved BY DEF Proved
<1>3. ASSUME NEW kind, Start(kind) PROVE IInv'
  <2>1. [Idle EXCEPT !.kind = kind, !.pc = "observe", !.exp = row].pc = "observe"
    BY DEF Idle
  <2> QED BY <1>2, <1>3, <2>1, CalmStep DEF Start, Opening
<1>4. CASE StartAttach BY <1>3, <1>4 DEF StartAttach
<1>5. CASE StartReplace BY <1>3, <1>5 DEF StartReplace
<1>6. CASE StartReconcile BY <1>3, <1>6 DEF StartReconcile
<1>7. CASE RequestEnd BY <1>2, <1>7, CalmStep DEF RequestEnd
<1>8. CASE EndBusy BY <1>2, <1>8, CalmStep DEF EndBusy
<1>9. CASE EndRefused BY <1>2, <1>9, CalmStep DEF EndRefused, TakeEnd
<1>10. ASSUME NeverAllocated(row), row' = NoRow, UNCHANGED <<phase, host, pane, op>>
       PROVE  IInv'
  <2>1. row.srv = 0 /\ row.launch # "dispatched"
    BY <1>10 DEF NeverAllocated, ReconciledAbsent
  <2>2. row'.sess = 0 /\ row'.srv = 0 BY <1>10, RowFields
  <2> QED BY <1>2, <1>10, <2>1, <2>2, UnboundEmpty, ReleaseStep
<1>11. CASE EndNeverAllocated BY <1>10, <1>11 DEF EndNeverAllocated, TakeEnd
<1>12. CASE EndBegins
  <2>1. op'.pc = "observe" BY <1>12 DEF EndBegins, Idle
  <2> QED BY <1>2, <1>12, <2>1, CalmStep DEF EndBegins, TakeEnd, Opening
<1>13. CASE DiscardNeverAllocated BY <1>10, <1>13 DEF DiscardNeverAllocated
<1>14. CASE ReleaseCrashed
  <2>1. row'.sess = 0 /\ row'.srv = 0 BY <1>14, RowFields DEF ReleaseCrashed
  <2>2. op'.pc \notin Opening BY <1>14, IdleStep DEF ReleaseCrashed, Opening
  <2> QED BY <1>14, <2>1, <2>2, AbsentEmpty, SeenProved, ReleaseStep DEF ReleaseCrashed
<1> QED BY <1>4, <1>5, <1>6, <1>7, <1>8, <1>9, <1>11, <1>12, <1>13, <1>14 DEF Begin

LEMMA ObservingKeeps == TypeOK /\ IInv /\ Observing => IInv'
<1> SUFFICES ASSUME TypeOK, IInv, Observing PROVE IInv' OBVIOUS
<1> USE DEF hostVars, daemonVars
<1>1. op \in Op BY DEF TypeOK
<1>2. ASSUME NEW v, Observed(v) PROVE Proved BY <1>2, SeenProved DEF Observed
<1>3. CASE ReconcileProvisioning
  <2>1. Proved BY <1>3 DEF ReconcileProvisioning, TypeOK, Proved
  <2> QED BY <1>3, <2>1, CalmStep DEF ReconcileProvisioning
<1>4. CASE ObserveUnknown
  BY <1>1, <1>2, <1>4, OtherSteps, CalmStep DEF ObserveUnknown, Observed
<1>5. CASE ObservePresent
  <2>1. op'.pc \notin Opening BY <1>1, <1>5, GotoStep DEF ObservePresent, Opening
  <2> QED BY <1>2, <1>5, <2>1, CalmStep DEF ObservePresent, Observed
<1>6. CASE AttachAbsent
  <2>1. CASE Done BY <1>1, <1>2, <1>6, <2>1, OtherSteps, CalmStep DEF AttachAbsent, Observed
  <2>2. CASE NeverAllocated(row) /\ Goto("create")
    <3>1. row.srv = 0 /\ row.sess = 0
      BY <2>2 DEF NeverAllocated, ReconciledAbsent
    <3>2. Empty /\ Unsent BY <3>1, UnboundEmpty
    <3>3. op'.pc = "create" BY <1>1, <2>2, GotoStep
    <3>4. Proved /\ UNCHANGED <<row, host, pane>>
      BY <1>2, <1>6 DEF AttachAbsent, Observed
    <3>5. ASSUME NEW g \in Servers PROVE ServerInv(g)'
      BY <3>1, <3>3, <3>4, <3>5 DEF IInv, ServerInv, Proved, Servers
    <3>6. ASSUME NEW g \in Servers
          PROVE  BindingInv(g)' /\ (pane[g].sent => Recorded(g))'
      BY <3>2, <3>4, <3>6 DEF Empty, Unsent, BindingInv
    <3>7. OperationInv' BY <3>1, <3>2, <3>3, <3>4 DEF OperationInv, Unsent
    <3> QED BY <3>4, <3>5, <3>6, <3>7 DEF IInv
  <2> QED BY <1>6, <2>1, <2>2 DEF AttachAbsent
<1>7. CASE ReplaceAbsent
  BY <1>1, <1>2, <1>7, OtherSteps, CalmStep DEF ReplaceAbsent, Observed
<1>8. CASE ReconcileUnpromoted
  <2>1. CASE UNCHANGED row
    BY <1>1, <1>2, <1>8, <2>1, OtherSteps, CalmStep DEF ReconcileUnpromoted, Observed
  <2>2. CASE row' = Unbound(row)
    <3>1. row'.sess = 0 /\ row'.srv = 0 BY <2>2, RowFields
    <3> QED
      BY <1>1, <1>2, <1>8, <3>1, OtherSteps, AbsentEmpty, ReleaseStep
         DEF ReconcileUnpromoted, Observed
  <2> QED BY <1>8, <2>1, <2>2 DEF ReconcileUnpromoted
<1>9. CASE CleanupAbsent
  BY <1>1, <1>2, <1>9, OtherSteps, CalmStep DEF CleanupAbsent, Observed
<1> QED BY <1>3, <1>4, <1>5, <1>6, <1>7, <1>8, <1>9 DEF Observing

LEMMA CreatingKeeps == TypeOK /\ IInv /\ Creating => IInv'
<1> SUFFICES ASSUME TypeOK, IInv, Creating PROVE IInv' OBVIOUS
<1> USE DEF hostVars, daemonVars
<1>1. op \in Op BY DEF TypeOK
<1>2. ASSUME At("create"), NEW h \in Servers, Bind(h), UNCHANGED <<host, pane>>,
             \A g \in Servers \ {h} : phase'[g] = phase[g],
             \/ phase'[h] = "active"
                /\ phase[h] = "active"
             \/ phase'[h] = "provisioning" /\ phase[h] = "unused"
      PROVE  IInv'
  <2>1. Empty /\ Unsent BY <1>2, UnboundEmpty DEF Bind
  <2>2. row' = [row EXCEPT !.srv = h] BY <1>2 DEF Bind
  <2>3. /\ row'.srv = h /\ row'.listed = row.listed /\ row.listed
        /\ row'.sess = row.sess /\ row.sess = 0
    BY <1>2, <2>2 DEF Bind, TypeOK, Row, IInv, OperationInv, At
  <2>4. op'.pc = "spawn" BY <1>1, <1>2, NextSteps DEF Bind
  <2>5. ASSUME NEW g \in Servers PROVE ServerInv(g)'
    BY <1>2, <2>1, <2>3, <2>4, <2>5 DEF IInv, ServerInv, Empty
  <2>6. ASSUME NEW g \in Servers
        PROVE  BindingInv(g)' /\ (pane[g].sent => Recorded(g))'
    BY <1>2, <2>1, <2>6 DEF Empty, Unsent, BindingInv
  <2>7. OperationInv' BY <1>2, <2>1, <2>3, <2>4 DEF OperationInv, Unsent
  <2> QED BY <2>3, <2>5, <2>6, <2>7 DEF IInv
<1>3. CASE CreateOnCurrent
  <2>1. PICK h \in Current : phase[h] = "active" /\ Bind(h)
    BY <1>3 DEF CreateOnCurrent
  <2>2. h \in Servers BY DEF Current
  <2> QED BY <1>2, <1>3, <2>1, <2>2 DEF CreateOnCurrent
<1>4. CASE CreateOnNew
  <2>1. PICK h \in Servers :
          /\ phase[h] = "unused"
          /\ \/ Bind(h) /\ phase' = [phase EXCEPT ![h] = "provisioning"]
             \/ Done /\ phase' = [phase EXCEPT ![h] = "dead"] /\ UNCHANGED row
    BY <1>4 DEF CreateOnNew
  <2>2. CASE Bind(h) /\ phase' = [phase EXCEPT ![h] = "provisioning"]
    <3>1. /\ \A g \in Servers \ {h} : phase'[g] = phase[g]
          /\ phase'[h] = "provisioning"
      BY <2>2 DEF TypeOK
    <3> QED BY <1>2, <1>4, <2>1, <2>2, <3>1 DEF CreateOnNew
  <2>3. CASE Done /\ phase' = [phase EXCEPT ![h] = "dead"] /\ UNCHANGED row
    <3>1. Proved BY <2>1, <2>3 DEF TypeOK, IInv, ServerInv, Proved
    <3> QED BY <1>1, <1>4, <2>3, <3>1, OtherSteps, CalmStep DEF CreateOnNew
  <2> QED BY <2>1, <2>2, <2>3
<1>5. CASE CreateRefused
  <2>1. Proved BY <1>5 DEF CreateRefused, Proved
  <2> QED BY <1>1, <1>5, <2>1, OtherSteps, CalmStep DEF CreateRefused
<1>6. CASE SpawnSession
  <2>1. CASE UNCHANGED pane /\ Done
    <3>1. Proved BY <1>6 DEF SpawnSession, Proved
    <3> QED BY <1>1, <1>6, <2>1, <3>1, OtherSteps, CalmStep DEF SpawnSession
  <2>2. CASE /\ host[row.srv] = "up"
             /\ pane' = [pane EXCEPT ![row.srv] = NewPane(nextPid, nextPid, 0)]
    <3>1. Unsent /\ row.sess = 0
      BY <1>6 DEF SpawnSession, At, IInv, OperationInv, Opening
    <3>2. Unsent' BY <2>2, <3>1, PaneFields DEF Unsent, TypeOK
    <3>3. UNCHANGED <<row, phase, host>> BY <1>6 DEF SpawnSession
    <3>4. op'.pc = "promote" \/ op'.pc \notin Opening
      BY <1>1, <1>6, <2>2, NextSteps, OtherSteps DEF SpawnSession
    <3>5. ASSUME NEW g \in Servers PROVE ServerInv(g)'
      BY <2>2, <3>3, <3>4, <3>5 DEF IInv, ServerInv, TypeOK, Opening
    <3>6. ASSUME NEW g \in Servers
          PROVE  BindingInv(g)' /\ (pane[g].sent => Recorded(g))'
      BY <2>2, <3>1, <3>2, <3>3, <3>6 DEF IInv, BindingInv, TypeOK, Unsent
    <3>7. OperationInv' BY <3>2, <3>4 DEF OperationInv, Opening
    <3> QED BY <3>3, <3>5, <3>6, <3>7 DEF IInv
  <2> QED BY <1>6, <2>1, <2>2 DEF SpawnSession
<1>7. CASE SpawnServer
  <2>1. PICK h \in {"starting", "down"} : host' = [host EXCEPT ![row.srv] = h]
    BY <1>7 DEF SpawnServer
  <2>2. Unsent /\ row.sess = 0
    BY <1>7 DEF SpawnServer, At, IInv, OperationInv, Opening
  <2>3. UNCHANGED <<row, phase, pane>> BY <1>7 DEF SpawnServer
  <2>4. op'.pc = "settle" BY <1>1, <1>7, GotoStep DEF SpawnServer
  <2>5. ASSUME NEW g \in Servers PROVE ServerInv(g)' /\ BindingInv(g)'
    <3>1. CASE g # row.srv
      BY <2>1, <2>3, <2>4, <2>5, <3>1 DEF IInv, ServerInv, BindingInv, TypeOK
    <3>2. CASE g = row.srv
      <4>1. host[g] = "none" /\ phase[g] = "provisioning"
        BY <1>7, <2>5, <3>2 DEF SpawnServer, At, IInv, ServerInv
      <4>2. host'[g] = h BY <2>1, <2>5, <3>2 DEF TypeOK
      <4> QED
        BY <2>2, <2>3, <2>4, <2>5, <3>2, <4>1, <4>2 DEF IInv, ServerInv, BindingInv
    <3> QED BY <3>1, <3>2
  <2>6. ASSUME NEW g \in Servers PROVE (pane[g].sent => Recorded(g))'
    BY <2>2, <2>3, <2>6 DEF Unsent
  <2>7. OperationInv' BY <2>2, <2>3, <2>4 DEF OperationInv, Unsent
  <2> QED BY <2>3, <2>5, <2>6, <2>7 DEF IInv
<1>8. CASE Settle
  <2>1. Proved BY <1>8 DEF Settle, Proved, TypeOK
  <2>2. CASE Done BY <1>1, <1>8, <2>1, <2>2, OtherSteps, CalmStep DEF Settle
  <2>3. CASE op' = [op EXCEPT !.pc = "promote", !.fresh = TRUE]
    <3>1. op'.pc = "promote" BY <1>1, <2>3, NextSteps
    <3>2. Unsent /\ UNCHANGED <<row, host, pane>>
      BY <1>8 DEF Settle, At, IInv, OperationInv, Opening
    <3>3. ASSUME NEW g \in Servers PROVE ServerInv(g)'
      BY <2>1, <3>1, <3>2, <3>3 DEF IInv, ServerInv, Proved
    <3>4. ASSUME NEW g \in Servers
          PROVE  BindingInv(g)' /\ (pane[g].sent => Recorded(g))'
      BY <3>2, <3>4 DEF IInv, BindingInv, Unsent
    <3>5. OperationInv' BY <3>1, <3>2 DEF OperationInv, Unsent
    <3> QED BY <3>2, <3>3, <3>4, <3>5 DEF IInv
  <2> QED BY <1>8, <2>2, <2>3 DEF Settle
<1> QED BY <1>3, <1>4, <1>5, <1>6, <1>7, <1>8 DEF Creating

LEMMA LaunchingKeeps == TypeOK /\ IInv /\ Launching => IInv'
<1> SUFFICES ASSUME TypeOK, IInv, Launching PROVE IInv' OBVIOUS
<1> USE DEF hostVars, daemonVars
<1>1. op \in Op BY DEF TypeOK
<1>2. UNCHANGED phase => Proved BY DEF Proved
<1>3. CASE Promote
  <2>1. row.srv \in Servers BY <1>3, PresentTypes DEF Promote, TypeOK
  <2>2. Unsent BY <1>3 DEF Promote, At, IInv, OperationInv, Opening
  <2>3. UNCHANGED <<phase, host, pane>> BY <1>3 DEF Promote
  <2>4. /\ row'.listed = row.listed /\ row'.srv = row.srv
        /\ row'.sess = pane[row.srv].sess
    BY <1>3 DEF Promote, Cas, TypeOK, Row
  <2>5. op'.pc \notin Opening
    <3>1. [op EXCEPT !.pc = "inspect", !.pid = row'.nonce, !.exp = row'].pc = "inspect"
      BY <1>1 DEF Op, Operation
    <3> QED BY <1>1, <1>3, <3>1, OtherSteps DEF Promote, Opening
  <2>6. pane[row.srv].pid # 0 /\ host[row.srv] = "up"
    BY <1>3 DEF Promote, Present, Live
  <2>7. ASSUME NEW g \in Servers PROVE ServerInv(g)'
    BY <2>3, <2>4, <2>5, <2>7 DEF IInv, ServerInv, Opening
  <2>8. ASSUME NEW g \in Servers
        PROVE  BindingInv(g)' /\ (pane[g].sent => Recorded(g))'
    BY <2>2, <2>3, <2>4, <2>6, <2>8 DEF IInv, BindingInv, Unsent
  <2>9. OperationInv' BY <2>5 DEF OperationInv, Opening
  <2> QED BY <2>4, <2>7, <2>8, <2>9 DEF IInv
<1>4. CASE PromoteFails BY <1>1, <1>2, <1>4, OtherSteps, CalmStep DEF PromoteFails
<1>5. CASE Recover
  <2>1. CASE op' = [op EXCEPT !.pc = "inspect", !.pid = pane[row.srv].pid]
    <3>1. op'.pc \notin Opening BY <1>1, <2>1, NextSteps DEF Opening
    <3> QED BY <1>2, <1>5, <3>1, CalmStep DEF Recover
  <2>2. CASE /\ Goto("promote")
             /\ ~(/\ row.ver = 1 /\ row.scope = pane[row.srv].scope
                  /\ row.sess = pane[row.srv].sess)
    <3>1. op'.pc = "promote" BY <1>1, <2>2, GotoStep
    <3>2. Unsent BY <2>2 DEF IInv, Recorded, Unsent
    <3>3. UNCHANGED <<row, phase, host, pane>> BY <1>5 DEF Recover
    <3>4. ASSUME NEW g \in Servers PROVE ServerInv(g)'
      BY <3>1, <3>3, <3>4 DEF IInv, ServerInv
    <3>5. ASSUME NEW g \in Servers
          PROVE  BindingInv(g)' /\ (pane[g].sent => Recorded(g))'
      BY <3>2, <3>3, <3>5 DEF IInv, BindingInv, Unsent
    <3>6. OperationInv' BY <3>1, <3>2, <3>3 DEF OperationInv, Unsent
    <3> QED BY <3>3, <3>4, <3>5, <3>6 DEF IInv
  <2> QED BY <1>5, <2>1, <2>2 DEF Recover
<1>6. CASE RecoverBlocked BY <1>1, <1>2, <1>6, OtherSteps, CalmStep DEF RecoverBlocked
<1>7. CASE InspectOwn
  <2>1. op'.pc \notin Opening
    <3>1. [op EXCEPT !.pc = "mark", !.proven = op.inert /\ row.scope = op.former].pc
            = "mark"
      BY <1>1 DEF Op, Operation
    <3> QED BY <1>1, <1>7, <3>1, OtherSteps DEF InspectOwn, Opening
  <2> QED BY <1>2, <1>7, <2>1, CalmStep DEF InspectOwn
<1>8. CASE InspectFound
  <2>1. op'.pc \notin Opening
    <3>1. Goto("mark") \/ Goto("regate") => op'.pc \notin Opening
      BY <1>1, GotoStep DEF Opening
    <3> QED BY <1>1, <1>8, <3>1, OtherSteps DEF InspectFound
  <2> QED BY <1>2, <1>8, <2>1, CalmStep DEF InspectFound
<1>9. CASE InspectUnverified
  BY <1>1, <1>2, <1>9, OtherSteps, CalmStep DEF InspectUnverified
<1>10. CASE Regate
  <2>1. op'.pc \notin Opening BY <1>1, <1>10, NextSteps, OtherSteps DEF Regate, Opening
  <2> QED BY <1>2, <1>10, <2>1, CalmStep DEF Regate
<1>11. CASE Mark
  <2>1. Unsent BY <1>11 DEF Mark, IInv, Recorded, Unsent
  <2>2. UNCHANGED <<phase, host, pane>> BY <1>11 DEF Mark
  <2>3. /\ row'.listed = row.listed /\ row'.srv = row.srv
        /\ row'.sess = row.sess /\ row'.launch = "dispatched"
    BY <1>11 DEF Mark, Cas, TypeOK, Row
  <2>4. op'.pc = "recheck" BY <1>1, <1>11, NextSteps DEF Mark
  <2>5. ASSUME NEW g \in Servers PROVE ServerInv(g)'
    BY <2>2, <2>3, <2>4, <2>5 DEF IInv, ServerInv
  <2>6. ASSUME NEW g \in Servers
        PROVE  BindingInv(g)' /\ (pane[g].sent => Recorded(g))'
    BY <2>1, <2>2, <2>3, <2>6 DEF IInv, BindingInv, Unsent
  <2>7. OperationInv' BY <2>1, <2>2, <2>3, <2>4 DEF OperationInv, Unsent
  <2> QED BY <2>3, <2>5, <2>6, <2>7 DEF IInv
<1>12. CASE Recheck
  <2>1. Unsent /\ row.launch = "dispatched"
    BY <1>12 DEF Recheck, At, IInv, OperationInv, Opening
  <2>2. UNCHANGED <<row, phase, host, pane>> BY <1>12 DEF Recheck
  <2>3. op'.pc = "send" BY <1>1, <1>12, GotoStep DEF Recheck
  <2>4. Recorded(row.srv)
    BY <1>12, <2>1 DEF Recheck, Verified, Present, Recorded
  <2>5. row.srv # 0 /\ host[row.srv] = "up"
    BY <1>12 DEF Recheck, Verified, Present, Live
  <2>6. ASSUME NEW g \in Servers PROVE ServerInv(g)'
    BY <2>2, <2>3, <2>6 DEF IInv, ServerInv
  <2>7. ASSUME NEW g \in Servers
        PROVE  BindingInv(g)' /\ (pane[g].sent => Recorded(g))'
    BY <2>1, <2>2, <2>7 DEF IInv, BindingInv, Unsent
  <2>8. OperationInv'
    BY <2>1, <2>2, <2>3, <2>4, <2>5 DEF OperationInv, Unsent, Recorded, Live
  <2> QED BY <2>2, <2>6, <2>7, <2>8 DEF IInv
<1>13. CASE LaunchStopped BY <1>1, <1>2, <1>13, OtherSteps, CalmStep DEF LaunchStopped
<1>14. CASE Send
  <2>1. op'.pc \notin Opening BY <1>1, <1>14, OtherSteps DEF Send
  <2>2. CASE UNCHANGED pane BY <1>2, <1>14, <2>1, <2>2, CalmStep DEF Send
  <2>3. CASE Present(row) /\ pane' = [pane EXCEPT ![row.srv].sent = TRUE]
    <3>1. row.srv \in Servers BY <2>3, PresentTypes DEF TypeOK
    <3>2. Recorded(row.srv) BY <1>14, <2>3 DEF Send, At, IInv, OperationInv
    <3>3. UNCHANGED <<row, phase, host>> BY <1>14 DEF Send
    <3>4. \A g \in Servers :
            /\ pane'[g].pid = pane[g].pid /\ pane'[g].sess = pane[g].sess
            /\ pane'[g].scope = pane[g].scope
            /\ pane'[g].sent => pane[g].sent \/ g = row.srv
      BY <2>3, <3>1 DEF TypeOK, Pane
    <3>5. ASSUME NEW g \in Servers PROVE ServerInv(g)' /\ BindingInv(g)'
      BY <2>1, <3>3, <3>4, <3>5 DEF IInv, ServerInv, BindingInv, Opening
    <3>6. ASSUME NEW g \in Servers PROVE (pane[g].sent => Recorded(g))'
      BY <3>1, <3>2, <3>3, <3>4, <3>6 DEF IInv, Recorded, Live
    <3>7. OperationInv' BY <2>1 DEF OperationInv, Opening
    <3> QED BY <3>3, <3>5, <3>6, <3>7 DEF IInv
  <2> QED BY <1>14, <2>2, <2>3 DEF Send
<1> QED BY <1>3, <1>4, <1>5, <1>6, <1>7, <1>8, <1>9, <1>10, <1>11, <1>12, <1>13, <1>14
        DEF Launching

LEMMA ReplacingKeeps == TypeOK /\ IInv /\ Replacing => IInv'
<1> SUFFICES ASSUME TypeOK, IInv, Replacing PROVE IInv' OBVIOUS
<1> USE DEF hostVars, daemonVars
<1>1. op \in Op BY DEF TypeOK
<1>2. UNCHANGED phase => Proved BY DEF Proved
<1>3. CASE SetPending
  <2>1. op'.pc \notin Opening
    <3>1. [op EXCEPT !.pc = "respawn", !.former = row.scope, !.exp = row'].pc = "respawn"
      BY <1>1 DEF Op, Operation
    <3> QED BY <1>1, <1>3, <3>1, OtherSteps DEF SetPending, Opening
  <2> QED BY <1>2, <1>3, <2>1, CalmStep, PendingStep DEF SetPending, Cas
<1>4. CASE Respawn
  <2>1. row.srv \in Servers BY <1>4, PresentTypes DEF Respawn, TypeOK
  <2>2. PICK sc \in {0, op.former} :
          pane' = [pane EXCEPT ![row.srv] = NewPane(nextPid, @.sess, sc)]
    BY <1>4 DEF Respawn
  <2>3. UNCHANGED <<row, phase, host>> BY <1>4 DEF Respawn
  <2>4. Unsent' BY <2>1, <2>2, PaneFields DEF IInv, Recorded, TypeOK, Unsent
  <2>5. op'.pc = "promote" \/ op'.pc \notin Opening
    BY <1>1, <1>4, NextSteps, OtherSteps DEF Respawn
  <2>6. host[row.srv] = "up" /\ pane[row.srv].pid # 0
    BY <1>4 DEF Respawn, Present, Live
  <2>7. ASSUME NEW g \in Servers PROVE ServerInv(g)'
    BY <2>2, <2>3, <2>5, <2>6, <2>7 DEF IInv, ServerInv, TypeOK, Opening
  <2>8. ASSUME NEW g \in Servers
        PROVE  BindingInv(g)' /\ (pane[g].sent => Recorded(g))'
    <3>1. pane'[g].sess = pane[g].sess BY <2>1, <2>2, <2>8, PaneFields DEF TypeOK
    <3>2. pane'[g].pid # 0 => pane[g].pid # 0
      BY <2>1, <2>2, <2>6, <2>8 DEF TypeOK
    <3> QED BY <2>3, <2>4, <2>8, <3>1, <3>2 DEF IInv, BindingInv, Unsent
  <2>9. OperationInv' BY <2>4, <2>5 DEF OperationInv, Opening
  <2> QED BY <2>3, <2>7, <2>8, <2>9 DEF IInv
<1>5. CASE RespawnFails BY <1>1, <1>2, <1>5, OtherSteps, CalmStep DEF RespawnFails
<1>6. CASE After
  <2>1. op'.pc \notin Opening BY <1>1, <1>6, OtherSteps DEF After
  <2> QED BY <1>2, <1>6, <2>1, CalmStep, PendingStep DEF After
<1>7. CASE SupersedeNone BY <1>1, <1>2, <1>7, OtherSteps, CalmStep DEF SupersedeNone
<1>8. CASE SupersedeCurrent
  <2>1. op'.pc \notin Opening BY <1>1, <1>8, OtherSteps DEF SupersedeCurrent
  <2> QED BY <1>8, <2>1, PendingStep DEF SupersedeCurrent
<1>9. CASE SupersedeFormer BY <1>1, <1>2, <1>9, OtherSteps, CalmStep DEF SupersedeFormer
<1>10. CASE SupersedeRefused
  BY <1>1, <1>2, <1>10, OtherSteps, CalmStep DEF SupersedeRefused
<1>11. CASE DrainScope
  <2>1. op'.pc \notin Opening
    <3>1. Goto("drained") => op'.pc \notin Opening BY <1>1, GotoStep DEF Opening
    <3> QED BY <1>1, <1>11, <3>1, OtherSteps DEF DrainScope
  <2>2. \A g \in Servers : pane'[g] = pane[g] \/ pane'[g] = NoPane
    BY <1>11 DEF DrainScope
  <2> QED BY <1>11, <2>1, <2>2, GoneStep DEF DrainScope
<1>12. CASE Drained
  <2>1. op'.pc \notin Opening BY <1>1, <1>12, OtherSteps DEF Drained
  <2> QED BY <1>2, <1>12, <2>1, CalmStep, PendingStep DEF Drained
<1> QED BY <1>3, <1>4, <1>5, <1>6, <1>7, <1>8, <1>9, <1>10, <1>11, <1>12 DEF Replacing

LEMMA EndingKeeps == TypeOK /\ IInv /\ Ending => IInv'
<1> SUFFICES ASSUME TypeOK, IInv, Ending PROVE IInv' OBVIOUS
<1> USE DEF hostVars, daemonVars
<1>1. op \in Op BY DEF TypeOK
<1>2. UNCHANGED phase => Proved BY DEF Proved
<1>3. Goto("kill") \/ Goto("stopped") => op'.pc \notin Opening
  BY <1>1, GotoStep DEF Opening
<1>4. CASE Stop BY <1>1, <1>2, <1>3, <1>4, OtherSteps, CalmStep DEF Stop
<1>5. CASE Kill
  <2>1. \A g \in Servers : pane'[g] = pane[g] \/ pane'[g] = NoPane
    BY <1>5 DEF Kill, TypeOK
  <2> QED BY <1>3, <1>5, <2>1, GoneStep DEF Kill
<1>6. CASE KillFails BY <1>2, <1>3, <1>6, CalmStep DEF KillFails
<1>7. CASE Stopped
  <2>1. op'.pc \notin Opening BY <1>1, <1>7, OtherSteps DEF Stopped
  <2> QED BY <1>7, <2>1, SeenProved, CalmStep DEF Stopped
<1>8. CASE Finalise
  <2>1. op'.pc \notin Opening BY <1>1, <1>8, OtherSteps DEF Finalise
  <2>2. Proved BY <1>8, SeenProved DEF Finalise
  <2>3. CASE UNCHANGED row BY <1>8, <2>1, <2>2, <2>3, CalmStep DEF Finalise
  <2>4. CASE row' # row
    <3>1. Answers(row, "absent") BY <1>8, <2>4 DEF Finalise
    <3>2. row' = NoRow \/ row' = Unbound(row) \/ row' = [Unbound(row) EXCEPT !.srv = row.srv]
      BY <1>8, <2>4 DEF Finalise
    <3>3. row'.sess = 0 /\ (row'.listed \/ row'.srv = 0) BY <3>2, RowFields
    <3> QED BY <1>8, <2>1, <2>2, <3>1, <3>3, AbsentEmpty, ReleaseStep DEF Finalise
  <2> QED BY <2>3, <2>4
<1> QED BY <1>4, <1>5, <1>6, <1>7, <1>8 DEF Ending

LEMMA HostKeeps == TypeOK /\ IInv /\ Host => IInv'
<1> SUFFICES ASSUME TypeOK, IInv, Host PROVE IInv' OBVIOUS
<1> USE DEF daemonState, daemonVars
<1>1. ASSUME NEW g \in Servers, ServerStarts(g) PROVE IInv'
  <2>1. /\ host[g] = "starting" /\ UNCHANGED <<row, phase, op>>
        /\ host' = [host EXCEPT ![g] = "up"]
        /\ pane' = [pane EXCEPT ![g] = NewPane(nextPid, nextPid, 0)]
    BY <1>1 DEF ServerStarts
  <2>2. row.srv = g /\ row.sess = 0 BY <2>1 DEF IInv, BindingInv
  <2>3. Unsent BY <2>1, <2>2 DEF IInv, Recorded, Live, Unsent
  <2>4. Unsent' BY <2>1, <2>3, PaneFields DEF Unsent, TypeOK
  <2>5. ASSUME NEW h \in Servers PROVE ServerInv(h)'
    BY <2>1, <2>5 DEF IInv, ServerInv, TypeOK
  <2>6. ASSUME NEW h \in Servers
        PROVE  BindingInv(h)' /\ (pane[h].sent => Recorded(h))'
    BY <2>1, <2>2, <2>4, <2>6 DEF IInv, BindingInv, TypeOK, Unsent
  <2>7. op.pc # "send" BY <2>1, <2>2 DEF IInv, OperationInv
  <2>8. OperationInv' BY <2>1, <2>4, <2>7 DEF IInv, OperationInv, Unsent
  <2> QED BY <2>1, <2>5, <2>6, <2>8 DEF IInv
<1>2. ASSUME NEW g \in Servers, ServerDies(g) PROVE IInv'
  BY <1>2, GoneStep DEF ServerDies, TypeOK
<1>3. ASSUME NEW g \in Servers, UNCHANGED <<row, phase, host, op>>,
             NEW r, NEW s,
             \/ pane' = [pane EXCEPT ![g].root = r]
             \/ pane' = [pane EXCEPT ![g].scope = s] /\ pane[g].scope = 0
      PROVE  IInv'
  <2>1. \A h \in Servers :
          /\ pane'[h].pid = pane[h].pid /\ pane'[h].sess = pane[h].sess
          /\ pane'[h].sent = pane[h].sent
          /\ pane'[h].scope = pane[h].scope \/ pane[h].scope = 0
    BY <1>3 DEF TypeOK, Pane
  <2>2. ASSUME NEW h \in Servers
        PROVE  /\ ServerInv(h)' /\ BindingInv(h)'
               /\ (pane[h].sent => Recorded(h))' /\ Live(h)' = Live(h)
               /\ Recorded(h) => Recorded(h)'
    BY <1>3, <2>1, <2>2 DEF IInv, ServerInv, BindingInv, Recorded, Live
  <2>3. Unsent => Unsent' BY <2>1 DEF Unsent
  <2>4. row.srv # 0 => row.srv \in Servers BY BoundsAssumption DEF TypeOK, Row, Servers
  <2>5. Present(row)' = Present(row) BY <1>3, <2>1, <2>2, <2>4 DEF Present
  <2>6. OperationInv'
    BY <1>3, <2>2, <2>3, <2>4, <2>5 DEF IInv, OperationInv, Opening
  <2> QED BY <1>3, <2>2, <2>6 DEF IInv
<1>4. UNCHANGED phase => Proved BY DEF Proved
<1>5. ASSUME NEW g \in Servers, PlaceScope(g) PROVE IInv'
  BY <1>3, <1>5 DEF PlaceScope
<1>6. ASSUME NEW g \in Servers, GateRuns(g) PROVE IInv'
  BY <1>3, <1>6 DEF GateRuns
<1>7. ASSUME NEW g \in Servers, UserTypes(g) PROVE IInv'
  BY <1>3, <1>4, <1>7, CalmStep DEF UserTypes
<1>8. ASSUME NEW g \in Servers, PaneExits(g) PROVE IInv'
  BY <1>8, GoneStep DEF PaneExits, TypeOK
<1>9. ASSUME NEW s \in Pids, ResidueExits(s) PROVE IInv'
  BY <1>4, <1>9, CalmStep DEF ResidueExits
<1> QED BY <1>1, <1>2, <1>5, <1>6, <1>7, <1>8, <1>9 DEF Host

LEMMA DaemonKeeps == TypeOK /\ IInv /\ Daemon => IInv'
<1> SUFFICES ASSUME TypeOK, IInv, Daemon PROVE IInv' OBVIOUS
<1> USE DEF hostVars, daemonVars
<1>1. UNCHANGED phase => Proved BY DEF Proved
<1>2. Idle.pc \notin Opening BY IdleStep DEF Opening
<1>3. CASE Crash BY <1>1, <1>2, <1>3, CalmStep DEF Crash
<1>4. CASE Ready BY <1>1, <1>4, CalmStep DEF Ready
<1>5. ASSUME NEW g \in Servers, StartupServer(g) PROVE IInv'
  <2>1. Proved BY <1>5 DEF StartupServer, TypeOK, Proved
  <2> QED BY <1>5, <2>1, CalmStep DEF StartupServer
<1>6. ASSUME NEW g \in Servers, BindRoster(g) PROVE IInv'
  <2>1. UNCHANGED <<phase, host, pane, op>> /\ Live(g) /\ op.pc \notin Opening
    BY <1>2, <1>6 DEF BindRoster
  <2>2. row.srv = g /\ row.sess \in {0, pane[g].sess} BY <2>1 DEF IInv, BindingInv, Live
  <2>3. /\ row'.listed = row.listed /\ row'.srv = row.srv
        /\ row'.sess = pane[g].sess /\ row'.scope = row.scope
        /\ row'.ver = row.ver /\ row'.launch = row.launch
    BY <1>6, <2>2 DEF BindRoster, TypeOK, Row
  <2>4. ASSUME NEW h \in Servers PROVE ServerInv(h)'
    BY <2>1, <2>3, <2>4 DEF IInv, ServerInv
  <2>5. host[g] # "starting" BY <2>1 DEF Live
  <2>6. ASSUME NEW h \in Servers
        PROVE  BindingInv(h)' /\ (pane[h].sent => Recorded(h))'
    BY <2>1, <2>2, <2>3, <2>5, <2>6 DEF IInv, BindingInv, Recorded, Live
  <2>7. OperationInv' BY <2>1 DEF OperationInv, Opening
  <2> QED BY <2>3, <2>4, <2>6, <2>7 DEF IInv
<1>7. ASSUME NEW g \in Servers, ProbeServer(g) PROVE IInv'
  <2>1. Proved BY <1>7 DEF ProbeServer, TypeOK, Proved
  <2> QED BY <1>7, <2>1, CalmStep DEF ProbeServer
<1> QED BY <1>3, <1>4, <1>5, <1>6, <1>7 DEF Daemon

LEMMA InitKeeps == Init => IInv
<1> SUFFICES ASSUME Init PROVE IInv OBVIOUS
<1>1. \A g \in Servers : /\ phase[g] = "unused" /\ host[g] = "none"
                         /\ pane[g].pid = 0 /\ ~pane[g].sent
  BY NoPaneFields DEF Init
<1>2. row.listed /\ op.pc = "idle" BY IdleStep DEF Init, NewRow
<1> QED BY <1>1, <1>2 DEF IInv, ServerInv, BindingInv, OperationInv, Opening

LEMMA Inductive == TypeOK /\ IInv /\ [Next]_vars => IInv'
<1> SUFFICES ASSUME TypeOK, IInv, [Next]_vars PROVE IInv' OBVIOUS
<1>1. CASE Begin BY <1>1, BeginKeeps
<1>2. CASE OpStep
  BY <1>2, ObservingKeeps, CreatingKeeps, LaunchingKeeps, ReplacingKeeps, EndingKeeps
     DEF OpStep
<1>3. CASE Host BY <1>3, HostKeeps
<1>4. CASE Daemon BY <1>4, DaemonKeeps
<1>5. CASE Ended \/ UNCHANGED vars
  <2>1. Proved BY <1>5 DEF Ended, vars, Proved
  <2> QED BY <1>5, <2>1, CalmStep DEF Ended, vars
<1> QED BY <1>1, <1>2, <1>3, <1>4, <1>5 DEF Next

-----------------------------------------------------------------------------
(* The safety theorems.                                                    *)

LEMMA Invariance == Spec => []IInv
BY InitKeeps, Inductive, TypeCorrect, PTL DEF Spec

(* "A live agent is never relaunched": whatever crashes, fails, times out  *)
(* or is retried, a launch line is never sent to a gate that was sent one. *)
THEOREM LaunchedOnce == Spec => []LaunchOnce
<1>1. TypeOK /\ IInv => LaunchOnce
  BY PresentTypes DEF TypeOK, IInv, OperationInv, Opening, Unsent, LaunchOnce
<1> QED BY <1>1, TypeCorrect, Invariance, PTL

(* However attach, reconciliation, a crash and the loss of a server        *)
(* interleave, at most one tmux session is alive for the row.              *)
THEOREM OneSessionAlive == Spec => []OneSession
<1>1. IInv => OneSession BY DEF IInv, BindingInv, OneSession, Live
<1> QED BY <1>1, Invariance, PTL

(* A session that was deleted has no live pane on any server.              *)
THEOREM EndedSessionsAreGone == Spec => []EndedIsGone
<1>1. IInv => EndedIsGone BY DEF IInv, BindingInv, EndedIsGone, Live, Servers
<1> QED BY <1>1, Invariance, PTL

-----------------------------------------------------------------------------
(* The authority of the row: it always names every scope in which launched *)
(* work may still run, so that the session keeps the contract of           *)
(* SessionContract.  The inductive invariant, relative to TypeOK and IInv. *)

(* A pane has a session; launched work was sent a line; the nonce of the   *)
(* row is the gate that was sent one; and the scope of the pane is that of *)
(* the row, unless the row's is about to be replaced.                      *)
PaneInv(g) ==
  /\ pane[g].pid # 0 => pane[g].sess # 0
  /\ pane[g].root = "launched" => pane[g].sent
  /\ pane[g].sent => row.nonce = pane[g].pid
  /\ pane[g].pid # 0 /\ row.scope # 0 =>
       \/ row.pending = row.scope
       \/ /\ pane[g].scope = row.scope
          /\ pane[g].pid = row.nonce \/ pane[g].root # "gate"

(* Launched work that outlived its pane is in a scope the row names.       *)
LeftNamed ==
  \A s \in Pids : "launched" \in left[s] => row.listed /\ s \in {row.scope, row.pending}

WorldInv == RowCoherent /\ LeftNamed /\ \A g \in Servers : PaneInv(g)

(* The pane is the gate that was promoted.                                 *)
Promoted == /\ row.scope # 0
            /\ \A g \in Servers : pane[g].pid # 0 => /\ pane[g].scope = row.scope
                                                     /\ pane[g].pid = row.nonce

(* No launched work is left in scope s.                                    *)
Drawn(s) == \A t \in Pids : t = s => "launched" \notin left[t]

Draining == op.pc \in {"drain", "drained"}

(* An operation that owns a gate: beside its scope, the row remembers only *)
(* the one that is being replaced.                                         *)
OwnGate == \/ op.fresh /\ op.pc \in {"promote", "inspect"}
           \/ op.pc \in {"mark", "recheck", "send", "after"}

LaunchInv ==
  /\ op.pc \in {"observe", "recover", "regate", "supersede"} => ~op.fresh
  /\ Draining /\ op.then = "inspect" => ~op.fresh
  /\ OwnGate => row.pending \in {0, op.former}
  /\ OwnGate /\ op.pc # "promote" => Promoted

(* Only a replacement has a former scope.                                  *)
ReplaceInv ==
  /\ op.pc \in {"regate", "setPending"} \/ op.then = "setPending" \/ op.former # 0
       => op.kind = "replace"
  /\ op.pc = "setPending" => row.pending = 0
  /\ op.pc = "respawn" => row.pending = row.scope /\ op.former = row.scope

(* The scope being drained cannot be filled again; the last one is drained *)
(* before the identity is given up.                                        *)
DrainInv ==
  /\ op.pc = "supersede" => op.then \in {"idle", "inspect", "setPending"}
  /\ Draining => op.target # row.scope \/ Empty
  /\ Draining /\ op.then = "setPending" => row.pending \in {0, op.target}
  /\ Draining /\ op.then \in {"cleanup", "finalise"} => Empty
  /\ op.pc = "finalise" => Empty
  /\ Draining /\ op.then = "finalise" => row.scope \in {0, op.target}
  /\ op.pc = "drained" => Drawn(op.target)
  /\ op.pc = "finalise" => Drawn(row.scope)

(* What the caller of a fenced End knew of the launch in row r.            *)
Knows(r, saw) == r.launch = "dispatched" => saw = r.nonce

EndInv ==
  /\ op.pc \in {"observe", "stop", "kill"} /\ op.fenced => Knows(op.exp, op.saw)
  /\ op.pc = "kill" => row \in {op.exp, NoRow}

RequestInv == endReq.gen.listed /\ endReq.fenced => Knows(endReq.gen, endReq.saw)

OpInv == LaunchInv /\ ReplaceInv /\ DrainInv /\ EndInv

JInv == WorldInv /\ OpInv /\ RequestInv

-----------------------------------------------------------------------------
(* Facts about the definitions the steps are made of.                      *)

LEMMA IdleFields ==
  /\ Idle.pc = "idle" /\ Idle.kind = "none" /\ ~Idle.fresh
  /\ Idle.former = 0 /\ Idle.then = "idle"
BY DEF Idle

LEMMA GotoFields ==
  ASSUME op \in Op, NEW pc, Goto(pc)
  PROVE  /\ op'.pc = pc /\ op'.kind = op.kind /\ op'.fresh = op.fresh
         /\ op'.former = op.former /\ op'.then = op.then /\ op'.target = op.target
         /\ op'.exp = op.exp /\ op'.saw = op.saw /\ op'.fenced = op.fenced
BY DEF Goto, Op, Operation

LEMMA SupersedeFields ==
  ASSUME op \in Op, NEW t, Supersede(t)
  PROVE  /\ op'.pc = "supersede" /\ op'.then = t
         /\ op'.kind = op.kind /\ op'.fresh = op.fresh /\ op'.former = op.former
BY DEF Supersede, Op, Operation

LEMMA DrainFields ==
  ASSUME op \in Op, NEW s, NEW t, NEW o, o = Drain(s, t)
  PROVE  /\ o.pc = "drain" /\ o.target = s /\ o.then = t
         /\ o.kind = op.kind /\ o.fresh = op.fresh /\ o.former = op.former
BY DEF Drain, Op, Operation

LEMMA FreedFields ==
  /\ ~NoRow.listed /\ NoRow.scope = 0 /\ NoRow.pending = 0 /\ NoRow.nonce = 0
  /\ NoRow.launch = "none" /\ NoRow.ver = 0
  /\ \A r : /\ Unbound(r).scope = 0 /\ Unbound(r).pending = 0
            /\ Unbound(r).nonce = 0 /\ Unbound(r).launch = "none"
BY DEF NoRow, NewRow, Unbound

LEMMA NewPaneFields ==
  \A p, s, sc : LET n == NewPane(p, s, sc)
                IN n.pid = p /\ n.sess = s /\ n.scope = sc /\ n.root = "gate" /\ ~n.sent
BY DEF NewPane

LEMMA GonePane == NoPane.pid = 0 /\ ~NoPane.sent /\ NoPane.root = "gate"
BY DEF NoPane, NewPane

(* A pane with launched work is the one the row records.                   *)
LEMMA LaunchedRecorded ==
  ASSUME IInv, WorldInv, NEW g \in Servers, pane[g].root = "launched"
  PROVE  Recorded(g) /\ row.listed /\ pane[g].pid # 0
BY DEF IInv, WorldInv, PaneInv, Recorded, Live, Servers

(* What a root process leaves is in the scope of the row.                  *)
LEMMA ResidueNamed ==
  ASSUME TypeOK, IInv, WorldInv, NEW g \in Servers, left' \in Residue(pane[g]),
         NEW s \in Pids, "launched" \in left'[s]
  PROVE  \/ "launched" \in left[s]
         \/ pane[g].pid # 0 /\ row.listed /\ s = row.scope
<1>1. CASE left' = left BY <1>1
<1>2. CASE left' # left
  <2>1. /\ pane[g].root = "launched"
        /\ left' = [left EXCEPT ![pane[g].scope] = @ \cup {"launched"}]
    BY <1>2 DEF Residue
  <2>2. Recorded(g) /\ row.listed /\ pane[g].pid # 0 BY <2>1, LaunchedRecorded
  <2>3. CASE s = pane[g].scope BY <2>2, <2>3 DEF Recorded
  <2>4. CASE s # pane[g].scope BY <2>1, <2>4 DEF TypeOK
  <2> QED BY <2>3, <2>4
<1> QED BY <1>1, <1>2

-----------------------------------------------------------------------------
(* The frames the actions fall into.                                       *)

LEMMA CalmWorld ==
  ASSUME WorldInv, UNCHANGED <<row, pane, left>>
  PROVE  WorldInv'
BY DEF WorldInv, RowCoherent, LeftNamed, PaneInv

LEMMA CalmRequest == RequestInv /\ UNCHANGED endReq => RequestInv'
BY DEF RequestInv, Knows

LEMMA DoneInv == Done => OpInv'
BY IdleFields
   DEF Done, OpInv, LaunchInv, ReplaceInv, DrainInv, EndInv, OwnGate, Draining

(* Panes disappear; what they leave is in the scope of the row.            *)
PanesGo == \A g \in Servers : pane'[g] = pane[g] \/ pane'[g] = NoPane
LeftInRow ==
  \A s \in Pids : "launched" \in left'[s] =>
    \/ "launched" \in left[s]
    \/ row.listed /\ s = row.scope /\ ~Empty

LEMMA GoneWorld ==
  ASSUME WorldInv, UNCHANGED row, PanesGo, LeftInRow
  PROVE  WorldInv'
<1> USE DEF PanesGo, LeftInRow
<1>1. RowCoherent' BY DEF WorldInv, RowCoherent
<1>2. LeftNamed' BY DEF WorldInv, LeftNamed
<1>3. ASSUME NEW g \in Servers PROVE PaneInv(g)'
  BY <1>3, GonePane DEF WorldInv, PaneInv
<1> QED BY <1>1, <1>2, <1>3 DEF WorldInv

(* So they do not disturb the operation, which drains no scope they fill.  *)
LEMMA GoneOp ==
  ASSUME OpInv, UNCHANGED <<row, op>>, PanesGo, LeftInRow,
         \A g \in Servers : host'[g] = host[g] \/ host'[g] # "starting"
  PROVE  OpInv'
<1> USE DEF PanesGo, LeftInRow
<1>1. Empty => Empty' BY GonePane DEF Empty
<1>2. Promoted => Promoted' BY GonePane DEF Promoted
<1>3. LaunchInv' /\ ReplaceInv' /\ EndInv'
  BY <1>2 DEF OpInv, LaunchInv, ReplaceInv, EndInv, OwnGate, Draining, Knows
<1>4. op.pc = "drained" => Drawn(op.target)'
  BY DEF OpInv, DrainInv, Draining, Drawn
<1>5. op.pc = "finalise" => Drawn(row.scope)'
  BY DEF OpInv, DrainInv, Drawn
<1>6. DrainInv' BY <1>1, <1>4, <1>5 DEF OpInv, DrainInv, Draining
<1> QED BY <1>3, <1>6 DEF OpInv

(* The identity of a session without a scope to clean is given up.         *)
LEMMA FreedWorld ==
  ASSUME TypeOK, IInv, WorldInv, UNCHANGED <<pane, left>>,
         row' \in {NoRow, Unbound(row), [Unbound(row) EXCEPT !.srv = row.srv]},
         row.pending = 0, Drawn(row.scope), row.scope = 0 \/ Empty
  PROVE  WorldInv'
<1>1. /\ row'.scope = 0 /\ row'.pending = 0 /\ row'.nonce = 0
      /\ row'.launch = "none" /\ row'.sess = 0
  <2>1. CASE row' = NoRow BY <2>1, FreedFields, RowFields
  <2>2. CASE row' = Unbound(row) BY <2>2, FreedFields, RowFields
  <2>3. CASE row' = [Unbound(row) EXCEPT !.srv = row.srv]
    BY <2>3 DEF Unbound, NewRow
  <2> QED BY <2>1, <2>2, <2>3
<1>2. RowCoherent' BY <1>1 DEF RowCoherent
<1>3. \A s \in Pids : "launched" \notin left[s]
  BY DEF WorldInv, LeftNamed, Drawn, Pids
<1>4. LeftNamed' BY <1>3 DEF LeftNamed
<1>5. ASSUME NEW g \in Servers PROVE PaneInv(g)'
  <2>1. ~pane[g].sent BY DEF IInv, Recorded, Live, Empty
  <2> QED BY <1>1, <1>5, <2>1 DEF WorldInv, PaneInv
<1> QED BY <1>2, <1>4, <1>5 DEF WorldInv

(* Only the pending scope of the row changes: to the one about to be       *)
(* replaced, or from one that is no longer needed.                         *)
LEMMA PendingWorld ==
  ASSUME TypeOK, WorldInv, UNCHANGED <<pane, left>>,
         NEW s, row' = [row EXCEPT !.pending = s],
         \/ row.pending \in {0, row.scope} /\ s = row.scope
         \/ s = 0 /\ (row.pending = row.scope \/ Drawn(row.pending)),
         \A g \in Servers : pane[g].pid # 0 /\ row.pending = row.scope =>
           \/ s = row.scope
           \/ /\ pane[g].scope = row.scope
              /\ pane[g].pid = row.nonce \/ pane[g].root # "gate"
  PROVE  WorldInv'
<1>1. /\ row'.pending = s /\ row'.listed = row.listed /\ row'.srv = row.srv
      /\ row'.sess = row.sess /\ row'.scope = row.scope /\ row'.ver = row.ver
      /\ row'.launch = row.launch /\ row'.nonce = row.nonce
  BY DEF TypeOK, Row
<1>2. RowCoherent' BY <1>1 DEF WorldInv, RowCoherent
<1>3. LeftNamed' BY <1>1 DEF WorldInv, LeftNamed, Drawn, Pids
<1>4. ASSUME NEW g \in Servers PROVE PaneInv(g)'
  BY <1>1, <1>4 DEF WorldInv, PaneInv
<1> QED BY <1>2, <1>3, <1>4 DEF WorldInv

(* Cleanup begins with no pane, and none to come.                          *)
LEMMA CleanupInv ==
  ASSUME TypeOK, ReplaceInv, RowCoherent', Empty', op' = Cleanup(row')
  PROVE  OpInv'
<1> DEFINE r == row'
<1>1. op \in Op BY DEF TypeOK
<1>2. CASE r.pending # 0
  <2>1. op' = [Drain(r.pending, "cleanup") EXCEPT !.exp = r] BY <1>2 DEF Cleanup
  <2>2. /\ op'.pc = "drain" /\ op'.then = "cleanup"
        /\ op'.kind = op.kind /\ op'.former = op.former
    BY <1>1, <2>1 DEF Drain, Op, Operation
  <2> QED
    BY <2>2 DEF OpInv, LaunchInv, ReplaceInv, DrainInv, EndInv, OwnGate, Draining
<1>3. CASE r.pending = 0 /\ r.scope # 0
  <2>1. op' = [Drain(r.scope, "finalise") EXCEPT !.exp = r] BY <1>3 DEF Cleanup
  <2>2. /\ op'.pc = "drain" /\ op'.then = "finalise" /\ op'.target = r.scope
        /\ op'.kind = op.kind /\ op'.former = op.former
    BY <1>1, <2>1 DEF Drain, Op, Operation
  <2> QED
    BY <2>2 DEF OpInv, LaunchInv, ReplaceInv, DrainInv, EndInv, OwnGate, Draining
<1>4. CASE op' = Idle BY <1>4, DoneInv DEF Done
<1>5. CASE r.pending = 0 /\ r.scope = 0 /\ op' # Idle
  <2>1. op' = [op EXCEPT !.pc = "finalise", !.exp = r] BY <1>5 DEF Cleanup
  <2>2. /\ op'.pc = "finalise" /\ op'.kind = op.kind
        /\ op'.former = op.former /\ op'.then = op.then
    BY <1>1, <2>1 DEF Op, Operation
  <2>3. Drawn(row.scope)' BY <1>5 DEF Drawn, Pids
  <2> QED
    BY <2>2, <2>3 DEF OpInv, LaunchInv, ReplaceInv, DrainInv, EndInv, OwnGate, Draining
<1> QED BY <1>2, <1>3, <1>4, <1>5

(* What follows once no former scope is pending.                           *)
LEMMA ThenInv ==
  ASSUME TypeOK, ReplaceInv, op' = Then, op.then \in {"idle", "inspect", "setPending"},
         op.then = "inspect" => ~op.fresh,
         op.then = "setPending" => row'.pending = 0
  PROVE  OpInv'
<1>1. CASE op.then = "idle" BY <1>1, DoneInv DEF Then, Done
<1>2. CASE op.then # "idle"
  <2>1. /\ op'.pc = op.then /\ op'.kind = op.kind /\ op'.fresh = op.fresh
        /\ op'.former = op.former /\ op'.then = op.then
    BY <1>2 DEF Then, TypeOK, Op, Operation
  <2> QED
    BY <1>2, <2>1 DEF OpInv, LaunchInv, ReplaceInv, DrainInv, EndInv, OwnGate, Draining
<1> QED BY <1>1, <1>2

-----------------------------------------------------------------------------
(* One lemma per group of actions, one step per action.                    *)

LEMMA BeginAuthority == TypeOK /\ IInv /\ JInv /\ Begin => JInv'
<1> SUFFICES ASSUME TypeOK, IInv, JInv, Begin PROVE JInv' OBVIOUS
<1> USE DEF hostVars, daemonVars
<1>1. WorldInv /\ OpInv /\ RequestInv BY DEF JInv
<1>2. UNCHANGED <<row, pane, left>> => WorldInv' BY <1>1, CalmWorld
<1>3. UNCHANGED endReq => RequestInv' BY <1>1, CalmRequest
<1>4. ASSUME NEW kind, Start(kind) PROVE JInv'
  <2>1. /\ op'.pc = "observe" /\ ~op'.fresh /\ ~op'.fenced
        /\ op'.former = 0 /\ op'.then = "idle"
    BY <1>4 DEF Start, Idle
  <2>2. OpInv'
    BY <2>1 DEF OpInv, LaunchInv, ReplaceInv, DrainInv, EndInv, OwnGate, Draining
  <2> QED BY <1>2, <1>3, <1>4, <2>2 DEF Start, JInv
<1>5. CASE StartAttach BY <1>4, <1>5 DEF StartAttach
<1>6. CASE StartReplace BY <1>4, <1>6 DEF StartReplace
<1>7. CASE StartReconcile BY <1>4, <1>7 DEF StartReconcile
<1>8. UNCHANGED <<row, pane, left, host, op>> => OpInv'
  BY <1>1 DEF OpInv, LaunchInv, ReplaceInv, DrainInv, EndInv, OwnGate, Draining,
              Promoted, Empty, Drawn, Knows
<1>9. CASE RequestEnd
  <2>1. PICK f \in Fences :
          endReq' = [gen |-> IF f THEN row ELSE NewRow, fenced |-> f,
                     saw |-> IF f /\ row.launch = "dispatched" THEN row.nonce ELSE 0]
    BY <1>9 DEF RequestEnd
  <2>2. RequestInv' BY <2>1 DEF RequestInv, Knows
  <2> QED BY <1>2, <1>8, <1>9, <2>2 DEF RequestEnd, JInv
<1>10. endReq' = NoRequest => RequestInv'
  BY FreedFields DEF RequestInv, NoRequest
<1>11. CASE EndBusy BY <1>2, <1>8, <1>10, <1>11 DEF EndBusy, JInv
<1>12. CASE EndRefused BY <1>2, <1>8, <1>10, <1>12 DEF EndRefused, TakeEnd, JInv
<1>13. ASSUME NeverAllocated(row), row' = NoRow, UNCHANGED <<host, pane, left, op>>
       PROVE  WorldInv' /\ OpInv'
  <2>1. row.scope = 0 /\ row.pending = 0 /\ row.nonce = 0
    BY <1>13 DEF NeverAllocated, ReconciledAbsent
  <2>2. row'.scope = 0 /\ row'.pending = 0 /\ row'.nonce = 0 BY <1>13, FreedFields
  <2>3. WorldInv'
    BY <1>1, <1>13, <2>1, FreedWorld DEF Drawn, Pids
  <2>4. OpInv'
    BY <1>1, <1>13, <2>1, <2>2
       DEF OpInv, LaunchInv, ReplaceInv, DrainInv, EndInv, OwnGate, Draining,
           Promoted, Empty, Drawn, Knows
  <2> QED BY <2>3, <2>4
<1>14. CASE EndNeverAllocated
  BY <1>10, <1>13, <1>14 DEF EndNeverAllocated, TakeEnd, JInv
<1>15. CASE EndBegins
  <2>1. /\ op'.pc = "observe" /\ ~op'.fresh /\ op'.fenced = endReq.fenced
        /\ op'.saw = endReq.saw /\ op'.exp = row
        /\ op'.former = 0 /\ op'.then = "idle"
    BY <1>15 DEF EndBegins, Idle
  <2>2. endReq.fenced => Knows(row, endReq.saw)
    BY <1>1, <1>15 DEF EndBegins, TakeEnd, Stale, RequestInv
  <2>3. OpInv'
    BY <2>1, <2>2
       DEF OpInv, LaunchInv, ReplaceInv, DrainInv, EndInv, OwnGate, Draining, Knows
  <2> QED BY <1>2, <1>10, <1>15, <2>3 DEF EndBegins, TakeEnd, JInv
<1>16. CASE DiscardNeverAllocated
  BY <1>3, <1>13, <1>16 DEF DiscardNeverAllocated, JInv
<1>17. CASE ReleaseCrashed
  <2>1. /\ row.scope = 0 /\ row.pending = 0 /\ row' = Unbound(row)
        /\ op = Idle /\ UNCHANGED <<pane, left, op, endReq>>
    BY <1>17 DEF ReleaseCrashed
  <2>2. WorldInv' BY <1>1, <2>1, FreedWorld DEF Drawn, Pids
  <2>3. OpInv' BY <2>1, DoneInv DEF Done
  <2> QED BY <1>3, <2>1, <2>2, <2>3 DEF JInv
<1> QED
  BY <1>5, <1>6, <1>7, <1>9, <1>11, <1>12, <1>14, <1>15, <1>16, <1>17 DEF Begin

LEMMA ObservingAuthority == TypeOK /\ IInv /\ JInv /\ Observing => JInv'
<1> SUFFICES ASSUME TypeOK, IInv, JInv, Observing PROVE JInv' OBVIOUS
<1> USE DEF hostVars, daemonVars
<1>1. /\ WorldInv /\ RequestInv /\ op \in Op
      /\ LaunchInv /\ ReplaceInv /\ DrainInv /\ EndInv
  BY DEF JInv, OpInv, TypeOK
<1>2. UNCHANGED <<row, pane, left>> => WorldInv' BY <1>1, CalmWorld
<1>3. UNCHANGED endReq => RequestInv' BY <1>1, CalmRequest
<1>4. CASE ReconcileProvisioning
  <2>1. UNCHANGED <<row, pane, left, host, op, endReq>>
    BY <1>4 DEF ReconcileProvisioning
  <2>2. OpInv'
    BY <1>1, <2>1 DEF OpInv, LaunchInv, ReplaceInv, DrainInv, EndInv, OwnGate, Draining,
                      Promoted, Empty, Drawn, Knows
  <2> QED BY <1>2, <1>3, <2>1, <2>2 DEF JInv
<1>5. CASE ObserveUnknown
  BY <1>2, <1>3, <1>5, DoneInv DEF ObserveUnknown, Observed, JInv
<1>6. CASE ObservePresent
  <2>1. op'.pc \in {"stop", "recover"} BY <1>1, <1>6, GotoStep DEF ObservePresent
  <2>2. /\ op'.fresh = op.fresh /\ op'.kind = op.kind /\ op'.former = op.former
        /\ op'.then = op.then /\ op'.fenced = op.fenced /\ op'.exp = op.exp
        /\ op'.saw = op.saw
    BY <1>1, <1>6, GotoFields DEF ObservePresent
  <2>3. OpInv'
    BY <1>1, <1>6, <2>1, <2>2
       DEF ObservePresent, Observed, At, OpInv, LaunchInv, ReplaceInv, DrainInv, EndInv,
           OwnGate, Draining, Knows
  <2> QED BY <1>2, <1>3, <1>6, <2>3 DEF ObservePresent, Observed, JInv
<1>7. CASE AttachAbsent
  <2>1. ASSUME Goto("create") PROVE OpInv'
    BY <1>1, <2>1, GotoFields
       DEF OpInv, LaunchInv, ReplaceInv, DrainInv, EndInv, OwnGate, Draining
  <2> QED BY <1>2, <1>3, <1>7, <2>1, DoneInv DEF AttachAbsent, Observed, JInv
<1>8. CASE ReplaceAbsent
  BY <1>2, <1>3, <1>8, DoneInv DEF ReplaceAbsent, Observed, JInv
<1>9. CASE ReconcileUnpromoted
  <2>1. CASE UNCHANGED row
    BY <1>2, <1>3, <1>9, <2>1, DoneInv DEF ReconcileUnpromoted, Observed, JInv
  <2>2. CASE row' # row
    <3>1. row' = Unbound(row) /\ row.scope = 0 BY <1>9, <2>2 DEF ReconcileUnpromoted
    <3>2. row.pending = 0 BY <1>1, <3>1 DEF WorldInv, RowCoherent
    <3>3. UNCHANGED <<pane, left, endReq>> BY <1>9 DEF ReconcileUnpromoted, Observed
    <3>4. WorldInv' BY <1>1, <3>1, <3>2, <3>3, FreedWorld DEF Drawn, Pids
    <3> QED BY <1>3, <1>9, <3>3, <3>4, DoneInv DEF ReconcileUnpromoted, JInv
  <2> QED BY <2>1, <2>2
<1>10. CASE CleanupAbsent
  <2>1. /\ UNCHANGED <<row, host, pane, left, endReq>>
        /\ Answers(row, "absent") /\ op' = Cleanup(row)
    BY <1>10 DEF CleanupAbsent, Observed
  <2>2. Empty' BY <2>1, AbsentEmpty DEF Empty
  <2>3. WorldInv' BY <1>2, <2>1
  <2>4. OpInv' BY <1>1, <2>1, <2>2, <2>3, CleanupInv DEF WorldInv
  <2> QED BY <1>3, <2>1, <2>3, <2>4 DEF JInv
<1> QED BY <1>4, <1>5, <1>6, <1>7, <1>8, <1>9, <1>10 DEF Observing

LEMMA CreatingAuthority == TypeOK /\ IInv /\ JInv /\ Creating => JInv'
<1> SUFFICES ASSUME TypeOK, IInv, JInv, Creating PROVE JInv' OBVIOUS
<1> USE DEF hostVars, daemonVars
<1>1. /\ WorldInv /\ RequestInv /\ op \in Op
      /\ LaunchInv /\ ReplaceInv /\ DrainInv /\ EndInv
  BY DEF JInv, OpInv, TypeOK
<1>2. UNCHANGED <<row, pane, left>> => WorldInv' BY <1>1, CalmWorld
<1>3. UNCHANGED endReq => RequestInv' BY <1>1, CalmRequest
<1>4. ASSUME NEW h \in Servers, Bind(h), UNCHANGED <<pane, left>>
      PROVE  WorldInv' /\ OpInv'
  <2>1. /\ row'.srv = h /\ row'.listed = row.listed /\ row'.sess = row.sess
        /\ row'.scope = row.scope /\ row'.pending = row.pending /\ row'.ver = row.ver
        /\ row'.launch = row.launch /\ row'.nonce = row.nonce
    BY <1>4 DEF Bind, TypeOK, Row
  <2>2. RowCoherent' BY <1>1, <2>1 DEF WorldInv, RowCoherent, Servers
  <2>3. LeftNamed' BY <1>1, <1>4, <2>1 DEF WorldInv, LeftNamed
  <2>4. ASSUME NEW g \in Servers PROVE PaneInv(g)'
    BY <1>1, <1>4, <2>1, <2>4 DEF WorldInv, PaneInv
  <2>5. /\ op'.pc = "spawn" /\ op'.kind = op.kind
        /\ op'.former = op.former /\ op'.then = op.then
    BY <1>1, <1>4 DEF Bind, Op, Operation
  <2>6. OpInv'
    BY <1>1, <2>5
       DEF OpInv, LaunchInv, ReplaceInv, DrainInv, EndInv, OwnGate, Draining
  <2> QED BY <2>2, <2>3, <2>4, <2>6 DEF WorldInv
<1>5. CASE CreateOnCurrent BY <1>3, <1>4, <1>5 DEF CreateOnCurrent, Current, JInv
<1>6. CASE CreateOnNew BY <1>2, <1>3, <1>4, <1>6, DoneInv DEF CreateOnNew, JInv
<1>7. CASE CreateRefused BY <1>2, <1>3, <1>7, DoneInv DEF CreateRefused, JInv
<1>8. ASSUME op.pc \in {"spawn", "settle"} PROVE row.scope = 0 /\ row.pending = 0
  BY <1>1, <1>8 DEF IInv, OperationInv, WorldInv, RowCoherent
<1>9. ASSUME At("spawn") \/ At("settle"), UNCHANGED row,
             op' = [op EXCEPT !.pc = "promote", !.fresh = TRUE]
      PROVE  OpInv'
  <2>1. /\ op'.pc = "promote" /\ op'.kind = op.kind
        /\ op'.former = op.former /\ op'.then = op.then
    BY <1>1, <1>9 DEF Op, Operation
  <2> QED
    BY <1>1, <1>8, <1>9, <2>1
       DEF At, OpInv, LaunchInv, ReplaceInv, DrainInv, EndInv, OwnGate, Draining
<1>10. CASE SpawnSession
  <2>1. OpInv' BY <1>9, <1>10, DoneInv DEF SpawnSession
  <2>2. UNCHANGED <<row, left, endReq>> BY <1>10 DEF SpawnSession
  <2>3. CASE UNCHANGED pane BY <1>2, <1>3, <2>1, <2>2, <2>3 DEF JInv
  <2>4. CASE pane' # pane
    <3>1. pane' = [pane EXCEPT ![row.srv] = NewPane(nextPid, nextPid, 0)]
      BY <1>10, <2>4 DEF SpawnSession
    <3>2. RowCoherent' /\ LeftNamed' BY <1>1, <2>2 DEF WorldInv, RowCoherent, LeftNamed
    <3>3. row.scope = 0 BY <1>8, <1>10 DEF SpawnSession, At
    <3>4. ASSUME NEW g \in Servers PROVE PaneInv(g)'
      BY <1>1, <2>2, <3>1, <3>3, <3>4, NewPaneFields DEF WorldInv, PaneInv, TypeOK
    <3> QED BY <1>3, <2>1, <2>2, <3>2, <3>4 DEF WorldInv, JInv
  <2> QED BY <2>3, <2>4
<1>11. CASE SpawnServer
  <2>1. op'.pc = "settle" /\ op'.kind = op.kind /\ op'.former = op.former /\ op'.then = op.then
    BY <1>1, <1>11, GotoFields DEF SpawnServer
  <2>2. OpInv'
    BY <1>1, <2>1 DEF OpInv, LaunchInv, ReplaceInv, DrainInv, EndInv, OwnGate, Draining
  <2> QED BY <1>2, <1>3, <1>11, <2>2 DEF SpawnServer, JInv
<1>12. CASE Settle
  <2>1. OpInv' BY <1>9, <1>12, DoneInv DEF Settle
  <2> QED BY <1>2, <1>3, <1>12, <2>1 DEF Settle, JInv
<1> QED BY <1>5, <1>6, <1>7, <1>10, <1>11, <1>12 DEF Creating

(* The gate that a recovery finds inert, and nothing pending, is promoted. *)
LEMMA FoundPromoted ==
  ASSUME TypeOK, IInv, WorldInv, Verified(row), pane[row.srv].root = "gate",
         row.pending # row.scope
  PROVE  Promoted
<1>1. row.srv \in Servers /\ row.scope # 0 /\ Live(row.srv)
  BY PresentTypes DEF Verified, Present, TypeOK
<1>2. pane[row.srv].scope = row.scope /\ pane[row.srv].pid = row.nonce
  BY <1>1 DEF WorldInv, PaneInv, Live
<1>3. \A g \in Servers : pane[g].pid # 0 => g = row.srv BY DEF IInv, BindingInv
<1> QED BY <1>1, <1>2, <1>3 DEF Promoted

LEMMA LaunchingAuthority == TypeOK /\ IInv /\ JInv /\ Launching => JInv'
<1> SUFFICES ASSUME TypeOK, IInv, JInv, Launching PROVE JInv' OBVIOUS
<1> USE DEF hostVars, daemonVars
<1>1. /\ WorldInv /\ RequestInv /\ op \in Op
      /\ LaunchInv /\ ReplaceInv /\ DrainInv /\ EndInv
  BY DEF JInv, OpInv, TypeOK
<1>2. UNCHANGED <<row, pane, left>> => WorldInv' BY <1>1, CalmWorld
<1>3. UNCHANGED endReq => RequestInv' BY <1>1, CalmRequest
<1>4. Blocked /\ UNCHANGED row /\ ~op.fresh => OpInv'
  <2>1. ASSUME Supersede("idle"), UNCHANGED row, ~op.fresh PROVE OpInv'
    BY <1>1, <2>1, SupersedeFields
       DEF OpInv, LaunchInv, ReplaceInv, DrainInv, EndInv, OwnGate, Draining
  <2> QED BY <2>1, DoneInv DEF Blocked
<1>5. Promoted /\ UNCHANGED <<row, pane>> => Promoted' BY DEF Promoted
<1>6. ASSUME OwnGate, op.pc # "promote", Finish, UNCHANGED row, Promoted'
      PROVE  OpInv'
  <2>1. ASSUME Goto("after") PROVE OpInv'
    BY <1>1, <1>6, <2>1, GotoFields
       DEF OpInv, LaunchInv, ReplaceInv, DrainInv, EndInv, OwnGate, Draining
  <2> QED BY <1>6, <2>1, DoneInv DEF Finish
<1>7. CASE Promote
  <2>1. row.srv \in Servers /\ Live(row.srv) BY <1>7, PresentTypes DEF Promote, Present, TypeOK
  <2> DEFINE p == pane[row.srv]
  <2>2. /\ p.scope # 0 /\ p.pid # 0 /\ p.sess # 0 /\ p.pid \in Nat
    BY <1>1, <1>7, <2>1, BoundsAssumption
       DEF Promote, Live, WorldInv, PaneInv, TypeOK, Pane
  <2>3. /\ row'.scope = p.scope /\ row'.sess = p.sess /\ row'.ver = 1
        /\ row'.launch = "gated" /\ row'.nonce = p.pid
        /\ row'.srv = row.srv /\ row'.pending = row.pending /\ row'.listed = row.listed
    BY <1>7 DEF Promote, Cas, TypeOK, Row
  <2>4. UNCHANGED <<pane, left, endReq>> BY <1>7 DEF Promote
  <2>5. RowCoherent' BY <2>1, <2>2, <2>3 DEF RowCoherent, Servers
  <2>6. LeftNamed'
    BY <1>1, <2>1, <2>2, <2>3, <2>4 DEF WorldInv, LeftNamed, PaneInv, Pids
  <2>7. \A g \in Servers : pane[g].pid # 0 => g = row.srv BY DEF IInv, BindingInv
  <2>8. Unsent BY <1>7 DEF Promote, At, IInv, OperationInv, Opening
  <2>9. ASSUME NEW g \in Servers PROVE PaneInv(g)'
    BY <1>1, <2>3, <2>4, <2>7, <2>8, <2>9 DEF WorldInv, PaneInv, Unsent
  <2>10. Promoted' BY <2>2, <2>3, <2>4, <2>7 DEF Promoted
  <2>11. ASSUME op' = [op EXCEPT !.pc = "inspect", !.pid = row'.nonce, !.exp = row']
         PROVE  OpInv'
    <3>1. /\ op'.pc = "inspect" /\ op'.kind = op.kind /\ op'.fresh = op.fresh
          /\ op'.former = op.former /\ op'.then = op.then
      BY <1>1, <2>11 DEF Op, Operation
    <3> QED
      BY <1>1, <1>7, <2>3, <2>10, <3>1
         DEF Promote, At, OpInv, LaunchInv, ReplaceInv, DrainInv, EndInv, OwnGate, Draining
  <2>12. OpInv' BY <1>7, <2>11, DoneInv DEF Promote
  <2> QED BY <1>3, <2>4, <2>5, <2>6, <2>9, <2>12 DEF WorldInv, JInv
<1>8. CASE PromoteFails
  BY <1>2, <1>3, <1>4, <1>8, DoneInv DEF PromoteFails, JInv
<1>9. CASE Recover
  <2>1. ~op.fresh BY <1>1, <1>9 DEF Recover, At, LaunchInv
  <2>2. /\ op'.pc \in {"inspect", "promote"} /\ op'.kind = op.kind
        /\ op'.fresh = op.fresh /\ op'.former = op.former /\ op'.then = op.then
    BY <1>1, <1>9, GotoFields DEF Recover, Op, Operation
  <2>3. OpInv'
    BY <1>1, <2>1, <2>2
       DEF OpInv, LaunchInv, ReplaceInv, DrainInv, EndInv, OwnGate, Draining
  <2> QED BY <1>2, <1>3, <1>9, <2>3 DEF Recover, JInv
<1>10. CASE RecoverBlocked
  <2>1. ~op.fresh BY <1>1, <1>10 DEF RecoverBlocked, At, LaunchInv
  <2> QED BY <1>2, <1>3, <1>4, <1>10, <2>1, DoneInv DEF RecoverBlocked, JInv
<1>11. CASE InspectOwn
  <2>1. UNCHANGED <<row, pane, left, endReq>> /\ OwnGate /\ op.pc = "inspect"
    BY <1>11 DEF InspectOwn, At, OwnGate
  <2>2. Promoted' BY <1>1, <1>5, <2>1 DEF LaunchInv
  <2>3. ASSUME op' = [op EXCEPT !.pc = "mark",
                                !.proven = op.inert /\ row.scope = op.former]
        PROVE  OpInv'
    <3>1. /\ op'.pc = "mark" /\ op'.kind = op.kind
          /\ op'.former = op.former /\ op'.then = op.then
      BY <1>1, <2>3 DEF Op, Operation
    <3> QED
      BY <1>1, <2>1, <2>2, <3>1
         DEF OpInv, LaunchInv, ReplaceInv, DrainInv, EndInv, OwnGate, Draining
  <2>4. OpInv' BY <1>6, <1>11, <2>1, <2>2, <2>3 DEF InspectOwn
  <2> QED BY <1>2, <1>3, <2>1, <2>4 DEF JInv
<1>12. CASE InspectFound
  <2>1. ~op.fresh /\ Verified(row) /\ UNCHANGED <<row, pane, left, endReq>>
    BY <1>12 DEF InspectFound
  <2>2. PICK gate \in {"inert", "active-workload", "ambiguous"} :
          /\ GateReads(pane[row.srv], gate)
          /\ LET decision == Decision(gate, row, op.kind # "replace")
             IN \/ Blocked
                \/ op.kind = "replace" /\ Supersede("setPending")
                \/ decision = "dispatch" /\ row.pending # 0 /\ Supersede("inspect")
                \/ decision = "dispatch" /\ row.pending = 0 /\ Goto("mark")
                \/ op.kind = "replace" /\ Goto("regate")
    BY <1>12 DEF InspectFound
  <2>3. CASE op.kind = "replace" /\ Supersede("setPending")
    <3>1. OpInv'
      BY <1>1, <2>1, <2>3, SupersedeFields
         DEF OpInv, LaunchInv, ReplaceInv, DrainInv, EndInv, OwnGate, Draining
    <3> QED BY <1>2, <1>3, <2>1, <3>1 DEF JInv
  <2>4. CASE Supersede("inspect")
    <3>1. OpInv'
      BY <1>1, <2>1, <2>4, SupersedeFields
         DEF OpInv, LaunchInv, ReplaceInv, DrainInv, EndInv, OwnGate, Draining
    <3> QED BY <1>2, <1>3, <2>1, <3>1 DEF JInv
  <2>5. CASE /\ Decision(gate, row, op.kind # "replace") = "dispatch"
             /\ row.pending = 0 /\ Goto("mark")
    <3>1. gate = "inert" BY <2>2, <2>5 DEF Decision
    <3>2. pane[row.srv].root = "gate" BY <2>2, <3>1 DEF GateReads
    <3>3. Promoted' BY <1>1, <1>5, <2>1, <2>5, <3>2, FoundPromoted DEF Verified
    <3>4. OpInv'
      BY <1>1, <2>1, <2>5, <3>3, GotoFields
         DEF OpInv, LaunchInv, ReplaceInv, DrainInv, EndInv, OwnGate, Draining
    <3> QED BY <1>2, <1>3, <2>1, <3>4 DEF JInv
  <2>6. CASE op.kind = "replace" /\ Goto("regate")
    <3>1. OpInv'
      BY <1>1, <2>1, <2>6, GotoFields
         DEF OpInv, LaunchInv, ReplaceInv, DrainInv, EndInv, OwnGate, Draining
    <3> QED BY <1>2, <1>3, <2>1, <3>1 DEF JInv
  <2>7. CASE Blocked BY <1>2, <1>3, <1>4, <2>1, <2>7 DEF JInv
  <2> QED BY <2>2, <2>3, <2>4, <2>5, <2>6, <2>7
<1>13. CASE InspectUnverified
  BY <1>2, <1>3, <1>4, <1>13 DEF InspectUnverified, JInv
<1>14. CASE Regate
  <2>1. ASSUME op' = [op EXCEPT !.pc = "supersede", !.then = "setPending", !.inert = TRUE]
        PROVE  OpInv'
    <3>1. /\ op'.pc = "supersede" /\ op'.then = "setPending" /\ op'.kind = op.kind
          /\ op'.fresh = op.fresh /\ op'.former = op.former
      BY <1>1, <2>1 DEF Op, Operation
    <3> QED
      BY <1>1, <1>14, <3>1
         DEF Regate, At, OpInv, LaunchInv, ReplaceInv, DrainInv, EndInv, OwnGate, Draining
  <2> QED BY <1>2, <1>3, <1>14, <2>1, DoneInv DEF Regate, JInv
<1>15. CASE Mark
  <2>1. /\ row'.launch = "dispatched" /\ row'.listed = row.listed /\ row'.srv = row.srv
        /\ row'.sess = row.sess /\ row'.scope = row.scope /\ row'.ver = row.ver
        /\ row'.pending = row.pending /\ row'.nonce = row.nonce /\ row.launch = "gated"
    BY <1>15 DEF Mark, Cas, TypeOK, Row
  <2>2. UNCHANGED <<pane, left, endReq>> BY <1>15 DEF Mark
  <2>3. RowCoherent' /\ LeftNamed'
    BY <1>1, <2>1, <2>2 DEF WorldInv, RowCoherent, LeftNamed
  <2>4. ASSUME NEW g \in Servers PROVE PaneInv(g)'
    BY <1>1, <2>1, <2>2, <2>4 DEF WorldInv, PaneInv
  <2>5. /\ op'.pc = "recheck" /\ op'.kind = op.kind
        /\ op'.former = op.former /\ op'.then = op.then
    BY <1>1, <1>15 DEF Mark, Op, Operation
  <2>6. OwnGate /\ op.pc = "mark" BY <1>15 DEF Mark, At, OwnGate
  <2>7. Promoted' BY <1>1, <2>1, <2>2, <2>6 DEF LaunchInv, Promoted
  <2>8. OpInv'
    BY <1>1, <2>1, <2>5, <2>6, <2>7
       DEF OpInv, LaunchInv, ReplaceInv, DrainInv, EndInv, OwnGate, Draining
  <2> QED BY <1>3, <2>2, <2>3, <2>4, <2>8 DEF WorldInv, JInv
<1>16. CASE Recheck
  <2>1. UNCHANGED <<row, pane, left, endReq>> /\ OwnGate /\ op.pc = "recheck"
    BY <1>16 DEF Recheck, At, OwnGate
  <2>2. Promoted' BY <1>1, <1>5, <2>1 DEF LaunchInv
  <2>3. OpInv'
    BY <1>1, <1>16, <2>1, <2>2, GotoFields
       DEF Recheck, OpInv, LaunchInv, ReplaceInv, DrainInv, EndInv, OwnGate, Draining
  <2> QED BY <1>2, <1>3, <2>1, <2>3 DEF JInv
<1>17. CASE LaunchStopped
  <2>1. UNCHANGED <<row, pane, left, endReq>> /\ OwnGate /\ op.pc # "promote"
    BY <1>17 DEF LaunchStopped, At, OwnGate
  <2>2. Promoted' BY <1>1, <1>5, <2>1 DEF LaunchInv
  <2> QED BY <1>2, <1>3, <1>6, <1>17, <2>1, <2>2 DEF LaunchStopped, JInv
<1>18. CASE Send
  <2>1. UNCHANGED <<row, left, endReq>> /\ OwnGate /\ op.pc = "send"
    BY <1>18 DEF Send, At, OwnGate
  <2>2. Promoted BY <1>1, <2>1 DEF LaunchInv
  <2>3. CASE UNCHANGED pane
    BY <1>2, <1>3, <1>5, <1>6, <1>18, <2>1, <2>2, <2>3 DEF Send, JInv
  <2>4. CASE pane' # pane
    <3>1. /\ row.srv \in Servers /\ Live(row.srv)
          /\ pane' = [pane EXCEPT ![row.srv].sent = TRUE]
      BY <1>18, <2>4, PresentTypes DEF Send, Present, TypeOK
    <3>2. \A g \in Servers :
            /\ pane'[g].pid = pane[g].pid /\ pane'[g].sess = pane[g].sess
            /\ pane'[g].scope = pane[g].scope /\ pane'[g].root = pane[g].root
            /\ pane[g].sent => pane'[g].sent
            /\ pane'[g].sent => pane[g].sent \/ g = row.srv
      BY <3>1 DEF TypeOK, Pane
    <3>3. RowCoherent' /\ LeftNamed' BY <1>1, <2>1 DEF WorldInv, RowCoherent, LeftNamed
    <3>4. ASSUME NEW g \in Servers PROVE PaneInv(g)'
      BY <1>1, <2>1, <2>2, <3>1, <3>2, <3>4 DEF WorldInv, PaneInv, Promoted, Live
    <3>5. Promoted' BY <2>1, <2>2, <3>2 DEF Promoted
    <3> QED BY <1>3, <1>6, <1>18, <2>1, <3>3, <3>4, <3>5 DEF Send, WorldInv, JInv
  <2> QED BY <2>3, <2>4
<1> QED
  BY <1>7, <1>8, <1>9, <1>10, <1>11, <1>12, <1>13, <1>14, <1>15, <1>16, <1>17, <1>18
     DEF Launching

LEMMA ReplacingAuthority == TypeOK /\ IInv /\ JInv /\ Replacing => JInv'
<1> SUFFICES ASSUME TypeOK, IInv, JInv, Replacing PROVE JInv' OBVIOUS
<1> USE DEF hostVars, daemonVars
<1>1. /\ WorldInv /\ RequestInv /\ op \in Op
      /\ LaunchInv /\ ReplaceInv /\ DrainInv /\ EndInv
  BY DEF JInv, OpInv, TypeOK
<1>2. UNCHANGED <<row, pane, left>> => WorldInv' BY <1>1, CalmWorld
<1>3. UNCHANGED endReq => RequestInv' BY <1>1, CalmRequest
<1>4. \A g \in Servers : pane[g].pid # 0 => g = row.srv BY DEF IInv, BindingInv
<1>5. CASE SetPending
  <2>1. CASE Done /\ UNCHANGED row
    BY <1>2, <1>3, <1>5, <2>1, DoneInv DEF SetPending, JInv
  <2>2. CASE ~(Done /\ UNCHANGED row)
    <3>1. /\ row' = [row EXCEPT !.pending = row.scope]
          /\ op' = [op EXCEPT !.pc = "respawn", !.former = row.scope, !.exp = row']
          /\ UNCHANGED <<pane, left, endReq>> /\ op.pc = "setPending"
      BY <1>5, <2>2 DEF SetPending, Cas, At
    <3>2. row.pending = 0 /\ op.kind = "replace" BY <1>1, <3>1 DEF ReplaceInv
    <3>3. WorldInv' BY <1>1, <3>1, <3>2, PendingWorld
    <3>4. row'.pending = row.scope /\ row'.scope = row.scope BY <3>1 DEF TypeOK, Row
    <3>5. /\ op'.pc = "respawn" /\ op'.kind = op.kind /\ op'.former = row.scope
          /\ op'.then = op.then
      BY <1>1, <3>1 DEF Op, Operation
    <3>6. OpInv'
      BY <1>1, <3>2, <3>4, <3>5
         DEF OpInv, LaunchInv, ReplaceInv, DrainInv, EndInv, OwnGate, Draining
    <3> QED BY <1>3, <3>1, <3>3, <3>6 DEF JInv
  <2> QED BY <2>1, <2>2
<1>6. CASE Respawn
  <2>1. row.srv \in Servers /\ Live(row.srv) BY <1>6, PresentTypes DEF Respawn, Present, TypeOK
  <2>2. PICK sc \in {0, op.former} :
          pane' = [pane EXCEPT ![row.srv] = NewPane(nextPid, @.sess, sc)]
    BY <1>6 DEF Respawn
  <2>3. UNCHANGED <<row, endReq>> /\ left' \in Residue(pane[row.srv]) BY <1>6 DEF Respawn
  <2>4. row.pending = row.scope /\ op.former = row.scope
    BY <1>1, <1>6 DEF Respawn, At, ReplaceInv
  <2>5. RowCoherent' BY <1>1, <2>3 DEF WorldInv, RowCoherent
  <2>6. LeftNamed' BY <1>1, <2>1, <2>3, ResidueNamed DEF WorldInv, LeftNamed
  <2>7. ASSUME NEW g \in Servers PROVE PaneInv(g)'
    <3>1. CASE g = row.srv
      BY <1>1, <2>1, <2>2, <2>3, <2>4, <3>1, NewPaneFields
         DEF WorldInv, PaneInv, Live, TypeOK
    <3>2. CASE g # row.srv
      <4>1. pane'[g] = pane[g] BY <2>1, <2>2, <2>7, <3>2 DEF TypeOK
      <4> QED BY <1>1, <2>3, <2>7, <4>1 DEF WorldInv, PaneInv
    <3> QED BY <3>1, <3>2
  <2>8. ASSUME op' = [op EXCEPT !.pc = "promote", !.fresh = TRUE, !.pid = 0]
        PROVE  OpInv'
    <3>1. /\ op'.pc = "promote" /\ op'.kind = op.kind
          /\ op'.former = op.former /\ op'.then = op.then
      BY <1>1, <2>8 DEF Op, Operation
    <3> QED
      BY <1>1, <2>3, <2>4, <3>1
         DEF OpInv, LaunchInv, ReplaceInv, DrainInv, EndInv, OwnGate, Draining
  <2>9. OpInv' BY <1>6, <2>8, DoneInv DEF Respawn
  <2> QED BY <1>3, <2>3, <2>5, <2>6, <2>7, <2>9 DEF WorldInv, JInv
<1>7. CASE RespawnFails BY <1>2, <1>3, <1>7, DoneInv DEF RespawnFails, JInv
<1>8. CASE After
  <2>1. op.pc = "after" /\ OwnGate /\ UNCHANGED <<pane, left, endReq>>
    BY <1>8 DEF After, At, OwnGate
  <2>2. Promoted BY <1>1, <2>1 DEF LaunchInv
  <2>3. CASE row.scope # op.former /\ op' = Drain(op.former, "idle") /\ UNCHANGED row
    <3>1. OpInv'
      BY <1>1, <2>3, DrainFields
         DEF OpInv, LaunchInv, ReplaceInv, DrainInv, EndInv, OwnGate, Draining
    <3> QED BY <1>2, <1>3, <2>1, <2>3, <3>1 DEF JInv
  <2>4. CASE /\ row.scope = op.former /\ Done
             /\ row' = [row EXCEPT !.pending = IF @ = op.former THEN 0 ELSE @]
    <3>1. CASE row.pending = op.former
      <4>1. row' = [row EXCEPT !.pending = 0] BY <2>4, <3>1
      <4>2. WorldInv' BY <1>1, <2>1, <2>2, <2>4, <3>1, <4>1, PendingWorld DEF Promoted
      <4> QED BY <1>3, <2>1, <2>4, <4>2, DoneInv DEF JInv
    <3>2. CASE row.pending # op.former
      <4>1. row' = row BY <2>4, <3>2 DEF TypeOK, Row
      <4> QED BY <1>2, <1>3, <2>1, <2>4, <4>1, DoneInv DEF JInv
    <3> QED BY <3>1, <3>2
  <2>5. CASE Done /\ UNCHANGED row BY <1>2, <1>3, <2>1, <2>5, DoneInv DEF JInv
  <2> QED BY <1>8, <2>3, <2>4, <2>5 DEF After
<1>9. ASSUME op.pc = "supersede"
      PROVE  op.then \in {"idle", "inspect", "setPending"} /\ ~op.fresh
  BY <1>1, <1>9 DEF LaunchInv, DrainInv
<1>10. CASE SupersedeNone
  <2>1. /\ op.pc = "supersede" /\ row.pending = 0 /\ op' = Then
        /\ UNCHANGED <<row, pane, left, endReq>>
    BY <1>10 DEF SupersedeNone, At
  <2>2. OpInv' BY <1>1, <1>9, <2>1, ThenInv
  <2> QED BY <1>2, <1>3, <2>1, <2>2 DEF JInv
<1>11. CASE SupersedeCurrent
  <2>1. /\ op.pc = "supersede" /\ row.pending = row.scope /\ op' = Then
        /\ row' = [row EXCEPT !.pending = 0] /\ UNCHANGED <<pane, left, endReq>>
        /\ Verified(row) /\ pane[row.srv].root # "gate"
    BY <1>11 DEF SupersedeCurrent, At, GateReads
  <2>2. row'.pending = 0 BY <2>1 DEF TypeOK, Row
  <2>3. OpInv' BY <1>1, <1>9, <2>1, <2>2, ThenInv
  <2>4. WorldInv' BY <1>1, <1>4, <2>1, PendingWorld DEF Verified
  <2> QED BY <1>3, <2>1, <2>3, <2>4 DEF JInv
<1>12. CASE SupersedeFormer
  <2>1. /\ op.pc = "supersede" /\ row.pending # row.scope
        /\ op' = Drain(row.pending, op.then) /\ UNCHANGED <<row, pane, left, endReq>>
    BY <1>12 DEF SupersedeFormer, At
  <2>2. OpInv'
    BY <1>1, <1>9, <2>1, DrainFields
       DEF OpInv, LaunchInv, ReplaceInv, DrainInv, EndInv, OwnGate, Draining
  <2> QED BY <1>2, <1>3, <2>1, <2>2 DEF JInv
<1>13. CASE SupersedeRefused BY <1>2, <1>3, <1>13, DoneInv DEF SupersedeRefused, JInv
<1>14. CASE DrainScope
  <2>1. op.pc = "drain" /\ UNCHANGED <<row, host, endReq>> BY <1>14 DEF DrainScope, At
  <2>2. CASE UNCHANGED <<left, pane>> /\ Done
    BY <1>2, <1>3, <2>1, <2>2, DoneInv DEF JInv
  <2>3. CASE /\ left' = [left EXCEPT ![op.target] = {}]
             /\ pane' = [g \in Servers |->
                           IF pane[g].scope = op.target THEN NoPane ELSE pane[g]]
             /\ Done \/ Goto("drained")
    <3>1. PanesGo BY <2>3 DEF PanesGo
    <3>2. LeftInRow /\ \A s \in Pids : s = op.target => left'[s] = {}
      BY <2>3 DEF TypeOK, LeftInRow
    <3>3. WorldInv' BY <1>1, <2>1, <3>1, <3>2, GoneWorld
    <3>4. ASSUME Goto("drained") PROVE OpInv'
      <4>1. /\ op'.pc = "drained" /\ op'.kind = op.kind /\ op'.fresh = op.fresh
            /\ op'.former = op.former /\ op'.then = op.then /\ op'.target = op.target
        BY <1>1, <3>4, GotoFields
      <4>2. Empty => Empty' BY <2>1, <3>1, GonePane DEF Empty, PanesGo
      <4>3. Drawn(op.target)' BY <3>2, <4>1 DEF Drawn
      <4> QED
        BY <1>1, <2>1, <4>1, <4>2, <4>3
           DEF OpInv, LaunchInv, ReplaceInv, DrainInv, EndInv, OwnGate, Draining
    <3> QED BY <1>3, <2>1, <2>3, <3>3, <3>4, DoneInv DEF JInv
  <2> QED BY <1>14, <2>2, <2>3 DEF DrainScope
<1>15. CASE Drained
  <2>1. op.pc = "drained" /\ UNCHANGED <<host, pane, left, endReq>> /\ Drawn(op.target)
    BY <1>1, <1>15 DEF Drained, At, DrainInv
  <2>2. CASE op.then = "finalise" /\ UNCHANGED row /\ op' = Then
    <3>1. /\ op'.pc = "finalise" /\ op'.kind = op.kind
          /\ op'.former = op.former /\ op'.then = op.then
      BY <1>1, <2>2 DEF Then, Op, Operation
    <3>2. Drawn(row.scope)'
      BY <1>1, <2>1, <2>2 DEF DrainInv, Draining, Drawn, Pids
    <3>3. Empty' BY <1>1, <2>1, <2>2 DEF DrainInv, Draining, Empty
    <3>4. OpInv'
      BY <1>1, <3>1, <3>2, <3>3
         DEF OpInv, LaunchInv, ReplaceInv, DrainInv, EndInv, OwnGate, Draining
    <3> QED BY <1>2, <1>3, <2>1, <2>2, <3>4 DEF JInv
  <2>3. CASE /\ op.then # "finalise"
             /\ row' = [row EXCEPT !.pending = IF @ = op.target THEN 0 ELSE @]
             /\ op' = IF op.then = "cleanup" THEN Cleanup(row') ELSE Then
    <3>1. op.target # row.scope \/ Empty BY <1>1, <2>1 DEF DrainInv, Draining
    <3>2. WorldInv'
      <4>1. CASE row.pending = op.target
        <5>1. row' = [row EXCEPT !.pending = 0] BY <2>3, <4>1
        <5> QED BY <1>1, <2>1, <3>1, <4>1, <5>1, PendingWorld DEF Empty
      <4>2. CASE row.pending # op.target
        <5>1. row' = row BY <2>3, <4>2 DEF TypeOK, Row
        <5> QED BY <1>2, <2>1, <5>1
      <4> QED BY <4>1, <4>2
    <3>3. row'.pending = IF row.pending = op.target THEN 0 ELSE row.pending
      BY <2>3 DEF TypeOK, Row
    <3>4. CASE op.then = "cleanup"
      <4>1. Empty' BY <1>1, <2>1, <3>4 DEF DrainInv, Draining, Empty
      <4>2. OpInv' BY <1>1, <2>3, <3>2, <3>4, <4>1, CleanupInv DEF WorldInv
      <4> QED BY <1>3, <2>1, <3>2, <4>2 DEF JInv
    <3>5. CASE op.then # "cleanup"
      <4>1. op.then \in {"idle", "inspect", "setPending"}
        BY <1>1, <2>3, <3>5 DEF Op, Operation
      <4>2. op.then = "inspect" => ~op.fresh BY <1>1, <2>1 DEF LaunchInv, Draining
      <4>3. op.then = "setPending" => row'.pending = 0
        BY <1>1, <2>1, <3>3 DEF DrainInv, Draining
      <4>4. OpInv' BY <1>1, <2>3, <3>5, <4>1, <4>2, <4>3, ThenInv
      <4> QED BY <1>3, <2>1, <3>2, <4>4 DEF JInv
    <3> QED BY <3>4, <3>5
  <2> QED BY <1>15, <2>2, <2>3 DEF Drained
<1> QED
  BY <1>5, <1>6, <1>7, <1>8, <1>10, <1>11, <1>12, <1>13, <1>14, <1>15 DEF Replacing

LEMMA EndingAuthority == TypeOK /\ IInv /\ JInv /\ Ending => JInv'
<1> SUFFICES ASSUME TypeOK, IInv, JInv, Ending PROVE JInv' OBVIOUS
<1> USE DEF hostVars, daemonVars
<1>1. /\ WorldInv /\ RequestInv /\ op \in Op
      /\ LaunchInv /\ ReplaceInv /\ DrainInv /\ EndInv
  BY DEF JInv, OpInv, TypeOK
<1>2. UNCHANGED <<row, pane, left>> => WorldInv' BY <1>1, CalmWorld
<1>3. UNCHANGED endReq => RequestInv' BY <1>1, CalmRequest
<1>4. CASE Stop
  <2>1. ASSUME Goto("kill"), row = op.exp PROVE OpInv'
    BY <1>1, <1>4, <2>1, GotoFields
       DEF Stop, At, OpInv, LaunchInv, ReplaceInv, DrainInv, EndInv, OwnGate, Draining,
           Knows
  <2> QED BY <1>2, <1>3, <1>4, <2>1, DoneInv DEF Stop, JInv
<1>5. Goto("stopped") => OpInv'
  BY <1>1, GotoFields
     DEF OpInv, LaunchInv, ReplaceInv, DrainInv, EndInv, OwnGate, Draining
<1>6. CASE Kill
  <2>1. row.srv \in Servers BY <1>6, PresentTypes DEF Kill, Verified, TypeOK
  <2>2. /\ left' \in Residue(pane[row.srv]) /\ UNCHANGED <<row, endReq>>
        /\ pane' = [pane EXCEPT ![row.srv] = NoPane]
    BY <1>6 DEF Kill
  <2>3. PanesGo BY <2>2 DEF TypeOK, PanesGo
  <2>4. LeftInRow BY <1>1, <2>1, <2>2, ResidueNamed DEF LeftInRow, Empty
  <2>5. WorldInv' BY <1>1, <2>2, <2>3, <2>4, GoneWorld
  <2> QED BY <1>3, <1>5, <1>6, <2>2, <2>5 DEF Kill, JInv
<1>7. CASE KillFails BY <1>2, <1>3, <1>5, <1>7 DEF KillFails, JInv
<1>8. CASE Stopped
  <2>1. UNCHANGED <<row, host, pane, left, endReq>> BY <1>8 DEF Stopped
  <2>2. OpInv'
    <3>1. CASE Done BY <3>1, DoneInv
    <3>2. CASE ~Done
      <4>1. Answers(row, "absent") /\ op' = Cleanup(row) BY <1>8, <3>2 DEF Stopped
      <4>2. Empty' BY <2>1, <4>1, AbsentEmpty DEF Empty
      <4> QED BY <1>1, <1>2, <2>1, <4>1, <4>2, CleanupInv DEF WorldInv
    <3> QED BY <3>1, <3>2
  <2> QED BY <1>2, <1>3, <2>1, <2>2 DEF JInv
<1>9. CASE Finalise
  <2>1. UNCHANGED <<pane, left, endReq>> /\ OpInv' BY <1>9, DoneInv DEF Finalise
  <2>2. CASE UNCHANGED row BY <1>2, <1>3, <2>1, <2>2 DEF JInv
  <2>3. CASE row' # row
    <3>1. /\ row' \in {NoRow, Unbound(row), [Unbound(row) EXCEPT !.srv = row.srv]}
          /\ row.pending = 0
      BY <1>9, <2>3 DEF Finalise
    <3>2. Drawn(row.scope) /\ Empty BY <1>1, <1>9 DEF Finalise, At, DrainInv
    <3>3. WorldInv' BY <1>1, <2>1, <3>1, <3>2, FreedWorld
    <3> QED BY <1>3, <2>1, <3>3 DEF JInv
  <2> QED BY <2>2, <2>3
<1> QED BY <1>4, <1>6, <1>7, <1>8, <1>9 DEF Ending

LEMMA HostAuthority == TypeOK /\ IInv /\ JInv /\ Host => JInv'
<1> SUFFICES ASSUME TypeOK, IInv, JInv, Host PROVE JInv' OBVIOUS
<1> USE DEF daemonState, daemonVars
<1>1. /\ WorldInv /\ RequestInv /\ OpInv /\ op \in Op
      /\ LaunchInv /\ ReplaceInv /\ DrainInv /\ EndInv
  BY DEF JInv, OpInv, TypeOK
<1>2. UNCHANGED endReq => RequestInv' BY <1>1, CalmRequest
<1>3. ASSUME NEW g \in Servers, ServerStarts(g) PROVE JInv'
  <2>1. /\ host[g] = "starting" /\ nextPid \in Pids
        /\ UNCHANGED <<row, left, op, endReq>>
        /\ host' = [host EXCEPT ![g] = "up"]
        /\ pane' = [pane EXCEPT ![g] = NewPane(nextPid, nextPid, 0)]
    BY <1>3 DEF ServerStarts
  <2>2. row.scope = 0 /\ ~Empty
    BY <1>1, <2>1 DEF IInv, BindingInv, WorldInv, RowCoherent, Empty
  <2>3. RowCoherent' /\ LeftNamed' BY <1>1, <2>1 DEF WorldInv, RowCoherent, LeftNamed
  <2>4. ASSUME NEW h \in Servers PROVE PaneInv(h)'
    BY <1>1, <2>1, <2>2, <2>4, NewPaneFields DEF WorldInv, PaneInv, TypeOK, Pids
  <2>5. ~Promoted BY <2>2 DEF Promoted
  <2>6. OpInv'
    BY <1>1, <2>1, <2>2, <2>5
       DEF OpInv, LaunchInv, ReplaceInv, DrainInv, EndInv, OwnGate, Draining, Drawn, Knows
  <2> QED BY <1>2, <2>1, <2>3, <2>4, <2>6 DEF WorldInv, JInv
<1>4. ASSUME NEW g \in Servers, left' \in Residue(pane[g]),
             pane' = [pane EXCEPT ![g] = NoPane], UNCHANGED <<row, op, endReq>>,
             \A h \in Servers : host'[h] = host[h] \/ host'[h] # "starting"
      PROVE  JInv'
  <2>1. PanesGo BY <1>4 DEF TypeOK, PanesGo
  <2>2. LeftInRow BY <1>1, <1>4, ResidueNamed DEF LeftInRow, Empty
  <2>3. WorldInv' BY <1>1, <1>4, <2>1, <2>2, GoneWorld
  <2>4. OpInv' BY <1>1, <1>4, <2>1, <2>2, GoneOp
  <2> QED BY <1>2, <1>4, <2>3, <2>4 DEF JInv
<1>5. ASSUME NEW g \in Servers, ServerDies(g) PROVE JInv'
  BY <1>4, <1>5 DEF ServerDies, TypeOK
<1>6. ASSUME NEW g \in Servers, PaneExits(g) PROVE JInv'
  BY <1>4, <1>6 DEF PaneExits
<1>7. ASSUME NEW s \in Pids, ResidueExits(s) PROVE JInv'
  <2>1. UNCHANGED <<row, host, pane, op, endReq>> BY <1>7 DEF ResidueExits
  <2>2. PanesGo /\ LeftInRow BY <1>7 DEF ResidueExits, TypeOK, PanesGo, LeftInRow
  <2>3. WorldInv' BY <1>1, <2>1, <2>2, GoneWorld
  <2>4. OpInv' BY <1>1, <2>1, <2>2, GoneOp
  <2> QED BY <1>2, <2>1, <2>3, <2>4 DEF JInv
(* The pane changes, and keeps its process, its session and what it was    *)
(* sent; its scope is set once.                                            *)
<1>8. ASSUME NEW g \in Servers, UNCHANGED <<row, host, op, endReq>>,
             \A t \in Pids : "launched" \in left'[t] => "launched" \in left[t],
             \A h \in Servers :
               /\ pane'[h].pid = pane[h].pid /\ pane'[h].sess = pane[h].sess
               /\ pane'[h].sent = pane[h].sent
               /\ \/ pane'[h].scope = pane[h].scope
                  \/ pane[h].scope = 0 /\ pane[h].pid # 0
               /\ \/ pane'[h].root = pane[h].root
                  \/ pane'[h].root = "typed"
                  \/ pane'[h].root = "launched" /\ pane[h].sent
      PROVE  JInv'
  <2>1. RowCoherent' BY <1>1, <1>8 DEF WorldInv, RowCoherent
  <2>2. LeftNamed' BY <1>1, <1>8 DEF WorldInv, LeftNamed
  <2>3. ASSUME NEW h \in Servers PROVE PaneInv(h)'
    BY <1>1, <1>8, <2>3 DEF WorldInv, PaneInv
  <2>4. Promoted => Promoted' BY <1>8 DEF Promoted
  <2>5. Empty => Empty' BY <1>8 DEF Empty
  <2>6. \A s : Drawn(s) => Drawn(s)' BY <1>8 DEF Drawn
  <2>7. OpInv'
    BY <1>1, <1>8, <2>4, <2>5, <2>6
       DEF OpInv, LaunchInv, ReplaceInv, DrainInv, EndInv, OwnGate, Draining, Knows
  <2> QED BY <1>2, <1>8, <2>1, <2>2, <2>3, <2>7 DEF WorldInv, JInv
<1>9. ASSUME NEW g \in Servers, PlaceScope(g) PROVE JInv'
  <2>1. /\ UNCHANGED <<row, host, left, op, endReq>> /\ pane[g].pid # 0 /\ pane[g].scope = 0
        /\ pane' = [pane EXCEPT ![g].scope = pane[g].pid]
    BY <1>9 DEF PlaceScope
  <2>2. \A h \in Servers :
          /\ pane'[h].pid = pane[h].pid /\ pane'[h].sess = pane[h].sess
          /\ pane'[h].sent = pane[h].sent /\ pane'[h].root = pane[h].root
          /\ \/ pane'[h].scope = pane[h].scope
             \/ pane[h].scope = 0 /\ pane[h].pid # 0
    BY <2>1 DEF TypeOK, Pane
  <2> QED BY <1>8, <2>1, <2>2
<1>10. ASSUME NEW g \in Servers, NEW r \in {"typed", "launched"},
              r = "launched" => pane[g].sent,
              UNCHANGED <<row, host, left, op, endReq>>,
              pane' = [pane EXCEPT ![g].root = r]
       PROVE  JInv'
  <2>1. \A h \in Servers :
          /\ pane'[h].pid = pane[h].pid /\ pane'[h].sess = pane[h].sess
          /\ pane'[h].sent = pane[h].sent /\ pane'[h].scope = pane[h].scope
          /\ pane'[h].root = pane[h].root \/ (h = g /\ pane'[h].root = r)
    BY <1>10 DEF TypeOK, Pane
  <2> QED BY <1>8, <1>10, <2>1
<1>11. ASSUME NEW g \in Servers, GateRuns(g) PROVE JInv'
  BY <1>10, <1>11 DEF GateRuns
<1>12. ASSUME NEW g \in Servers, UserTypes(g) PROVE JInv'
  <2>1. CASE pane' = [pane EXCEPT ![g].root = "typed"] /\ UNCHANGED left
    BY <1>10, <1>12, <2>1 DEF UserTypes
  <2>2. CASE /\ left' = [left EXCEPT ![pane[g].scope] = @ \cup {"typed"}]
             /\ UNCHANGED pane
    <3>1. \A t \in Pids : "launched" \in left'[t] => "launched" \in left[t]
      BY <2>2 DEF TypeOK
    <3> QED BY <1>8, <1>12, <2>2, <3>1 DEF UserTypes
  <2> QED BY <1>12, <2>1, <2>2 DEF UserTypes
<1> QED BY <1>3, <1>5, <1>6, <1>7, <1>9, <1>11, <1>12 DEF Host

LEMMA DaemonAuthority == TypeOK /\ IInv /\ JInv /\ Daemon => JInv'
<1> SUFFICES ASSUME TypeOK, IInv, JInv, Daemon PROVE JInv' OBVIOUS
<1> USE DEF hostVars, daemonVars
<1>1. WorldInv /\ OpInv /\ RequestInv BY DEF JInv
<1>2. UNCHANGED <<row, pane, left>> => WorldInv' BY <1>1, CalmWorld
<1>3. UNCHANGED endReq => RequestInv' BY <1>1, CalmRequest
<1>4. op = Idle /\ UNCHANGED op => OpInv' BY DoneInv DEF Done
<1>5. CASE Crash
  <2>1. RequestInv' BY <1>5, FreedFields DEF Crash, RequestInv, NoRequest
  <2> QED BY <1>2, <1>5, <2>1, DoneInv DEF Crash, Done, JInv
<1>6. CASE Ready BY <1>2, <1>3, <1>4, <1>6 DEF Ready, JInv
<1>7. ASSUME NEW g \in Servers, StartupServer(g) PROVE JInv'
  BY <1>2, <1>3, <1>4, <1>7 DEF StartupServer, JInv
<1>8. ASSUME NEW g \in Servers, BindRoster(g) PROVE JInv'
  <2>1. UNCHANGED <<pane, left, op, endReq>> /\ op = Idle /\ Live(g)
    BY <1>8 DEF BindRoster
  <2>2. pane[g].sess # 0 BY <1>1, <2>1 DEF Live, WorldInv, PaneInv
  <2>3. /\ row'.srv = g /\ row'.sess = pane[g].sess /\ row'.listed = row.listed
        /\ row'.scope = row.scope /\ row'.pending = row.pending /\ row'.ver = row.ver
        /\ row'.launch = row.launch /\ row'.nonce = row.nonce
    BY <1>8 DEF BindRoster, TypeOK, Row
  <2>4. RowCoherent' BY <1>1, <2>2, <2>3 DEF WorldInv, RowCoherent, Servers
  <2>5. LeftNamed' BY <1>1, <2>1, <2>3 DEF WorldInv, LeftNamed
  <2>6. ASSUME NEW h \in Servers PROVE PaneInv(h)'
    BY <1>1, <2>1, <2>3, <2>6 DEF WorldInv, PaneInv
  <2> QED BY <1>3, <1>4, <2>1, <2>4, <2>5, <2>6 DEF WorldInv, JInv
<1>9. ASSUME NEW g \in Servers, ProbeServer(g) PROVE JInv'
  <2>1. UNCHANGED <<row, host, pane, left, op, endReq>> BY <1>9 DEF ProbeServer
  <2>2. OpInv' BY <1>1, <2>1, GoneOp DEF PanesGo, LeftInRow
  <2> QED BY <1>2, <1>3, <2>1, <2>2 DEF JInv
<1> QED BY <1>5, <1>6, <1>7, <1>8, <1>9 DEF Daemon

LEMMA InitAuthority == Init => JInv
<1> SUFFICES ASSUME Init PROVE JInv OBVIOUS
<1>1. WorldInv
  BY GonePane
     DEF Init, NewRow, WorldInv, RowCoherent, LeftNamed, PaneInv
<1>2. OpInv
  BY IdleFields
     DEF Init, OpInv, LaunchInv, ReplaceInv, DrainInv, EndInv, OwnGate, Draining
<1>3. RequestInv BY FreedFields DEF Init, RequestInv, NoRequest
<1> QED BY <1>1, <1>2, <1>3 DEF JInv

LEMMA AuthorityInductive == TypeOK /\ IInv /\ JInv /\ [Next]_vars => JInv'
<1> SUFFICES ASSUME TypeOK, IInv, JInv, [Next]_vars PROVE JInv' OBVIOUS
<1>1. CASE Begin BY <1>1, BeginAuthority
<1>2. CASE OpStep
  BY <1>2, ObservingAuthority, CreatingAuthority, LaunchingAuthority, ReplacingAuthority,
     EndingAuthority
     DEF OpStep
<1>3. CASE Host BY <1>3, HostAuthority
<1>4. CASE Daemon BY <1>4, DaemonAuthority
<1>5. CASE Ended \/ UNCHANGED vars
  <2>1. UNCHANGED <<row, host, pane, left, op, endReq>> BY <1>5 DEF Ended, vars
  <2>2. WorldInv' /\ OpInv' /\ RequestInv'
    BY <2>1, CalmWorld, GoneOp, CalmRequest DEF JInv, PanesGo, LeftInRow
  <2> QED BY <2>2 DEF JInv
<1> QED BY <1>1, <1>2, <1>3, <1>4, <1>5 DEF Next

LEMMA AuthorityInvariance == Spec => []JInv
BY InitAuthority, AuthorityInductive, TypeCorrect, Invariance, PTL DEF Spec

-----------------------------------------------------------------------------
(* The safety theorems.                                                    *)

(* Whatever crashes, fails or is retried, no step leaves a torn row: a     *)
(* scope is stored with its session, its server and its launch state, and  *)
(* a former scope only beside a current one.                               *)
THEOREM RowsCohere == Spec => []RowCoherent
<1>1. JInv => RowCoherent BY DEF JInv, WorldInv
<1> QED BY <1>1, AuthorityInvariance, PTL

LEMMA LaunchedNamed ==
  ASSUME TypeOK, IInv, JInv
  PROVE  CleanupAuthority
<1>1. ASSUME NEW s \in Pids, Launched(s) PROVE row.listed /\ s \in {row.scope, row.pending}
  <2>1. CASE "launched" \in left[s] BY <2>1 DEF JInv, WorldInv, LeftNamed
  <2>2. CASE "launched" \notin left[s]
    <3>1. PICK g \in Servers : /\ pane[g].scope = s
                               /\ pane[g].sent \/ pane[g].root = "launched"
      BY <1>1, <2>2 DEF Launched
    <3>2. pane[g].sent BY <3>1 DEF JInv, WorldInv, PaneInv
    <3> QED BY <3>1, <3>2 DEF IInv, Recorded, Servers
  <2> QED BY <2>1, <2>2
<1> QED BY <1>1 DEF CleanupAuthority

(* Every scope in which work Tether launched may still run is named by the *)
(* row, whatever happens between a replacement's steps: its cleanup never  *)
(* loses the authority for it, and a row is deleted only when all such     *)
(* work is gone.                                                           *)
THEOREM CleanupNeverLost == Spec => []CleanupAuthority
BY LaunchedNamed, TypeCorrect, Invariance, AuthorityInvariance, PTL

LEMMA OneTree ==
  ASSUME TypeOK, IInv, JInv
  PROVE  OneTreeAtDispatch
<1>1. ASSUME op.pc = "send", NEW s \in Pids, Launched(s)
      PROVE  s = row.scope \/ (op.kind = "replace" /\ s = op.former)
  <2>1. s \in {row.scope, row.pending} BY <1>1, LaunchedNamed DEF CleanupAuthority
  <2>2. row.pending \in {0, op.former}
    BY <1>1 DEF JInv, OpInv, LaunchInv, OwnGate
  <2>3. op.former # 0 => op.kind = "replace" BY DEF JInv, OpInv, ReplaceInv
  <2> QED BY <2>1, <2>2, <2>3 DEF Pids
<1> QED BY <1>1 DEF OneTreeAtDispatch

(* "Otherwise restart recovery could briefly run two workloads": when a    *)
(* launch line is sent, launched work runs in no scope but the gate's and, *)
(* in a replacement, the one being replaced.                               *)
THEOREM OneTreeWhenDispatched == Spec => []OneTreeAtDispatch
BY OneTree, TypeCorrect, Invariance, AuthorityInvariance, PTL

(* An End that names a generation kills no workload that was launched      *)
(* after its caller read that generation.                                  *)
THEOREM EndIsFenced == Spec => []FencedEnd
<1>1. ASSUME TypeOK, IInv, JInv PROVE FencedEnd
  <2>1. SUFFICES ASSUME op.pc = "kill", op.fenced, Verified(row), pane[row.srv].sent
                 PROVE  pane[row.srv].pid = op.saw
    BY DEF FencedEnd
  <2>2. row = op.exp BY <1>1, <2>1, FreedFields DEF Verified, JInv, OpInv, EndInv
  <2>3. row.srv \in Servers BY <1>1, <2>1, PresentTypes DEF Verified, TypeOK
  <2>4. row.launch = "dispatched" /\ row.nonce = pane[row.srv].pid
    BY <1>1, <2>1, <2>3 DEF IInv, Recorded, JInv, WorldInv, PaneInv
  <2> QED BY <1>1, <2>1, <2>2, <2>4 DEF JInv, OpInv, EndInv, Knows
<1> QED BY <1>1, TypeCorrect, Invariance, AuthorityInvariance, PTL

-----------------------------------------------------------------------------
(* The session keeps its contract.                                         *)

Running == {s \in Pids : Launched(s)}

(* A step either leaves the row in the catalog or out of it, or takes it   *)
(* out while every process stands.                                         *)
LEMMA ListedSteps ==
  ASSUME TypeOK, Next
  PROVE  \/ row'.listed = row.listed
         \/ row.listed /\ ~row'.listed /\ UNCHANGED <<pane, left>>
<1> USE DEF hostVars, daemonVars, TypeOK, Row
<1>1. \A r : ~NoRow.listed /\ Unbound(r).listed /\ [Unbound(r) EXCEPT !.srv = r.srv].listed
  BY RowFields, FreedFields
<1>2. CASE Begin
  BY <1>1, <1>2
     DEF Begin, StartAttach, StartReplace, StartReconcile, Start, RequestEnd, EndBusy,
         EndRefused, EndNeverAllocated, EndBegins, DiscardNeverAllocated, ReleaseCrashed,
         TakeEnd
<1>3. CASE Observing
  BY <1>1, <1>3
     DEF Observing, ReconcileProvisioning, ObserveUnknown, ObservePresent, AttachAbsent,
         ReplaceAbsent, ReconcileUnpromoted, CleanupAbsent, Observed, Answers
<1>4. CASE Creating
  BY <1>4
     DEF Creating, CreateOnCurrent, CreateOnNew, CreateRefused, SpawnSession, SpawnServer,
         Settle, Bind
<1>5. CASE Launching
  <2>1. CASE Promote
    <3>1. row' = [row EXCEPT !.scope = pane[row.srv].scope, !.sess = pane[row.srv].sess,
                             !.ver = 1, !.launch = "gated", !.nonce = pane[row.srv].pid]
      BY <2>1 DEF Promote, Cas
    <3> QED BY <3>1
  <2>2. CASE Mark BY <2>2 DEF Mark, Cas
  <2>3. CASE ~(Promote \/ Mark)
    <3>1. UNCHANGED row
      BY <1>5, <2>3
         DEF Launching, PromoteFails, Recover, RecoverBlocked, InspectOwn,
             InspectFound, InspectUnverified, Regate, Recheck, LaunchStopped, Send
    <3> QED BY <3>1
  <2> QED BY <2>1, <2>2, <2>3
<1>6. CASE Replacing
  BY <1>6
     DEF Replacing, SetPending, Respawn, RespawnFails, After, SupersedeNone,
         SupersedeCurrent, SupersedeFormer, SupersedeRefused, DrainScope, Drained, Cas
<1>7. CASE Ending
  BY <1>1, <1>7
     DEF Ending, Stop, Kill, KillFails, Stopped, Finalise, Answers
<1>8. CASE Host
  BY <1>8
     DEF Host, ServerStarts, ServerDies, PlaceScope, GateRuns, UserTypes, PaneExits,
         ResidueExits, daemonState
<1>9. CASE Daemon
  BY <1>9 DEF Daemon, Crash, Ready, StartupServer, BindRoster, ProbeServer
<1>10. CASE Ended BY <1>10 DEF Ended, vars
<1> QED BY <1>2, <1>3, <1>4, <1>5, <1>6, <1>7, <1>8, <1>9, <1>10 DEF Next, OpStep

(* Pane p holds launched work, or a gate that is about to run its line.    *)
Runs(p) == p.pid # 0 /\ (p.root = "launched" \/ (p.root = "gate" /\ p.sent))

LEMMA LaunchedRuns ==
  \A s : Launched(s) <=> \/ "launched" \in left[s]
                         \/ \E g \in Servers : Runs(pane[g]) /\ pane[g].scope = s
BY DEF Launched, Runs

(* Work that a step finds running was running before it.                   *)
LEMMA ShrinkStep ==
  ASSUME \A s \in Pids : "launched" \in left'[s] => Launched(s),
         \A g \in Servers : Runs(pane'[g]) => Runs(pane[g]) /\ pane'[g].scope = pane[g].scope
  PROVE  Running' \subseteq Running
<1> SUFFICES ASSUME NEW s \in Pids, Launched(s)' PROVE Launched(s) BY DEF Running
<1>1. CASE "launched" \in left'[s] BY <1>1
<1>2. CASE "launched" \notin left'[s]
  <2>1. PICK g \in Servers : Runs(pane'[g]) /\ pane'[g].scope = s
    BY <1>2 DEF Launched, Runs
  <2> QED BY <2>1, LaunchedRuns
<1> QED BY <1>1, <1>2

(* Launched work runs in a new scope only when a launch line is sent.      *)
LEMMA RunningSteps ==
  ASSUME TypeOK, IInv, JInv, Next, ~Send
  PROVE  Running' \subseteq Running
<1> USE DEF hostVars, daemonVars
<1>1. ASSUME UNCHANGED <<pane, left>> PROVE Running' \subseteq Running
  BY <1>1 DEF Running, Launched
(* A pane that ends, or whose process is a new gate.                       *)
<1>2. ASSUME NEW g \in Servers, left' \in Residue(pane[g]),
             NEW p, ~Runs(p), pane' = [pane EXCEPT ![g] = p]
      PROVE  Running' \subseteq Running
  <2>1. ASSUME NEW s \in Pids, "launched" \in left'[s] PROVE Launched(s)
    <3>1. CASE left' = left BY <2>1, <3>1, LaunchedRuns
    <3>2. CASE left' # left
      <4>1. /\ pane[g].root = "launched"
            /\ left' = [left EXCEPT ![pane[g].scope] = @ \cup {"launched"}]
        BY <1>2, <3>2 DEF Residue
      <4>2. Runs(pane[g]) BY <4>1, LaunchedRecorded DEF JInv, Runs
      <4>3. "launched" \in left[s] \/ s = pane[g].scope BY <2>1, <4>1 DEF TypeOK
      <4> QED BY <4>2, <4>3, LaunchedRuns
    <3> QED BY <3>1, <3>2
  <2>2. \A h \in Servers : Runs(pane'[h]) => pane'[h] = pane[h] BY <1>2 DEF TypeOK
  <2> QED BY <2>1, <2>2, ShrinkStep
<1>3. ~Runs(NoPane) /\ \A n, s, sc : ~Runs(NewPane(n, s, sc))
  BY GonePane, NewPaneFields DEF Runs
<1>4. \A p : left \in Residue(p) BY DEF Residue
<1>5. CASE Begin
  BY <1>1, <1>5
     DEF Begin, StartAttach, StartReplace, StartReconcile, Start, RequestEnd, EndBusy,
         EndRefused, EndNeverAllocated, EndBegins, DiscardNeverAllocated, ReleaseCrashed,
         TakeEnd
<1>6. CASE Observing
  BY <1>1, <1>6
     DEF Observing, ReconcileProvisioning, ObserveUnknown, ObservePresent, AttachAbsent,
         ReplaceAbsent, ReconcileUnpromoted, CleanupAbsent, Observed
<1>7. CASE SpawnSession
  <2>1. CASE UNCHANGED pane BY <1>1, <1>7, <2>1 DEF SpawnSession
  <2>2. CASE pane' # pane
    <3>1. /\ pane' = [pane EXCEPT ![row.srv] = NewPane(nextPid, nextPid, 0)]
          /\ host[row.srv] = "up" /\ UNCHANGED left /\ op.pc = "spawn"
      BY <1>7, <2>2 DEF SpawnSession, At
    <3>2. row.srv \in Servers \/ pane' = pane BY <3>1 DEF TypeOK
    <3> QED BY <1>2, <1>3, <1>4, <2>2, <3>1, <3>2
  <2> QED BY <2>1, <2>2
<1>8. CASE Creating
  BY <1>1, <1>7, <1>8
     DEF Creating, CreateOnCurrent, CreateOnNew, CreateRefused, SpawnServer, Settle
<1>9. CASE Launching
  BY <1>1, <1>9
     DEF Launching, Promote, PromoteFails, Recover, RecoverBlocked, InspectOwn,
         InspectFound, InspectUnverified, Regate, Mark, Recheck, LaunchStopped
<1>10. CASE Respawn
  <2>1. row.srv \in Servers BY <1>10, PresentTypes DEF Respawn, TypeOK
  <2>2. PICK sc \in {0, op.former} :
          pane' = [pane EXCEPT ![row.srv] = NewPane(nextPid, @.sess, sc)]
    BY <1>10 DEF Respawn
  <2> QED BY <1>2, <1>3, <1>10, <2>1, <2>2 DEF Respawn
<1>11. CASE DrainScope
  <2>1. CASE UNCHANGED <<pane, left>> BY <1>1, <2>1
  <2>2. CASE /\ left' = [left EXCEPT ![op.target] = {}]
             /\ pane' = [g \in Servers |->
                           IF pane[g].scope = op.target THEN NoPane ELSE pane[g]]
    <3>1. \A s \in Pids : "launched" \in left'[s] => Launched(s)
      BY <2>2, LaunchedRuns DEF TypeOK
    <3>2. \A g \in Servers : Runs(pane'[g]) => pane'[g] = pane[g] BY <1>3, <2>2
    <3> QED BY <3>1, <3>2, ShrinkStep
  <2> QED BY <1>11, <2>1, <2>2 DEF DrainScope
<1>12. CASE Replacing
  BY <1>1, <1>10, <1>11, <1>12
     DEF Replacing, SetPending, RespawnFails, After, SupersedeNone, SupersedeCurrent,
         SupersedeFormer, SupersedeRefused, Drained
<1>13. CASE Kill
  <2>1. row.srv \in Servers BY <1>13, PresentTypes DEF Kill, Verified, TypeOK
  <2> QED BY <1>2, <1>3, <1>13, <2>1 DEF Kill
<1>14. CASE Ending BY <1>1, <1>13, <1>14 DEF Ending, Stop, KillFails, Stopped, Finalise
<1>15. ASSUME NEW g \in Servers, ServerStarts(g) PROVE Running' \subseteq Running
  BY <1>2, <1>3, <1>4, <1>15 DEF ServerStarts
<1>16. ASSUME NEW g \in Servers, ServerDies(g) PROVE Running' \subseteq Running
  BY <1>2, <1>3, <1>16 DEF ServerDies
<1>17. ASSUME NEW g \in Servers, PaneExits(g) PROVE Running' \subseteq Running
  BY <1>2, <1>3, <1>17 DEF PaneExits
<1>18. ASSUME NEW g \in Servers, PlaceScope(g) PROVE Running' \subseteq Running
  <2>1. ~pane[g].sent /\ pane[g].root # "launched"
    BY <1>18 DEF PlaceScope, IInv, Recorded, JInv, WorldInv, PaneInv
  <2>2. \A h \in Servers : Runs(pane'[h]) => pane'[h] = pane[h]
    BY <1>18, <2>1 DEF PlaceScope, TypeOK, Pane, Runs
  <2>3. \A s \in Pids : "launched" \in left'[s] => Launched(s)
    BY <1>18, LaunchedRuns DEF PlaceScope
  <2> QED BY <2>2, <2>3, ShrinkStep
<1>19. ASSUME NEW g \in Servers, GateRuns(g) PROVE Running' \subseteq Running
  <2>1. \A h \in Servers : Runs(pane'[h]) => Runs(pane[h]) /\ pane'[h].scope = pane[h].scope
    BY <1>19 DEF GateRuns, TypeOK, Pane, Runs
  <2>2. \A s \in Pids : "launched" \in left'[s] => Launched(s)
    BY <1>19, LaunchedRuns DEF GateRuns
  <2> QED BY <2>1, <2>2, ShrinkStep
<1>20. ASSUME NEW g \in Servers, UserTypes(g) PROVE Running' \subseteq Running
  <2>1. \A h \in Servers : Runs(pane'[h]) => pane'[h] = pane[h]
    BY <1>20 DEF UserTypes, TypeOK, Pane, Runs
  <2>2. \A s \in Pids : "launched" \in left'[s] => Launched(s)
    BY <1>20, LaunchedRuns DEF UserTypes, TypeOK
  <2> QED BY <2>1, <2>2, ShrinkStep
<1>21. ASSUME NEW s \in Pids, ResidueExits(s) PROVE Running' \subseteq Running
  <2>1. \A t \in Pids : "launched" \in left'[t] => Launched(t)
    BY <1>21, LaunchedRuns DEF ResidueExits, TypeOK
  <2> QED BY <1>21, <2>1, ShrinkStep DEF ResidueExits
<1>22. CASE Host
  BY <1>15, <1>16, <1>17, <1>18, <1>19, <1>20, <1>21, <1>22 DEF Host
<1>23. CASE Daemon
  BY <1>1, <1>23 DEF Daemon, Crash, Ready, StartupServer, BindRoster, ProbeServer
<1>24. CASE Ended BY <1>1, <1>24 DEF Ended, vars
<1> QED
  BY <1>5, <1>6, <1>8, <1>9, <1>12, <1>14, <1>22, <1>23, <1>24 DEF Next, OpStep

(* The line is sent when launched work runs in at most one other scope.    *)
LEMMA SendSteps ==
  ASSUME TypeOK, IInv, JInv, Send, Running' # Running
  PROVE  /\ UNCHANGED row /\ row.listed
         /\ \A s, t \in Running : s = t
         /\ \E s \in Pids \ Running : Running' = Running \cup {s}
<1>1. UNCHANGED <<row, left>> /\ op.pc = "send" BY DEF Send, At
<1>2. pane' # pane BY <1>1 DEF Running, Launched
<1>3. Present(row) /\ pane' = [pane EXCEPT ![row.srv].sent = TRUE] BY <1>2 DEF Send
<1>4. row.srv \in Servers /\ row.listed BY <1>3, PresentTypes DEF IInv, TypeOK, Servers
<1>5. Recorded(row.srv) BY <1>1, <1>3 DEF IInv, OperationInv
<1>6. row.scope \in Pids BY <1>5, BoundsAssumption DEF Recorded, TypeOK, Row, Pids
<1>7. \A g \in Servers :
        /\ pane'[g].pid = pane[g].pid /\ pane'[g].scope = pane[g].scope
        /\ pane'[g].root = pane[g].root
        /\ pane[g].sent => pane'[g].sent
        /\ pane'[g].sent => pane[g].sent \/ g = row.srv
  BY <1>3, <1>4 DEF TypeOK, Pane
<1>8. ASSUME NEW s \in Pids, Launched(s) PROVE Launched(s)'
  <2>1. CASE "launched" \in left[s] BY <1>1, <2>1 DEF Launched
  <2>2. CASE \E g \in Servers : Runs(pane[g]) /\ pane[g].scope = s
    BY <1>7, <2>2 DEF Runs, Launched
  <2> QED BY <1>8, <2>1, <2>2, LaunchedRuns
<1>9. ASSUME NEW s \in Pids, Launched(s)' PROVE Launched(s) \/ s = row.scope
  <2>1. CASE "launched" \in left'[s] BY <1>1, <2>1, LaunchedRuns
  <2>2. CASE \E g \in Servers : Runs(pane'[g]) /\ pane'[g].scope = s
    <3>1. PICK g \in Servers : Runs(pane'[g]) /\ pane'[g].scope = s BY <2>2
    <3>2. CASE g = row.srv BY <1>5, <1>7, <3>1, <3>2 DEF Recorded
    <3>3. CASE g # row.srv
      <4>1. Runs(pane[g]) /\ pane[g].scope = s BY <1>7, <3>1, <3>3 DEF Runs
      <4> QED BY <4>1, LaunchedRuns
    <3> QED BY <3>2, <3>3
  <2> QED BY <1>9, <2>1, <2>2 DEF Launched, Runs
<1>10. Running' \subseteq Running \cup {row.scope} /\ Running \subseteq Running'
  BY <1>8, <1>9 DEF Running
<1>11. row.scope \notin Running /\ Running' = Running \cup {row.scope} BY <1>10
<1>12. Running \subseteq {op.former}
  BY <1>1, <1>11, OneTree DEF OneTreeAtDispatch, Running
<1> QED BY <1>1, <1>4, <1>6, <1>11, <1>12

(* The session implements what SessionContract promises: it launches work  *)
(* one scope at a time beside at most the one it replaces, and ends once,  *)
(* with nothing it launched still running.                                 *)
THEOREM ContractKept == Spec => KeepsContract
<1>1. Init => Contract!Init
  BY GonePane DEF Init, NewRow, Contract!Init, Launched
<1>2. ASSUME TypeOK, IInv, JInv, JInv', TypeOK', IInv', [Next]_vars
      PROVE  [Contract!Next]_<<row.listed, {s \in Pids : Launched(s)}>>
  <2>1. CASE UNCHANGED vars
    <3>1. UNCHANGED <<row, pane, left>> BY <2>1 DEF vars
    <3> QED BY <3>1 DEF Launched
  <2>2. CASE Next /\ ~Send
    <3>1. Running' \subseteq Running BY <1>2, <2>2, RunningSteps
    <3>2. CASE row'.listed = row.listed
      BY <3>1, <3>2 DEF Running, Contract!Next, Contract!WorkEnds
    <3>3. CASE row.listed /\ ~row'.listed /\ UNCHANGED <<pane, left>>
      <4>1. Running' = Running BY <3>3 DEF Running, Launched
      <4>2. CleanupAuthority' BY <1>2, LaunchedNamed, PTL
      <4>3. Running' = {} BY <3>3, <4>2 DEF CleanupAuthority, Running
      <4>4. row'.listed = FALSE BY <3>3, <1>2 DEF TypeOK, Row
      <4> QED BY <3>3, <4>1, <4>3, <4>4 DEF Running, Contract!Next, Contract!End
    <3> QED BY <1>2, <2>2, <3>2, <3>3, ListedSteps
  <2>3. CASE Send
    <3>1. CASE Running' = Running
      <4>1. UNCHANGED row BY <2>3 DEF Send
      <4> QED BY <3>1, <4>1 DEF Running
    <3>2. CASE Running' # Running
      <4>1. /\ UNCHANGED row /\ row.listed /\ \A s, t \in Running : s = t
            /\ \E s \in Pids \ Running : Running' = Running \cup {s}
        BY <1>2, <2>3, <3>2, SendSteps
      <4> QED BY <3>2, <4>1 DEF Running, Contract!Next, Contract!Launch
    <3> QED BY <3>1, <3>2
  <2> QED BY <1>2, <2>1, <2>2, <2>3
<1> QED
  BY <1>1, <1>2, TypeCorrect, Invariance, AuthorityInvariance, PTL
     DEF Spec, KeepsContract, Contract!Spec
=============================================================================
