# A verification project for Aico

Aico runs coding agents on the owner's hosts. Its core is **Tether** (`packages/tether`), the daemon
that owns every session: it starts agents in tmux panes that systemd scopes contain, keeps a durable
catalog of them in SQLite, survives its own crashes and those of tmux, and delivers messages to the
agents. Around it stand a web server, whose records are replicated between the owner's hosts, and
`aico deploy`, which puts new commits under the running units. This project models these in TLA+,
checks the models with TLC and proves their most important safety properties with TLAPS.

## 1. The system

### Parts, state and operations

| Part (sources) | State it keeps | Operations | What makes it correct |
|---|---|---|---|
| **Session lifecycle** (`lifecycle/engine.ts`, `catalog.ts`, `owner-retirement.ts`, `owner-scope.ts`, `tmux-server-state.ts`, `generation.ts`) | the session's row (server, session, scope, pending scope, launch state, nonce), the phases of tmux server generations; the host's servers, panes and scopes | attach (`ensureSession`), replace (`respawnAndRelaunch`), End (`retireOwnedSession`), reconciliation, startup | no launch is sent twice; the row always names every scope that may hold launched work; one session, one tmux pane; an ended session is gone; an End fenced by a generation ends that one |
| **Lifecycle lock and pane exits** (`lifecycle-guard.ts`, `pane-exit-queue.ts`) | owner and waiters per session, the coalesced End intent and its timer, the exit queue of a tmux server | acquire, wait, release, request / take / complete an End, queue / defer / retry a pass | an End is not lost to a competitor, an attach not forgotten, an exit not left unreconciled, an End that answered busy not applied |
| **Wake and event-line delivery** (`wakes.ts`, `wake-runtime.ts`) | the `wakes` table; which rows are out (`sending`, `withdrawn`), the scheduler's loop (`running`, `again`), timers, native pullers, gates | add, move, cancel, withdraw, paste, pull, ride along, peek and confirm, keep past End, relaunch | each note goes out once or is accounted for; a wake goes out once the agent can take it |
| **Lane reports** (`lane-reports.ts`) | per lane a cursor in `lane_reports`, a memory of what was observed, watches, the outbox of ended lanes | observe, settle, report idle / blocked / exited / ended, watch, drain | a turn's end is told once, to those it is for and by one way only; what was asked of a lane comes back as a wake |
| **Waits** (`waits.ts`, End in `lifecycle-api.ts`) | the `waits` table, pokes, long polls and their listeners | arm, look, fire, time out, cancel, keep, long poll | each outcome is told once and only as its waiter can still hear it; what is ready is seen |
| **Agent admission** (`lifecycle/agent-admission.ts`) | pending and committed launch reservations | reserve, commit, release, settle | the emergency ceiling is not passed by concurrent launches |
| **Deployment** (`packages/ops/src/deploy.ts`) | the host: unit files, links, releases, `.swap.json`; the lock (a kernel lock and a pid file); a job file per deploy | wait, take over, recover, select, prepare, swap, put back, swap a page, install ops, prune, tell | one deploy at a time; the host is all before or all after; no older commit over a newer one; every deploy ends |
| **Sync engine** (`packages/web-server/src/sync`, writes of `notes-db.ts`, `notes-data.ts`) | per file: rows with stamps, bases and change numbers, clock, file id, cursors | edit, serve, pull, apply, claim a unique value, purge, restore | hosts come to show the same rows; nothing written is silently lost; no row goes back |
| Delivery records (`deliveries.ts`), asks (`asks.ts`) | what was delivered and read; open asks | record, read, drop; ask, answer | a record per delivery, an answer once |
| Root control (`lifecycle/root-control.ts`) | requests for root work and their grants | request, approve, run, expire | a grant runs once, for the request that was approved |
| Crash recovery, reboot continuity (`recovery*.ts`, `reboot.ts`, `continuity.ts`) | facts saved before a reboot, placement | save, offer, resume, decline | each agent resumes at most once |
| **Host placement** (`hub/placement.ts`, `recovery-placement.ts`; the create in `root-control.ts` and `hub.ts`) | reservations and intents, saved at each change; the chain of decisions | decide, reserve, done, reconcile, restore | two decisions do not take one room; a root that runs holds its room |
| Hub (`hub/hub.ts`, `peer.ts`, ...) | peers, coordinator transfers, updates | forward, transfer, wake, update | one host holds a coordinator |
| Events and the client's follower (`events.ts`, `tether-client/src/client`) | replay buffer with boot id; cursor | publish, replay, resync | nothing is skipped without a resync |
| Viewers (`tether-client/src/term`) | credit, claims | output, acknowledge, claim | output never stalls for good |
| Model switch, rewind, job guard | steps typed into a pane | switch, rewind | stop at the first unexpected screen |
| Fleet link, secrets, jobs, notifications, Go hook and file leases, host steward, tray, phone app, backups | each its own | | see `PROJECT.json` |

### How they interact

- The **lifecycle lock** serialises all operations of one session. Attach waits for it; replace,
  recovery, reconciliation and root operations try once; End leaves an intent that whoever releases
  the lock drains. Every operation of the session lifecycle runs under it, and so does the paste of
  a delivery.
- The **catalog** is the only thing that survives a crash. Commands to tmux and systemd take effect
  outside it, may fail, and may fail after they took effect.
- **tmux's pane-exited hook** touches a marker; a directory watch turns it into passes of the
  pane-exit queue, which reconcile every session of that tmux server.
- **End** deletes the session's row; triggers delete its wakes and waits or detach the kept ones, and write
  a lane's outbox row.
- **Lane reports and waits** watch the same sessions and may carry the same news, so each asks whether the
  other has said it. Both queue lines, which the **wake scheduler** delivers.
- **Changes** of agent state, wakes and sessions are published as events and nudge the wake scheduler, the
  lane reports and the waits.
- **Placement** is asked before a root is created, here or on another host, and before crash recovery or the
  restore after a reboot starts an agent again; not before the owner replaces one (respawn, load-tui,
  switch-project). It learns that a root is gone only from the Tether that owns it.
- **Deploys** are processes of their own. They meet each other, and systemd, only in the file system; a
  deploy of Tether's own unit is a crash and restart of every Tether model.
- The **sync engines** of two hosts meet only in the pages they pull.

### The hard behaviours

Within the daemon everything is one event loop, so what races is code between two `await`s: two operations of a
session, a pass and an End, two passes of the wake scheduler, two calls that arm a wait. On top of that the daemon can stop
between any two steps (catalog written, command not sent; command sent, catalog not written), a
command's answer can be lost, and a tmux server can start late. Deploys really run at the same time, and any of
them may be killed between any two commands. Hosts edit apart, pull in any order, lose answers, and
may be put back to a backup. `PROJECT.json` lists the hazards at their lines.

## 2. The modules

| Module | Models | Role |
|---|---|---|
| `SessionLifecycle` | one session: row, servers, panes, scopes; attach, replace, End, reconciliation, startup, crash | the detailed specification |
| `SessionContract` | what Tether promises of a session: launched one scope at a time beside at most the one it replaces, ended once with nothing running, never back | abstract; `SessionLifecycle` implements it (`KeepsContract`) |
| `LifecycleLock` | the lock, its callers, the End intent, the pane-exit queue, the watcher | says *who* works on a session and *when*; `SessionLifecycle` says *what* the holder does |
| `WakeQueue` | the delivery queue of one session and the passes of the scheduler | where the lines of the next two go |
| `LaneReports` | one lane, its agent, the reporter, its receivers, their waits on the lane and the End | composes reports with session waits and with End |
| `Waits` | the waits of one session and of its clients, and the End route that keeps them | the waits `LaneReports` and `WakeQueue` see from outside |
| `AgentAdmission` | who may start another agent: decisions, reservations, the emergency ceiling | asked before the launches of `SessionLifecycle` |
| `Deploy` | several deploys of several commits on one host, with kills, reboots and faults | the detailed specification |
| `DeployContract` | what a deploy promises: everything of it in one step, forward only, told once | abstract; `Deploy` implements it (`KeepsContract`) |
| `Placement` | decisions, reservations, creates here and elsewhere, and what becomes of the roots | composes placement with the create route, the hub's forwarded create and the restore of a reservation |
| `NotesSync` | two or more hosts' copies of one replicated file | |
| `SessionLifecycleProofs`, `LifecycleProofs` (lock and admission), `DeployProofs`, `PlacementProofs`, `WaitsProofs`, `WakeQueueProofs`, `LaneReportsProofs`, `NotesSyncProofs` | theorems and proofs | |
| `MC...` | for TLC: the values of sets, the scenarios, symmetry, and (in `MCWakeQueue`, `MCLifecycleLock`, `MCPlacement`, `MCAgentAdmission`) documented statements the code does not keep | |

A step of a Tether model is what the daemon does between two awaits, or between a catalog write and the
command that follows it; a step of `Deploy` is one command or one write. `PROJECT.json`'s `map` gives the
lines of every definition; the names are the source's where they can be.

Events from outside (calls, edits, faults, restarts, ...) are counted down from a **budget** per kind: a run
explores several budgets, its *scenarios*, and within one every order of its events. `Spend(kind)` marks
such an action; everything else the code does is unbounded, or bounded by the scenario.

### SessionLifecycle

`row` is the `widgets` row. A unit and its invocation id are one scope id; a gate process, the session
it opens and its launch nonce carry the number of the fork. `phase` is the catalog's view of each tmux
server generation and `host` the truth; `pane` and `left` are the processes. `op` is the operation
that holds the lock: its kind, its program counter and what it has read (so stale reads are stale in
the model). `Begin` takes the lock; `Observing`, `Creating`, `Launching`, `Replacing` and `Ending`
group the handler's steps; `Host` is what tmux, systemd, bash, the user and the agent do; `Daemon`
is crash, startup recovery of provisioning servers, and probes.

Left out: several sessions on one server, legacy and foreign sessions, panes split by hand. A
command that timed out has or has not taken effect when its timeout is reported. The second attempt of a
drain in the same handler is not repeated.

Observed while modelling: a row of version 0 that was bound to a server whose `new-session` then
failed can be neither ended nor launched again until that server dies; and a replacement sends the
new launch before it drains the former scope, while restart recovery drains first (so
`OneTreeAtDispatch` allows the one scope a replacement replaces).

### LifecycleLock

`owner`, `attach`, `pending` / `request` / `answer` (the coalesced intent, the waiting request and what
its caller was told), `queue` (the pane-exit queue and the pass's place in its two loops), `watch`,
`startup`. `active` of the coalesced intent is `owner[s] \in Callers`. A release drains a pending End
before it wakes attaches, and then takes back the server's deferral (`ReleaseTelling`). `blockers`
refines the code's boolean `deferred` by a history of which locks it was for.

A run's scenarios say which of `MaxOps`, `MaxFaults` and `MaxCrashes` is used up at the start (`Spent`).

Simplifications: one tmux server; a queued pass looks at its first lock one step after it was queued;
coordinator transfers' own locks are operations that try once; quitting is crashing.

### WakeQueue

`queue` is the table, `pass` the passes of the scheduler with what each read before its awaits
(`native`, kept rows) and what it has out (`rows` are the code's `sending`), `withdrawn` as in the code.
`running` and `again` are the scheduler's fields. The code's `tick` can be entered again before
`running` is assigned, and any pass clears it at its end, so passes are processes; `Passes` bounds how
many run at a time (at the bound a nested pass is folded into `again`). `Deliver`, `Relaunch` and
`Arm` are the steps of a pass; `Client` is pullers and hooks; `Produce` the writers; `World` gates and
clocks; `Finish` End and restart. `fate` and `went` are history: what became of a note, how often it
was handed out.

Time is abstracted: a row is due or not, `quietSeconds`, the grace of a puller and the retry delay are
over or not. `NothingLost` counts a row out in a paste when the daemon stops as lost ("lost" is
given by a restart only). Left out: the text of a delivery (`Compositions` chooses any set of rows that
respects the order of classes and does not exceed the budget), delivery records, policy edits, the
session that already holds a conversation (notes moved to it leave the model), passes over several
sessions.

### LaneReports

`lane`, `agent` and `view` are a lane's row, its agent and the state Tether publishes of it; `memory` is what the
reporter remembers of the lane until Tether restarts and `cursor` its durable row. `Poll` publishes a
sighting and lets the reporter `Observe` it: `Remembered` and `Recorded` are what it notes, `Evaluate` what it
makes of that, now or, through `Later`, when `TimerFires`. `FireFinished`, `FireBlocked`, `FireExited` and `Drain`
queue the lines; `HeardFrom` is the look at a receiver's wait, `acted` and `Reached` are what turns a
repeat back into a wake.

Turns are numbered by the idle they end in, and stand for every time stamp the code compares. Of durations
only the order counts: a state has been held for nothing, for the settle time, or for the quiet of a
repeat; the rate floor between two lines is a free choice between the last two. A turn may be too short to be
seen by a poll, two between two polls are not, unless Tether is down; an agent that came back is seen before it leaves again. A wait is looked at on each event
of the lane, before a settle time has passed.

`past` is history. What a wake is owed to is counted in the agent's own turns, not in those Tether has seen: `Reached` puts
the turn the agent last ended into `owed`, and the line of any later turn must be a wake. If no poll had seen that turn's idle by
then (`Noticed`), the code cannot tell it from an idle still to come, and its line uses up the reset: such a turn goes
into `late`, which `ReachedWorkWakes` says nothing of (section 5, `EveryReachWakes`). Left out: lanes on other hosts, the end of a root by
transfer, the promotion of reply lines, model switches, the cycle check of watches, `--block` clients.

Known edges, all of them in the code and allowed for by the properties: with no memory (a restart between
the delete and the drain of the outbox) an old "gone" wait covers the end; a launch's change of generation
before any known state is not a reset; a wait that fired before a restart no longer counts.

### Waits

`row` is the `waits` table, `call` a call of `arm` during its look at the caller, `pending` what was poked
since the last look, `poll` and `given` a long poll and what its client was told, `end` the calls of the End
route, each with its snapshot of what it keeps. `Check` and `FullCheck` are the looks on a poke and on the
timer; `Fired` is their verdict and its compare-and-set, `Tells` what the firing tells and whom. A look is one step,
since the code has no await between reading a wait and settling it. `told` is history: lines queued (what becomes of
them is `WakeQueue`'s) and relaunches asked for. Left out: what each kind of wait reads, its cursors, the
pruning of old waits, the processes of `cmd` waits, waits that are quiet.

### AgentAdmission

`line` and `turn` are the promise chain `tail` and the request it lets decide; a decision begins
(`pruneSettled`), lists the pane scopes, visits them one at a time (`todo`, `seen`) and is taken. `slot` is
the set of reservations, "settled" one whose `LAUNCH_SETTLE_MS` are over. `launch` is what became of a launch
and of the agent in its scope. Memory, pressure and the host's verdict are the choice between `Admit` and
`Defer`; the model is of a host with `maxActiveAgents` set, since without it the count decides nothing.

Simplifications: a launch and the scope it runs in are one (a scope that is respawned for its own
replacement is left out); a request that was deferred asks again as another launch; a launch that
failed releases its slot in the step it ends with (a replacement drains its former scope in between).

`Ceiling` promises nothing about three kinds of launch, collected in `escaped`: admitted by override,
unseen for longer than the settle time, and sent by a command that reported failure after it took
effect: then `release` frees the slot of a launch that did happen ("Launch did not happen: free the slot
immediately", agent-admission.ts:317) and a launch decided before its agent shows can pass the ceiling.

A replacement prepares its launch (engine.ts:2493) after it has its ticket and before the `try` whose `finally`
gives it back: `DeliveryThrows` ends the launch there and keeps the slot. The context's file writes catch their own
failures; what can throw is the reading of the catalog for the launch's spec and the opening and closing of the delivery's
database. `Ceiling` holds all the same, since a slot too many only lowers the count of agents that get in; that no slot is kept is violated
(section 5).

### Placement

`book` are the reservations and `intent` the intents, both durable; `queue` is the promise chain `tail` and
`pass` what the decision under way has read; `call` is each `POST /v1/roots` with where it is between its
decision, its create and its `done()`; `root` is what the Tether of each host knows of a root, `host` the state of
the hosts. A decision first reconciles (`Reconcile`, an answer per root in any order in `FateArrives`, `Reconciled`), then judges
its hosts one by one (`Judge`), and reserves in one step (`Place`, `Rebook`). A create goes to this computer or
through `hub.create` (`Forward`), whose answer may be lost (`Uncertain`).

Memory stands for memory and CPUs. A room is a set of hosts whose reservations draw on one reading, with the
most that reading can be; that it may always come out smaller, or fail, is the choice of `fits`. What is read of
a host is its state at that step. Left out: capabilities, other pools, the memory of a Proxmox node beside its VM's,
a host that returns to `hosts.json`; a root of another host is known here or not (`Known`).

An agent that is gone comes back in three ways. Recovery and the restore after a reboot ask for the
reservation first (`AskRestore`, `DecideRestore`, `Resume`, `Relaunch`). Another host's Tether does as it likes (`Restores`) and is booked again
at the next decision. And the owner replaces an agent that exited here (`Respawns`), which asks nothing: the root gets a new
scope and is live again. If the exit had released its reservation, or a decision that was told of the exit is about to (`LosesBooking`), nothing ever books it
again, since `reconcile` does that for other hosts only (placement.ts:735); the model calls it "unplaced".

`RunningIsBooked` and `NoneOverlooked` leave out an "unplaced" root, a request that was sent again, and a create that its host handled after
its sender had given up (`Clean`): all three are in section 5.

### Deploy and DeployContract

`file`, `loaded` and `runs` are the commit in each unit file, in what systemd has read of it and in its process;
`page` and `ops` the links; `journal` is `.swap.json`; `disk` the finished releases; `flock` and `pid` the two
halves of the lock; `dep[k]` the process of deploy k with its program counter and what it chose; `job` the job
files and `asker` a call of `jobResult`. One unit, `Backend`, serves a page from a link. A deploy's failed commands
are `faults`, another agent's holds `refusals` (possible at each look), `restarts` are systemd's.

The contract's host changes in one step, when the journal goes: `LiveUnit`, `LivePage` and `LiveOps` read what
the journal would put back while there is one.

Left out: which units a scope and the changed sources select (any of `Wants`), builds within a release, kept
earlier pages, the root install, enabling at boot. Assumed: the `flock` child lives as long as its deploy, and the
pid of a dead deploy is not given out again. Observed while modelling, besides section 5: a page swapped alone has no
journal, so a deploy killed during its check leaves the unchecked page; an exception in `swapUnits` (a file that
cannot be written) leaves the putting back to the next deploy, though its comment says "on any failure put the previous
unit files back"; a deploy killed between its last change and `finish` reads as failed. A prune killed midway
may leave half a release with its marker, which `prepareRelease` would take for whole (`Prune` removes releases at once).

### NotesSync

`file[h]` is host h's copy: rows, change numbers, clock, file id, what it handed out and took (`served`, `handed`, `peer`).
A version's text is the number of the edit that wrote it. `ApplyRow` is `applyRow` (`Takes` and `Loses` its conflict
rule), `Write` the claim of a unique value; a pull greets, takes pages of `Limit` rows, and may lose an answer or end with a
restart between two pages. A row is a plain note, a row of the one well-known list, or a capture of one upload.
A file may be copied aside and put back. Each host has one clock: a second process that writes `notes.db` would have its own, and is left out.

Left out: columns (one text per row), items, labels and attachments (rows like others), view state and its max
merge, schema versions, malformed pages, blobs, the nudges that make a pull begin (one may begin at any time);
a conflict revision is remembered but not itself synced. Purges are counted (the code's is once a day).

`NothingLost` leaves out what was written after a backup that was restored, and the caption of a
capture, which has no text column: of two edits apart the losing caption is kept nowhere. "In some host's row" is any host's: with three, a
text may live at a peer only. Where a tombstone is purged before a newer edit comes it fails (section 5). `LateRestore` says that
a restored host's clock is past every stamp given out before; section 5 has what happens otherwise.

## 3. What TLC checks

| Run | Question | Properties | Bounds |
|---|---|---|---|
| `session_ownership` | does one session stay coherent, launched once and owned through crashes, lost answers and late servers? | `RowCoherent LaunchOnce CleanupAuthority OneTreeAtDispatch OneSession EndedIsGone KeepsContract` | 3 gate processes, 2 server generations |
| `session_fence` | does an End with a generation end that launch only, and is the lock given back? | `FencedEnd OperationEnds` | 2 processes, 1 server |
| `lock` | is an End, a waiter, a deferral or an exit ever forgotten; does everyone who waits get an answer? | `Handover BusyAppliesNothing ExitRemembered LockIsServed ExitReconciled` | 2 sessions, 2 End callers, and 1 operation, or 1 fault, or 1 restart; the proofs have no such bounds |
| `queue` | does each note go out once, when it may, as what it is, by any of the ways out, around faults, Ends and a restart, with two passes at a time? | `OncePerNote NothingLost SettledStaysOut WakeStaysWake MayGo` | 2 notes; five scenarios: one pass with a ride-along, edit and fault; a poll, edit and fault; a ride-along, poll and late failure; two passes with an End and a fault; an End and a restart |
| `queue_live` | does a wake, or a kept check-in, go out in the end? | `QueueDrains` | 1 note, 2 passes, 1 turn of the agent or owner, 1 fault; with an End, or with a poll |
| `admission` | can concurrent launches pass the ceiling, is a request never answered? | `Ceiling AskedIsAnswered` | 3 launches, ceiling 1 |
| `lanes` | is each turn of a lane reported once and in order, a reached lane's work as a wake, its end to all it is for, an idle lane in the end? | `TurnsOnce ReachedWorkWakes EndIsHeard IdleIsReported` | eight scenarios: up to 3 turns with one or two sends, the lane's own message, exits and returns, waits, two Ends at a time, a watch and a leaving party; a restart in four of them |
| `waits` | is each outcome told once, are keys and limit kept, is what is ready seen? | `KeysAndLimit ToldOnce ReadyIsSettled` | 3 waits, 2 things, 1 key, limit 2; seven scenarios of arms, changes, deadlines, polls, one or two Ends, a restart |
| `deploy` | is the host all before or all after, whoever deploys and whatever is killed; does each deploy end? | `Consistent KeepsContract DeployEnds` | 3 deploys, 2 units, 3 commits in a line and 1 beside, a rollback; five scenarios of calls, kills, faults, refusals, restarts, reboots, asks |
| `placement` | is a room given twice, by creates or restores; does what runs have its reservation? | `RunningIsBooked NoRoomTwice NoneOverlooked` | 2 roots, one of which may be sent twice; this computer, a container in its room, a VM, each room holds one; six scenarios of exits and returns, restarts, links, power, a retirement, a dry run, a late create |
| `notes_sync` | do two hosts agree, come to rest, lose nothing and go back on nothing? | `NothingLost Agree NeverBack Settles` | 2 hosts, 5 rows, 1 row a page; nine scenarios of edits, deletes, lists, uploads, skew, purges, lost answers, restarts, restores |
| `queue_twice` | what a document says | `OneRelaunch`, violated: section 5 | |

Some properties are conjunctions of named parts that are violated apart: `Handover` (`IntentServed`,
`WaiterNotForgotten`, `DeferralHeld`), `LockIsServed` (`EndAnswered`, `AttachProceeds`), `MayGo` (`NotBeforeDue`,
`RideNeverAlone`), `QueueDrains` (`WakeGoesOut`, `KeptGoesOut`), `Agree` (`OneHolds`, `ClocksAreNear`, same rows when
settled), `Consistent` (`OneAtATime`, `ReleasesKept`, `QuietIsConsistent`). `TypeOK` is a conjunct of `OncePerNote`,
`TurnsOnce`, `KeysAndLimit`, `Consistent` and `Agree`, and a theorem for the session, the lock, admission and placement.

Why these bounds are enough for the cases that matter: three gate processes allow a launch, its
replacement and a replacement of, or restart recovery beside, that one, and two servers a
server loss with a late start. Two End callers and two sessions give coalescing, refusal, an End
behind an End, and a pass that meets one held lock before another session's. Two notes give a newer and an older line of
one source, a wake beside a ride-along line, a row that fits and one that does not; two passes are what
one re-entry makes. Three launches at a ceiling of one are an agent, its replacement and a rival, or two rivals and
the owner's own agent. Two roots that each fill a room leave none for the other: whatever is released or
forgotten too early is taken by the other. A lane's three turns are one reported, one held back and one under way. Three waits at a
limit of two are a replaced, a refused and a kept one. Three deploys are one that was killed and two that both find its pid file;
four commits give an older, an ancestor, a newer and one that diverged. Two hosts give every order of two edits and of the pulls between them, and a page of
one row puts an edit or a restart between any two rows. The theorems have no such bounds. Every action fires in at least one passing run. What grows without bound in the
code and is bounded here: forks and server generations (`MaxPid`, `MaxServer`), notes and passes, and whatever is counted in a
budget.

`NothingLost` and `SettledStaysOut` of `WakeQueue` are checked with edits and with Ends but not with both: an owner's cancel of a kept
check-in during a relaunch is one of the statements the code does not keep (section 5). Their theorems have both, and exclude just those edits
(`KeptEdit`). `OncePerNote` speaks of the
hand-outs to the session while it runs; a relaunch can happen twice (section 5).

**Deadlock** is checked where the system never stops (`session_ownership`, `session_fence`: only a
deleted session is at rest). All the others really come to rest when nobody asks for
anything more, that is when a scenario's budget is spent, so their configurations switch it off; that they do not rest
too early is what the liveness properties say.

**Fairness.** `SessionLifecycle`: weak fairness of the steps of the operation that holds the lock: each is
the continuation of an `await` on a command with a timeout. No fairness of the host. `LifecycleLock`: weak
fairness of the continuations of passes, startup, waiters and holders, of the End's timer and of event
delivery by the watcher. None of faults, requests or crashes. `WakeQueue`: continuations, timers and
the clock (a row becomes due, quiet time passes, a retry delay ends), an End that was asked for
settles, a long poll ends; and the agent eventually gets idle and the owner stops typing, which is
an assumption on them and not on the code (a busy agent is not interrupted, by design).
`LaneReports`: polls, timers, the clock, the drain of the outbox and the looks at waits; none of agents and sessions.
`Waits`: the timer's look at all waits, which the service sets at each look, and the answer of a long poll that was told; none of pokes,
so `ReadyIsSettled` does not rest on them. `Deploy`: each deploy's next step, since its commands have timeouts; none of
kills, faults and calls. `NotesSync`: each host goes on pulling, and its clock goes on.
`AgentAdmission`: the decision under way, whose awaits are file reads; none of launches and agents. No strong
fairness is used.

## 4. What is proved

`tlapm` proves these for every value of the constants (sets of any size, any bounds):

| Theorem | Says |
|---|---|
| `SessionLifecycleProofs!TypeCorrect` | `Spec => []TypeOK` |
| `SessionLifecycleProofs!LaunchedOnce` | `Spec => []LaunchOnce`: no launch is sent twice |
| `SessionLifecycleProofs!OneSessionAlive` | `Spec => []OneSession` |
| `SessionLifecycleProofs!EndedSessionsAreGone` | `Spec => []EndedIsGone` |
| `SessionLifecycleProofs!RowsCohere` | `Spec => []RowCoherent` |
| `SessionLifecycleProofs!CleanupNeverLost` | `Spec => []CleanupAuthority`: what still may hold launched work is named by the row |
| `SessionLifecycleProofs!OneTreeWhenDispatched` | `Spec => []OneTreeAtDispatch` |
| `SessionLifecycleProofs!EndIsFenced` | `Spec => []FencedEnd`: an End with a generation ends no other launch |
| `SessionLifecycleProofs!ContractKept` | `Spec => KeepsContract`: `SessionLifecycle` implements `SessionContract` |
| `LifecycleProofs!TypeCorrect` | `Spec => []TypeOK` |
| `LifecycleProofs!NobodyForgotten` | `Spec => []Handover`: no pending End, waiting attach or deferred pass is forgotten (each part has a theorem of its own) |
| `LifecycleProofs!BusyEndIsVoid` | `Spec => []BusyAppliesNothing` |
| `LifecycleProofs!ExitsAreRemembered` | `Spec => []ExitRemembered` |
| `LifecycleProofs!AdmissionTypeCorrect` | `AdmissionSpec => []AdmissionTypeOK` |
| `LifecycleProofs!CeilingHolds` | `AdmissionSpec => []Ceiling`: the emergency ceiling is not passed |
| `DeployProofs!HostIsConsistent` | `Spec => []Consistent`: one deploy at a time, nothing in use is removed, a quiet host runs what its files say |
| `DeployProofs!ContractKept` | `Spec => KeepsContract`: `Deploy` implements `DeployContract` |
| `PlacementProofs!TypeCorrect` | `Spec => []TypeOK` |
| `PlacementProofs!RoomsHold` | `Spec => NoRoomTwice`: concurrent creates and restores do not take the same room |
| `PlacementProofs!PlacingStays` | `Spec => []OwnersHold`: a reservation stays while its create runs |
| `PlacementProofs!RunningRootsAreBooked` | `Spec => []RunningIsBooked`: what runs has its reservation or is known, but for the exceptions of section 2 |
| `PlacementProofs!DecisionsSeeAll` | `Spec => NoneOverlooked`: a decision overlooks no root that runs, with the same exceptions |
| `WaitsProofs!LimitHolds` | `Spec => []KeysAndLimit` (and typing) |
| `WaitsProofs!OutcomesToldOnce` | `Spec => []ToldOnce` |
| `WakeQueueProofs!HandedOutOnce` | `Spec => []OncePerNote`: a running session is handed each note at most once (and typing) |
| `WakeQueueProofs!NoNoteLost` | `Spec /\ [][~KeptEdit]_vars => []NothingLost` |
| `WakeQueueProofs!SettledIsGone` | `Spec /\ [][~KeptEdit]_vars => []SettledStaysOut` |
| `WakeQueueProofs!WakesAreKept` | `Spec /\ [][~KeptEdit]_vars => WakeStaysWake` |
| `WakeQueueProofs!NothingLeavesEarly` | `Spec /\ [][~KeptEdit]_vars /\ [][~KeptMove]_vars => MayGo`: what goes out is due; a ride-along line leaves only with a wake (`RidesHaveCompany`, which needs no `~KeptMove`) |
| `LaneReportsProofs!TurnsToldOnce` | `Spec => []TurnsOnce`: each turn of a lane is told at most once, in order (and typing) |
| `LaneReportsProofs!ReachedWorkIsWoken` | `Spec => []ReachedWorkWakes`: the end of work that reached a lane is told by a wake, unless its last idle was unseen by then |
| `LaneReportsProofs!EndHeardByAll` | `Spec => []EndIsHeard`: all that a lane's end was for have heard it |
| `NotesSyncProofs!SyncTypeCorrect` | `Spec => [](TypeOK /\ ClocksAreNear /\ OneHolds)`: restores included, no clock is carried away by what is pulled and one row holds a unique value |
| `NotesSyncProofs!SettledHostsAgree` | `Spec => []Agree`, where no budget has a restore |
| `NotesSyncProofs!NoRowGoesBack` | `Spec => NeverBack`, where each budget has no restore or no purge |
| `NotesSyncProofs!NothingIsLost` | `Spec => []NothingLost`, where no budget has a restore or a purge |

They assume `BoundsAssumption`, `LockAssumption`, `AdmissionAssumption`, `DeployAssumption`, `PlacementAssumption`, `WaitsAssumption`, `QueueAssumption`, `LaneAssumption`, `SyncAssumption` and `NoneAssumption` (bounds are naturals, sessions
and deploys are numbered, a caller is not the name of a kind of holder, launches and requests are finite in number, a commit contains itself, "none" and "same" are no
commits and no requests, no host is named "none", replicating hosts are numbered in the order of their names and they and the rows are finite in number, the empty outcome of a wait is none of its outcomes, a check-in is no source, a lane's root and its launcher are not among the others, "none" is no session and no row, a scenario queues no more notes than there are). TLC evaluates them on every run.

*Session.* `LaunchOnce` speaks of one program point and is not inductive. `IInv` adds: `ServerInv`, the catalog
never runs ahead of the host (a server recorded dead has no process); `BindingInv`, the row is bound to
any server that has or may still get its pane, which excludes a second pane; `Recorded`, a pane that
was sent its line is named completely by the row (server, session, scope, `dispatched`); and
`OperationInv`, while a gate is created, promoted or about to be sent its line no pane was sent one. A
crash loses `op` only, so what the row says must carry the argument: that is what `Recorded` is for.
The step from `IInv` to `IInv'` has one step per action, grouped as `Next` is.

*Authority* (`SessionLifecycleProofs`, on top of `IInv`). What a scope may hold is spread over panes, scopes whose pane died, and the row, which
names two scopes at most. `JInv` says how they stay together: `PaneInv`, a pane is of the row's scope unless that is being
replaced; `LeftNamed`, work that outlived its pane is in a named scope; `LaunchInv`, beside its own scope an operation that owns a gate remembers
at most the one it replaces, and every pane there is belongs to the gate it promoted; `DrainInv`, the scope being drained cannot be filled again, and was
seen empty when it is forgotten; `EndInv`, what a fenced End was told of the launch stays true of the row it read. A
crash throws `LaunchInv`, `ReplaceInv`, `DrainInv` and `EndInv` away, and leaves what the next startup needs. The refinement then
has one case per way the set of filled scopes changes: only a send adds to it (one scope, beside `former`), everything else shrinks it, and
the row goes when it is empty.

*Lock.* `LockInv` (the three lock properties) is inductive with typing once a release is seen as one
step: a pending End is handed the lock in the step that frees it. `BusyAppliesNothing` needs
`AnswerInv`: a caller waits at one session and holds one lock, as its answer says. `ExitRemembered`
needs `ExitInv`: an exit's marker stays, and a pass that has looked at a row in its second loop
before the exit has another pass to come.

*Admission.* `Ceiling` compares cardinalities, which no step but a decision may raise. `EveryAgentIsCounted`
says why a decision's count is not too small: an admitted agent holds its slot until it shows
(`Unslotted`), one that has shown is seen or still to be visited (`Scanned`), and the prune comes before
the walk. Giving up a replacement puts the agent it would have replaced back in its place
(`ReleaseKeepsCeiling`, which needs `ReplacesStarted`). A slot that an exception kept counts for nobody, so all that is said of slots is that a launch that was admitted and not
sent has one, and that one that was not sent belongs to such a launch or to one that is over (`SlotFromDecision`). `Books` is these facts together and is inductive
with typing.

*Deploy.* `Consistent` says nothing of what a deploy is doing, so it is not inductive. `IInv` adds, for each deploy, `LockOf`
(one that works, or takes a dead one's pid file away, has the kernel lock, and the pid file is its own once it works), `DoingOf` (in a
swap: which of its units have the new file, are loaded, run; that its release is on the disk) and `UndoingOf`
(the same for the way back, with what trouble may leave behind); and of the host `HostOutside` (a unit that is in no journal
runs from its file, and systemd has read it), `OwnerRan` and `Kept` (`ReleasesKept`). A kill or a reboot throws `DoingOf` away and leaves `HostOutside`,
which is all that the next deploy's way back needs. A step of the deploy that has the
lock leaves the others' parts (`StepsOf`) alone, since none of them is at work (`HolderStep`); then there is one lemma per stretch of the deploy
with one step per action. The refinement maps the host to what it is to run: what the journal would put back while there is one, what is there
otherwise (`LiveUnit`, `LivePage`, `LiveOps`). `CInv` ties a deploy that works to it: what it chose agrees with what the host is
to run until it is installed (`ChoiceOf`), the files it has moved are the rest of its choice (`SwapOf`), a way back ends where the journal began (`BackOf`), what
it is about to say installed is installed (`ThereOf`), and its result is open until it tells it (`JobOf`). Then the removal of a swap's journal, a page
that answers or whose deploy is killed on trial, the ops release, the request and the answer are the contract's steps; every other action stutters.

*Placement.* What a decision judged is several steps old when it reserves. `IInv` says why it still holds: one decision is under way at a
time, the first of the chain (`OneDecides`); what it found to fit still fits (`FitsStill`), since meanwhile only a create can end,
which moves no reservation (`HeldSame`). A create that runs and made its reservation has it, placing, on its host (`OwnersHold`), and
is the only one of its request (`OneOwner`): nobody is asked about its root (`FateOfPlacing`), and a request that is being decided on is in
no such create (`FreshDecision`). Only the decision of a create makes a reservation for it, and then one reservation more takes at most its needs (`HeldGrows`).
A restore judges this computer alone and reserves there (`RestoresHere`, `RestoredRoomStep`), in the same chain of decisions.
`RunningIsBooked` speaks of no reconciliation, and one releases by what it was told awaits ago. `BInv` says why that is still true: a request whose create was sent
once has one place, which is where its root, its reservation, its intent and what may arrive late are (`OnceOf`); a root that is there, or may come back, keeps its
intent (`KnownAt`); and a root that was told to be missing or ended does not come back, since the creates that could make it are placing and nobody was asked about
them, and one that was told to have exited here does not work again before a restore has had its turn, or is "unplaced" (`FateHolds`). `NoneOverlooked` follows in the step that releases.

*Waits.* `WInv` is inductive with typing. `Sound` ties a row to what was told for it and to who listens: an armed wait has told nothing, a met condition was
told once, a wait without its waiter is a kept one. A look (`Looked`) settles sound rows soundly; an End that fails or deletes changes marks of settled rows,
too, so their keys are let go when they settle (`RowOK`). That the limit holds needs nothing finite but the armed waits themselves: each arm adds one, in the step
that counted (`OneMore`).

*Wake queue.* A row is in the table, in a paste, or remembered by a pass that relaunches, and a step moves many of them at once. The invariant has two parts.
`Base` (typing, `Homes`, `Marks`, `ToldInv`) holds in every state. `Rows` says that a row is at one place (`Apart`) under one id for one
note (`Names`, `MintedInv`), that a source has one line queued and one out (`SrcInv`), that what is queued or out was not handed to the running session yet
(`RunInv`) and is not settled unless its source took it back meanwhile (`FateInv`), and that an open note is somewhere (`NothingLost`). Every
step of the scheduler is an own change of one pass and the beginning of others (`Sched`), so there is one lemma for each way rows move: queued, replaced, taken, put back, dropped,
kept by an End; and one per action that says which way it is. `Rows` does not survive `KeptEdit`: the owner rewords or cancels a check-in that a pass has already read for its relaunch, so
that pass puts back what was settled, or settles the id of a row with another note. That is the finding of section 5, and it is the only step that breaks it: while the
session runs nothing is kept, which is why `HandedOutOnce` needs no hypothesis.

The two action properties need two facts more, both relative to `Rows`. `OpenInv`: what a session's row, queued or in a paste, stands for is open, so a restart in
the middle of a paste records it as lost. `DueInv`: a kept row that some pass remembers is due, if it is in the table. `StepFacts` says what any step may do to a wake, to an open
row and to a row that goes out, and there is one lemma per action again. `DueInv` does not survive `KeptMove`: when two passes relaunch a conversation at a time (section 5), one
fails and puts its check-in back, the owner moves that to a later time, and the launch of the other still carries it, so `NotBeforeDue` does not hold there. TLC
finds that with two notes, two passes, an End, an edit and two faults; the scenarios of `queue` do not have these together.

*Lane reports.* The reporter knows the agent only by what polls show, so the properties relate three clocks: the agent's turn, the turn in view, and the
turns its cursor names. `LInv` says how they stay together, and TLC checked it on the whole of the run before it was proved. `ClockLeads`: nothing seen or noted is ahead of the
agent. `LinesInOrder`: the lines told are real turns up to the cursor's `finished`. `IdlesAreReal`: an idle that no turn led to (a new agent comes up idle) is
absorbed (`Absorbs`: a reset is noted, or will be when the new generation or the return is seen), so what is in view and past `finished` ended a turn.
`WakeIsOwed`: while a wake is owed the next line is no repeat. The line of the turn it is owed after, if it is still to come, is the one that `reachedAfter` names, so it goes as it would have and leaves the reset to the next.
`WaitsHear`: a fired wait that tells of the end has been heard, and a wait on an agent seen to be gone fires before the settle time, after which the end is told.
`EndGoesOut`: whoever the end was for has heard it, or has an armed wait on the deleted lane. One lemma per action keeps each part it can disturb; the operators `Recorded`, `Remembered`,
`Evaluate` and the three lines have lemmas of their own. Two attempts failed for a good reason. What was owed was first counted from the turn in view, which made the theorem easy and hid
that the line of a turn no poll had seen pays for what came after it (`EveryReachWakes`, section 5): it is counted from the agent's turn, and the proof
needs `Noticed`. And an agent that exits, comes back and exits again between two polls is not seen to be back: the
model let the second exit be reported by a timer of the first, before a wait armed meanwhile was looked at. An agent that came back is now seen before it
leaves again (`AgentExits`), as polls are much faster than an agent's start.

*Notes sync.* Four invariants. `Inv` holds of every behaviour: types, `FilesInOrder` (change numbers tell the rows of a file apart and are not past its own,
stamps are near the wall clock, a unique value is held once) and `TopFollows`. A page is a fold over its rows, so what one row does (`ApplyRow`, with the claim of its unique value) is proved to keep an
order, and a least number at which it failed would follow one at which it held (`LeastNumber`): this is how what recursive functions compute is proved here, a page of any length included.
`PageIsComplete` says of a page that it has every row between two cursors, by the ranks of their change numbers.

`Calm` holds where nothing is restored, and says what a cursor promises. `Given` and `Unique`: a stamp is of its host's past, and given once. `Upto`: a host whose cursor stands at c has had all
that the peer's file holds up to c, or something newer; where it was asked for a page, what is not there yet is in the page (`Covers`). `Tombs`: what a host purged every host has had, and
nothing older is on its way to it. All of it is about `top`, the newest stamp a host had of a row, since a purged row leaves the file; every step goes forward by it (`Forward`), and what is on the way is
never made, only carried (`Made`). Then hosts whose cursors are at the end have had all the same stamps, and a stamp is one version (`SettledAgree`). `NoRowGoesBack` needs less where nothing is purged: the rows themselves go forward (`Kept`).

`Story` holds where nothing is restored or purged, and says where the text of every edit is. `Behind`: the stamp of a version, and that of the version
it was made from, are not ahead of what the host that made it holds itself. `Told`: the text of a version that is known anywhere
is saved as a conflict revision, or `Stands`: a host's row that it made itself, no older, has it or was written over it. A version made from another
was written over that one's text, and (`Closed`) over all that this one was written over. A local write keeps this by `Makes` (it is made from the row it replaces), a page row by row
(`RowTold`, `PageTold`, with the least number again): the one version that takes a row was made from it, is newer and the loser's text
is saved, or is the same. A first attempt had the text stand on its writer's own host, which fails with three hosts: that host
may hold a version by a third while the text lives at a peer. With a purge the statement itself fails (`SyncPurged.cfg`, section 5); with
a restore, what was written after the backup is gone, and the scenarios of `notes_sync` with one except just that.

A restore takes `Calm` away for good: cursors then promise what a file no longer holds. That is more than a difficulty of the proof, since with two
restores `Agree` fails (`SyncBothRestored.cfg`, section 5); with one, as in the scenarios of `notes_sync`, TLC finds that it holds.

**Only model-checked:** the liveness properties (liveness under fairness and `ENABLED` are beyond the
prover); `NothingLost` of `NotesSync` with a restore or a purge; `Agree` with a restore, and `NeverBack` with restores and purges in one behaviour.

## 5. Where the code and its documentation disagree

`queue_twice` has its counterexample on every check (`PROJECT.json`, `findings`): re-entry of the scheduler's `tick` lets two passes run, and a
kept check-in opens two sessions. TLC finds these statements violated as well, when run by hand.

With a configuration of their own (`tlc -config X.cfg MCModule`):

| Statement | Configuration | What is said, and the schedule |
|---|---|---|
| `BusyMeansHeld` | `LockBusy.cfg`, `MCLifecycleLock` | docs/api-v1.md on `busy`: "Another lifecycle operation holds the session". An End that arrives while another End of the session runs is never tried and answers busy beside a free lock |
| `NeverHidden` | `LanesHidden.cfg`, `MCLaneReports` | lane-reports.ts:1035-1036: "A message from an earlier turn never hides this one's idle". The lane sends a message in a turn whose idle is still held back, and then works through a turn too short to be seen: the message is taken for one of the second turn, and its idle goes unreported |
| `KeptOutlives` | `WaitsKept.cfg`, `MCWaits` | docs/api-v1.md:864: "then its armed waits are kept". Of two Ends that keep waits one is refused as busy, and takes the marks of the other back before that one deletes the session (lifecycle-api.ts:1078-1084) |
| `PageNeverOlder` | `DeployPage.cfg`, `MCDeploy` | deploy.ts:832: "Never put an older commit over a newer one another builder deployed meanwhile". The order of the backend's commits is looked at, its page follows (deploy.ts:1261-1262): a page that was deployed alone and newer goes back |
| `Agree` without `LateRestore` | `SyncRestored.cfg`, `MCNotesSync` | docs/plans/notes-and-capture.md:215: restores are "Tested both ways; no row regresses". A host whose clock had followed a peer's fast one is restored and gives a stamp out again: for its peer the two versions are identical, and the hosts differ for good |
| `Agree` after two restores | `SyncBothRestored.cfg`, `MCNotesSync` | docs/plans/notes-and-capture.md:221: "This catches a restored host whose `seq` climbed back past the peer's cursor". A host that has pulled everything is put back to an empty copy and starts over; the page it is given skips a note that was edited meanwhile; then the peer is put back, too, to a copy that still knows the host's first cursor as handed out. The new cursor is taken for that one, and the note never reaches the host |
| `NothingLost` with a purge | `SyncPurged.cfg`, `MCNotesSync` | docs/plans/notes-and-capture.md:398: "If an edit is newer than the delete, the note comes back and the deleted text is kept as a revision." A host edits a note and deletes it; its peer, away for longer than tombstones are kept, edits its own copy, pulls the tombstone and skips it as older. By that cursor the first host may purge the tombstone before it pulls the edit: the note comes back into an empty row, and the deleted text is kept nowhere |
| `AlwaysBooked` | `PlacementTwice.cfg`, `MCPlacement` | docs/api-v1.md:1065: "A placed root holds its needs on that host from the decision until the Tether that owns it says it is gone". A request is sent again while its first create runs: the second is placed without a reservation of its own (placement.ts:1112-1118), the first create fails and its `done()` and the reconciliation release the reservation, and the second create then makes the root. With `Budgets <- LateScenarios`: a create whose answer was lost is judged "missing" before its host handles it. Either way a root runs with neither reservation nor intent |
| `ReplacedIsBooked` | `PlacementRespawn.cfg`, `MCPlacement` | docs/api-v1.md:1065, the same sentence, and "Restore and crash recovery book a root whose agent exited again before relaunching it here". The agent of a root placed here exits, a decision releases its reservation, and the owner replaces the agent: `respawn`, `load-tui` and `switch-project` (lifecycle-api.ts:1091-1160) ask no placement, and `reconcile` books again on other hosts only (placement.ts:735). The root runs without a reservation, and its room may be given to others |
| `EveryReachWakes` | `LanesUnseen.cfg`, `MCLaneReports` | lane-reports.ts:738-745: "Its next went-idle line is a first line (a wake), never a ride-along repeat ... a request sent before the lane's last went-idle line but pasted after it must still wake"; 754-757: an idle from before "must not use up the reset". The agent works and rests between two polls, then a message reaches the lane. What Tether has in view is older, so nothing is noted in `reachedAfter`; the poll sees the idle that came before the message, whose line goes as a wake and uses up the reset; the line of the turn the message started rides along |
| `NoSlotLeaks` | `AdmissionLeak.cfg`, `MCAgentAdmission` | agent-admission.ts:317: "Launch did not happen: free the slot immediately". A replacement that was admitted throws between its ticket and its `try` (engine.ts:2476-2498), and its slot is pending until the daemon restarts |

`WaitsEndWithTheirWaiter` ("A waiter's waits end with it", api-v1.md:864) fails under `WaitsKept.cfg` in place of `KeptOutlives`: the session
ends while a call of `arm` awaits the look at its caller (waits.ts:774-780), and the wait is armed for nobody.
Likewise "Never silent ... Only a cancel is quiet" (api-v1.md:855-856) has the exception that the document itself states a few lines on:
a kept wait that times out is recorded and tells nobody; `ToldOnce` is stated with it.

`MCWakeQueue` states more of what comments and documents say of the queue. TLC finds each violated when it
is the only property of `QueueTwice.cfg`, with `TwiceScenarios` as here (others as there, `MaxNotes` as many as the notes):

| Statement | Scenario | Schedule |
|---|---|---|
| `AtMostOnce` (invariant) | `passes 1, notes 1, late 1` | wakes.ts:1116-1117 "At most once": a paste whose command fails late is repeated |
| `OnePass` (invariant) | `passes 2, notes 1` | a fresh row is announced before `running` is set |
| `NoPasteOnStaleIdle` (property) | `passes 2, notes 2` | a second pass through the gate before `deliveredAt` is set |
| `NewestStands` (property) | `passes 3, notes 2, faults 2`, `Passes = {p, q, r}` | an older and a newer line are both out and both refused |
| `NoPasteUnderPuller` (property) | `passes 2, notes 1, polls 1` | a puller attaches during the gate's awaits |
| `WakesGoWithSession` (invariant) | `passes 2, notes 1, ends 1` | End while rows are out; the refused paste restores them |
| `MarksTakenBack` (invariant) | `passes 2, notes 1, ends 1, faults 1` | a failed End takes its marks back while a row is out |
| `CancelledStaysCancelled` (property) | `passes 2, notes 1, ends 1, edits 1` | cancelled while the pass asks who holds the conversation |

`MCLifecycleLock` states `FollowUpAfterRelease` (property): the comment at engine.ts:535-536 promises one follow-up pass
"after that ownership token is released instead of spinning". A pass's own release, for another session of
the server, takes the deferral back as well, so passes repeat while the lock is held. TLC finds
it with the bounds of `LockBusy.cfg` and one caller.

## 6. Not modelled, and the plan

Not modelled: parsing and formatting, reads of `/proc`, transcripts and agent status files (their answers are
choices), HTTP, the user interfaces, and the programs that run once and exit. Those are most of the
repository's lines: the models stand for the parts that keep state across awaits, processes or hosts. Still to come, in this order:

1. `TmuxServers`: allocation of several sessions on one server generation, its promotion and loss.
2. `RootRequests`: a request, its approval and its run over restarts.
3. `EventFollower`: replay buffer, boot id, gap and cursor; abstract specification "each event or a resync".
4. `CrashRecovery`, coordinator transfers, asks, viewer credit, file leases.

Abstract specifications worth having beside the two contracts: an atomic lock with a queue of one End
for `LifecycleLock`, a mailbox (queued, out, settled) for `WakeQueue`, a set of versions per row for `NotesSync`. No more than a dozen runs are
kept: each new module shares a run's slot by folding properties that ask one question, or replaces a question
that a theorem has settled.
