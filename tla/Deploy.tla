------------------------------- MODULE Deploy -------------------------------
(***************************************************************************)
(* aico deploy (packages/ops/src/deploy.ts): deploys of commits to the     *)
(* user units of one host.  A deploy waits for the host's lock, undoes a   *)
(* swap that a killed one left, chooses what may move to its commit,       *)
(* builds the release, writes a journal of what was before, switches the   *)
(* ops link, the page link and the unit files, restarts and checks the     *)
(* units, and removes the journal; or puts everything back.  Any deploy    *)
(* may be killed at any step, and the host may reboot.                     *)
(*                                                                         *)
(* One unit (Backend) serves a page from a link.  Left out: which units a  *)
(* scope and the changed sources select (every set of Wants may be asked   *)
(* for), the holds of other agents (a refusal is possible at each look),   *)
(* the builds within a release, the kept earlier pages, the root install,  *)
(* enabling at boot.  The flock child is taken to live as long as its      *)
(* deploy, and the pid of a dead one not to be given out again.            *)
(***************************************************************************)
EXTENDS Naturals, FiniteSets

CONSTANTS
  None,       \* no file, no link, no journal, no owner, nothing running
  Unit, Backend,
  Commit, Ancestors,  \* per commit, those it contains (itself, too)
  Deploys,    \* calls of aico deploy, numbered in their order
  Wants,      \* what a deploy may ask for
  Before,     \* the commit each unit runs at first, or None
  Budgets     \* bounds: how often each kind of outside event happens, per scenario

Kind == {"calls", "kills", "reboots", "faults", "refusals", "restarts", "asks"}

Want == [sha: Commit, back: BOOLEAN, units: SUBSET Unit, page: BOOLEAN, ops: BOOLEAN]

Release == Commit \union {None}

(* .swap.json: what the swap changes, as it was before; Same: it does not. *)
Same == "same"
Journal == [file: UNION {[units -> Release] : units \in (SUBSET Unit) \ {{}}},
            page: Release \union {Same}, ops: Release \union {Same}]

DeployAssumption ==
  /\ Backend \in Unit /\ Wants \subseteq Want /\ Before \in [Unit -> Commit \union {None}]
  /\ Ancestors \in [Commit -> SUBSET Commit] /\ \A c \in Commit : c \in Ancestors[c]
  /\ Budgets \subseteq [Kind -> Nat] /\ Deploys \subseteq Nat
  /\ None \notin Commit \union Deploys \union Journal \union Want /\ Same \notin Release
ASSUME DeployAssumption

VARIABLES
  file,      \* the commit of each unit file
  loaded,    \* what systemd last read of each
  runs,      \* what each unit's process runs from
  page,      \* the release the "current" link serves
  ops,       \* the release of the ops link
  journal,   \* .swap.json
  disk,      \* the finished releases
  flock,     \* who has the kernel lock
  pid,       \* whose pid is in .deploy.pid
  dep,       \* each deploy
  job,       \* each deploy's job file
  asker,     \* a call of jobResult
  left       \* how many outside events of each kind may still happen

host == <<file, loaded, runs, page, ops, journal, disk>>
vars == <<file, loaded, runs, page, ops, journal, disk, flock, pid, dep, job, asker, left>>

Spend(kind) == left[kind] > 0 /\ left' = [left EXCEPT ![kind] = @ - 1]

At(k, pc) == dep[k].pc = pc
Goes(k, pc) == dep' = [dep EXCEPT ![k].pc = pc]

InTrouble(d) == [d EXCEPT !.trouble = TRUE]
With(d, pc, todo) == [d EXCEPT !.pc = pc, !.todo = todo]
GoesWith(k, pc, todo) == dep' = [dep EXCEPT ![k] = With(dep[k], pc, todo)]
Troubled(k, pc, todo) ==
  dep' = [dep EXCEPT ![k] = With(InTrouble(dep[k]), pc, todo)]
Fails(k, pc) == dep' = [dep EXCEPT ![k].pc = pc, ![k].result = "failed"]

Alive(k) == dep[k].pc \notin {"new", "done", "dead"}

New == [pc |-> "new", want |-> None, restart |-> {}, swap |-> FALSE, ops |-> FALSE,
        todo |-> {}, prev |-> None, trouble |-> FALSE, result |-> "succeeded"]

(* A process that ends: what it was asked stays on record. *)
Gone(k, pc) == [New EXCEPT !.pc = pc, !.want = dep[k].want]

-----------------------------------------------------------------------------
(* The call, and the lock.                                                 *)

Call(k) ==
  /\ At(k, "new") /\ \A j \in Deploys : j < k => ~At(j, "new")
  /\ Spend("calls")
  /\ \E w \in Wants : dep' = [dep EXCEPT ![k].pc = "accept", ![k].want = w]
  /\ job' = [job EXCEPT ![k] = "running"]
  /\ UNCHANGED <<host, flock, pid, asker>>

(* The commit is not accepted: nothing was deployed. *)
NotAccepted(k) ==
  /\ At(k, "accept") /\ Spend("refusals")
  /\ Fails(k, "end")
  /\ UNCHANGED <<host, flock, pid, job, asker>>

(* Mutant: there is no kernel lock. *)
KernelLockNone(k) ==
  /\ At(k, "accept")
  /\ flock' = k
  /\ Goes(k, "pid")
  /\ UNCHANGED <<host, pid, job, asker, left>>

(* The commit is accepted, and the deploy gets its turn. *)
KernelLock(k) ==
  /\ At(k, "accept")
  /\ flock = None /\ flock' = k
  /\ Goes(k, "pid")
  /\ UNCHANGED <<host, pid, job, asker, left>>

(* Mutant: whoever wrote the pid file, it is waited for. *)
StaleNever == FALSE

Stale == pid # None /\ ~Alive(pid)

OwnPid(k) ==
  /\ At(k, "pid") /\ pid = None
  /\ pid' = k
  /\ Goes(k, "look")
  /\ UNCHANGED <<host, flock, job, asker, left>>

(* takeOver, its recheck and its rename: the pid file of a dead owner. *)
SeeStale(k) ==
  /\ At(k, "pid") /\ Stale
  /\ Goes(k, "aside")
  /\ UNCHANGED <<host, flock, pid, job, asker, left>>

MoveAside(k) ==
  /\ At(k, "aside")
  /\ pid' = None
  /\ Goes(k, "pid")
  /\ UNCHANGED <<host, flock, job, asker, left>>


-----------------------------------------------------------------------------
(* Under the lock: what may move to the commit, and the release.           *)

(* A swap left unfinished is undone first, unless another agent's hold
   refuses it. *)
FindsSwap(k) ==
  /\ At(k, "look") /\ journal # None
  /\ Goes(k, "undo")
  /\ UNCHANGED <<host, flock, pid, job, asker, left>>

RefusedToUndo(k) ==
  /\ At(k, "look") /\ journal # None
  /\ Spend("refusals")
  /\ Fails(k, "leave")
  /\ UNCHANGED <<host, flock, pid, job, asker>>

(* order: what a deploy of w may do to what is at "from". *)
Order(from, w) ==
  CASE from = None \/ from = w.sha \/ w.back -> "go"
    [] OTHER -> IF from \in Ancestors[w.sha] THEN "go"
                ELSE IF w.sha \in Ancestors[from] THEN "newer" ELSE "diverged"

ServedFrom == IF page = None THEN file[Backend] ELSE page

AsksPage(w) == w.page /\ Backend \notin w.units /\ ServedFrom # w.sha

AsksOps(w) == w.ops /\ (ops = None \/ (ops # w.sha /\ Order(ops, w) = "go"))

Diverged(w) ==
  \/ \E u \in w.units : Order(file[u], w) = "diverged"
  \/ AsksPage(w) /\ Order(ServedFrom, w) = "diverged"

SelectRefuses(k) ==
  /\ At(k, "look") /\ journal = None /\ Diverged(dep[k].want)
  /\ Fails(k, "tell")
  /\ UNCHANGED <<host, flock, pid, job, asker, left>>

Select(k) ==
  LET w == dep[k].want
      restart == {u \in w.units : Order(file[u], w) = "go"}
      swap == AsksPage(w) /\ Order(ServedFrom, w) = "go"
  IN /\ At(k, "look") /\ journal = None /\ ~Diverged(w)
     /\ dep' = [dep EXCEPT ![k].restart = restart, ![k].swap = swap, ![k].ops = AsksOps(w),
                           ![k].pc = IF restart # {} \/ swap \/ AsksOps(w) THEN "prepare" ELSE "tell"]
     /\ UNCHANGED <<host, flock, pid, job, asker, left>>

AfterSwaps(k) == IF dep[k].ops /\ dep[k].restart = {} THEN "ops" ELSE "prune"
AfterUnits(k) == IF dep[k].swap THEN "page" ELSE AfterSwaps(k)

(* prepareRelease: a release gets its name when it is whole. *)
Prepare(k) ==
  /\ At(k, "prepare")
  /\ disk' = disk \union {dep[k].want.sha}
  /\ Goes(k, IF dep[k].restart # {} \/ dep[k].swap THEN "gate" ELSE AfterUnits(k))
  /\ UNCHANGED <<file, loaded, runs, page, ops, journal, flock, pid, job, asker, left>>

PrepareFails(k) ==
  /\ At(k, "prepare") /\ Spend("faults")
  /\ Fails(k, "tell")
  /\ UNCHANGED <<host, flock, pid, job, asker>>

(* The lock is still this deploy's, and nobody holds. *)
Gate(k) ==
  /\ At(k, "gate") /\ pid = k
  /\ Goes(k, IF dep[k].restart # {} THEN "journal" ELSE "page")
  /\ UNCHANGED <<host, flock, pid, job, asker, left>>

GateRefuses(k) ==
  /\ At(k, "gate")
  /\ IF pid = k THEN Spend("refusals") ELSE UNCHANGED left
  /\ Fails(k, "tell")
  /\ UNCHANGED <<host, flock, pid, job, asker>>

-----------------------------------------------------------------------------
(* swapUnits, and the way back.                                            *)

(* Mutant: the journal has no page. *)
WriteJournalPageless(k) ==
  LET d == dep[k]
  IN /\ At(k, "journal")
     /\ journal' = [file |-> [u \in d.restart |-> file[u]], page |-> Same,
                    ops |-> IF d.ops THEN ops ELSE Same]
     /\ Goes(k, "put")
     /\ UNCHANGED <<file, loaded, runs, page, ops, disk, flock, pid, job, asker, left>>

WriteJournal(k) ==
  LET d == dep[k]
  IN /\ At(k, "journal")
     /\ journal' = [file |-> [u \in d.restart |-> file[u]],
                    page |-> IF Backend \in d.restart THEN page ELSE Same,
                    ops |-> IF d.ops THEN ops ELSE Same]
     /\ Goes(k, "put")
     /\ UNCHANGED <<file, loaded, runs, page, ops, disk, flock, pid, job, asker, left>>

PutOps(k) ==
  /\ At(k, "put")
  /\ ops' = IF dep[k].ops THEN dep[k].want.sha ELSE ops
  /\ Goes(k, "put page")
  /\ UNCHANGED <<file, loaded, runs, page, journal, disk, flock, pid, job, asker, left>>

PutPage(k) ==
  /\ At(k, "put page")
  /\ page' = IF Backend \in dep[k].restart THEN dep[k].want.sha ELSE page
  /\ GoesWith(k, "put files", dep[k].restart)
  /\ UNCHANGED <<file, loaded, runs, ops, journal, disk, flock, pid, job, asker, left>>

PutFile(k) ==
  /\ At(k, "put files")
  /\ \E u \in dep[k].todo :
       /\ file' = [file EXCEPT ![u] = dep[k].want.sha]
       /\ GoesWith(k, IF dep[k].todo = {u} THEN "reload" ELSE "put files", dep[k].todo \ {u})
  /\ UNCHANGED <<loaded, runs, page, ops, journal, disk, flock, pid, job, asker, left>>

(* An error out of these steps is no "failure" of the swap: nothing is put
   back, and the journal stays. *)
PutThrows(k) ==
  /\ dep[k].pc \in {"put", "put page", "put files"} /\ Spend("faults")
  /\ Fails(k, "leave")
  /\ UNCHANGED <<host, flock, pid, job, asker>>

Reload(k) ==
  /\ At(k, "reload")
  /\ loaded' = file
  /\ GoesWith(k, "restart", dep[k].restart)
  /\ UNCHANGED <<file, runs, page, ops, journal, disk, flock, pid, job, asker, left>>

Restart(k) ==
  /\ At(k, "restart")
  /\ \E u \in dep[k].todo :
       /\ runs' = [runs EXCEPT ![u] = loaded[u]]
       /\ GoesWith(k, IF dep[k].todo = {u} THEN "check" ELSE "restart", dep[k].todo \ {u})
  /\ UNCHANGED <<file, loaded, page, ops, journal, disk, flock, pid, job, asker, left>>

RestartFails(k) ==
  /\ At(k, "restart") /\ Spend("faults")
  /\ \E u \in dep[k].todo : runs' = [runs EXCEPT ![u] = None]
  /\ Fails(k, "undo")
  /\ UNCHANGED <<file, loaded, page, ops, journal, disk, flock, pid, job, asker>>

(* The daemon-reload fails, the backend does not answer, or a unit is not active. *)
SwapFails(k) ==
  /\ dep[k].pc \in {"reload", "check"} /\ Spend("faults")
  /\ Fails(k, "undo")
  /\ UNCHANGED <<host, flock, pid, job, asker>>

(* The checks pass: with its journal gone, the swap is done. *)
SwapEnds(k) ==
  /\ At(k, "check")
  /\ journal' = None
  /\ Goes(k, AfterUnits(k))
  /\ UNCHANGED <<file, loaded, runs, page, ops, disk, flock, pid, job, asker, left>>

UndoOps(k) ==
  /\ At(k, "undo")
  /\ ops' = IF journal.ops = Same THEN ops ELSE journal.ops
  /\ Goes(k, "undo page")
  /\ UNCHANGED <<file, loaded, runs, page, journal, disk, flock, pid, job, asker, left>>

UndoPage(k) ==
  /\ At(k, "undo page")
  /\ page' = IF journal.page = Same THEN page ELSE journal.page
  /\ GoesWith(k, "undo files", DOMAIN journal.file)
  /\ UNCHANGED <<file, loaded, runs, ops, journal, disk, flock, pid, job, asker, left>>

(* A unit that had no file is stopped first. *)
UndoFile(k) ==
  /\ At(k, "undo files")
  /\ \E u \in dep[k].todo :
       /\ file' = [file EXCEPT ![u] = journal.file[u]]
       /\ runs' = [runs EXCEPT ![u] = IF journal.file[u] = None THEN None ELSE @]
       /\ GoesWith(k, IF dep[k].todo = {u} THEN "undo reload" ELSE "undo files", dep[k].todo \ {u})
  /\ UNCHANGED <<loaded, page, ops, journal, disk, flock, pid, job, asker, left>>

StopFails(k) ==
  /\ At(k, "undo files") /\ Spend("faults")
  /\ \E u \in dep[k].todo :
       /\ journal.file[u] = None
       /\ file' = [file EXCEPT ![u] = None]
       /\ Troubled(k, IF dep[k].todo = {u} THEN "undo reload" ELSE "undo files", dep[k].todo \ {u})
  /\ UNCHANGED <<loaded, runs, page, ops, journal, disk, flock, pid, job, asker>>

UndoReload(k) ==
  /\ At(k, "undo reload")
  /\ loaded' = file
  /\ GoesWith(k, "undo restart", {u \in DOMAIN journal.file : journal.file[u] # None})
  /\ UNCHANGED <<file, runs, page, ops, journal, disk, flock, pid, job, asker, left>>

UndoReloadFails(k) ==
  /\ At(k, "undo reload") /\ Spend("faults")
  /\ Troubled(k, "undo restart", {u \in DOMAIN journal.file : journal.file[u] # None})
  /\ UNCHANGED <<host, flock, pid, job, asker>>

UndoRestart(k) ==
  /\ At(k, "undo restart")
  /\ \E u \in dep[k].todo :
       /\ runs' = [runs EXCEPT ![u] = loaded[u]]
       /\ GoesWith(k, "undo restart", dep[k].todo \ {u})
  /\ UNCHANGED <<file, loaded, page, ops, journal, disk, flock, pid, job, asker, left>>

UndoRestartFails(k) ==
  /\ At(k, "undo restart") /\ Spend("faults")
  /\ \E u \in dep[k].todo :
       /\ runs' = [runs EXCEPT ![u] = None]
       /\ Troubled(k, "undo restart", dep[k].todo \ {u})
  /\ UNCHANGED <<file, loaded, page, ops, journal, disk, flock, pid, job, asker>>

(* Everything was put back: a deploy that failed says so, one that undid
   another's swap goes on.  Else the journal stays for the next deploy. *)
UndoEnds(k) ==
  /\ At(k, "undo restart") /\ dep[k].todo = {}
  /\ journal' = IF dep[k].trouble THEN journal ELSE None
  /\ IF dep[k].trouble THEN Fails(k, IF dep[k].result = "failed" THEN "tell" ELSE "leave")
     ELSE Goes(k, IF dep[k].result = "failed" THEN "tell" ELSE "look")
  /\ UNCHANGED <<file, loaded, runs, page, ops, disk, flock, pid, job, asker, left>>

-----------------------------------------------------------------------------
(* A page or an ops bundle that moves alone, and the rest of the deploy.   *)

SwapPage(k) ==
  /\ At(k, "page")
  /\ page' = dep[k].want.sha
  /\ dep' = [dep EXCEPT ![k].pc = "trial", ![k].prev = page]
  /\ UNCHANGED <<file, loaded, runs, ops, journal, disk, flock, pid, job, asker, left>>

PageAnswers(k) ==
  /\ At(k, "trial")
  /\ Goes(k, AfterSwaps(k))
  /\ UNCHANGED <<host, flock, pid, job, asker, left>>

PageFails(k) ==
  /\ At(k, "trial") /\ Spend("faults")
  /\ page' = dep[k].prev
  /\ Fails(k, "tell")
  /\ UNCHANGED <<file, loaded, runs, ops, journal, disk, flock, pid, job, asker>>

InstallOps(k) ==
  /\ At(k, "ops")
  /\ ops' = dep[k].want.sha
  /\ Goes(k, "prune")
  /\ UNCHANGED <<file, loaded, runs, page, journal, disk, flock, pid, job, asker, left>>

(* What pruneReleases keeps, besides the newest few. *)
InUse(k) ==
  {dep[k].want.sha, ops, page} \union {file[u] : u \in Unit} \union {runs[u] : u \in Unit}

Prune(k) ==
  /\ At(k, "prune")
  /\ disk' \in {disk, disk \intersect InUse(k)}
  /\ Goes(k, "tell")
  /\ UNCHANGED <<file, loaded, runs, page, ops, journal, flock, pid, job, asker, left>>

(* finish, under the lock. *)
Tell(k) ==
  /\ At(k, "tell")
  /\ job' = [job EXCEPT ![k] = dep[k].result]
  /\ Goes(k, "leave")
  /\ UNCHANGED <<host, flock, pid, asker, left>>

Leave(k) ==
  /\ At(k, "leave")
  /\ pid' = IF pid = k THEN None ELSE pid
  /\ flock' = IF flock = k THEN None ELSE flock
  /\ Goes(k, "end")
  /\ UNCHANGED <<host, job, asker, left>>

(* A deploy that was thrown out tells its result now; the process ends. *)
EndRun(k) ==
  /\ At(k, "end")
  /\ job' = IF job[k] = "running" THEN [job EXCEPT ![k] = "failed"] ELSE job
  /\ dep' = [dep EXCEPT ![k] = Gone(k, "done")]
  /\ UNCHANGED <<host, flock, pid, asker, left>>

Step(k) ==
  \/ NotAccepted(k)
  \/ KernelLock(k) \/ OwnPid(k) \/ SeeStale(k) \/ MoveAside(k)
  \/ FindsSwap(k) \/ RefusedToUndo(k)
  \/ SelectRefuses(k) \/ Select(k) \/ Prepare(k) \/ PrepareFails(k) \/ Gate(k) \/ GateRefuses(k)
  \/ WriteJournal(k) \/ PutOps(k) \/ PutPage(k) \/ PutFile(k) \/ PutThrows(k)
  \/ Reload(k) \/ Restart(k) \/ RestartFails(k) \/ SwapFails(k) \/ SwapEnds(k)
  \/ UndoOps(k) \/ UndoPage(k) \/ UndoFile(k) \/ StopFails(k) \/ UndoReload(k) \/ UndoReloadFails(k)
  \/ UndoRestart(k) \/ UndoRestartFails(k) \/ UndoEnds(k)
  \/ SwapPage(k) \/ PageAnswers(k) \/ PageFails(k) \/ InstallOps(k)
  \/ Prune(k) \/ Tell(k) \/ Leave(k) \/ EndRun(k)

-----------------------------------------------------------------------------
(* The host, and who asks for a deploy's result.                           *)

(* The kernel lock goes with its owner; its pid file stays. *)
Kill(k) ==
  /\ Alive(k) /\ Spend("kills")
  /\ dep' = [dep EXCEPT ![k] = Gone(k, "dead")]
  /\ flock' = IF flock = k THEN None ELSE flock
  /\ UNCHANGED <<host, pid, job, asker>>

Reboot ==
  /\ Spend("reboots")
  /\ dep' = [k \in Deploys |-> IF Alive(k) THEN Gone(k, "dead") ELSE dep[k]]
  /\ flock' = None
  /\ loaded' = file /\ runs' = file
  /\ asker' = None
  /\ UNCHANGED <<file, page, ops, journal, disk, pid, job>>

(* A unit's process goes down, and systemd starts it again. *)
UnitRestarts ==
  /\ Spend("restarts")
  /\ \E u \in Unit : runs[u] # None /\ runs' = [runs EXCEPT ![u] = loaded[u]]
  /\ UNCHANGED <<file, loaded, page, ops, journal, disk, flock, pid, dep, job, asker>>

(* jobResult: the job is running; its unit is gone; it is still running. *)
AskRuns(k) ==
  /\ asker = None /\ job[k] = "running" /\ Spend("asks")
  /\ asker' = [of |-> k, gone |-> FALSE]
  /\ UNCHANGED <<host, flock, pid, dep, job>>

AskUnit ==
  /\ asker # None /\ ~asker.gone
  /\ asker' = IF Alive(asker.of) THEN None ELSE [asker EXCEPT !.gone = TRUE]
  /\ UNCHANGED <<host, flock, pid, dep, job, left>>

AskEnds ==
  /\ asker # None /\ asker.gone
  /\ job' = [job EXCEPT ![asker.of] = IF @ = "running" THEN "failed" ELSE @]
  /\ asker' = None
  /\ UNCHANGED <<host, flock, pid, dep, left>>

Init ==
  /\ file = Before /\ loaded = Before /\ runs = Before
  /\ page = None /\ ops = None /\ journal = None
  /\ disk = {Before[u] : u \in Unit} \ {None}
  /\ flock = None /\ pid = None
  /\ dep = [k \in Deploys |-> New] /\ job = [k \in Deploys |-> "none"]
  /\ asker = None
  /\ left \in Budgets

Next ==
  \/ \E k \in Deploys : Call(k) \/ Step(k) \/ Kill(k) \/ AskRuns(k)
  \/ Reboot \/ UnitRestarts \/ AskUnit \/ AskEnds

Spec == Init /\ [][Next]_vars

(* A deploy that runs goes on: its commands end, one way or the other. *)
FairSpec == Spec /\ \A k \in Deploys : WF_vars(Step(k))

-----------------------------------------------------------------------------
(* Properties.                                                             *)

Swapping == {"put", "put page", "put files", "reload", "restart", "check"}
Undoing == {"undo", "undo page", "undo files", "undo reload", "undo restart"}

(* The steps under the lock. *)
Working == Swapping \union Undoing \union
  {"look", "prepare", "gate", "journal", "page", "trial", "ops", "prune", "tell", "leave"}

Pcs == Working \union {"new", "accept", "pid", "aside", "end", "done", "dead"}

Dep == [pc: Pcs, want: Wants \union {None}, restart: SUBSET Unit, swap: BOOLEAN, ops: BOOLEAN,
        todo: SUBSET Unit, prev: Release, trouble: BOOLEAN, result: {"succeeded", "failed"}]

(* The types; and a deploy in a step of the swap or of the way back has the
   journal it reads (deploy.ts: swapUnits and recoverSwap). *)
TypeOK ==
  /\ file \in [Unit -> Release] /\ loaded \in [Unit -> Release] /\ runs \in [Unit -> Release]
  /\ page \in Release /\ ops \in Release /\ disk \subseteq Commit
  /\ journal \in Journal \union {None}
  /\ flock \in Deploys \union {None} /\ pid \in Deploys \union {None}
  /\ dep \in [Deploys -> Dep]
  /\ job \in [Deploys -> {"none", "running", "succeeded", "failed"}]
  /\ asker = None \/ asker \in [of: Deploys, gone: BOOLEAN]
  /\ left \in [Kind -> Nat]
  /\ \A k \in Deploys : dep[k].pc \in Swapping \union Undoing => journal # None

InTheLock == {k \in Deploys : dep[k].pc \in Working}

(* One deploy at a time changes the host, and whoever waits for a dead
   owner's lock (withLock, takeOver): the pid file is its own. *)
OneAtATime == \A k \in InTheLock : pid = k /\ InTheLock = {k}

Journaled ==
  IF journal = None THEN {}
  ELSE {journal.file[u] : u \in DOMAIN journal.file} \union ({journal.page, journal.ops} \ {Same})

Trials == {dep[k].prev : k \in {k \in Deploys : At(k, "trial")}}

(* Whatever is served, installed, loaded or run, and whatever a journal or a
   trial would put back, is a release on the disk (pruneReleases). *)
ReleasesKept ==
  ({page, ops} \union {file[u] : u \in Unit} \union {loaded[u] : u \in Unit}
     \union {runs[u] : u \in Unit} \union Journaled \union Trials) \ {None} \subseteq disk

(* With no deploy at work and no journal to undo, each unit runs from what
   its file says, and systemd has read it, whoever was killed and whatever
   failed before (swapUnits, restoreUnits, recoverSwap). *)
QuietIsConsistent ==
  InTheLock = {} /\ journal = None => loaded = file /\ runs = file

Consistent == TypeOK /\ OneAtATime /\ ReleasesKept /\ QuietIsConsistent

(* What the host is to run: what is there, or, until a swap ends, what its
   journal would put back. *)
LiveUnit ==
  [u \in Unit |-> IF journal # None /\ u \in DOMAIN journal.file THEN journal.file[u] ELSE file[u]]
LiveOps == IF journal # None /\ journal.ops # Same THEN journal.ops ELSE ops
LivePage ==
  IF \E k \in Deploys : At(k, "trial") THEN dep[CHOOSE k \in Deploys : At(k, "trial")].prev
  ELSE IF journal # None /\ journal.page # Same THEN journal.page ELSE page

Contract ==
  INSTANCE DeployContract WITH
    asked <- [k \in Deploys |-> dep[k].want], unit <- LiveUnit, page <- LivePage, ops <- LiveOps,
    told <- job

(* Every step of every deploy, kill and reboot is one of the contract's steps
   or none: units, page and ops bundle switch together when the journal
   goes, to a commit that may replace what was there; a deploy that says it
   succeeded has done what was asked; its result is told once. *)
KeepsContract == Contract!Spec

(* A deploy that is not killed ends, and lets the next one in (withLock):
   nobody waits for ever for a dead owner. *)
DeployEnds == \A k \in Deploys : At(k, "accept") ~> dep[k].pc \in {"done", "dead"}

(* "Never put an older commit over a newer one another builder deployed
   meanwhile" (deploy.ts, at placed), of the page: it moves to an older
   commit in a rollback only. *)
PageNeverOlder ==
  [][page' # page /\ page # None /\ page' # None =>
       page \in Ancestors[page'] \/ \E k \in Deploys : At(k, "undo page") \/ At(k, "trial")
         \/ (dep[k].want # None /\ dep[k].want.back /\ At(k, "put page"))]_vars

=============================================================================
