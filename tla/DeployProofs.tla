---------------------------- MODULE DeployProofs ----------------------------
(***************************************************************************)
(* Whoever deploys, is killed or fails: the host of Deploy is consistent   *)
(* whenever no deploy is at work and no swap is left to undo.  The         *)
(* argument is that only the deploy that has the lock touches the host     *)
(* (LockOf), that what it has not yet put where it belongs is named by the *)
(* journal (HostOutside), and that each of its steps knows what the steps  *)
(* before it did (DoingOf, UndoingOf).  And Deploy implements              *)
(* DeployContract: what the host is to run is what the journal would put   *)
(* back, and where there is none what is there, so that it changes in the  *)
(* step in which a deploy cannot be undone any more.                       *)
(***************************************************************************)
EXTENDS Deploy, TLAPS

(* Who works under the lock has the kernel's lock and the pid file; who
   moves a pid file aside moves a dead owner's. *)
LockOf(k) ==
  /\ dep[k].pc \in Working \union {"pid", "aside"} => flock = k
  /\ dep[k].pc \in Working => pid = k
  /\ dep[k].pc = "aside" => Stale

OwnerRan == pid # None => dep[pid].pc # "new"

InJournal(u) == journal # None /\ u \in DOMAIN journal.file

AsFiled(u) == loaded[u] = file[u] /\ runs[u] = file[u]

(* What no journal names runs from its file. *)
HostOutside == \A u \in Unit : InJournal(u) \/ AsFiled(u)

OnDisk(r) == r = None \/ r \in disk

Kept ==
  /\ OnDisk(page) /\ OnDisk(ops)
  /\ \A u \in Unit : OnDisk(file[u]) /\ OnDisk(loaded[u]) /\ OnDisk(runs[u])
  /\ journal # None =>
       /\ \A u \in DOMAIN journal.file : OnDisk(journal.file[u])
       /\ journal.page = Same \/ OnDisk(journal.page)
       /\ journal.ops = Same \/ OnDisk(journal.ops)

(* The way to a new release. *)
DoingOf(k) ==
  /\ dep[k].pc # "new" => dep[k].want \in Wants
  /\ dep[k].pc \in {"gate", "journal", "page", "trial", "ops", "prune"} \union Swapping =>
       dep[k].want.sha \in disk
  /\ dep[k].pc \in {"prepare", "gate", "journal", "page", "trial", "ops", "prune"} => journal = None
  /\ dep[k].pc = "journal" => dep[k].restart # {}
  /\ dep[k].pc \in Swapping => DOMAIN journal.file = dep[k].restart
  /\ dep[k].pc \in {"put files", "restart"} => dep[k].todo \subseteq DOMAIN journal.file
  /\ dep[k].pc \in {"restart", "check"} => \A u \in DOMAIN journal.file : loaded[u] = file[u]
  /\ dep[k].pc = "restart" => \A u \in DOMAIN journal.file \ dep[k].todo : runs[u] = file[u]
  /\ dep[k].pc = "check" => \A u \in DOMAIN journal.file : runs[u] = file[u]
  /\ dep[k].pc = "trial" => OnDisk(dep[k].prev)

(* The way back: a unit's file is what it was, and one that had none does
   not run. *)
PutBack(k, u) ==
  /\ file[u] = journal.file[u]
  /\ file[u] = None => dep[k].trouble \/ runs[u] = None

UndoingOf(k) ==
  /\ dep[k].pc \in {"undo files", "undo restart"} => dep[k].todo \subseteq DOMAIN journal.file
  /\ dep[k].pc = "undo files" => \A u \in DOMAIN journal.file \ dep[k].todo : PutBack(k, u)
  /\ dep[k].pc = "undo reload" => \A u \in DOMAIN journal.file : PutBack(k, u)
  /\ dep[k].pc = "undo restart" =>
       \/ dep[k].trouble
       \/ /\ \A u \in DOMAIN journal.file : loaded[u] = file[u]
          /\ \A u \in DOMAIN journal.file \ dep[k].todo : runs[u] = file[u]

StepsOf(k) == LockOf(k) /\ DoingOf(k) /\ UndoingOf(k)

IInv == TypeOK /\ OwnerRan /\ HostOutside /\ Kept /\ \A k \in Deploys : StepsOf(k)

-----------------------------------------------------------------------------
(* What a step does to its deploy's record.                                *)
Elsewhere(k) == \A j \in Deploys \ {k} : dep'[j] = dep[j]

SameAsk(k) ==
  /\ dep'[k].want = dep[k].want /\ dep'[k].restart = dep[k].restart
  /\ dep'[k].prev = dep[k].prev /\ dep'[k].trouble = dep[k].trouble

LEMMA GoesTo ==
  ASSUME dep \in [Deploys -> Dep], NEW k \in Deploys, NEW pc \in Pcs, Goes(k, pc)
  PROVE  /\ dep' \in [Deploys -> Dep] /\ Elsewhere(k) /\ SameAsk(k)
         /\ dep'[k].pc = pc /\ dep'[k].todo = dep[k].todo
BY DEF Goes, Dep, Elsewhere, SameAsk

(* e is d, at pc, with todo. *)
SameBut(e, d, pc, todo) ==
  /\ e \in Dep /\ e.pc = pc /\ e.todo = todo
  /\ e.want = d.want /\ e.restart = d.restart /\ e.prev = d.prev /\ e.trouble = d.trouble

LEMMA WithFields ==
  ASSUME NEW d \in Dep, NEW pc \in Pcs, NEW todo \in SUBSET Unit
  PROVE  SameBut(With(d, pc, todo), d, pc, todo)
BY DEF With, Dep, SameBut

LEMMA TroubledFields ==
  ASSUME NEW d \in Dep
  PROVE  /\ InTrouble(d) \in Dep /\ InTrouble(d).trouble
         /\ InTrouble(d).want = d.want /\ InTrouble(d).restart = d.restart
         /\ InTrouble(d).prev = d.prev
BY DEF Dep, InTrouble

LEMMA FailsTo ==
  ASSUME dep \in [Deploys -> Dep], NEW k \in Deploys, NEW pc \in Pcs, Fails(k, pc)
  PROVE  /\ dep' \in [Deploys -> Dep] /\ Elsewhere(k) /\ SameAsk(k)
         /\ dep'[k].pc = pc /\ dep'[k].todo = dep[k].todo
BY DEF Fails, Dep, Elsewhere, SameAsk

LEMMA Fields ==
  ASSUME dep \in [Deploys -> Dep], NEW k \in Deploys
  PROVE  /\ dep[k].restart \in SUBSET Unit /\ dep[k].todo \in SUBSET Unit
         /\ dep[k].prev \in Release
         /\ dep[k].want \in Wants => dep[k].want.sha \in Commit /\ dep[k].want.units \in SUBSET Unit
BY DeployAssumption DEF DeployAssumption, Dep, Want

LEMMA Spent ==
  ASSUME left \in [Kind -> Nat], NEW kind \in Kind, Spend(kind)
  PROVE  left' \in [Kind -> Nat]
BY DEF Spend

LEMMA JournalKnown ==
  ASSUME NEW j \in Journal
  PROVE  /\ DOMAIN j.file \subseteq Unit /\ DOMAIN j.file # {}
         /\ \A u \in DOMAIN j.file : j.file[u] \in Release
         /\ j.page \in Release \union {Same} /\ j.ops \in Release \union {Same}
BY DEF Journal

LEMMA JournalMade ==
  ASSUME NEW units \in SUBSET Unit, units # {}, NEW f \in [units -> Release],
         NEW p \in Release \union {Same}, NEW o \in Release \union {Same}
  PROVE  [file |-> f, page |-> p, ops |-> o] \in Journal
BY DEF Journal

LEMMA HolderStep ==
  ASSUME IInv, NEW k \in Deploys, dep[k].pc \in Working \union {"pid", "aside"}, Elsewhere(k),
         TypeOK', OwnerRan', HostOutside', Kept', StepsOf(k)'
  PROVE  IInv'
<1>1. ASSUME NEW j \in Deploys \ {k} PROVE StepsOf(j)'
  <2>1. flock = k
    BY DEF IInv, StepsOf, LockOf
  <2>2. dep[j].pc \notin Working \union {"pid", "aside"}
    BY <2>1 DEF IInv, StepsOf, LockOf
  <2>3. dep'[j] = dep[j]
    BY DEF Elsewhere
  <2>4. dep[j].pc # "new" => dep[j].want \in Wants
    BY DEF IInv, StepsOf, DoingOf
  <2> QED
    BY <2>2, <2>3, <2>4 DEF StepsOf, LockOf, DoingOf, UndoingOf, Working, Swapping, Undoing
<1> QED
  BY <1>1 DEF IInv

(* A step that changes nothing but what its deploy does next. *)
LEMMA QuietStep ==
  ASSUME IInv, NEW k \in Deploys, dep[k].pc \in Working \union {"pid", "aside"}, Elsewhere(k),
         dep' \in [Deploys -> Dep], left' \in [Kind -> Nat],
         UNCHANGED <<host, flock, pid>>,
         job' \in [Deploys -> {"none", "running", "succeeded", "failed"}], asker' = asker,
         dep'[k].pc \in Swapping \union Undoing => journal # None,
         dep'[k].pc # "new", StepsOf(k)'
  PROVE  IInv'
<1>1. TypeOK'
  <2>1. ASSUME NEW j \in Deploys PROVE dep'[j].pc \in Swapping \union Undoing => journal' # None
    BY DEF IInv, TypeOK, Elsewhere, host
  <2> QED
    BY <2>1 DEF IInv, TypeOK, host
<1>2. OwnerRan'
  BY DEF IInv, TypeOK, OwnerRan, Elsewhere
<1>3. HostOutside' /\ Kept'
  BY DEF IInv, HostOutside, Kept, InJournal, AsFiled, OnDisk, host
<1> QED
  BY <1>1, <1>2, <1>3, HolderStep

LEMMA Looking ==
  ASSUME IInv, NEW k \in Deploys,
         \/ SeeStale(k) \/ FindsSwap(k) \/ RefusedToUndo(k) \/ SelectRefuses(k) \/ PrepareFails(k)
         \/ Gate(k) \/ GateRefuses(k) \/ PutThrows(k) \/ SwapFails(k) \/ PageAnswers(k) \/ Tell(k)
  PROVE  IInv'
<1> USE DEF At, Swapping, Undoing, Working, Pcs
<1>1. CASE SeeStale(k)
  <2>1. Elsewhere(k) /\ SameAsk(k) /\ dep' \in [Deploys -> Dep] /\ dep'[k].pc = "aside"
    BY <1>1, GoesTo DEF SeeStale, IInv, TypeOK
  <2>2. StepsOf(k)'
    BY <1>1, <2>1
       DEF SeeStale, IInv, StepsOf, LockOf, DoingOf, UndoingOf, SameAsk, Stale, Alive,
           Elsewhere, TypeOK, host
  <2> QED
    BY <1>1, <2>1, <2>2, QuietStep DEF SeeStale, IInv, TypeOK
<1>2. CASE FindsSwap(k)
  <2>1. Elsewhere(k) /\ SameAsk(k) /\ dep' \in [Deploys -> Dep] /\ dep'[k].pc = "undo"
    BY <1>2, GoesTo DEF FindsSwap, IInv, TypeOK
  <2>2. StepsOf(k)'
    BY <1>2, <2>1 DEF FindsSwap, IInv, StepsOf, LockOf, DoingOf, UndoingOf, SameAsk, host
  <2> QED
    BY <1>2, <2>1, <2>2, QuietStep DEF FindsSwap, IInv, TypeOK
<1>3. CASE RefusedToUndo(k)
  <2>1. Elsewhere(k) /\ SameAsk(k) /\ dep' \in [Deploys -> Dep] /\ dep'[k].pc = "leave"
    BY <1>3, FailsTo DEF RefusedToUndo, IInv, TypeOK
  <2>2. StepsOf(k)' /\ left' \in [Kind -> Nat]
    BY <1>3, <2>1, Spent
       DEF RefusedToUndo, IInv, TypeOK, StepsOf, LockOf, DoingOf, UndoingOf, SameAsk, host, Kind
  <2> QED
    BY <1>3, <2>1, <2>2, QuietStep DEF RefusedToUndo, IInv, TypeOK
<1>4. CASE SelectRefuses(k)
  <2>1. Elsewhere(k) /\ SameAsk(k) /\ dep' \in [Deploys -> Dep] /\ dep'[k].pc = "tell"
    BY <1>4, FailsTo DEF SelectRefuses, IInv, TypeOK
  <2>2. StepsOf(k)'
    BY <1>4, <2>1 DEF SelectRefuses, IInv, StepsOf, LockOf, DoingOf, UndoingOf, SameAsk, host
  <2> QED
    BY <1>4, <2>1, <2>2, QuietStep DEF SelectRefuses, IInv, TypeOK
<1>5. CASE PrepareFails(k)
  <2>1. Elsewhere(k) /\ SameAsk(k) /\ dep' \in [Deploys -> Dep] /\ dep'[k].pc = "tell"
    BY <1>5, FailsTo DEF PrepareFails, IInv, TypeOK
  <2>2. StepsOf(k)' /\ left' \in [Kind -> Nat]
    BY <1>5, <2>1, Spent
       DEF PrepareFails, IInv, TypeOK, StepsOf, LockOf, DoingOf, UndoingOf, SameAsk, host, Kind
  <2> QED
    BY <1>5, <2>1, <2>2, QuietStep DEF PrepareFails, IInv, TypeOK
<1>6. CASE Gate(k)
  <2>1. /\ Elsewhere(k) /\ SameAsk(k) /\ dep' \in [Deploys -> Dep]
        /\ dep'[k].pc = (IF dep[k].restart # {} THEN "journal" ELSE "page")
    BY <1>6, GoesTo DEF Gate, IInv, TypeOK
  <2>2. StepsOf(k)'
    BY <1>6, <2>1 DEF Gate, IInv, StepsOf, LockOf, DoingOf, UndoingOf, SameAsk, host
  <2> QED
    BY <1>6, <2>1, <2>2, QuietStep DEF Gate, IInv, TypeOK
<1>7. CASE GateRefuses(k)
  <2>1. Elsewhere(k) /\ SameAsk(k) /\ dep' \in [Deploys -> Dep] /\ dep'[k].pc = "tell"
    BY <1>7, FailsTo DEF GateRefuses, IInv, TypeOK
  <2>2. StepsOf(k)' /\ left' \in [Kind -> Nat]
    BY <1>7, <2>1, Spent
       DEF GateRefuses, IInv, TypeOK, StepsOf, LockOf, DoingOf, UndoingOf, SameAsk, host, Kind
  <2> QED
    BY <1>7, <2>1, <2>2, QuietStep DEF GateRefuses, IInv, TypeOK
<1>8. CASE PutThrows(k)
  <2>1. Elsewhere(k) /\ SameAsk(k) /\ dep' \in [Deploys -> Dep] /\ dep'[k].pc = "leave"
    BY <1>8, FailsTo DEF PutThrows, IInv, TypeOK
  <2>2. StepsOf(k)' /\ left' \in [Kind -> Nat]
    BY <1>8, <2>1, Spent
       DEF PutThrows, IInv, TypeOK, StepsOf, LockOf, DoingOf, UndoingOf, SameAsk, host, Kind
  <2> QED
    BY <1>8, <2>1, <2>2, QuietStep DEF PutThrows, IInv, TypeOK
<1>9. CASE SwapFails(k)
  <2>1. Elsewhere(k) /\ SameAsk(k) /\ dep' \in [Deploys -> Dep] /\ dep'[k].pc = "undo"
    BY <1>9, FailsTo DEF SwapFails, IInv, TypeOK
  <2>2. StepsOf(k)' /\ left' \in [Kind -> Nat]
    BY <1>9, <2>1, Spent
       DEF SwapFails, IInv, TypeOK, StepsOf, LockOf, DoingOf, UndoingOf, SameAsk, host, Kind
  <2> QED
    BY <1>9, <2>1, <2>2, QuietStep DEF SwapFails, IInv, TypeOK
<1>10. CASE PageAnswers(k)
  <2>1. Elsewhere(k) /\ SameAsk(k) /\ dep' \in [Deploys -> Dep] /\ dep'[k].pc = AfterSwaps(k)
    BY <1>10, GoesTo DEF PageAnswers, IInv, TypeOK, AfterSwaps
  <2>2. StepsOf(k)'
    BY <1>10, <2>1
       DEF PageAnswers, AfterSwaps, IInv, StepsOf, LockOf, DoingOf, UndoingOf, SameAsk, host
  <2> QED
    BY <1>10, <2>1, <2>2, QuietStep DEF PageAnswers, AfterSwaps, IInv, TypeOK
<1>11. CASE Tell(k)
  <2>1. Elsewhere(k) /\ SameAsk(k) /\ dep' \in [Deploys -> Dep] /\ dep'[k].pc = "leave"
    BY <1>11, GoesTo DEF Tell, IInv, TypeOK, Dep
  <2>2. StepsOf(k)'
    BY <1>11, <2>1 DEF Tell, IInv, StepsOf, LockOf, DoingOf, UndoingOf, SameAsk, host
  <2> QED
    BY <1>11, <2>1, <2>2, QuietStep DEF Tell, IInv, TypeOK, Dep
<1> QED
  BY <1>1, <1>2, <1>3, <1>4, <1>5, <1>6, <1>7, <1>8, <1>9, <1>10, <1>11

HostTyped ==
  /\ file \in [Unit -> Release] /\ loaded \in [Unit -> Release] /\ runs \in [Unit -> Release]
  /\ page \in Release /\ ops \in Release /\ disk \subseteq Commit
  /\ journal \in Journal \union {None}

(* A step of the deploy at work, on the host. *)
LEMMA HostStep ==
  ASSUME IInv, NEW k \in Deploys, dep[k].pc \in Working, Elsewhere(k),
         dep' \in [Deploys -> Dep], left' \in [Kind -> Nat], HostTyped',
         UNCHANGED <<flock, pid, job, asker>>,
         dep'[k].pc \in Swapping \union Undoing => journal' # None,
         dep'[k].pc # "new", HostOutside', Kept', StepsOf(k)'
  PROVE  IInv'
<1>1. ASSUME NEW j \in Deploys \ {k} PROVE dep'[j].pc \notin Swapping \union Undoing
  BY DEF IInv, StepsOf, LockOf, Working, Elsewhere
<1>2. TypeOK'
  BY <1>1 DEF IInv, TypeOK, HostTyped
<1>3. OwnerRan'
  BY DEF IInv, TypeOK, OwnerRan, Elsewhere
<1> QED
  BY <1>2, <1>3, HolderStep

LEMMA Forward ==
  ASSUME IInv, NEW k \in Deploys,
         \/ PutOps(k) \/ PutPage(k) \/ Reload(k) \/ SwapEnds(k) \/ UndoOps(k) \/ Prepare(k)
         \/ InstallOps(k) \/ Prune(k)
  PROVE  IInv'
<1> USE DEF At
<1>1. CASE PutOps(k)
  <2>1. Elsewhere(k) /\ SameAsk(k) /\ dep' \in [Deploys -> Dep] /\ dep'[k].pc = "put page"
    BY <1>1, GoesTo, Fields DEF PutOps, Swapping, Undoing, Working, Pcs, IInv, TypeOK
  <2>2. HostTyped'
    BY <1>1, Fields, JournalKnown
       DEF PutOps, Swapping, Undoing, Working, Pcs, IInv, TypeOK, HostTyped, StepsOf, DoingOf,
           Release
  <2>3. HostOutside'
    BY <1>1, <2>1
       DEF PutOps, Swapping, Undoing, Working, Pcs, IInv, TypeOK, StepsOf, DoingOf, UndoingOf,
           HostOutside, InJournal, AsFiled
  <2>4. Kept'
    BY <1>1, <2>1
       DEF PutOps, Swapping, Undoing, Working, Pcs, IInv, TypeOK, StepsOf, DoingOf, Kept,
           OnDisk, InJournal, HostOutside, AsFiled
  <2>5. StepsOf(k)'
    BY <1>1, <2>1
       DEF PutOps, Swapping, Undoing, Working, Pcs, IInv, TypeOK, StepsOf, LockOf, DoingOf,
           UndoingOf, SameAsk, OnDisk, PutBack
  <2> QED
    BY <1>1, <2>1, <2>2, <2>3, <2>4, <2>5, HostStep
       DEF PutOps, Swapping, Undoing, Working, Pcs, IInv, TypeOK
<1>2. CASE PutPage(k)
  <2>1. /\ Elsewhere(k) /\ SameAsk(k) /\ dep' \in [Deploys -> Dep]
        /\ dep'[k].pc = "put files" /\ dep'[k].todo = dep[k].restart
    <3>1. dep[k].restart \in SUBSET Unit /\ "put files" \in Pcs /\ dep \in [Deploys -> Dep]
      BY <1>2, Fields, JournalKnown DEF PutPage, Swapping, Undoing, Working, Pcs, IInv, TypeOK
    <3> DEFINE d == With(dep[k], "put files", dep[k].restart)
    <3>2. SameBut(d, dep[k], "put files", dep[k].restart)
      BY <3>1, WithFields
    <3>3. dep' = [dep EXCEPT ![k] = d]
      BY <1>2 DEF PutPage, GoesWith
    <3> HIDE DEF d
    <3>4. Elsewhere(k) /\ dep' \in [Deploys -> Dep] /\ dep'[k] = d
      BY <3>1, <3>2, <3>3 DEF Elsewhere, SameBut
    <3> QED
      BY <3>2, <3>4 DEF SameBut, SameAsk
  <2>2. HostTyped'
    BY <1>2, Fields, JournalKnown
       DEF PutPage, Swapping, Undoing, Working, Pcs, IInv, TypeOK, HostTyped, StepsOf, DoingOf,
           Release
  <2>3. HostOutside'
    BY <1>2, <2>1
       DEF PutPage, Swapping, Undoing, Working, Pcs, IInv, TypeOK, StepsOf, DoingOf, UndoingOf,
           HostOutside, InJournal, AsFiled
  <2>4. Kept'
    BY <1>2, <2>1
       DEF PutPage, Swapping, Undoing, Working, Pcs, IInv, TypeOK, StepsOf, DoingOf, Kept,
           OnDisk, InJournal, HostOutside, AsFiled
  <2>5. StepsOf(k)'
    BY <1>2, <2>1
       DEF PutPage, Swapping, Undoing, Working, Pcs, IInv, TypeOK, StepsOf, LockOf, DoingOf,
           UndoingOf, SameAsk, OnDisk, PutBack
  <2> QED
    BY <1>2, <2>1, <2>2, <2>3, <2>4, <2>5, HostStep
       DEF PutPage, Swapping, Undoing, Working, Pcs, IInv, TypeOK
<1>3. CASE Reload(k)
  <2>1. /\ Elsewhere(k) /\ SameAsk(k) /\ dep' \in [Deploys -> Dep] /\ dep'[k].pc = "restart"
        /\ dep'[k].todo = dep[k].restart
    <3>1. dep[k].restart \in SUBSET Unit /\ "restart" \in Pcs /\ dep \in [Deploys -> Dep]
      BY <1>3, Fields, JournalKnown DEF Reload, Swapping, Undoing, Working, Pcs, IInv, TypeOK
    <3> DEFINE d == With(dep[k], "restart", dep[k].restart)
    <3>2. SameBut(d, dep[k], "restart", dep[k].restart)
      BY <3>1, WithFields
    <3>3. dep' = [dep EXCEPT ![k] = d]
      BY <1>3 DEF Reload, GoesWith
    <3> HIDE DEF d
    <3>4. Elsewhere(k) /\ dep' \in [Deploys -> Dep] /\ dep'[k] = d
      BY <3>1, <3>2, <3>3 DEF Elsewhere, SameBut
    <3> QED
      BY <3>2, <3>4 DEF SameBut, SameAsk
  <2>2. HostTyped'
    BY <1>3, Fields, JournalKnown
       DEF Reload, Swapping, Undoing, Working, Pcs, IInv, TypeOK, HostTyped, StepsOf, DoingOf,
           Release
  <2>3. HostOutside'
    BY <1>3, <2>1
       DEF Reload, Swapping, Undoing, Working, Pcs, IInv, TypeOK, StepsOf, DoingOf, UndoingOf,
           HostOutside, InJournal, AsFiled
  <2>4. Kept'
    BY <1>3, <2>1
       DEF Reload, Swapping, Undoing, Working, Pcs, IInv, TypeOK, StepsOf, DoingOf, Kept,
           OnDisk, InJournal, HostOutside, AsFiled
  <2>5. StepsOf(k)'
    BY <1>3, <2>1
       DEF Reload, Swapping, Undoing, Working, Pcs, IInv, TypeOK, StepsOf, LockOf, DoingOf,
           UndoingOf, SameAsk, OnDisk, PutBack
  <2> QED
    BY <1>3, <2>1, <2>2, <2>3, <2>4, <2>5, HostStep
       DEF Reload, Swapping, Undoing, Working, Pcs, IInv, TypeOK
<1>4. CASE SwapEnds(k)
  <2>1. Elsewhere(k) /\ SameAsk(k) /\ dep' \in [Deploys -> Dep] /\ dep'[k].pc = AfterUnits(k)
    BY <1>4, GoesTo, Fields
       DEF SwapEnds, Swapping, Undoing, Working, Pcs, IInv, TypeOK, AfterUnits, AfterSwaps
  <2>2. HostTyped'
    BY <1>4, Fields, JournalKnown
       DEF SwapEnds, Swapping, Undoing, Working, Pcs, IInv, TypeOK, HostTyped, StepsOf, DoingOf,
           Release
  <2>3. HostOutside'
    BY <1>4, <2>1
       DEF SwapEnds, Swapping, Undoing, Working, Pcs, IInv, TypeOK, StepsOf, DoingOf, UndoingOf,
           HostOutside, InJournal, AsFiled
  <2>4. Kept'
    BY <1>4, <2>1
       DEF SwapEnds, Swapping, Undoing, Working, Pcs, IInv, TypeOK, StepsOf, DoingOf, Kept,
           OnDisk, InJournal, HostOutside, AsFiled, AfterUnits, AfterSwaps
  <2>5. StepsOf(k)'
    BY <1>4, <2>1
       DEF SwapEnds, Swapping, Undoing, Working, Pcs, IInv, TypeOK, StepsOf, LockOf, DoingOf,
           UndoingOf, SameAsk, OnDisk, PutBack, AfterUnits, AfterSwaps
  <2> QED
    BY <1>4, <2>1, <2>2, <2>3, <2>4, <2>5, HostStep
       DEF SwapEnds, Swapping, Undoing, Working, Pcs, IInv, TypeOK, AfterUnits, AfterSwaps
<1>5. CASE UndoOps(k)
  <2>1. Elsewhere(k) /\ SameAsk(k) /\ dep' \in [Deploys -> Dep] /\ dep'[k].pc = "undo page"
    BY <1>5, GoesTo, Fields DEF UndoOps, Swapping, Undoing, Working, Pcs, IInv, TypeOK
  <2>2. HostTyped'
    BY <1>5, Fields, JournalKnown
       DEF UndoOps, Swapping, Undoing, Working, Pcs, IInv, TypeOK, HostTyped, StepsOf, DoingOf,
           Release
  <2>3. HostOutside'
    BY <1>5, <2>1
       DEF UndoOps, Swapping, Undoing, Working, Pcs, IInv, TypeOK, StepsOf, DoingOf, UndoingOf,
           HostOutside, InJournal, AsFiled
  <2>4. Kept'
    BY <1>5, <2>1
       DEF UndoOps, Swapping, Undoing, Working, Pcs, IInv, TypeOK, StepsOf, DoingOf, Kept,
           OnDisk, InJournal, HostOutside, AsFiled
  <2>5. StepsOf(k)'
    BY <1>5, <2>1
       DEF UndoOps, Swapping, Undoing, Working, Pcs, IInv, TypeOK, StepsOf, LockOf, DoingOf,
           UndoingOf, SameAsk, OnDisk, PutBack
  <2> QED
    BY <1>5, <2>1, <2>2, <2>3, <2>4, <2>5, HostStep
       DEF UndoOps, Swapping, Undoing, Working, Pcs, IInv, TypeOK
<1>6. CASE Prepare(k)
  <2>1. /\ Elsewhere(k) /\ SameAsk(k) /\ dep' \in [Deploys -> Dep]
        /\ dep'[k].pc = (IF dep[k].restart # {} \/ dep[k].swap THEN "gate" ELSE AfterUnits(k))
    BY <1>6, GoesTo, Fields
       DEF Prepare, Swapping, Undoing, Working, Pcs, IInv, TypeOK, AfterUnits, AfterSwaps
  <2>2. HostTyped'
    BY <1>6, Fields, JournalKnown
       DEF Prepare, Swapping, Undoing, Working, Pcs, IInv, TypeOK, HostTyped, StepsOf, DoingOf,
           Release
  <2>3. HostOutside'
    BY <1>6, <2>1
       DEF Prepare, Swapping, Undoing, Working, Pcs, IInv, TypeOK, StepsOf, DoingOf, UndoingOf,
           HostOutside, InJournal, AsFiled
  <2>4. Kept'
    BY <1>6, <2>1
       DEF Prepare, Swapping, Undoing, Working, Pcs, IInv, TypeOK, StepsOf, DoingOf, Kept,
           OnDisk, InJournal, HostOutside, AsFiled, AfterUnits, AfterSwaps
  <2>5. StepsOf(k)'
    BY <1>6, <2>1
       DEF Prepare, Swapping, Undoing, Working, Pcs, IInv, TypeOK, StepsOf, LockOf, DoingOf,
           UndoingOf, SameAsk, OnDisk, PutBack, AfterUnits, AfterSwaps
  <2> QED
    BY <1>6, <2>1, <2>2, <2>3, <2>4, <2>5, HostStep
       DEF Prepare, Swapping, Undoing, Working, Pcs, IInv, TypeOK, AfterUnits, AfterSwaps
<1>7. CASE InstallOps(k)
  <2>1. Elsewhere(k) /\ SameAsk(k) /\ dep' \in [Deploys -> Dep] /\ dep'[k].pc = "prune"
    BY <1>7, GoesTo, Fields DEF InstallOps, Swapping, Undoing, Working, Pcs, IInv, TypeOK
  <2>2. HostTyped'
    BY <1>7, Fields, JournalKnown
       DEF InstallOps, Swapping, Undoing, Working, Pcs, IInv, TypeOK, HostTyped, StepsOf,
           DoingOf, Release
  <2>3. HostOutside'
    BY <1>7, <2>1
       DEF InstallOps, Swapping, Undoing, Working, Pcs, IInv, TypeOK, StepsOf, DoingOf,
           UndoingOf, HostOutside, InJournal, AsFiled
  <2>4. Kept'
    BY <1>7, <2>1
       DEF InstallOps, Swapping, Undoing, Working, Pcs, IInv, TypeOK, StepsOf, DoingOf, Kept,
           OnDisk, InJournal, HostOutside, AsFiled
  <2>5. StepsOf(k)'
    BY <1>7, <2>1
       DEF InstallOps, Swapping, Undoing, Working, Pcs, IInv, TypeOK, StepsOf, LockOf, DoingOf,
           UndoingOf, SameAsk, OnDisk, PutBack
  <2> QED
    BY <1>7, <2>1, <2>2, <2>3, <2>4, <2>5, HostStep
       DEF InstallOps, Swapping, Undoing, Working, Pcs, IInv, TypeOK
<1>8. CASE Prune(k)
  <2>1. Elsewhere(k) /\ SameAsk(k) /\ dep' \in [Deploys -> Dep] /\ dep'[k].pc = "tell"
    BY <1>8, GoesTo, Fields DEF Prune, Swapping, Undoing, Working, Pcs, IInv, TypeOK, InUse
  <2>2. HostTyped'
    BY <1>8, Fields, JournalKnown
       DEF Prune, Swapping, Undoing, Working, Pcs, IInv, TypeOK, HostTyped, StepsOf, DoingOf,
           Release
  <2>3. HostOutside'
    BY <1>8, <2>1
       DEF Prune, Swapping, Undoing, Working, Pcs, IInv, TypeOK, StepsOf, DoingOf, UndoingOf,
           HostOutside, InJournal, AsFiled
  <2>4. Kept'
    BY <1>8, <2>1
       DEF Prune, Swapping, Undoing, Working, Pcs, IInv, TypeOK, StepsOf, DoingOf, Kept, OnDisk,
           InJournal, HostOutside, AsFiled, InUse
  <2>5. StepsOf(k)'
    BY <1>8, <2>1
       DEF Prune, Swapping, Undoing, Working, Pcs, IInv, TypeOK, StepsOf, LockOf, DoingOf,
           UndoingOf, SameAsk, OnDisk, PutBack, InUse
  <2> QED
    BY <1>8, <2>1, <2>2, <2>3, <2>4, <2>5, HostStep
       DEF Prune, Swapping, Undoing, Working, Pcs, IInv, TypeOK, InUse
<1> QED
  BY <1>1, <1>2, <1>3, <1>4, <1>5, <1>6, <1>7, <1>8

LEMMA Switching ==
  ASSUME IInv, NEW k \in Deploys,
         \/ PutFile(k) \/ Restart(k) \/ RestartFails(k) \/ SwapPage(k) \/ PageFails(k)
  PROVE  IInv'
<1> USE DEF At
<1>1. CASE PutFile(k)
  <2>0. PICK u \in dep[k].todo : /\ file' = [file EXCEPT ![u] = dep[k].want.sha]
        /\ GoesWith(k, IF dep[k].todo = {u} THEN "reload" ELSE "put files", dep[k].todo \ {u})
    BY <1>1 DEF PutFile
  <2>1. /\ dep \in [Deploys -> Dep]
        /\ (IF dep[k].todo = {u} THEN "reload" ELSE "put files") \in Pcs
        /\ dep[k].todo \ {u} \in SUBSET Unit /\ page \in Release
    BY <1>1, <2>0, Fields, JournalKnown DEF PutFile, Swapping, Undoing, Working, Pcs, IInv, TypeOK
  <2>2. /\ Elsewhere(k) /\ dep' \in [Deploys -> Dep]
        /\ dep'[k].want = dep[k].want /\ dep'[k].restart = dep[k].restart
        /\ dep'[k].pc = (IF dep[k].todo = {u} THEN "reload" ELSE "put files")
        /\ dep'[k].todo = dep[k].todo \ {u}
        /\ dep'[k].trouble = dep[k].trouble /\ dep'[k].prev = dep[k].prev
    <3> DEFINE d == With(dep[k], (IF dep[k].todo = {u} THEN "reload" ELSE "put files"),
                         dep[k].todo \ {u})
    <3>1. /\ dep[k] \in Dep
      BY <2>1
    <3>2. SameBut(d, dep[k], (IF dep[k].todo = {u} THEN "reload" ELSE "put files"),
                  dep[k].todo \ {u})
      BY <2>1, <3>1, WithFields
    <3>3. dep' = [dep EXCEPT ![k] = d]
      BY <2>0 DEF GoesWith
    <3> HIDE DEF d
    <3>4. Elsewhere(k) /\ dep' \in [Deploys -> Dep] /\ dep'[k] = d
      BY <2>1, <3>2, <3>3 DEF Elsewhere, SameBut
    <3> QED
      BY <3>1, <3>2, <3>4 DEF SameBut
  <2>3. /\ u \in DOMAIN journal.file /\ journal \in Journal /\ DOMAIN journal.file \subseteq Unit
        /\ \A v \in DOMAIN journal.file : journal.file[v] \in Release
        /\ journal.page \in Release \union {Same}
        /\ file \in [Unit -> Release] /\ loaded \in [Unit -> Release]
        /\ runs \in [Unit -> Release]
    BY <1>1, <2>0, JournalKnown
       DEF PutFile, Swapping, Undoing, Working, Pcs, IInv, TypeOK, StepsOf, DoingOf, UndoingOf
  <2>4. HostTyped' /\ left' \in [Kind -> Nat]
    BY <1>1, <2>0, <2>3, Fields, Spent
       DEF PutFile, IInv, TypeOK, HostTyped, StepsOf, DoingOf, Swapping, Release, Kind
  <2>5. HostOutside'
    BY <1>1, <2>0, <2>3, <2>2
       DEF PutFile, Swapping, Undoing, Working, Pcs, IInv, TypeOK, StepsOf, DoingOf, UndoingOf,
           HostOutside, InJournal, AsFiled
  <2>6. Kept'
    BY <1>1, <2>0, <2>3, <2>2
       DEF PutFile, Swapping, Undoing, Working, Pcs, IInv, TypeOK, StepsOf, DoingOf, UndoingOf,
           Kept, OnDisk, InJournal, HostOutside, AsFiled
  <2>7. LockOf(k)'
    BY <1>1, <2>0, <2>2 DEF PutFile, Swapping, Undoing, Working, Pcs, IInv, StepsOf, LockOf
  <2>8. DoingOf(k)'
    BY <1>1, <2>0, <2>3, <2>2
       DEF PutFile, Swapping, Undoing, Working, Pcs, IInv, StepsOf, DoingOf, Kept, OnDisk
  <2>9. UndoingOf(k)'
    BY <1>1, <2>0, <2>3, <2>2
       DEF PutFile, Swapping, Undoing, Working, Pcs, IInv, StepsOf, UndoingOf, PutBack
  <2> QED
    BY <1>1, <2>0, <2>3, <2>2, <2>4, <2>5, <2>6, <2>7, <2>8, <2>9, HostStep
       DEF PutFile, Swapping, Undoing, Working, Pcs, IInv, TypeOK, StepsOf
<1>2. CASE Restart(k)
  <2>0. PICK u \in dep[k].todo : /\ runs' = [runs EXCEPT ![u] = loaded[u]]
        /\ GoesWith(k, IF dep[k].todo = {u} THEN "check" ELSE "restart", dep[k].todo \ {u})
    BY <1>2 DEF Restart
  <2>1. /\ dep \in [Deploys -> Dep] /\ (IF dep[k].todo = {u} THEN "check" ELSE "restart") \in Pcs
        /\ dep[k].todo \ {u} \in SUBSET Unit /\ page \in Release
    BY <1>2, <2>0, Fields, JournalKnown DEF Restart, Swapping, Undoing, Working, Pcs, IInv, TypeOK
  <2>2. /\ Elsewhere(k) /\ dep' \in [Deploys -> Dep]
        /\ dep'[k].want = dep[k].want /\ dep'[k].restart = dep[k].restart
        /\ dep'[k].pc = (IF dep[k].todo = {u} THEN "check" ELSE "restart")
        /\ dep'[k].todo = dep[k].todo \ {u}
        /\ dep'[k].trouble = dep[k].trouble /\ dep'[k].prev = dep[k].prev
    <3> DEFINE d == With(dep[k], (IF dep[k].todo = {u} THEN "check" ELSE "restart"),
                         dep[k].todo \ {u})
    <3>1. /\ dep[k] \in Dep
      BY <2>1
    <3>2. SameBut(d, dep[k], (IF dep[k].todo = {u} THEN "check" ELSE "restart"),
                  dep[k].todo \ {u})
      BY <2>1, <3>1, WithFields
    <3>3. dep' = [dep EXCEPT ![k] = d]
      BY <2>0 DEF GoesWith
    <3> HIDE DEF d
    <3>4. Elsewhere(k) /\ dep' \in [Deploys -> Dep] /\ dep'[k] = d
      BY <2>1, <3>2, <3>3 DEF Elsewhere, SameBut
    <3> QED
      BY <3>1, <3>2, <3>4 DEF SameBut
  <2>3. /\ u \in DOMAIN journal.file /\ journal \in Journal /\ DOMAIN journal.file \subseteq Unit
        /\ \A v \in DOMAIN journal.file : journal.file[v] \in Release
        /\ journal.page \in Release \union {Same}
        /\ file \in [Unit -> Release] /\ loaded \in [Unit -> Release]
        /\ runs \in [Unit -> Release]
    BY <1>2, <2>0, JournalKnown
       DEF Restart, Swapping, Undoing, Working, Pcs, IInv, TypeOK, StepsOf, DoingOf, UndoingOf
  <2>4. HostTyped' /\ left' \in [Kind -> Nat]
    BY <1>2, <2>0, <2>3, Fields, Spent
       DEF Restart, IInv, TypeOK, HostTyped, StepsOf, DoingOf, Swapping, Release, Kind
  <2>5. HostOutside'
    BY <1>2, <2>0, <2>3, <2>2
       DEF Restart, Swapping, Undoing, Working, Pcs, IInv, TypeOK, StepsOf, DoingOf, UndoingOf,
           HostOutside, InJournal, AsFiled
  <2>6. Kept'
    BY <1>2, <2>0, <2>3, <2>2
       DEF Restart, Swapping, Undoing, Working, Pcs, IInv, TypeOK, StepsOf, DoingOf, UndoingOf,
           Kept, OnDisk, InJournal, HostOutside, AsFiled
  <2>7. LockOf(k)'
    BY <1>2, <2>0, <2>2 DEF Restart, Swapping, Undoing, Working, Pcs, IInv, StepsOf, LockOf
  <2>8. DoingOf(k)'
    <3>1. /\ dep[k].want \in Wants /\ dep[k].want.sha \in disk
          /\ DOMAIN journal.file = dep[k].restart
          /\ \A v \in DOMAIN journal.file : loaded[v] = file[v]
          /\ \A v \in DOMAIN journal.file \ dep[k].todo : runs[v] = file[v]
      BY <1>2 DEF Restart, Swapping, IInv, StepsOf, DoingOf
    <3>2. \A v \in Unit : runs'[v] = IF v = u THEN loaded[v] ELSE runs[v]
      BY <2>0, <2>3
    <3>3. \A v \in DOMAIN journal.file \ dep'[k].todo : runs'[v] = file[v]
      BY <3>1, <3>2, <2>2, <2>3
    <3>4. UNCHANGED <<file, loaded, journal, disk>>
      BY <1>2 DEF Restart
    <3>5. CASE dep[k].todo = {u}
      <4>1. dep'[k].pc = "check" /\ \A v \in DOMAIN journal.file : runs'[v] = file[v]
        BY <3>5, <3>3, <2>2
      <4> QED
        BY <3>1, <3>4, <4>1, <2>2 DEF DoingOf, Swapping
    <3>6. CASE dep[k].todo # {u}
      <4>1. dep'[k].pc = "restart" /\ dep'[k].todo \subseteq DOMAIN journal.file
        BY <3>6, <2>2, <1>2 DEF Restart, IInv, StepsOf, DoingOf
      <4> QED
        BY <3>1, <3>3, <3>4, <4>1, <2>2 DEF DoingOf, Swapping
    <3> QED
      BY <3>5, <3>6
  <2>9. UndoingOf(k)'
    BY <1>2, <2>0, <2>3, <2>2
       DEF Restart, Swapping, Undoing, Working, Pcs, IInv, StepsOf, UndoingOf, PutBack
  <2> QED
    BY <1>2, <2>0, <2>3, <2>2, <2>4, <2>5, <2>6, <2>7, <2>8, <2>9, HostStep
       DEF Restart, Swapping, Undoing, Working, Pcs, IInv, TypeOK, StepsOf
<1>3. CASE RestartFails(k)
  <2>0. PICK u \in dep[k].todo : runs' = [runs EXCEPT ![u] = None]
    BY <1>3 DEF RestartFails
  <2>1. /\ dep \in [Deploys -> Dep] /\ "undo" \in Pcs
        /\ dep[k].todo \in SUBSET Unit /\ page \in Release
    BY <1>3, <2>0, Fields, JournalKnown
       DEF RestartFails, Swapping, Undoing, Working, Pcs, IInv, TypeOK
  <2>2. /\ Elsewhere(k) /\ dep' \in [Deploys -> Dep]
        /\ dep'[k].want = dep[k].want /\ dep'[k].restart = dep[k].restart
        /\ dep'[k].pc = "undo" /\ dep'[k].todo = dep[k].todo
        /\ dep'[k].trouble = dep[k].trouble /\ dep'[k].prev = dep[k].prev
    BY <2>1, <1>3, <2>0, FailsTo DEF RestartFails, SameAsk
  <2>3. /\ u \in DOMAIN journal.file /\ journal \in Journal /\ DOMAIN journal.file \subseteq Unit
        /\ \A v \in DOMAIN journal.file : journal.file[v] \in Release
        /\ journal.page \in Release \union {Same}
        /\ file \in [Unit -> Release] /\ loaded \in [Unit -> Release]
        /\ runs \in [Unit -> Release]
    BY <1>3, <2>0, JournalKnown
       DEF RestartFails, Swapping, Undoing, Working, Pcs, IInv, TypeOK, StepsOf, DoingOf,
           UndoingOf
  <2>4. HostTyped' /\ left' \in [Kind -> Nat]
    BY <1>3, <2>0, <2>3, Fields, Spent
       DEF RestartFails, IInv, TypeOK, HostTyped, StepsOf, DoingOf, Swapping, Release, Kind
  <2>5. HostOutside'
    BY <1>3, <2>0, <2>3, <2>2
       DEF RestartFails, Swapping, Undoing, Working, Pcs, IInv, TypeOK, StepsOf, DoingOf,
           UndoingOf, HostOutside, InJournal, AsFiled
  <2>6. Kept'
    BY <1>3, <2>0, <2>3, <2>2
       DEF RestartFails, Swapping, Undoing, Working, Pcs, IInv, TypeOK, StepsOf, DoingOf,
           UndoingOf, Kept, OnDisk, InJournal, HostOutside, AsFiled
  <2>7. LockOf(k)'
    BY <1>3, <2>0, <2>2 DEF RestartFails, Swapping, Undoing, Working, Pcs, IInv, StepsOf, LockOf
  <2>8. DoingOf(k)'
    BY <1>3, <2>0, <2>3, <2>2
       DEF RestartFails, Swapping, Undoing, Working, Pcs, IInv, StepsOf, DoingOf, Kept, OnDisk
  <2>9. UndoingOf(k)'
    BY <1>3, <2>0, <2>3, <2>2
       DEF RestartFails, Swapping, Undoing, Working, Pcs, IInv, StepsOf, UndoingOf, PutBack
  <2> QED
    BY <1>3, <2>0, <2>3, <2>2, <2>4, <2>5, <2>6, <2>7, <2>8, <2>9, HostStep
       DEF RestartFails, Swapping, Undoing, Working, Pcs, IInv, TypeOK, StepsOf
<1>4. CASE SwapPage(k)
  <2>1. /\ dep \in [Deploys -> Dep] /\ "trial" \in Pcs
        /\ dep[k].todo \in SUBSET Unit /\ page \in Release
    BY <1>4, Fields, JournalKnown DEF SwapPage, Swapping, Undoing, Working, Pcs, IInv, TypeOK
  <2>2. /\ Elsewhere(k) /\ dep' \in [Deploys -> Dep]
        /\ dep'[k].want = dep[k].want /\ dep'[k].restart = dep[k].restart
        /\ dep'[k].pc = "trial" /\ dep'[k].todo = dep[k].todo
        /\ dep'[k].trouble = dep[k].trouble /\ dep'[k].prev = page
    BY <2>1, <1>4 DEF SwapPage, Dep, Elsewhere
  <2>4. HostTyped' /\ left' \in [Kind -> Nat]
    BY <1>4, Fields, Spent
       DEF SwapPage, IInv, TypeOK, HostTyped, StepsOf, DoingOf, Swapping, Release, Kind
  <2>5. HostOutside'
    BY <1>4, <2>2
       DEF SwapPage, Swapping, Undoing, Working, Pcs, IInv, TypeOK, StepsOf, DoingOf, UndoingOf,
           HostOutside, InJournal, AsFiled
  <2>6. Kept'
    BY <1>4, <2>2
       DEF SwapPage, Swapping, Undoing, Working, Pcs, IInv, TypeOK, StepsOf, DoingOf, UndoingOf,
           Kept, OnDisk, InJournal, HostOutside, AsFiled
  <2>7. LockOf(k)'
    BY <1>4, <2>2 DEF SwapPage, Swapping, Undoing, Working, Pcs, IInv, StepsOf, LockOf
  <2>8. DoingOf(k)'
    <3>1. /\ dep[k].want \in Wants /\ dep[k].want.sha \in disk /\ journal = None
      BY <1>4 DEF SwapPage, IInv, StepsOf, DoingOf
    <3>2. dep'[k].prev = None \/ dep'[k].prev \in disk'
      BY <1>4, <2>2 DEF SwapPage, IInv, Kept, OnDisk
    <3>3. UNCHANGED <<journal, disk>>
      BY <1>4 DEF SwapPage
    <3> QED
      BY <3>1, <3>2, <3>3, <2>2 DEF DoingOf, Swapping, OnDisk
  <2>9. UndoingOf(k)'
    BY <1>4, <2>2 DEF SwapPage, Swapping, Undoing, Working, Pcs, IInv, StepsOf, UndoingOf, PutBack
  <2> QED
    BY <1>4, <2>2, <2>4, <2>5, <2>6, <2>7, <2>8, <2>9, HostStep
       DEF SwapPage, Swapping, Undoing, Working, Pcs, IInv, TypeOK, StepsOf
<1>5. CASE PageFails(k)
  <2>1. /\ dep \in [Deploys -> Dep] /\ "tell" \in Pcs
        /\ dep[k].todo \in SUBSET Unit /\ page \in Release
    BY <1>5, Fields, JournalKnown DEF PageFails, Swapping, Undoing, Working, Pcs, IInv, TypeOK
  <2>2. /\ Elsewhere(k) /\ dep' \in [Deploys -> Dep]
        /\ dep'[k].want = dep[k].want /\ dep'[k].restart = dep[k].restart
        /\ dep'[k].pc = "tell" /\ dep'[k].todo = dep[k].todo
        /\ dep'[k].trouble = dep[k].trouble /\ dep'[k].prev = dep[k].prev
    BY <2>1, <1>5, FailsTo DEF PageFails, SameAsk
  <2>4. HostTyped' /\ left' \in [Kind -> Nat]
    BY <1>5, Fields, Spent
       DEF PageFails, IInv, TypeOK, HostTyped, StepsOf, DoingOf, Swapping, Release, Kind
  <2>5. HostOutside'
    BY <1>5, <2>2
       DEF PageFails, Swapping, Undoing, Working, Pcs, IInv, TypeOK, StepsOf, DoingOf,
           UndoingOf, HostOutside, InJournal, AsFiled
  <2>6. Kept'
    BY <1>5, <2>2
       DEF PageFails, Swapping, Undoing, Working, Pcs, IInv, TypeOK, StepsOf, DoingOf,
           UndoingOf, Kept, OnDisk, InJournal, HostOutside, AsFiled
  <2>7. LockOf(k)'
    BY <1>5, <2>2 DEF PageFails, Swapping, Undoing, Working, Pcs, IInv, StepsOf, LockOf
  <2>8. DoingOf(k)'
    BY <1>5, <2>2
       DEF PageFails, Swapping, Undoing, Working, Pcs, IInv, StepsOf, DoingOf, Kept, OnDisk
  <2>9. UndoingOf(k)'
    BY <1>5, <2>2
       DEF PageFails, Swapping, Undoing, Working, Pcs, IInv, StepsOf, UndoingOf, PutBack
  <2> QED
    BY <1>5, <2>2, <2>4, <2>5, <2>6, <2>7, <2>8, <2>9, HostStep
       DEF PageFails, Swapping, Undoing, Working, Pcs, IInv, TypeOK, StepsOf
<1> QED
  BY <1>1, <1>2, <1>3, <1>4, <1>5

LEMMA Back ==
  ASSUME IInv, NEW k \in Deploys,
         \/ UndoPage(k) \/ UndoFile(k) \/ StopFails(k) \/ UndoReload(k) \/ UndoReloadFails(k)
         \/ UndoRestart(k) \/ UndoRestartFails(k) \/ UndoEnds(k)
  PROVE  IInv'
<1> USE DEF At
<1>1. CASE UndoPage(k)
  <2>1. /\ dep \in [Deploys -> Dep] /\ "undo files" \in Pcs
        /\ DOMAIN journal.file \in SUBSET Unit /\ page \in Release
    BY <1>1, Fields, JournalKnown DEF UndoPage, Swapping, Undoing, Working, Pcs, IInv, TypeOK
  <2>2. /\ Elsewhere(k) /\ dep' \in [Deploys -> Dep]
        /\ dep'[k].want = dep[k].want /\ dep'[k].restart = dep[k].restart
        /\ dep'[k].pc = "undo files" /\ dep'[k].todo = DOMAIN journal.file
        /\ dep'[k].trouble = dep[k].trouble /\ dep'[k].prev = dep[k].prev
    <3> DEFINE d == With(dep[k], "undo files", DOMAIN journal.file)
    <3>1. /\ dep[k] \in Dep
      BY <2>1
    <3>2. SameBut(d, dep[k], "undo files", DOMAIN journal.file)
      BY <2>1, <3>1, WithFields
    <3>3. dep' = [dep EXCEPT ![k] = d]
      BY <1>1 DEF UndoPage, GoesWith
    <3> HIDE DEF d
    <3>4. Elsewhere(k) /\ dep' \in [Deploys -> Dep] /\ dep'[k] = d
      BY <2>1, <3>2, <3>3 DEF Elsewhere, SameBut
    <3> QED
      BY <3>1, <3>2, <3>4 DEF SameBut
  <2>3. /\ journal \in Journal /\ DOMAIN journal.file \subseteq Unit
        /\ \A v \in DOMAIN journal.file : journal.file[v] \in Release
        /\ journal.page \in Release \union {Same}
        /\ file \in [Unit -> Release] /\ loaded \in [Unit -> Release]
        /\ runs \in [Unit -> Release]
    BY <1>1, JournalKnown
       DEF UndoPage, Swapping, Undoing, Working, Pcs, IInv, TypeOK, StepsOf, DoingOf, UndoingOf
  <2>4. HostTyped' /\ left' \in [Kind -> Nat]
    BY <1>1, <2>3, Fields, Spent
       DEF UndoPage, IInv, TypeOK, HostTyped, StepsOf, DoingOf, Swapping, Release, Kind
  <2>5. HostOutside'
    BY <1>1, <2>3, <2>2
       DEF UndoPage, Swapping, Undoing, Working, Pcs, IInv, TypeOK, StepsOf, DoingOf, UndoingOf,
           HostOutside, InJournal, AsFiled
  <2>6. Kept'
    BY <1>1, <2>3, <2>2
       DEF UndoPage, Swapping, Undoing, Working, Pcs, IInv, TypeOK, StepsOf, DoingOf, UndoingOf,
           Kept, OnDisk, InJournal, HostOutside, AsFiled
  <2>7. LockOf(k)'
    BY <1>1, <2>2 DEF UndoPage, Swapping, Undoing, Working, Pcs, IInv, StepsOf, LockOf
  <2>8. DoingOf(k)'
    BY <1>1, <2>3, <2>2
       DEF UndoPage, Swapping, Undoing, Working, Pcs, IInv, StepsOf, DoingOf, Kept, OnDisk
  <2>9. UndoingOf(k)'
    BY <1>1, <2>3, <2>2
       DEF UndoPage, Swapping, Undoing, Working, Pcs, IInv, StepsOf, UndoingOf, PutBack
  <2> QED
    BY <1>1, <2>3, <2>2, <2>4, <2>5, <2>6, <2>7, <2>8, <2>9, HostStep
       DEF UndoPage, Swapping, Undoing, Working, Pcs, IInv, TypeOK, StepsOf
<1>2. CASE UndoFile(k)
  <2>0. PICK u \in dep[k].todo : /\ file' = [file EXCEPT ![u] = journal.file[u]]
        /\ runs' = [runs EXCEPT ![u] = IF journal.file[u] = None THEN None ELSE @]
        /\ GoesWith(k, IF dep[k].todo = {u} THEN "undo reload" ELSE "undo files", dep[k].todo \ {u})
    BY <1>2 DEF UndoFile
  <2>1. /\ dep \in [Deploys -> Dep]
        /\ (IF dep[k].todo = {u} THEN "undo reload" ELSE "undo files") \in Pcs
        /\ dep[k].todo \ {u} \in SUBSET Unit /\ page \in Release
    BY <1>2, <2>0, Fields, JournalKnown
       DEF UndoFile, Swapping, Undoing, Working, Pcs, IInv, TypeOK
  <2>2. /\ Elsewhere(k) /\ dep' \in [Deploys -> Dep]
        /\ dep'[k].want = dep[k].want /\ dep'[k].restart = dep[k].restart
        /\ dep'[k].pc = (IF dep[k].todo = {u} THEN "undo reload" ELSE "undo files")
        /\ dep'[k].todo = dep[k].todo \ {u}
        /\ dep'[k].trouble = dep[k].trouble /\ dep'[k].prev = dep[k].prev
    <3> DEFINE d == With(dep[k], (IF dep[k].todo = {u} THEN "undo reload" ELSE "undo files"),
                         dep[k].todo \ {u})
    <3>1. /\ dep[k] \in Dep
      BY <2>1
    <3>2. SameBut(d, dep[k], (IF dep[k].todo = {u} THEN "undo reload" ELSE "undo files"),
                  dep[k].todo \ {u})
      BY <2>1, <3>1, WithFields
    <3>3. dep' = [dep EXCEPT ![k] = d]
      BY <2>0 DEF GoesWith
    <3> HIDE DEF d
    <3>4. Elsewhere(k) /\ dep' \in [Deploys -> Dep] /\ dep'[k] = d
      BY <2>1, <3>2, <3>3 DEF Elsewhere, SameBut
    <3> QED
      BY <3>1, <3>2, <3>4 DEF SameBut
  <2>3. /\ u \in DOMAIN journal.file /\ journal \in Journal /\ DOMAIN journal.file \subseteq Unit
        /\ \A v \in DOMAIN journal.file : journal.file[v] \in Release
        /\ journal.page \in Release \union {Same}
        /\ file \in [Unit -> Release] /\ loaded \in [Unit -> Release]
        /\ runs \in [Unit -> Release]
    BY <1>2, <2>0, JournalKnown
       DEF UndoFile, Swapping, Undoing, Working, Pcs, IInv, TypeOK, StepsOf, DoingOf, UndoingOf
  <2>4. HostTyped' /\ left' \in [Kind -> Nat]
    BY <1>2, <2>0, <2>3, Fields, Spent
       DEF UndoFile, IInv, TypeOK, HostTyped, StepsOf, DoingOf, Swapping, Release, Kind
  <2>5. HostOutside'
    BY <1>2, <2>0, <2>3, <2>2
       DEF UndoFile, Swapping, Undoing, Working, Pcs, IInv, TypeOK, StepsOf, DoingOf, UndoingOf,
           HostOutside, InJournal, AsFiled
  <2>6. Kept'
    BY <1>2, <2>0, <2>3, <2>2
       DEF UndoFile, Swapping, Undoing, Working, Pcs, IInv, TypeOK, StepsOf, DoingOf, UndoingOf,
           Kept, OnDisk, InJournal, HostOutside, AsFiled
  <2>7. LockOf(k)'
    BY <1>2, <2>0, <2>2 DEF UndoFile, Swapping, Undoing, Working, Pcs, IInv, StepsOf, LockOf
  <2>8. DoingOf(k)'
    BY <1>2, <2>0, <2>3, <2>2
       DEF UndoFile, Swapping, Undoing, Working, Pcs, IInv, StepsOf, DoingOf, Kept, OnDisk
  <2>9. UndoingOf(k)'
    <3>1. /\ dep[k].todo \subseteq DOMAIN journal.file
          /\ \A v \in DOMAIN journal.file \ dep[k].todo : PutBack(k, v)
      BY <1>2 DEF UndoFile, IInv, StepsOf, UndoingOf
    <3>2. \A v \in Unit :
            /\ file'[v] = IF v = u THEN journal.file[v] ELSE file[v]
            /\ runs'[v] = IF v = u /\ journal.file[u] = None THEN None ELSE runs[v]
      BY <2>0, <2>3
    <3>3. UNCHANGED journal
      BY <1>2 DEF UndoFile
    <3>4. PutBack(k, u)'
      BY <3>2, <3>3, <2>3 DEF PutBack
    <3>5. ASSUME NEW v \in DOMAIN journal.file, v # u, v \notin dep[k].todo PROVE PutBack(k, v)'
      BY <3>1, <3>2, <3>3, <3>5, <2>2, <2>3 DEF PutBack
    <3>6. \A v \in DOMAIN journal.file \ dep'[k].todo : PutBack(k, v)'
      BY <3>4, <3>5, <2>2
    <3>7. dep[k].todo = {u} => dep'[k].todo = {}
      BY <2>2
    <3> QED
      BY <3>1, <3>3, <3>6, <3>7, <2>2 DEF UndoingOf
  <2> QED
    BY <1>2, <2>0, <2>3, <2>2, <2>4, <2>5, <2>6, <2>7, <2>8, <2>9, HostStep
       DEF UndoFile, Swapping, Undoing, Working, Pcs, IInv, TypeOK, StepsOf
<1>3. CASE StopFails(k)
  <2>0. PICK u \in dep[k].todo : /\ journal.file[u] = None
        /\ file' = [file EXCEPT ![u] = None]
        /\ Troubled(k, IF dep[k].todo = {u} THEN "undo reload" ELSE "undo files", dep[k].todo \ {u})
    BY <1>3 DEF StopFails
  <2>1. /\ dep \in [Deploys -> Dep]
        /\ (IF dep[k].todo = {u} THEN "undo reload" ELSE "undo files") \in Pcs
        /\ dep[k].todo \ {u} \in SUBSET Unit /\ page \in Release
    BY <1>3, <2>0, Fields, JournalKnown
       DEF StopFails, Swapping, Undoing, Working, Pcs, IInv, TypeOK
  <2>2. /\ Elsewhere(k) /\ dep' \in [Deploys -> Dep]
        /\ dep'[k].want = dep[k].want /\ dep'[k].restart = dep[k].restart
        /\ dep'[k].pc = (IF dep[k].todo = {u} THEN "undo reload" ELSE "undo files")
        /\ dep'[k].todo = dep[k].todo \ {u}
        /\ dep'[k].trouble /\ dep'[k].prev = dep[k].prev
    <3> DEFINE d == With(InTrouble(dep[k]), (IF dep[k].todo = {u} THEN "undo reload" ELSE "undo files"),
                         dep[k].todo \ {u})
    <3>0. dep[k] \in Dep
      BY <2>1
    <3>1. /\ InTrouble(dep[k]) \in Dep
          /\ InTrouble(dep[k]).trouble /\ InTrouble(dep[k]).want = dep[k].want
          /\ InTrouble(dep[k]).restart = dep[k].restart /\ InTrouble(dep[k]).prev = dep[k].prev
      BY <2>1, <3>0, TroubledFields
    <3>2. SameBut(d, InTrouble(dep[k]), (IF dep[k].todo = {u} THEN "undo reload" ELSE "undo files"),
                  dep[k].todo \ {u})
      BY <2>1, <3>1, WithFields
    <3>3. dep' = [dep EXCEPT ![k] = d]
      BY <2>0 DEF Troubled
    <3> HIDE DEF d
    <3>4. Elsewhere(k) /\ dep' \in [Deploys -> Dep] /\ dep'[k] = d
      BY <2>1, <3>2, <3>3 DEF Elsewhere, SameBut
    <3> QED
      BY <3>1, <3>2, <3>4 DEF SameBut
  <2>3. /\ u \in DOMAIN journal.file /\ journal \in Journal /\ DOMAIN journal.file \subseteq Unit
        /\ \A v \in DOMAIN journal.file : journal.file[v] \in Release
        /\ journal.page \in Release \union {Same}
        /\ file \in [Unit -> Release] /\ loaded \in [Unit -> Release]
        /\ runs \in [Unit -> Release]
    BY <1>3, <2>0, JournalKnown
       DEF StopFails, Swapping, Undoing, Working, Pcs, IInv, TypeOK, StepsOf, DoingOf, UndoingOf
  <2>4. HostTyped' /\ left' \in [Kind -> Nat]
    BY <1>3, <2>0, <2>3, Fields, Spent
       DEF StopFails, IInv, TypeOK, HostTyped, StepsOf, DoingOf, Swapping, Release, Kind
  <2>5. HostOutside'
    BY <1>3, <2>0, <2>3, <2>2
       DEF StopFails, Swapping, Undoing, Working, Pcs, IInv, TypeOK, StepsOf, DoingOf,
           UndoingOf, HostOutside, InJournal, AsFiled
  <2>6. Kept'
    BY <1>3, <2>0, <2>3, <2>2
       DEF StopFails, Swapping, Undoing, Working, Pcs, IInv, TypeOK, StepsOf, DoingOf,
           UndoingOf, Kept, OnDisk, InJournal, HostOutside, AsFiled
  <2>7. LockOf(k)'
    BY <1>3, <2>0, <2>2 DEF StopFails, Swapping, Undoing, Working, Pcs, IInv, StepsOf, LockOf
  <2>8. DoingOf(k)'
    BY <1>3, <2>0, <2>3, <2>2
       DEF StopFails, Swapping, Undoing, Working, Pcs, IInv, StepsOf, DoingOf, Kept, OnDisk
  <2>9. UndoingOf(k)'
    BY <1>3, <2>0, <2>3, <2>2
       DEF StopFails, Swapping, Undoing, Working, Pcs, IInv, StepsOf, UndoingOf, PutBack
  <2> QED
    BY <1>3, <2>0, <2>3, <2>2, <2>4, <2>5, <2>6, <2>7, <2>8, <2>9, HostStep
       DEF StopFails, Swapping, Undoing, Working, Pcs, IInv, TypeOK, StepsOf
<1>4. CASE UndoReload(k)
  <2>1. /\ dep \in [Deploys -> Dep] /\ "undo restart" \in Pcs
        /\ {u \in DOMAIN journal.file : journal.file[u] # None} \in SUBSET Unit
        /\ page \in Release
    BY <1>4, Fields, JournalKnown DEF UndoReload, Swapping, Undoing, Working, Pcs, IInv, TypeOK
  <2>2. /\ Elsewhere(k) /\ dep' \in [Deploys -> Dep]
        /\ dep'[k].want = dep[k].want /\ dep'[k].restart = dep[k].restart
        /\ dep'[k].pc = "undo restart"
        /\ dep'[k].todo = {u \in DOMAIN journal.file : journal.file[u] # None}
        /\ dep'[k].trouble = dep[k].trouble /\ dep'[k].prev = dep[k].prev
    <3> DEFINE d == With(dep[k],
                         "undo restart", {u \in DOMAIN journal.file : journal.file[u] # None})
    <3>1. /\ dep[k] \in Dep
      BY <2>1
    <3>2. SameBut(d, dep[k], "undo restart", {u \in DOMAIN journal.file : journal.file[u] # None})
      BY <2>1, <3>1, WithFields
    <3>3. dep' = [dep EXCEPT ![k] = d]
      BY <1>4 DEF UndoReload, GoesWith
    <3> HIDE DEF d
    <3>4. Elsewhere(k) /\ dep' \in [Deploys -> Dep] /\ dep'[k] = d
      BY <2>1, <3>2, <3>3 DEF Elsewhere, SameBut
    <3> QED
      BY <3>1, <3>2, <3>4 DEF SameBut
  <2>3. /\ journal \in Journal /\ DOMAIN journal.file \subseteq Unit
        /\ \A v \in DOMAIN journal.file : journal.file[v] \in Release
        /\ journal.page \in Release \union {Same}
        /\ file \in [Unit -> Release] /\ loaded \in [Unit -> Release]
        /\ runs \in [Unit -> Release]
    BY <1>4, JournalKnown
       DEF UndoReload, Swapping, Undoing, Working, Pcs, IInv, TypeOK, StepsOf, DoingOf,
           UndoingOf
  <2>4. HostTyped' /\ left' \in [Kind -> Nat]
    BY <1>4, <2>3, Fields, Spent
       DEF UndoReload, IInv, TypeOK, HostTyped, StepsOf, DoingOf, Swapping, Release, Kind
  <2>5. HostOutside'
    BY <1>4, <2>3, <2>2
       DEF UndoReload, Swapping, Undoing, Working, Pcs, IInv, TypeOK, StepsOf, DoingOf,
           UndoingOf, HostOutside, InJournal, AsFiled
  <2>6. Kept'
    BY <1>4, <2>3, <2>2
       DEF UndoReload, Swapping, Undoing, Working, Pcs, IInv, TypeOK, StepsOf, DoingOf,
           UndoingOf, Kept, OnDisk, InJournal, HostOutside, AsFiled
  <2>7. LockOf(k)'
    BY <1>4, <2>2 DEF UndoReload, Swapping, Undoing, Working, Pcs, IInv, StepsOf, LockOf
  <2>8. DoingOf(k)'
    BY <1>4, <2>3, <2>2
       DEF UndoReload, Swapping, Undoing, Working, Pcs, IInv, StepsOf, DoingOf, Kept, OnDisk
  <2>9. UndoingOf(k)'
    <3>1. \A v \in DOMAIN journal.file : PutBack(k, v)
      BY <1>4 DEF UndoReload, IInv, StepsOf, UndoingOf
    <3>2. UNCHANGED <<file, runs, journal>> /\ loaded' = file
      BY <1>4 DEF UndoReload
    <3>3. ~dep[k].trouble => \A v \in DOMAIN journal.file \ dep'[k].todo : runs[v] = file[v]
      BY <3>1, <2>2 DEF PutBack
    <3> QED
      BY <3>2, <3>3, <2>2 DEF UndoingOf
  <2> QED
    BY <1>4, <2>3, <2>2, <2>4, <2>5, <2>6, <2>7, <2>8, <2>9, HostStep
       DEF UndoReload, Swapping, Undoing, Working, Pcs, IInv, TypeOK, StepsOf
<1>5. CASE UndoReloadFails(k)
  <2>1. /\ dep \in [Deploys -> Dep] /\ "undo restart" \in Pcs
        /\ {u \in DOMAIN journal.file : journal.file[u] # None} \in SUBSET Unit
        /\ page \in Release
    BY <1>5, Fields, JournalKnown
       DEF UndoReloadFails, Swapping, Undoing, Working, Pcs, IInv, TypeOK
  <2>2. /\ Elsewhere(k) /\ dep' \in [Deploys -> Dep]
        /\ dep'[k].want = dep[k].want /\ dep'[k].restart = dep[k].restart
        /\ dep'[k].pc = "undo restart"
        /\ dep'[k].todo = {u \in DOMAIN journal.file : journal.file[u] # None}
        /\ dep'[k].trouble /\ dep'[k].prev = dep[k].prev
    <3> DEFINE d == With(InTrouble(dep[k]),
                         "undo restart", {u \in DOMAIN journal.file : journal.file[u] # None})
    <3>0. dep[k] \in Dep
      BY <2>1
    <3>1. /\ InTrouble(dep[k]) \in Dep
          /\ InTrouble(dep[k]).trouble /\ InTrouble(dep[k]).want = dep[k].want
          /\ InTrouble(dep[k]).restart = dep[k].restart /\ InTrouble(dep[k]).prev = dep[k].prev
      BY <2>1, <3>0, TroubledFields
    <3>2. SameBut(d, InTrouble(dep[k]),
                  "undo restart", {u \in DOMAIN journal.file : journal.file[u] # None})
      BY <2>1, <3>1, WithFields
    <3>3. dep' = [dep EXCEPT ![k] = d]
      BY <1>5 DEF UndoReloadFails, Troubled
    <3> HIDE DEF d
    <3>4. Elsewhere(k) /\ dep' \in [Deploys -> Dep] /\ dep'[k] = d
      BY <2>1, <3>2, <3>3 DEF Elsewhere, SameBut
    <3> QED
      BY <3>1, <3>2, <3>4 DEF SameBut
  <2>3. /\ journal \in Journal /\ DOMAIN journal.file \subseteq Unit
        /\ \A v \in DOMAIN journal.file : journal.file[v] \in Release
        /\ journal.page \in Release \union {Same}
        /\ file \in [Unit -> Release] /\ loaded \in [Unit -> Release]
        /\ runs \in [Unit -> Release]
    BY <1>5, JournalKnown
       DEF UndoReloadFails, Swapping, Undoing, Working, Pcs, IInv, TypeOK, StepsOf, DoingOf,
           UndoingOf
  <2>4. HostTyped' /\ left' \in [Kind -> Nat]
    BY <1>5, <2>3, Fields, Spent
       DEF UndoReloadFails, IInv, TypeOK, HostTyped, StepsOf, DoingOf, Swapping, Release, Kind,
           host
  <2>5. HostOutside'
    BY <1>5, <2>3, <2>2
       DEF UndoReloadFails, Swapping, Undoing, Working, Pcs, IInv, TypeOK, StepsOf, DoingOf,
           UndoingOf, HostOutside, InJournal, AsFiled, host
  <2>6. Kept'
    BY <1>5, <2>3, <2>2
       DEF UndoReloadFails, Swapping, Undoing, Working, Pcs, IInv, TypeOK, StepsOf, DoingOf,
           UndoingOf, Kept, OnDisk, InJournal, HostOutside, AsFiled, host
  <2>7. LockOf(k)'
    BY <1>5, <2>2
       DEF UndoReloadFails, Swapping, Undoing, Working, Pcs, IInv, StepsOf, LockOf, host
  <2>8. DoingOf(k)'
    BY <1>5, <2>3, <2>2
       DEF UndoReloadFails, Swapping, Undoing, Working, Pcs, IInv, StepsOf, DoingOf, Kept,
           OnDisk, host
  <2>9. UndoingOf(k)'
    BY <1>5, <2>3, <2>2
       DEF UndoReloadFails, Swapping, Undoing, Working, Pcs, IInv, StepsOf, UndoingOf, PutBack,
           host
  <2> QED
    BY <1>5, <2>3, <2>2, <2>4, <2>5, <2>6, <2>7, <2>8, <2>9, HostStep
       DEF UndoReloadFails, Swapping, Undoing, Working, Pcs, IInv, TypeOK, StepsOf, host
<1>6. CASE UndoRestart(k)
  <2>0. PICK u \in dep[k].todo : /\ runs' = [runs EXCEPT ![u] = loaded[u]]
        /\ GoesWith(k, "undo restart", dep[k].todo \ {u})
    BY <1>6 DEF UndoRestart
  <2>1. /\ dep \in [Deploys -> Dep] /\ "undo restart" \in Pcs
        /\ dep[k].todo \ {u} \in SUBSET Unit /\ page \in Release
    BY <1>6, <2>0, Fields, JournalKnown
       DEF UndoRestart, Swapping, Undoing, Working, Pcs, IInv, TypeOK
  <2>2. /\ Elsewhere(k) /\ dep' \in [Deploys -> Dep]
        /\ dep'[k].want = dep[k].want /\ dep'[k].restart = dep[k].restart
        /\ dep'[k].pc = "undo restart" /\ dep'[k].todo = dep[k].todo \ {u}
        /\ dep'[k].trouble = dep[k].trouble /\ dep'[k].prev = dep[k].prev
    <3> DEFINE d == With(dep[k], "undo restart", dep[k].todo \ {u})
    <3>1. /\ dep[k] \in Dep
      BY <2>1
    <3>2. SameBut(d, dep[k], "undo restart", dep[k].todo \ {u})
      BY <2>1, <3>1, WithFields
    <3>3. dep' = [dep EXCEPT ![k] = d]
      BY <2>0 DEF GoesWith
    <3> HIDE DEF d
    <3>4. Elsewhere(k) /\ dep' \in [Deploys -> Dep] /\ dep'[k] = d
      BY <2>1, <3>2, <3>3 DEF Elsewhere, SameBut
    <3> QED
      BY <3>1, <3>2, <3>4 DEF SameBut
  <2>3. /\ u \in DOMAIN journal.file /\ journal \in Journal /\ DOMAIN journal.file \subseteq Unit
        /\ \A v \in DOMAIN journal.file : journal.file[v] \in Release
        /\ journal.page \in Release \union {Same}
        /\ file \in [Unit -> Release] /\ loaded \in [Unit -> Release]
        /\ runs \in [Unit -> Release]
    BY <1>6, <2>0, JournalKnown
       DEF UndoRestart, Swapping, Undoing, Working, Pcs, IInv, TypeOK, StepsOf, DoingOf,
           UndoingOf
  <2>4. HostTyped' /\ left' \in [Kind -> Nat]
    BY <1>6, <2>0, <2>3, Fields, Spent
       DEF UndoRestart, IInv, TypeOK, HostTyped, StepsOf, DoingOf, Swapping, Release, Kind
  <2>5. HostOutside'
    BY <1>6, <2>0, <2>3, <2>2
       DEF UndoRestart, Swapping, Undoing, Working, Pcs, IInv, TypeOK, StepsOf, DoingOf,
           UndoingOf, HostOutside, InJournal, AsFiled
  <2>6. Kept'
    BY <1>6, <2>0, <2>3, <2>2
       DEF UndoRestart, Swapping, Undoing, Working, Pcs, IInv, TypeOK, StepsOf, DoingOf,
           UndoingOf, Kept, OnDisk, InJournal, HostOutside, AsFiled
  <2>7. LockOf(k)'
    BY <1>6, <2>0, <2>2 DEF UndoRestart, Swapping, Undoing, Working, Pcs, IInv, StepsOf, LockOf
  <2>8. DoingOf(k)'
    BY <1>6, <2>0, <2>3, <2>2
       DEF UndoRestart, Swapping, Undoing, Working, Pcs, IInv, StepsOf, DoingOf, Kept, OnDisk
  <2>9. UndoingOf(k)'
    <3>1. /\ dep[k].todo \subseteq DOMAIN journal.file
          /\ \/ dep[k].trouble
             \/ /\ \A v \in DOMAIN journal.file : loaded[v] = file[v]
                /\ \A v \in DOMAIN journal.file \ dep[k].todo : runs[v] = file[v]
      BY <1>6 DEF UndoRestart, IInv, StepsOf, UndoingOf
    <3>2. \A v \in Unit : runs'[v] = IF v = u THEN loaded[v] ELSE runs[v]
      BY <2>0, <2>3
    <3>3. UNCHANGED <<file, loaded, journal>>
      BY <1>6 DEF UndoRestart
    <3>4. ~dep[k].trouble => \A v \in DOMAIN journal.file \ dep'[k].todo : runs'[v] = file[v]
      BY <3>1, <3>2, <2>2, <2>3
    <3> QED
      BY <3>1, <3>3, <3>4, <2>2 DEF UndoingOf
  <2> QED
    BY <1>6, <2>0, <2>3, <2>2, <2>4, <2>5, <2>6, <2>7, <2>8, <2>9, HostStep
       DEF UndoRestart, Swapping, Undoing, Working, Pcs, IInv, TypeOK, StepsOf
<1>7. CASE UndoRestartFails(k)
  <2>0. PICK u \in dep[k].todo : /\ runs' = [runs EXCEPT ![u] = None]
        /\ Troubled(k, "undo restart", dep[k].todo \ {u})
    BY <1>7 DEF UndoRestartFails
  <2>1. /\ dep \in [Deploys -> Dep] /\ "undo restart" \in Pcs
        /\ dep[k].todo \ {u} \in SUBSET Unit /\ page \in Release
    BY <1>7, <2>0, Fields, JournalKnown
       DEF UndoRestartFails, Swapping, Undoing, Working, Pcs, IInv, TypeOK
  <2>2. /\ Elsewhere(k) /\ dep' \in [Deploys -> Dep]
        /\ dep'[k].want = dep[k].want /\ dep'[k].restart = dep[k].restart
        /\ dep'[k].pc = "undo restart" /\ dep'[k].todo = dep[k].todo \ {u}
        /\ dep'[k].trouble /\ dep'[k].prev = dep[k].prev
    <3> DEFINE d == With(InTrouble(dep[k]), "undo restart", dep[k].todo \ {u})
    <3>0. dep[k] \in Dep
      BY <2>1
    <3>1. /\ InTrouble(dep[k]) \in Dep
          /\ InTrouble(dep[k]).trouble /\ InTrouble(dep[k]).want = dep[k].want
          /\ InTrouble(dep[k]).restart = dep[k].restart /\ InTrouble(dep[k]).prev = dep[k].prev
      BY <2>1, <3>0, TroubledFields
    <3>2. SameBut(d, InTrouble(dep[k]), "undo restart", dep[k].todo \ {u})
      BY <2>1, <3>1, WithFields
    <3>3. dep' = [dep EXCEPT ![k] = d]
      BY <2>0 DEF Troubled
    <3> HIDE DEF d
    <3>4. Elsewhere(k) /\ dep' \in [Deploys -> Dep] /\ dep'[k] = d
      BY <2>1, <3>2, <3>3 DEF Elsewhere, SameBut
    <3> QED
      BY <3>1, <3>2, <3>4 DEF SameBut
  <2>3. /\ u \in DOMAIN journal.file /\ journal \in Journal /\ DOMAIN journal.file \subseteq Unit
        /\ \A v \in DOMAIN journal.file : journal.file[v] \in Release
        /\ journal.page \in Release \union {Same}
        /\ file \in [Unit -> Release] /\ loaded \in [Unit -> Release]
        /\ runs \in [Unit -> Release]
    BY <1>7, <2>0, JournalKnown
       DEF UndoRestartFails, Swapping, Undoing, Working, Pcs, IInv, TypeOK, StepsOf, DoingOf,
           UndoingOf
  <2>4. HostTyped' /\ left' \in [Kind -> Nat]
    BY <1>7, <2>0, <2>3, Fields, Spent
       DEF UndoRestartFails, IInv, TypeOK, HostTyped, StepsOf, DoingOf, Swapping, Release, Kind
  <2>5. HostOutside'
    BY <1>7, <2>0, <2>3, <2>2
       DEF UndoRestartFails, Swapping, Undoing, Working, Pcs, IInv, TypeOK, StepsOf, DoingOf,
           UndoingOf, HostOutside, InJournal, AsFiled
  <2>6. Kept'
    BY <1>7, <2>0, <2>3, <2>2
       DEF UndoRestartFails, Swapping, Undoing, Working, Pcs, IInv, TypeOK, StepsOf, DoingOf,
           UndoingOf, Kept, OnDisk, InJournal, HostOutside, AsFiled
  <2>7. LockOf(k)'
    BY <1>7, <2>0, <2>2
       DEF UndoRestartFails, Swapping, Undoing, Working, Pcs, IInv, StepsOf, LockOf
  <2>8. DoingOf(k)'
    BY <1>7, <2>0, <2>3, <2>2
       DEF UndoRestartFails, Swapping, Undoing, Working, Pcs, IInv, StepsOf, DoingOf, Kept,
           OnDisk
  <2>9. UndoingOf(k)'
    BY <1>7, <2>0, <2>3, <2>2
       DEF UndoRestartFails, Swapping, Undoing, Working, Pcs, IInv, StepsOf, UndoingOf, PutBack
  <2> QED
    BY <1>7, <2>0, <2>3, <2>2, <2>4, <2>5, <2>6, <2>7, <2>8, <2>9, HostStep
       DEF UndoRestartFails, Swapping, Undoing, Working, Pcs, IInv, TypeOK, StepsOf
<1>8. CASE UndoEnds(k)
  <2>1. /\ dep \in [Deploys -> Dep]
        /\ (IF dep[k].result = "failed" THEN "tell" ELSE IF dep[k].trouble THEN "leave" ELSE "look") \in Pcs
        /\ dep[k].todo \in SUBSET Unit /\ page \in Release
    BY <1>8, Fields, JournalKnown DEF UndoEnds, Swapping, Undoing, Working, Pcs, IInv, TypeOK
  <2>2. /\ Elsewhere(k) /\ dep' \in [Deploys -> Dep]
        /\ dep'[k].want = dep[k].want /\ dep'[k].restart = dep[k].restart
        /\ dep'[k].pc = (IF dep[k].result = "failed" THEN "tell" ELSE IF dep[k].trouble THEN "leave" ELSE "look")
        /\ dep'[k].todo = dep[k].todo
        /\ dep'[k].trouble = dep[k].trouble /\ dep'[k].prev = dep[k].prev
    BY <2>1, <1>8, FailsTo, GoesTo DEF UndoEnds, SameAsk
  <2>3. /\ journal \in Journal /\ DOMAIN journal.file \subseteq Unit
        /\ \A v \in DOMAIN journal.file : journal.file[v] \in Release
        /\ journal.page \in Release \union {Same}
        /\ file \in [Unit -> Release] /\ loaded \in [Unit -> Release]
        /\ runs \in [Unit -> Release]
    BY <1>8, JournalKnown
       DEF UndoEnds, Swapping, Undoing, Working, Pcs, IInv, TypeOK, StepsOf, DoingOf, UndoingOf
  <2>4. HostTyped' /\ left' \in [Kind -> Nat]
    BY <1>8, <2>3, Fields, Spent
       DEF UndoEnds, IInv, TypeOK, HostTyped, StepsOf, DoingOf, Swapping, Release, Kind
  <2>5. HostOutside'
    BY <1>8, <2>3, <2>2
       DEF UndoEnds, Swapping, Undoing, Working, Pcs, IInv, TypeOK, StepsOf, DoingOf, UndoingOf,
           HostOutside, InJournal, AsFiled
  <2>6. Kept'
    BY <1>8, <2>3, <2>2
       DEF UndoEnds, Swapping, Undoing, Working, Pcs, IInv, TypeOK, StepsOf, DoingOf, UndoingOf,
           Kept, OnDisk, InJournal, HostOutside, AsFiled
  <2>7. LockOf(k)'
    BY <1>8, <2>2 DEF UndoEnds, Swapping, Undoing, Working, Pcs, IInv, StepsOf, LockOf
  <2>8. DoingOf(k)'
    BY <1>8, <2>3, <2>2
       DEF UndoEnds, Swapping, Undoing, Working, Pcs, IInv, StepsOf, DoingOf, Kept, OnDisk
  <2>9. UndoingOf(k)'
    BY <1>8, <2>3, <2>2
       DEF UndoEnds, Swapping, Undoing, Working, Pcs, IInv, StepsOf, UndoingOf, PutBack
  <2> QED
    BY <1>8, <2>3, <2>2, <2>4, <2>5, <2>6, <2>7, <2>8, <2>9, HostStep
       DEF UndoEnds, Swapping, Undoing, Working, Pcs, IInv, TypeOK, StepsOf
<1> QED
  BY <1>1, <1>2, <1>3, <1>4, <1>5, <1>6, <1>7, <1>8

-----------------------------------------------------------------------------
(* The steps that choose, write the journal, and take and leave the lock.  *)
LEMMA Selecting == ASSUME IInv, NEW k \in Deploys, Select(k) PROVE IInv'
<1> DEFINE w == dep[k].want
           restart == {u \in w.units : Order(file[u], w) = "go"}
           swap == AsksPage(w) /\ Order(ServedFrom, w) = "go"
           d == [dep[k] EXCEPT !.restart = restart, !.swap = swap, !.ops = AsksOps(w),
                   !.pc = IF restart # {} \/ swap \/ AsksOps(w) THEN "prepare" ELSE "tell"]
<1>1. dep[k] \in Dep /\ w \in Wants /\ w.units \in SUBSET Unit
  BY Fields DEF Select, At, IInv, TypeOK, StepsOf, DoingOf
<1>2. restart \in SUBSET Unit /\ swap \in BOOLEAN /\ AsksOps(w) \in BOOLEAN
  BY <1>1 DEF AsksOps
<1> HIDE DEF restart, swap
<1>3. /\ d \in Dep /\ d.pc \in {"prepare", "tell"} /\ d.want = dep[k].want
  BY <1>1, <1>2 DEF Dep, Pcs, Working
<1>4. dep' = [dep EXCEPT ![k] = d]
  BY DEF Select, restart, swap
<1> HIDE DEF d
<1>5. /\ Elsewhere(k) /\ dep' \in [Deploys -> Dep]
      /\ dep'[k].pc \in {"prepare", "tell"} /\ dep'[k].want = dep[k].want
  BY <1>3, <1>4 DEF Elsewhere, IInv, TypeOK
<1>6. /\ dep[k].pc = "look" /\ journal = None
      /\ UNCHANGED <<host, flock, pid, job, asker, left>>
  BY DEF Select, At
<1>7. StepsOf(k)'
  BY <1>5, <1>6 DEF IInv, StepsOf, LockOf, DoingOf, UndoingOf, host, Swapping, Undoing, Working
<1> QED
  BY <1>5, <1>6, <1>7, QuietStep DEF IInv, TypeOK, Swapping, Undoing, Working

LEMMA Journaling == ASSUME IInv, NEW k \in Deploys, WriteJournal(k) PROVE IInv'
<1> DEFINE f == [u \in dep[k].restart |-> file[u]]
           p == IF Backend \in dep[k].restart THEN page ELSE Same
           o == IF dep[k].ops THEN ops ELSE Same
<1>1. /\ dep[k].restart \in SUBSET Unit /\ dep[k].restart # {} /\ journal = None
      /\ dep[k].want \in Wants /\ dep[k].want.sha \in disk
  BY Fields DEF WriteJournal, At, IInv, TypeOK, StepsOf, DoingOf
<1>2. /\ f \in [dep[k].restart -> Release] /\ p \in Release \union {Same}
      /\ o \in Release \union {Same}
  BY <1>1 DEF IInv, TypeOK
<1>3. journal' = [file |-> f, page |-> p, ops |-> o]
  BY DEF WriteJournal
<1>4. DOMAIN f = dep[k].restart /\ \A u \in dep[k].restart : f[u] = file[u]
  OBVIOUS
<1>5. (p = Same \/ p = page) /\ (o = Same \/ o = ops)
  OBVIOUS
<1> HIDE DEF f, p, o
<1>6. /\ journal' \in Journal /\ journal' # None
      /\ journal'.file = f /\ journal'.page = p /\ journal'.ops = o
  BY <1>1, <1>2, <1>3, JournalMade, DeployAssumption DEF DeployAssumption
<1>7. Elsewhere(k) /\ SameAsk(k) /\ dep' \in [Deploys -> Dep] /\ dep'[k].pc = "put"
  BY GoesTo DEF WriteJournal, IInv, TypeOK, Pcs, Working, Swapping
<1>8. /\ dep[k].pc = "journal"
      /\ UNCHANGED <<file, loaded, runs, page, ops, disk, flock, pid, job, asker, left>>
  BY DEF WriteJournal, At
<1>9. HostTyped' /\ left' \in [Kind -> Nat]
  BY <1>6, <1>8 DEF IInv, TypeOK, HostTyped
<1>10. HostOutside'
  BY <1>1, <1>8 DEF IInv, HostOutside, InJournal, AsFiled
<1>11. Kept'
  BY <1>1, <1>4, <1>5, <1>6, <1>8 DEF IInv, Kept, OnDisk
<1>12. LockOf(k)'
  BY <1>7, <1>8 DEF IInv, StepsOf, LockOf, Working, Swapping
<1>13. DoingOf(k)'
  BY <1>1, <1>4, <1>6, <1>7, <1>8 DEF DoingOf, SameAsk, Swapping
<1>14. UndoingOf(k)'
  BY <1>7 DEF UndoingOf
<1> QED
  BY <1>6, <1>7, <1>8, <1>9, <1>10, <1>11, <1>12, <1>13, <1>14, HostStep
     DEF StepsOf, Working

LEMMA PidFile ==
  ASSUME IInv, NEW k \in Deploys, OwnPid(k) \/ MoveAside(k) \/ Leave(k)
  PROVE  IInv'
<1>1. PICK pc \in {"look", "pid", "end"} :
        Goes(k, pc) /\ (pc = "look" <=> OwnPid(k)) /\ (pc = "end" <=> Leave(k))
  BY DEF OwnPid, MoveAside, Leave, At
<1>2. Elsewhere(k) /\ SameAsk(k) /\ dep' \in [Deploys -> Dep] /\ dep'[k].pc = pc
  BY <1>1, GoesTo DEF IInv, TypeOK, Pcs, Working
<1>3. dep[k].pc \in {"pid", "aside", "leave"} /\ UNCHANGED <<host, job, asker, left>>
  BY DEF OwnPid, MoveAside, Leave, At
<1>4. ASSUME NEW j \in Deploys PROVE dep'[j].pc \notin Swapping \union Undoing
  BY <1>1, <1>2, <1>3 DEF IInv, StepsOf, LockOf, Elsewhere, Swapping, Undoing, Working
<1>5. flock' \in Deploys \union {None} /\ pid' \in Deploys \union {None}
  BY DEF OwnPid, MoveAside, Leave, IInv, TypeOK
<1>6. TypeOK'
  BY <1>2, <1>3, <1>4, <1>5 DEF IInv, TypeOK, host
<1>7. OwnerRan'
  BY <1>1, <1>2, DeployAssumption DEF OwnPid, MoveAside, Leave, IInv, OwnerRan, TypeOK, Elsewhere
<1>8. HostOutside' /\ Kept'
  BY <1>3 DEF IInv, HostOutside, Kept, InJournal, AsFiled, OnDisk, host
<1>9. LockOf(k)'
  <2>1. pc # "end" => flock' = k
    BY <1>1, <1>3 DEF OwnPid, MoveAside, Leave, At, Goes, IInv, StepsOf, LockOf, Working
  <2>2. pc = "look" => pid' = k
    BY <1>1 DEF OwnPid
  <2> QED
    BY <1>2, <2>1, <2>2 DEF LockOf, Swapping, Undoing, Working
<1>10. DoingOf(k)' /\ UndoingOf(k)'
  BY <1>1, <1>2, <1>3 DEF IInv, StepsOf, DoingOf, UndoingOf, SameAsk, Swapping
<1> QED
  BY <1>2, <1>3, <1>6, <1>7, <1>8, <1>9, <1>10, HolderStep DEF StepsOf, Working

-----------------------------------------------------------------------------
(* The steps of deploys that do not work, and of the host.                 *)
LEMMA OutsideStep ==
  ASSUME IInv, NEW k \in Deploys, dep[k].pc \notin {"done", "dead"}, Elsewhere(k),
         dep' \in [Deploys -> Dep], UNCHANGED <<host, pid, asker>>, left' \in [Kind -> Nat],
         job' \in [Deploys -> {"none", "running", "succeeded", "failed"}],
         flock' = flock \/ (flock = k /\ flock' = None),
         dep'[k].pc \in {"accept", "end", "done", "dead"}, dep'[k].want \in Wants
  PROVE  IInv'
<1>1. ASSUME NEW j \in Deploys \ {k} PROVE StepsOf(j)'
  <2>1. dep'[j] = dep[j] /\ StepsOf(j)
    BY DEF Elsewhere, IInv
  <2>2. LockOf(j)'
    <3>1. CASE dep[j].pc = "aside"
      <4>1. pid # None /\ pid # k /\ dep'[pid] = dep[pid]
        BY <2>1, <3>1, DeployAssumption
           DEF StepsOf, LockOf, Stale, Alive, IInv, OwnerRan, TypeOK, Elsewhere
      <4> QED
        BY <2>1, <3>1, <4>1 DEF StepsOf, LockOf, Stale, Alive, Working, Swapping, Undoing
    <3>2. CASE dep[j].pc # "aside"
      BY <2>1, <3>2 DEF StepsOf, LockOf
    <3> QED
      BY <3>1, <3>2
  <2>3. DoingOf(j)' /\ UndoingOf(j)'
    BY <2>1 DEF StepsOf, DoingOf, UndoingOf, PutBack, OnDisk, host
  <2> QED
    BY <2>2, <2>3 DEF StepsOf
<1>2. StepsOf(k)'
  BY DEF StepsOf, LockOf, DoingOf, UndoingOf, Swapping, Undoing, Working
<1>3. TypeOK'
  <2>1. ASSUME NEW j \in Deploys PROVE dep'[j].pc \in Swapping \union Undoing => journal' # None
    BY DEF IInv, TypeOK, Elsewhere, host, Swapping, Undoing
  <2> QED
    BY <2>1 DEF IInv, TypeOK, host
<1>4. OwnerRan'
  BY DEF IInv, TypeOK, OwnerRan, Elsewhere
<1>5. HostOutside' /\ Kept'
  BY DEF IInv, HostOutside, Kept, InJournal, AsFiled, OnDisk, host
<1> QED
  BY <1>1, <1>2, <1>3, <1>4, <1>5 DEF IInv

LEMMA GoneIs ==
  ASSUME dep \in [Deploys -> Dep], NEW k \in Deploys, NEW pc \in Pcs
  PROVE  Gone(k, pc) \in Dep /\ Gone(k, pc).pc = pc /\ Gone(k, pc).want = dep[k].want
BY DEF Gone, New, Dep, Release

LEMMA Coming == ASSUME IInv, NEW k \in Deploys, Call(k) PROVE IInv'
<1>1. PICK w \in Wants : dep' = [dep EXCEPT ![k].pc = "accept", ![k].want = w]
  BY DEF Call
<1>2. [dep[k] EXCEPT !.pc = "accept", !.want = w] \in Dep
  <2>1. dep[k] \in Dep
    BY DEF IInv, TypeOK
  <2> QED
    BY <2>1 DEF Dep, Pcs
<1>3. /\ Elsewhere(k) /\ dep' \in [Deploys -> Dep]
      /\ dep'[k].pc = "accept" /\ dep'[k].want = w
  BY <1>1, <1>2 DEF IInv, TypeOK, Elsewhere, Dep
<1>4. /\ dep[k].pc = "new" /\ UNCHANGED <<host, flock, pid, asker>>
      /\ job' \in [Deploys -> {"none", "running", "succeeded", "failed"}]
      /\ left' \in [Kind -> Nat]
  BY Spent DEF Call, At, IInv, TypeOK, Kind
<1> QED
  BY <1>3, <1>4, OutsideStep

LEMMA Going ==
  ASSUME IInv, NEW k \in Deploys, NotAccepted(k) \/ EndRun(k) \/ Kill(k)
  PROVE  IInv'
<1>1. /\ dep \in [Deploys -> Dep] /\ dep[k].pc \notin {"new", "done", "dead"}
      /\ dep[k].want \in Wants
  BY DEF NotAccepted, EndRun, Kill, At, Alive, IInv, TypeOK, StepsOf, DoingOf
<1>2. CASE NotAccepted(k)
  <2>1. Elsewhere(k) /\ SameAsk(k) /\ dep' \in [Deploys -> Dep] /\ dep'[k].pc = "end"
    BY <1>1, <1>2, FailsTo DEF NotAccepted, Pcs
  <2> QED
    BY <1>1, <1>2, <2>1, OutsideStep, Spent DEF NotAccepted, SameAsk, IInv, TypeOK, Kind
<1>3. ASSUME NEW pc \in {"done", "dead"}, dep' = [dep EXCEPT ![k] = Gone(k, pc)],
             UNCHANGED <<host, pid, asker>>, left' \in [Kind -> Nat],
             job' \in [Deploys -> {"none", "running", "succeeded", "failed"}],
             flock' = flock \/ (flock = k /\ flock' = None)
      PROVE  IInv'
  <2>1. Gone(k, pc) \in Dep /\ Gone(k, pc).pc = pc /\ Gone(k, pc).want = dep[k].want
    BY <1>1, GoneIs DEF Pcs
  <2>2. Elsewhere(k) /\ dep' \in [Deploys -> Dep] /\ dep'[k] = Gone(k, pc)
    BY <1>1, <1>3, <2>1 DEF Elsewhere
  <2>3. dep'[k].pc \in {"accept", "end", "done", "dead"} /\ dep'[k].want \in Wants
    BY <1>1, <2>1, <2>2
  <2> QED
    BY <1>1, <1>3, <2>2, <2>3, OutsideStep
<1>4. CASE EndRun(k)
  BY <1>3, <1>4 DEF EndRun, IInv, TypeOK
<1>5. CASE Kill(k)
  <2>1. left' \in [Kind -> Nat]
    BY <1>5, Spent DEF Kill, IInv, TypeOK, Kind
  <2> QED
    BY <1>3, <1>5, <2>1 DEF Kill, IInv, TypeOK
<1> QED
  BY <1>2, <1>4, <1>5

LEMMA Locking == ASSUME IInv, NEW k \in Deploys, KernelLock(k) PROVE IInv'
<1>1. Elsewhere(k) /\ SameAsk(k) /\ dep' \in [Deploys -> Dep] /\ dep'[k].pc = "pid"
  BY GoesTo DEF KernelLock, IInv, TypeOK, Pcs
<1>2. /\ dep[k].pc = "accept" /\ flock = None /\ flock' = k
      /\ UNCHANGED <<host, pid, job, asker, left>>
  BY DEF KernelLock, At
<1>3. ASSUME NEW j \in Deploys
      PROVE  /\ dep'[j].pc \notin Working \union {"aside"}
             /\ dep'[j].pc # "new" => dep'[j].want \in Wants
             /\ j # k => dep'[j].pc # "pid"
  <2>1. dep[j].pc \notin Working \union {"pid", "aside"}
    BY <1>2, DeployAssumption DEF IInv, StepsOf, LockOf, DeployAssumption
  <2>2. dep[j].pc # "new" => dep[j].want \in Wants
    BY DEF IInv, StepsOf, DoingOf
  <2> QED
    BY <1>1, <1>2, <2>1, <2>2 DEF Elsewhere, SameAsk, Working, Swapping, Undoing
<1>4. ASSUME NEW j \in Deploys PROVE StepsOf(j)'
  BY <1>2, <1>3 DEF StepsOf, LockOf, DoingOf, UndoingOf, Working, Swapping, Undoing
<1>5. TypeOK'
  BY <1>1, <1>2, <1>3 DEF IInv, TypeOK, host, Working
<1>6. OwnerRan'
  BY <1>1, <1>2 DEF IInv, TypeOK, OwnerRan, Elsewhere
<1>7. HostOutside' /\ Kept'
  BY <1>2 DEF IInv, HostOutside, Kept, InJournal, AsFiled, OnDisk, host
<1> QED
  BY <1>4, <1>5, <1>6, <1>7 DEF IInv

LEMMA Asking ==
  ASSUME IInv, (\E k \in Deploys : AskRuns(k)) \/ AskUnit \/ AskEnds
  PROVE  IInv'
<1>1. UNCHANGED <<host, flock, pid, dep>>
  BY DEF AskRuns, AskUnit, AskEnds
<1>2. /\ job' \in [Deploys -> {"none", "running", "succeeded", "failed"}]
      /\ asker' = None \/ asker' \in [of: Deploys, gone: BOOLEAN]
      /\ left' \in [Kind -> Nat]
  <2>1. CASE \E k \in Deploys : AskRuns(k)
    BY <2>1, Spent DEF AskRuns, IInv, TypeOK, Kind
  <2>2. CASE AskUnit
    BY <2>2 DEF AskUnit, IInv, TypeOK
  <2>3. CASE AskEnds
    <3>1. asker.of \in Deploys /\ job \in [Deploys -> {"none", "running", "succeeded", "failed"}]
      BY <2>3 DEF AskEnds, IInv, TypeOK
    <3> QED
      BY <2>3, <3>1 DEF AskEnds, IInv, TypeOK
  <2> QED
    BY <2>1, <2>2, <2>3
<1>3. TypeOK'
  BY <1>1, <1>2 DEF IInv, TypeOK, host
<1>4. ASSUME NEW j \in Deploys PROVE StepsOf(j)'
  BY <1>1 DEF IInv, StepsOf, LockOf, DoingOf, UndoingOf, PutBack, OnDisk, Stale, Alive, host
<1>5. OwnerRan' /\ HostOutside' /\ Kept'
  BY <1>1 DEF IInv, OwnerRan, HostOutside, Kept, InJournal, AsFiled, OnDisk, host
<1> QED
  BY <1>3, <1>4, <1>5 DEF IInv

LEMMA Rebooting == ASSUME IInv, Reboot PROVE IInv'
<1>1. ASSUME NEW j \in Deploys
      PROVE  /\ dep'[j] \in Dep /\ dep'[j].pc \in {"new", "done", "dead"}
             /\ dep'[j].pc # "new" => dep'[j].want \in Wants
             /\ dep[j].pc # "new" => dep'[j].pc # "new"
  <2>1. /\ dep[j] \in Dep
        /\ dep[j].pc # "new" => dep[j].want \in Wants
        /\ dep'[j] = IF Alive(j) THEN Gone(j, "dead") ELSE dep[j]
    BY DEF Reboot, IInv, TypeOK, StepsOf, DoingOf
  <2>2. /\ Gone(j, "dead") \in Dep /\ Gone(j, "dead").pc = "dead"
        /\ Gone(j, "dead").want = dep[j].want
    BY GoneIs DEF IInv, TypeOK, Pcs
  <2>3. CASE Alive(j)
    BY <2>1, <2>2, <2>3 DEF Alive
  <2>4. CASE ~Alive(j)
    BY <2>1, <2>4 DEF Alive
  <2> QED
    BY <2>3, <2>4
<1>2. dep' \in [Deploys -> Dep]
  BY <1>1 DEF Reboot
<1>3. /\ UNCHANGED <<file, page, ops, journal, disk, pid, job>>
      /\ flock' = None /\ asker' = None /\ loaded' = file /\ runs' = file
      /\ left' \in [Kind -> Nat]
  BY Spent DEF Reboot, IInv, TypeOK, Kind
<1>4. TypeOK'
  BY <1>1, <1>2, <1>3 DEF IInv, TypeOK, Swapping, Undoing
<1>5. OwnerRan'
  BY <1>1, <1>3 DEF IInv, TypeOK, OwnerRan
<1>6. HostOutside' /\ Kept'
  BY <1>3 DEF IInv, HostOutside, Kept, InJournal, AsFiled, OnDisk
<1>7. ASSUME NEW j \in Deploys PROVE StepsOf(j)'
  BY <1>1 DEF StepsOf, LockOf, DoingOf, UndoingOf, Swapping, Undoing, Working
<1> QED
  BY <1>4, <1>5, <1>6, <1>7 DEF IInv

LEMMA Restarting == ASSUME IInv, UnitRestarts PROVE IInv'
<1>1. PICK u \in Unit : runs[u] # None /\ runs' = [runs EXCEPT ![u] = loaded[u]]
  BY DEF UnitRestarts
<1>2. /\ UNCHANGED <<file, loaded, page, ops, journal, disk, flock, pid, dep, job, asker>>
      /\ left' \in [Kind -> Nat]
  BY Spent DEF UnitRestarts, IInv, TypeOK, Kind
<1>3. \A v \in Unit : runs'[v] = IF v = u THEN loaded[v] ELSE runs[v]
  BY <1>1 DEF IInv, TypeOK
<1>4. TypeOK'
  BY <1>1, <1>2 DEF IInv, TypeOK
<1>5. OwnerRan' /\ HostOutside' /\ Kept'
  BY <1>2, <1>3 DEF IInv, OwnerRan, HostOutside, Kept, InJournal, AsFiled, OnDisk
<1>6. ASSUME NEW j \in Deploys PROVE StepsOf(j)'
  <2>1. LockOf(j)'
    BY <1>2 DEF IInv, StepsOf, LockOf, Stale, Alive
  <2>2. journal # None => DOMAIN journal.file \subseteq Unit
    BY JournalKnown DEF IInv, TypeOK
  <2>3. dep[j].pc \in {"restart", "check", "undo files", "undo reload", "undo restart"} =>
          journal # None
    BY DEF IInv, TypeOK, Swapping, Undoing
  <2>4. DoingOf(j)'
    BY <1>2, <1>3, <2>2, <2>3 DEF IInv, StepsOf, DoingOf, OnDisk
  <2>5. ASSUME NEW v \in Unit, PutBack(j, v) PROVE PutBack(j, v)'
    BY <1>1, <1>2, <1>3, <2>5 DEF PutBack
  <2>6. UndoingOf(j)'
    BY <1>2, <1>3, <2>2, <2>3, <2>5 DEF IInv, StepsOf, UndoingOf
  <2> QED
    BY <2>1, <2>4, <2>6 DEF StepsOf
<1> QED
  BY <1>4, <1>5, <1>6 DEF IInv

-----------------------------------------------------------------------------
LEMMA Start == Init => IInv
<1> SUFFICES ASSUME Init PROVE IInv
  OBVIOUS
<1>1. New \in Dep /\ New.pc = "new"
  BY DEF New, Dep, Pcs, Release
<1>2. \A k \in Deploys : dep[k] = New
  BY DEF Init
<1>3. disk \subseteq Commit /\ \A u \in Unit : OnDisk(Before[u])
  BY DeployAssumption DEF Init, DeployAssumption, OnDisk, Release
<1>4. TypeOK
  BY <1>1, <1>2, <1>3, DeployAssumption
     DEF Init, DeployAssumption, TypeOK, Release, Swapping, Undoing
<1>5. OwnerRan /\ HostOutside /\ Kept
  BY <1>3 DEF Init, OwnerRan, HostOutside, Kept, AsFiled, OnDisk
<1>6. ASSUME NEW k \in Deploys PROVE StepsOf(k)
  BY <1>1, <1>2 DEF StepsOf, LockOf, DoingOf, UndoingOf, Swapping, Undoing, Working
<1> QED
  BY <1>4, <1>5, <1>6 DEF IInv

LEMMA Inductive == IInv /\ [Next]_vars => IInv'
<1> SUFFICES ASSUME IInv, [Next]_vars PROVE IInv'
  OBVIOUS
<1>1. ASSUME NEW k \in Deploys, Step(k) PROVE IInv'
  <2>1. \/ SeeStale(k) \/ FindsSwap(k) \/ RefusedToUndo(k) \/ SelectRefuses(k)
        \/ PrepareFails(k) \/ Gate(k) \/ GateRefuses(k) \/ PutThrows(k) \/ SwapFails(k)
        \/ PageAnswers(k) \/ Tell(k)
        => IInv'
    BY Looking
  <2>2. \/ PutOps(k) \/ PutPage(k) \/ Reload(k) \/ SwapEnds(k) \/ UndoOps(k) \/ Prepare(k)
        \/ InstallOps(k) \/ Prune(k)
        => IInv'
    BY Forward
  <2>3. \/ PutFile(k) \/ Restart(k) \/ RestartFails(k) \/ SwapPage(k) \/ PageFails(k)
        => IInv'
    BY Switching
  <2>4. \/ UndoPage(k) \/ UndoFile(k) \/ StopFails(k) \/ UndoReload(k) \/ UndoReloadFails(k)
        \/ UndoRestart(k) \/ UndoRestartFails(k) \/ UndoEnds(k)
        => IInv'
    BY Back
  <2>5. OwnPid(k) \/ MoveAside(k) \/ Leave(k) => IInv'
    BY PidFile
  <2>6. Select(k) \/ WriteJournal(k) \/ KernelLock(k) \/ NotAccepted(k) \/ EndRun(k) => IInv'
    BY Selecting, Journaling, Locking, Going
  <2> QED
    BY <1>1, <2>1, <2>2, <2>3, <2>4, <2>5, <2>6 DEF Step
<1>2. ASSUME NEW k \in Deploys, Call(k) \/ Kill(k) PROVE IInv'
  BY <1>2, Coming, Going
<1>3. CASE Reboot \/ UnitRestarts
  BY <1>3, Rebooting, Restarting
<1>4. CASE (\E k \in Deploys : AskRuns(k)) \/ AskUnit \/ AskEnds
  BY <1>4, Asking
<1>5. CASE UNCHANGED vars
  <2>1. TypeOK' /\ OwnerRan' /\ HostOutside' /\ Kept'
    BY <1>5 DEF IInv, TypeOK, OwnerRan, HostOutside, Kept, InJournal, AsFiled, OnDisk, vars
  <2>2. ASSUME NEW j \in Deploys PROVE StepsOf(j)'
    BY <1>5 DEF IInv, StepsOf, LockOf, DoingOf, UndoingOf, PutBack, OnDisk, Stale, Alive, vars
  <2> QED
    BY <2>1, <2>2 DEF IInv
<1> QED
  BY <1>1, <1>2, <1>3, <1>4, <1>5 DEF Next

LEMMA Suffices == IInv => Consistent
<1> SUFFICES ASSUME IInv PROVE Consistent
  OBVIOUS
<1>1. OneAtATime
  BY DEF IInv, StepsOf, LockOf, OneAtATime, InTheLock
<1>2. ReleasesKept
  <2>1. \A r \in Journaled : r = None \/ r \in disk
    BY DEF Journaled, IInv, Kept, OnDisk
  <2>2. \A r \in Trials : r = None \/ r \in disk
    BY DEF Trials, At, IInv, StepsOf, DoingOf, OnDisk
  <2> QED
    BY <2>1, <2>2 DEF ReleasesKept, IInv, Kept, OnDisk
<1>3. QuietIsConsistent
  <2> SUFFICES ASSUME journal = None PROVE loaded = file /\ runs = file
    BY DEF QuietIsConsistent
  <2>1. \A u \in Unit : loaded[u] = file[u] /\ runs[u] = file[u]
    BY DEF IInv, HostOutside, InJournal, AsFiled
  <2> QED
    BY <2>1 DEF IInv, TypeOK
<1> QED
  BY <1>1, <1>2, <1>3 DEF Consistent, IInv

(* In every state of every run, whoever deploys and whatever is killed or
   fails: one deploy at a time works on the host, every release in use is on
   the disk, and a host nobody works on, with no swap left to undo, runs what
   its files say (deploy.ts: withLock, swapUnits, recoverSwap, pruneReleases). *)
THEOREM HostIsConsistent == Spec => []Consistent
<1>1. Init => IInv
  BY Start
<1>2. IInv /\ [Next]_vars => IInv'
  BY Inductive
<1>3. IInv => Consistent
  BY Suffices
<1> QED
  BY <1>1, <1>2, <1>3, PTL DEF Spec

-----------------------------------------------------------------------------
(* Deploy implements DeployContract.  The contract's state is what the     *)
(* host is to run; what a deploy chose, it chose of that state, which      *)
(* stays as it was until the deploy's journal goes.                        *)

LiveFrom == IF LivePage = None THEN LiveUnit[Backend] ELSE LivePage

MayGo(w) == {u \in w.units : Contract!Old(LiveUnit[u], w)}
PageGoes(w) == Contract!PageAlone(w) /\ LiveFrom # w.sha /\ Contract!Old(LiveFrom, w)
OpsGo(w) == w.ops /\ LiveOps # w.sha /\ Contract!Old(LiveOps, w)
UnitMeets(u, w) == LiveUnit[u] = w.sha \/ Contract!Newer(LiveUnit[u], w)
PageMeets(w) == LiveFrom = w.sha \/ Contract!Newer(LiveFrom, w)

(* What a deploy chose, until it is installed. *)
ChoiceOf(k) ==
  LET d == dep[k]
      w == d.want
  IN d.pc \in {"prepare", "gate", "journal"} \union Swapping =>
       /\ d.restart = MayGo(w)
       /\ \A u \in w.units : u \in d.restart \/ Contract!Newer(LiveUnit[u], w)
       /\ Contract!PageAlone(w) => d.swap \/ PageMeets(w)
       /\ d.swap => PageGoes(w)
       /\ d.ops <=> OpsGo(w)
       /\ d.pc = "gate" => d.restart # {} \/ d.swap

(* How far the swap is. *)
SwapOf(k) ==
  LET d == dep[k]
      sha == d.want.sha
  IN /\ d.pc \in Swapping => /\ journal.ops = Same <=> ~d.ops
                             /\ journal.page = Same <=> Backend \notin d.restart
     /\ d.pc \in Swapping \ {"put"} => (d.ops => ops = sha)
     /\ d.pc \in Swapping \ {"put", "put page"} => (Backend \in d.restart => page = sha)
     /\ d.pc = "put files" => \A u \in d.restart \ d.todo : file[u] = sha
     /\ d.pc \in {"reload", "restart", "check"} => \A u \in d.restart : file[u] = sha

(* How far the way back is. *)
BackOf(k) ==
  LET pc == dep[k].pc
  IN /\ pc \in Undoing \ {"undo"} => (journal.ops # Same => ops = journal.ops)
     /\ pc \in Undoing \ {"undo", "undo page"} => (journal.page # Same => page = journal.page)
     /\ pc \in {"undo reload", "undo restart"} =>
          \A u \in DOMAIN journal.file : file[u] = journal.file[u]

Succeeds(d) == d.pc = "tell" /\ d.result = "succeeded"

(* What is there after the swap. *)
ThereOf(k) ==
  LET d == dep[k]
      w == d.want
  IN /\ d.pc \in {"page", "trial", "ops", "prune"} \/ Succeeds(d) =>
          \A u \in w.units : UnitMeets(u, w)
     /\ d.pc \in {"ops", "prune"} \/ Succeeds(d) => (Contract!PageAlone(w) => PageMeets(w))
     /\ d.pc \in {"page", "trial"} =>
          PageGoes(w) /\ (d.ops /\ d.restart = {} => OpsGo(w))
     /\ d.pc = "trial" => page = w.sha
     /\ d.pc = "ops" => OpsGo(w)

(* A deploy's result is open until it tells it. *)
JobOf(k) ==
  /\ dep[k].pc = "new" => dep[k].want = None /\ job[k] = "none"
  /\ dep[k].pc \notin {"new", "leave", "end", "done", "dead"} => job[k] = "running"

AskerInv ==
  asker # None => /\ dep[asker.of].pc # "new"
                  /\ asker.gone => dep[asker.of].pc \in {"done", "dead"}

CInvOf(k) == ChoiceOf(k) /\ SwapOf(k) /\ BackOf(k) /\ ThereOf(k) /\ JobOf(k)

CInv == AskerInv /\ \A k \in Deploys : CInvOf(k)

-----------------------------------------------------------------------------
(* What a step does to the contract's state.                               *)

SameLive == LiveUnit' = LiveUnit /\ LivePage' = LivePage /\ LiveOps' = LiveOps

Asked == [k \in Deploys |-> dep[k].want]

CStep == [Contract!Next]_<<Asked, LiveUnit, LivePage, LiveOps, job>>

LEMMA Stutters ==
  ASSUME SameLive, job' = job, \A j \in Deploys : dep'[j].want = dep[j].want
  PROVE  CStep
<1>1. Asked' = Asked BY DEF Asked
<1> QED BY <1>1 DEF CStep, SameLive

LEMMA WantIs ==
  ASSUME IInv, NEW k \in Deploys, dep[k].pc # "new"
  PROVE  /\ dep[k].want \in Wants /\ dep[k].want # None /\ dep[k].want.sha \in Commit
         /\ dep[k].want.sha # None /\ dep[k].want.units \in SUBSET Unit
<1>1. dep[k].want \in Wants BY DEF IInv, StepsOf, DoingOf
<1>2. dep[k].want \in Want BY <1>1, DeployAssumption DEF DeployAssumption
<1>3. dep[k].want # None BY <1>2, DeployAssumption DEF DeployAssumption
<1>4. dep[k].want.sha \in Commit /\ dep[k].want.units \in SUBSET Unit BY <1>2 DEF Want
<1>5. dep[k].want.sha # None BY <1>4, DeployAssumption DEF DeployAssumption
<1> QED BY <1>1, <1>3, <1>4, <1>5

LEMMA OrderIs ==
  ASSUME NEW from, NEW w
  PROVE  /\ Order(from, w) = "go" <=> Contract!Old(from, w)
         /\ Order(from, w) = "diverged" <=> ~Contract!Old(from, w) /\ ~Contract!Newer(from, w)
BY DEF Order, Contract!Old, Contract!Newer

(* Only one deploy works; a trial's page does not count until it answers. *)
LEMMA Alone ==
  ASSUME IInv, NEW k \in Deploys, dep[k].pc \in Working \union {"pid", "aside"}
  PROVE  \A j \in Deploys \ {k} : dep[j].pc \notin Working \union {"pid", "aside"}
BY DEF IInv, StepsOf, LockOf

PageThere == IF journal # None /\ journal.page # Same THEN journal.page ELSE page

PageIs == /\ \A k \in Deploys : At(k, "trial") => LivePage = dep[k].prev
          /\ (\A k \in Deploys : ~At(k, "trial")) => LivePage = PageThere

LEMMA PageLive == IInv => PageIs
<1> SUFFICES ASSUME IInv PROVE PageIs OBVIOUS
<1>1. ASSUME NEW k \in Deploys, At(k, "trial") PROVE LivePage = dep[k].prev
  <2>1. \A j \in Deploys : At(j, "trial") => j = k BY <1>1, Alone DEF At, Working
  <2>2. (CHOOSE j \in Deploys : At(j, "trial")) = k BY <1>1, <2>1
  <2> QED BY <1>1, <2>2 DEF LivePage
<1> QED BY <1>1 DEF LivePage, PageThere, PageIs

LEMMA NoTrial ==
  ASSUME IInv, NEW k \in Deploys, dep[k].pc \in (Working \ {"trial"}) \union {"pid", "aside"}
  PROVE  LivePage = PageThere
<1>1. \A j \in Deploys : ~At(j, "trial") BY Alone DEF At, Working
<1> QED BY <1>1, PageLive DEF PageIs

LEMMA NoTrialNext ==
  ASSUME IInv, IInv', NEW k \in Deploys, dep[k].pc \in Working \union {"pid", "aside"},
         Elsewhere(k), dep'[k].pc # "trial"
  PROVE  LivePage' = PageThere'
<1>1. \A j \in Deploys : ~At(j, "trial")' BY Alone DEF At, Working, Elsewhere
<1>2. PageIs' BY PageLive, PTL
<1> QED BY <1>1, <1>2 DEF PageIs

(* No trial begins or ends, and the links, files and journal stay. *)
LEMMA LiveStays ==
  ASSUME IInv, IInv', NEW k \in Deploys, Elsewhere(k), UNCHANGED <<file, page, ops, journal>>,
         dep[k].pc # "trial", dep'[k].pc # "trial"
  PROVE  SameLive
<1>1. LiveUnit' = LiveUnit /\ LiveOps' = LiveOps /\ PageThere' = PageThere
  BY DEF LiveUnit, LiveOps, PageThere
<1>2. LivePage' = LivePage
  <2>1. ASSUME NEW j \in Deploys PROVE (At(j, "trial"))' <=> At(j, "trial")
    BY DEF At, Elsewhere
  <2>2. CASE \E j \in Deploys : At(j, "trial")
    <3>1. PICK j \in Deploys : At(j, "trial") BY <2>2
    <3>2. LivePage = dep[j].prev BY <3>1, PageLive DEF PageIs
    <3>3. dep'[j] = dep[j] BY <3>1 DEF At, Elsewhere
    <3>4. PageIs' BY PageLive, PTL
    <3>5. LivePage' = dep'[j].prev BY <2>1, <3>1, <3>4 DEF PageIs
    <3> QED BY <3>2, <3>3, <3>5
  <2>3. CASE \A j \in Deploys : ~At(j, "trial")
    <3>1. LivePage = PageThere BY <2>3, PageLive DEF PageIs
    <3>2. PageIs' BY PageLive, PTL
    <3>3. LivePage' = PageThere' BY <2>1, <2>3, <3>2 DEF PageIs
    <3> QED BY <1>1, <3>1, <3>3
  <2> QED BY <2>2, <2>3
<1> QED BY <1>1, <1>2 DEF SameLive

(* A deploy that takes no part in the step. *)
LEMMA OtherOf ==
  ASSUME IInv, NEW j \in Deploys, CInvOf(j), dep'[j] = dep[j], job'[j] = job[j],
         dep[j].pc \notin Working \/ (SameLive /\ UNCHANGED <<file, page, ops, journal>>)
  PROVE  CInvOf(j)'
<1>1. JobOf(j)' BY DEF CInvOf, JobOf
<1>2. CASE dep[j].pc \notin Working
  BY <1>1, <1>2 DEF CInvOf, ChoiceOf, SwapOf, BackOf, ThereOf, Succeeds, Working, Swapping, Undoing
<1>3. CASE SameLive /\ UNCHANGED <<file, page, ops, journal>>
  <2>1. LiveUnit' = LiveUnit /\ LiveOps' = LiveOps /\ LiveFrom' = LiveFrom
    BY <1>3 DEF SameLive, LiveFrom
  <2> DEFINE w == dep[j].want
  <2>2. /\ MayGo(w)' = MayGo(w) /\ PageGoes(w)' = PageGoes(w) /\ OpsGo(w)' = OpsGo(w)
        /\ \A u \in w.units : UnitMeets(u, w)' = UnitMeets(u, w)
        /\ PageMeets(w)' = PageMeets(w)
    BY <2>1 DEF MayGo, PageGoes, OpsGo, UnitMeets, PageMeets
  <2>3. ChoiceOf(j)' BY <2>1, <2>2 DEF CInvOf, ChoiceOf
  <2>4. SwapOf(j)' /\ BackOf(j)' BY <1>3 DEF CInvOf, SwapOf, BackOf
  <2>5. ThereOf(j)' BY <1>3, <2>2 DEF CInvOf, ThereOf, Succeeds
  <2> QED BY <1>1, <2>3, <2>4, <2>5 DEF CInvOf
<1> QED BY <1>2, <1>3

(* A step of the deploy that has the lock. *)
LEMMA HolderKeeps ==
  ASSUME IInv, CInv, NEW k \in Deploys, dep[k].pc \in Working \union {"pid", "aside"},
         Elsewhere(k), asker' = asker, \A j \in Deploys \ {k} : job'[j] = job[j],
         dep'[k].pc # "new", CInvOf(k)'
  PROVE  CInv'
<1>1. ASSUME NEW j \in Deploys \ {k} PROVE CInvOf(j)'
  BY Alone, OtherOf DEF CInv, Elsewhere
<1>2. AskerInv'
  <2> SUFFICES ASSUME asker # None
               PROVE  /\ dep'[asker.of].pc # "new"
                      /\ asker.gone => dep'[asker.of].pc \in {"done", "dead"}
    BY DEF AskerInv
  <2>1. asker.of \in Deploys BY DEF IInv, TypeOK
  <2>2. CASE asker.of = k BY <2>2 DEF CInv, AskerInv, Working, Swapping, Undoing
  <2>3. CASE asker.of # k BY <2>1, <2>3 DEF CInv, AskerInv, Elsewhere
  <2> QED BY <2>2, <2>3
<1> QED BY <1>1, <1>2 DEF CInv

(* The fields of a deploy that goes on. *)
SameChoice(k) ==
  /\ dep'[k].want = dep[k].want /\ dep'[k].restart = dep[k].restart
  /\ dep'[k].swap = dep[k].swap /\ dep'[k].ops = dep[k].ops

LEMMA GoesOn ==
  ASSUME dep \in [Deploys -> Dep], NEW k \in Deploys, NEW pc, Goes(k, pc)
  PROVE  /\ Elsewhere(k) /\ SameChoice(k) /\ dep'[k].pc = pc /\ dep'[k].todo = dep[k].todo
         /\ dep'[k].result = dep[k].result /\ dep'[k].prev = dep[k].prev
BY DEF Goes, Dep, Elsewhere, SameChoice

LEMMA FailsOn ==
  ASSUME dep \in [Deploys -> Dep], NEW k \in Deploys, NEW pc, Fails(k, pc)
  PROVE  /\ Elsewhere(k) /\ SameChoice(k) /\ dep'[k].pc = pc /\ dep'[k].todo = dep[k].todo
         /\ dep'[k].result = "failed" /\ dep'[k].prev = dep[k].prev
BY DEF Fails, Dep, Elsewhere, SameChoice

LEMMA TodoOn ==
  ASSUME dep \in [Deploys -> Dep], NEW k \in Deploys, NEW pc, NEW todo,
         GoesWith(k, pc, todo) \/ Troubled(k, pc, todo)
  PROVE  /\ Elsewhere(k) /\ SameChoice(k) /\ dep'[k].pc = pc /\ dep'[k].todo = todo
         /\ dep'[k].result = dep[k].result /\ dep'[k].prev = dep[k].prev
<1>1. PICK d \in {dep[k], InTrouble(dep[k])} : dep' = [dep EXCEPT ![k] = With(d, pc, todo)]
  BY DEF GoesWith, Troubled
<1>2. /\ d \in Dep /\ d.want = dep[k].want /\ d.restart = dep[k].restart /\ d.swap = dep[k].swap
      /\ d.ops = dep[k].ops /\ d.result = dep[k].result /\ d.prev = dep[k].prev
  <2>1. dep[k] \in Dep OBVIOUS
  <2> QED BY <2>1 DEF InTrouble, Dep
<1> DEFINE e == With(d, pc, todo)
<1>3. /\ e.want = d.want /\ e.restart = d.restart /\ e.swap = d.swap /\ e.ops = d.ops
      /\ e.result = d.result /\ e.prev = d.prev /\ e.pc = pc /\ e.todo = todo
  BY <1>2 DEF With, Dep
<1> HIDE DEF e
<1>4. dep'[k] = e /\ \A j \in Deploys \ {k} : dep'[j] = dep[j] BY <1>1 DEF e
<1> QED BY <1>2, <1>3, <1>4 DEF Elsewhere, SameChoice

LEMMA LivePredicates ==
  ASSUME SameLive, NEW k \in Deploys, dep'[k].want = dep[k].want
  PROVE  /\ MayGo(dep[k].want)' = MayGo(dep[k].want)
         /\ PageGoes(dep[k].want)' = PageGoes(dep[k].want)
         /\ OpsGo(dep[k].want)' = OpsGo(dep[k].want)
         /\ PageMeets(dep[k].want)' = PageMeets(dep[k].want)
         /\ \A u : UnitMeets(u, dep[k].want)' = UnitMeets(u, dep[k].want)
         /\ LiveUnit' = LiveUnit
BY DEF SameLive, LiveFrom, MayGo, PageGoes, OpsGo, PageMeets, UnitMeets

(* While it chooses and swaps, the choice stays. *)
LEMMA ChoiceStays ==
  ASSUME SameLive, NEW k \in Deploys, SameChoice(k), ChoiceOf(k),
         dep'[k].pc \in {"journal"} \union Swapping,
         dep[k].pc \in {"prepare", "gate", "journal"} \union Swapping
  PROVE  ChoiceOf(k)'
<1>1. dep'[k].want = dep[k].want BY DEF SameChoice
<1> QED BY <1>1, LivePredicates DEF ChoiceOf, SameChoice, Swapping

QuietHost ==
  UNCHANGED <<file, page, ops, journal>> /\ job' = job /\ asker' = asker

(* The deploy at work touches none of what the contract sees. *)
LEMMA QuietLive ==
  ASSUME IInv, IInv', NEW k \in Deploys, Elsewhere(k), QuietHost,
         dep'[k].want = dep[k].want, dep[k].pc # "trial", dep'[k].pc # "trial"
  PROVE  SameLive /\ CStep
<1>1. SameLive BY LiveStays DEF QuietHost
<1> QED BY <1>1, Stutters DEF QuietHost, Elsewhere

(* ... and goes where nothing is said of what it has done. *)
LEMMA QuietOut ==
  ASSUME IInv, IInv', CInv, NEW k \in Deploys,
         dep[k].pc \in (Working \ {"trial"}) \union {"pid", "aside"},
         Elsewhere(k), SameChoice(k), QuietHost,
         \/ dep'[k].pc \in {"pid", "aside", "look", "undo"} /\ dep[k].pc # "leave"
         \/ dep'[k].pc \in {"leave", "end"}
         \/ dep'[k].pc = "tell" /\ dep'[k].result = "failed" /\ dep[k].pc # "leave"
  PROVE  CInv' /\ CStep
<1>1. CStep BY QuietLive DEF SameChoice, Working, Swapping, Undoing
<1>2. JobOf(k)'
  <2>1. dep[k].pc # "leave" => job[k] = "running"
    BY DEF CInv, CInvOf, JobOf, Working, Swapping, Undoing
  <2> QED BY <2>1 DEF JobOf, QuietHost
<1>3. ChoiceOf(k)' /\ SwapOf(k)' /\ BackOf(k)' /\ ThereOf(k)'
  BY DEF ChoiceOf, SwapOf, BackOf, ThereOf, Succeeds, Swapping, Undoing
<1> QED BY <1>1, <1>2, <1>3, HolderKeeps DEF CInvOf, QuietHost

LEMMA Outward ==
  ASSUME IInv, IInv', CInv, NEW k \in Deploys,
         \/ OwnPid(k) \/ SeeStale(k) \/ MoveAside(k) \/ FindsSwap(k) \/ RefusedToUndo(k)
         \/ SelectRefuses(k) \/ PrepareFails(k) \/ GateRefuses(k) \/ PutThrows(k)
         \/ RestartFails(k) \/ SwapFails(k) \/ Leave(k)
  PROVE  CInv' /\ CStep
<1>0. dep \in [Deploys -> Dep] BY DEF IInv, TypeOK
<1>1. QuietHost
  BY DEF OwnPid, SeeStale, MoveAside, FindsSwap, RefusedToUndo, SelectRefuses, PrepareFails,
         GateRefuses, PutThrows, RestartFails, SwapFails, Leave, host, QuietHost
<1>2. CASE \/ OwnPid(k) \/ SeeStale(k) \/ MoveAside(k) \/ FindsSwap(k) \/ Leave(k)
  <2>1. PICK pc \in {"look", "aside", "pid", "undo", "end"} :
          Goes(k, pc) /\ (dep[k].pc = "leave" => pc = "end")
    BY <1>2 DEF OwnPid, SeeStale, MoveAside, FindsSwap, Leave, At
  <2>2. dep[k].pc \in {"pid", "aside", "look", "leave"}
    BY <1>2 DEF OwnPid, SeeStale, MoveAside, FindsSwap, Leave, At
  <2> QED BY <1>0, <1>1, <2>1, <2>2, GoesOn, QuietOut DEF Working
<1>3. CASE \/ RefusedToUndo(k) \/ SelectRefuses(k) \/ PrepareFails(k) \/ GateRefuses(k)
           \/ PutThrows(k) \/ RestartFails(k) \/ SwapFails(k)
  <2>1. PICK pc \in {"leave", "tell", "undo"} : Fails(k, pc)
    BY <1>3 DEF RefusedToUndo, SelectRefuses, PrepareFails, GateRefuses, PutThrows,
                RestartFails, SwapFails
  <2>2. dep[k].pc \in Working \ {"trial", "leave"}
    BY <1>3 DEF RefusedToUndo, SelectRefuses, PrepareFails, GateRefuses, PutThrows,
                RestartFails, SwapFails, At, Working, Swapping
  <2> QED BY <1>0, <1>1, <2>1, <2>2, FailsOn, QuietOut
<1> QED BY <1>2, <1>3

LEMMA Selects == ASSUME IInv, IInv', CInv, NEW k \in Deploys, Select(k) PROVE CInv' /\ CStep
<1> DEFINE w == dep[k].want
           restart == {u \in w.units : Order(file[u], w) = "go"}
           swap == AsksPage(w) /\ Order(ServedFrom, w) = "go"
           d == [dep[k] EXCEPT !.restart = restart, !.swap = swap, !.ops = AsksOps(w),
                   !.pc = IF restart # {} \/ swap \/ AsksOps(w) THEN "prepare" ELSE "tell"]
<1>1. /\ dep[k].pc = "look" /\ journal = None /\ ~Diverged(w) /\ QuietHost
      /\ dep \in [Deploys -> Dep] /\ dep[k] \in Dep
  BY DEF Select, At, QuietHost, host, IInv, TypeOK
<1>2. /\ w.sha # None /\ w.units \in SUBSET Unit /\ w # None BY <1>1, WantIs
<1>3. /\ \A u \in Unit : LiveUnit[u] = file[u]
      /\ LiveOps = ops /\ LivePage = page /\ LiveFrom = ServedFrom
  <2>1. LivePage = PageThere BY <1>1, NoTrial DEF Working
  <2>2. Backend \in Unit BY DeployAssumption DEF DeployAssumption
  <2> QED BY <1>1, <2>1, <2>2 DEF LiveUnit, LiveOps, PageThere, LiveFrom, ServedFrom
<1>4. restart = MayGo(w) BY <1>2, <1>3, OrderIs DEF MayGo
<1>5. \A u \in w.units : u \in restart \/ Contract!Newer(LiveUnit[u], w)
  BY <1>1, <1>2, <1>3, OrderIs DEF Diverged
<1>6. swap <=> PageGoes(w) BY <1>3, OrderIs DEF AsksPage, PageGoes, Contract!PageAlone
<1>7. Contract!PageAlone(w) => swap \/ PageMeets(w)
  BY <1>1, <1>3, OrderIs DEF Diverged, AsksPage, PageMeets, Contract!PageAlone
<1>8. AsksOps(w) <=> OpsGo(w)
  BY <1>2, <1>3, OrderIs DEF AsksOps, OpsGo, Contract!Old
<1> HIDE DEF restart, swap
<1>9. /\ d.restart = restart /\ d.swap = swap /\ d.ops = AsksOps(w) /\ d.want = dep[k].want
      /\ d.pc = (IF restart # {} \/ swap \/ AsksOps(w) THEN "prepare" ELSE "tell")
      /\ d.todo = dep[k].todo
  BY <1>1 DEF Dep
<1>10. dep' = [dep EXCEPT ![k] = d] BY DEF Select, restart, swap
<1> HIDE DEF d
<1>11. dep'[k] = d /\ Elsewhere(k) BY <1>1, <1>10 DEF Elsewhere
<1>12. SameLive /\ CStep BY <1>1, <1>9, <1>11, QuietLive
<1>13. /\ MayGo(w)' = MayGo(w) /\ PageGoes(w)' = PageGoes(w) /\ OpsGo(w)' = OpsGo(w)
       /\ PageMeets(w)' = PageMeets(w) /\ LiveUnit' = LiveUnit
       /\ \A u : UnitMeets(u, w)' = UnitMeets(u, w) /\ w' = w
  BY <1>9, <1>11, <1>12, LivePredicates
<1> HIDE DEF w
<1>14. ChoiceOf(k)'
  <2>1. d.pc \in {"prepare", "tell"} BY <1>9
  <2>2. dep'[k].want = w BY <1>9, <1>11 DEF w
  <2> QED BY <1>4, <1>5, <1>6, <1>7, <1>8, <1>9, <1>11, <1>13, <2>1, <2>2 DEF ChoiceOf, Swapping
<1>15. ThereOf(k)'
  <2>1. CASE d.pc = "prepare" BY <1>11, <2>1 DEF ThereOf, Succeeds
  <2>2. CASE d.pc = "tell"
    <3>1. restart = {} /\ ~swap BY <1>9, <2>2
    <3>2. \A u \in w.units : UnitMeets(u, w) BY <1>5, <3>1 DEF UnitMeets
    <3>3. Contract!PageAlone(w) => PageMeets(w) BY <1>7, <3>1
    <3>4. dep'[k].want = w BY <1>9, <1>11 DEF w
    <3> QED BY <1>11, <1>13, <2>2, <3>2, <3>3, <3>4 DEF ThereOf
  <2> QED BY <1>9, <2>1, <2>2
<1>16. SwapOf(k)' /\ BackOf(k)' BY <1>9, <1>11 DEF SwapOf, BackOf, Swapping, Undoing
<1>17. JobOf(k)' BY <1>1, <1>9, <1>11 DEF JobOf, CInv, CInvOf, QuietHost
<1> QED
  BY <1>1, <1>9, <1>11, <1>12, <1>14, <1>15, <1>16, <1>17, HolderKeeps DEF CInvOf, QuietHost, Working

(* The release is built; the last look before the host is touched. *)
LEMMA Readies ==
  ASSUME IInv, IInv', CInv, NEW k \in Deploys, Prepare(k) \/ Gate(k)
  PROVE  CInv' /\ CStep
<1> DEFINE w == dep[k].want
<1>1. dep[k].pc \in {"prepare", "gate"} /\ QuietHost /\ dep \in [Deploys -> Dep] /\ ChoiceOf(k)
  BY DEF Prepare, Gate, At, QuietHost, host, IInv, TypeOK, CInv, CInvOf
<1>2. PICK pc \in {"gate", "journal", "page", "ops", "prune"} :
        /\ Goes(k, pc)
        /\ pc = "gate" => dep[k].restart # {} \/ dep[k].swap
        /\ pc = "page" => dep[k].swap /\ dep[k].restart = {}
        /\ pc \in {"ops", "prune"} => ~dep[k].swap /\ dep[k].restart = {}
        /\ pc = "ops" => dep[k].ops
  <2>1. CASE Prepare(k) BY <2>1 DEF Prepare, AfterUnits, AfterSwaps
  <2>2. CASE Gate(k) BY <1>1, <2>2 DEF Gate, ChoiceOf, At
  <2> QED BY <2>1, <2>2
<1>3. /\ Elsewhere(k) /\ SameChoice(k) /\ dep'[k].pc = pc
      /\ dep'[k].result = dep[k].result BY <1>1, <1>2, GoesOn
<1>4. SameLive /\ CStep BY <1>1, <1>2, <1>3, QuietLive DEF SameChoice
<1>5. /\ MayGo(w)' = MayGo(w) /\ PageGoes(w)' = PageGoes(w) /\ OpsGo(w)' = OpsGo(w)
      /\ PageMeets(w)' = PageMeets(w) /\ LiveUnit' = LiveUnit
      /\ \A u : UnitMeets(u, w)' = UnitMeets(u, w) /\ w' = w
  BY <1>3, <1>4, LivePredicates DEF SameChoice
<1>6. ChoiceOf(k)' BY <1>1, <1>2, <1>3, <1>5 DEF ChoiceOf, SameChoice, Swapping
<1>7. ThereOf(k)'
  <2>1. /\ \A u \in w.units : u \in dep[k].restart \/ Contract!Newer(LiveUnit[u], w)
        /\ Contract!PageAlone(w) => dep[k].swap \/ PageMeets(w)
        /\ dep[k].swap => PageGoes(w)
        /\ dep[k].ops <=> OpsGo(w)
    BY <1>1 DEF ChoiceOf
  <2>2. dep[k].restart = {} => \A u \in w.units : UnitMeets(u, w) BY <2>1 DEF UnitMeets
  <2>3. /\ dep'[k].want = w /\ dep'[k].restart = dep[k].restart
        /\ dep'[k].swap = dep[k].swap /\ dep'[k].ops = dep[k].ops
    BY <1>3 DEF SameChoice
  <2> HIDE DEF w
  <2> QED BY <1>2, <1>3, <1>5, <2>1, <2>2, <2>3 DEF ThereOf, Succeeds
<1>8. SwapOf(k)' /\ BackOf(k)' BY <1>2, <1>3 DEF SwapOf, BackOf, Swapping, Undoing
<1>9. JobOf(k)' BY <1>1, <1>2, <1>3 DEF JobOf, CInv, CInvOf, QuietHost
<1> QED
  BY <1>1, <1>2, <1>3, <1>4, <1>6, <1>7, <1>8, <1>9, HolderKeeps DEF CInvOf, QuietHost, Working

(* The steps that only systemd and the processes see, and the pruning. *)
LEMMA Runs ==
  ASSUME IInv, IInv', CInv, NEW k \in Deploys,
         \/ Reload(k) \/ Restart(k) \/ UndoReload(k) \/ UndoReloadFails(k)
         \/ UndoRestart(k) \/ UndoRestartFails(k) \/ Prune(k)
  PROVE  CInv' /\ CStep
<1> DEFINE w == dep[k].want
<1>1. /\ QuietHost /\ dep \in [Deploys -> Dep] /\ ChoiceOf(k) /\ SwapOf(k) /\ BackOf(k)
      /\ ThereOf(k) /\ JobOf(k)
  BY DEF Reload, Restart, UndoReload, UndoReloadFails, UndoRestart, UndoRestartFails, Prune,
         QuietHost, host, IInv, TypeOK, CInv, CInvOf
<1>2. PICK pc \in {"restart", "check", "undo restart", "tell"} :
        /\ Elsewhere(k) /\ SameChoice(k) /\ dep'[k].pc = pc /\ dep'[k].result = dep[k].result
        /\ dep[k].pc \in {"reload", "restart", "undo reload", "undo restart", "prune"}
        /\ pc \in {"restart", "check"} => dep[k].pc \in {"reload", "restart"}
        /\ pc = "undo restart" => dep[k].pc \in {"undo reload", "undo restart"}
        /\ pc = "tell" => dep[k].pc = "prune"
  <2> DEFINE from == dep[k].pc
             Moves(pc, todo) == GoesWith(k, pc, todo) \/ Troubled(k, pc, todo)
  <2>1. CASE Reload(k)
    <3>1. from = "reload" /\ \E todo : Moves("restart", todo) BY <2>1 DEF Reload, At
    <3> QED BY <1>1, <3>1, TodoOn
  <2>2. CASE Restart(k)
    <3>1. from = "restart" /\ \E pc \in {"restart", "check"} : \E todo : Moves(pc, todo)
      BY <2>2 DEF Restart, At
    <3>2. PICK pc \in {"restart", "check"} : \E todo : Moves(pc, todo) BY <3>1
    <3> QED BY <1>1, <3>1, <3>2, TodoOn
  <2>3. CASE UndoReload(k) \/ UndoReloadFails(k)
    <3>1. from = "undo reload" /\ \E todo : Moves("undo restart", todo)
      BY <2>3 DEF UndoReload, UndoReloadFails, At
    <3> QED BY <1>1, <3>1, TodoOn
  <2>4. CASE UndoRestart(k) \/ UndoRestartFails(k)
    <3>1. from = "undo restart" /\ \E todo : Moves("undo restart", todo)
      BY <2>4 DEF UndoRestart, UndoRestartFails, At
    <3> QED BY <1>1, <3>1, TodoOn
  <2>5. CASE Prune(k) BY <1>1, <2>5, GoesOn DEF Prune, At
  <2> QED BY <2>1, <2>2, <2>3, <2>4, <2>5
<1>3. SameLive /\ CStep BY <1>1, <1>2, QuietLive DEF SameChoice
<1>4. ChoiceOf(k)'
  <2>1. CASE pc \in {"restart", "check"} BY <1>1, <1>2, <1>3, <2>1, ChoiceStays DEF Swapping
  <2>2. CASE pc \notin {"restart", "check"} BY <1>2, <2>2 DEF ChoiceOf, Swapping
  <2> QED BY <2>1, <2>2
<1>5. SwapOf(k)' BY <1>1, <1>2 DEF SwapOf, SameChoice, QuietHost, Swapping
<1>6. BackOf(k)' BY <1>1, <1>2 DEF BackOf, QuietHost, Undoing
<1>7. ThereOf(k)'
  <2>1. /\ PageMeets(w)' = PageMeets(w) /\ w' = w
        /\ \A u : UnitMeets(u, w)' = UnitMeets(u, w)
    BY <1>2, <1>3, LivePredicates DEF SameChoice
  <2>2. dep'[k].want = w BY <1>2 DEF SameChoice
  <2>3. pc = "tell" => /\ \A u \in w.units : UnitMeets(u, w)
                       /\ Contract!PageAlone(w) => PageMeets(w)
    BY <1>1, <1>2 DEF ThereOf
  <2> HIDE DEF w
  <2> QED BY <1>2, <2>1, <2>2, <2>3 DEF ThereOf, Succeeds
<1>8. JobOf(k)' BY <1>1, <1>2 DEF JobOf, QuietHost
<1> QED
  BY <1>1, <1>2, <1>3, <1>4, <1>5, <1>6, <1>7, <1>8, HolderKeeps
     DEF CInvOf, QuietHost, Working, Swapping, Undoing

(* The deploy at work changes the host, and leaves what the host is to run. *)
LEMMA HostLive ==
  ASSUME IInv, IInv', NEW k \in Deploys, dep[k].pc \in Working \ {"trial"}, Elsewhere(k),
         dep'[k].pc # "trial", dep'[k].want = dep[k].want, job' = job,
         \A u \in Unit : LiveUnit'[u] = LiveUnit[u], PageThere' = PageThere, LiveOps' = LiveOps
  PROVE  SameLive /\ CStep
<1>1. LiveUnit' = LiveUnit BY DEF LiveUnit
<1>2. LivePage' = LivePage BY NoTrial, NoTrialNext
<1>3. SameLive BY <1>1, <1>2 DEF SameLive
<1> QED BY <1>3, Stutters DEF Elsewhere

LEMMA Writes == ASSUME IInv, IInv', CInv, NEW k \in Deploys, WriteJournal(k) PROVE CInv' /\ CStep
<1>1. /\ dep[k].pc = "journal" /\ dep \in [Deploys -> Dep] /\ ChoiceOf(k) /\ journal = None
      /\ page # Same /\ ops # Same /\ UNCHANGED <<file, page, ops, job, asker>>
  BY DeployAssumption
     DEF DeployAssumption, WriteJournal, At, IInv, TypeOK, CInv, CInvOf, StepsOf, DoingOf
<1>2. /\ Elsewhere(k) /\ SameChoice(k) /\ dep'[k].pc = "put"
  BY <1>1, GoesOn DEF WriteJournal
<1>3. /\ journal' # None /\ journal'.file = [u \in dep[k].restart |-> file[u]]
      /\ journal'.page = (IF Backend \in dep[k].restart THEN page ELSE Same)
      /\ journal'.ops = (IF dep[k].ops THEN ops ELSE Same)
  <2>1. journal' # None BY <1>2 DEF IInv, TypeOK, Swapping
  <2> QED BY <2>1 DEF WriteJournal
<1>4. SameLive /\ CStep
  <2>1. \A u \in Unit : LiveUnit'[u] = LiveUnit[u] BY <1>1, <1>3 DEF LiveUnit
  <2>2. PageThere' = PageThere BY <1>1, <1>3 DEF PageThere
  <2>3. LiveOps' = LiveOps BY <1>1, <1>3 DEF LiveOps
  <2> QED BY <1>1, <1>2, <2>1, <2>2, <2>3, HostLive DEF SameChoice, Working
<1>5. ChoiceOf(k)' BY <1>1, <1>2, <1>4, ChoiceStays DEF Swapping
<1>6. SwapOf(k)' /\ BackOf(k)' /\ ThereOf(k)'
  BY <1>1, <1>2, <1>3 DEF SwapOf, BackOf, ThereOf, Succeeds, SameChoice, Swapping, Undoing
<1>7. JobOf(k)' BY <1>1, <1>2 DEF JobOf, CInv, CInvOf
<1> QED BY <1>1, <1>2, <1>4, <1>5, <1>6, <1>7, HolderKeeps DEF CInvOf, Working

(* The ops link, the page link and the files are put down: the journal has
   what they were. *)
LEMMA Puts ==
  ASSUME IInv, IInv', CInv, NEW k \in Deploys, PutOps(k) \/ PutPage(k) \/ PutFile(k)
  PROVE  CInv' /\ CStep
<1>0. dep \in [Deploys -> Dep] BY DEF IInv, TypeOK
<1>1. /\ dep \in [Deploys -> Dep] /\ dep[k].pc \in {"put", "put page", "put files"}
      /\ ChoiceOf(k) /\ SwapOf(k) /\ journal # None /\ DOMAIN journal.file = dep[k].restart
      /\ dep[k].pc = "put files" => dep[k].todo \subseteq DOMAIN journal.file
      /\ UNCHANGED <<journal, job, asker>> /\ file \in [Unit -> Release]
  BY DEF PutOps, PutPage, PutFile, At, IInv, TypeOK, CInv, CInvOf, StepsOf, DoingOf, Swapping
<1>2. /\ journal.ops = Same <=> ~dep[k].ops
      /\ journal.page = Same <=> Backend \notin dep[k].restart
  BY <1>1 DEF SwapOf, Swapping
<1>3. CASE PutOps(k)
  <2>1. /\ Elsewhere(k) /\ SameChoice(k) /\ dep'[k].pc = "put page"
        /\ UNCHANGED <<file, page>>
        /\ ops' = (IF dep[k].ops THEN dep[k].want.sha ELSE ops)
    BY <1>1, <1>3, GoesOn DEF PutOps
  <2>2. SameLive /\ CStep
    <3>1. \A u \in Unit : LiveUnit'[u] = LiveUnit[u] BY <1>1, <2>1 DEF LiveUnit
    <3>2. PageThere' = PageThere BY <1>1, <2>1 DEF PageThere
    <3>3. LiveOps' = LiveOps BY <1>1, <1>2, <2>1 DEF LiveOps
    <3> QED BY <1>1, <2>1, <3>1, <3>2, <3>3, HostLive DEF SameChoice, Working, Swapping
  <2>3. ChoiceOf(k)' BY <1>1, <2>1, <2>2, ChoiceStays DEF Swapping
  <2>4. SwapOf(k)' /\ BackOf(k)' /\ ThereOf(k)'
    <3>1. SwapOf(k)' BY <1>1, <1>2, <2>1 DEF SwapOf, SameChoice, Swapping
    <3>2. BackOf(k)' /\ ThereOf(k)' BY <2>1 DEF BackOf, ThereOf, Succeeds, Undoing
    <3> QED BY <3>1, <3>2
  <2>5. JobOf(k)' BY <1>1, <2>1 DEF JobOf, CInv, CInvOf
  <2> QED BY <1>1, <2>1, <2>2, <2>3, <2>4, <2>5, HolderKeeps DEF CInvOf, Working, Swapping
<1>4. CASE PutPage(k)
  <2>1. /\ Elsewhere(k) /\ SameChoice(k) /\ dep'[k].pc = "put files"
        /\ dep'[k].todo = dep[k].restart /\ UNCHANGED <<file, ops>> /\ dep[k].pc = "put page"
        /\ page' = (IF Backend \in dep[k].restart THEN dep[k].want.sha ELSE page)
    <3>1. PICK pc, t : pc = "put files" /\ t = dep[k].restart /\ GoesWith(k, pc, t)
      BY <1>4 DEF PutPage
    <3>2. Elsewhere(k) /\ SameChoice(k) /\ dep'[k].pc = pc /\ dep'[k].todo = t
      <4>1. GoesWith(k, pc, t) BY <3>1
      <4> QED BY <1>0, <4>1, TodoOn
    <3> QED BY <1>4, <3>1, <3>2 DEF PutPage, At
  <2>2. SameLive /\ CStep
    <3>1. \A u \in Unit : LiveUnit'[u] = LiveUnit[u] BY <1>1, <2>1 DEF LiveUnit
    <3>2. PageThere' = PageThere BY <1>1, <1>2, <2>1 DEF PageThere
    <3>3. LiveOps' = LiveOps BY <1>1, <2>1 DEF LiveOps
    <3> QED BY <1>1, <2>1, <3>1, <3>2, <3>3, HostLive DEF SameChoice, Working, Swapping
  <2>3. ChoiceOf(k)' BY <1>1, <2>1, <2>2, ChoiceStays DEF Swapping
  <2>4. SwapOf(k)' /\ BackOf(k)' /\ ThereOf(k)'
    <3>1. SwapOf(k)' BY <1>1, <1>2, <2>1 DEF SwapOf, SameChoice, Swapping
    <3>2. BackOf(k)' /\ ThereOf(k)' BY <2>1 DEF BackOf, ThereOf, Succeeds, Undoing
    <3> QED BY <3>1, <3>2
  <2>5. JobOf(k)' BY <1>1, <2>1 DEF JobOf, CInv, CInvOf
  <2> QED BY <1>1, <2>1, <2>2, <2>3, <2>4, <2>5, HolderKeeps DEF CInvOf, Working, Swapping
<1>5. CASE PutFile(k)
  <2>1. PICK u \in dep[k].todo :
          /\ file' = [file EXCEPT ![u] = dep[k].want.sha]
          /\ GoesWith(k, IF dep[k].todo = {u} THEN "reload" ELSE "put files", dep[k].todo \ {u})
    BY <1>5 DEF PutFile
  <2>2. /\ Elsewhere(k) /\ SameChoice(k) /\ dep'[k].todo = dep[k].todo \ {u}
        /\ dep'[k].pc = (IF dep[k].todo = {u} THEN "reload" ELSE "put files")
    <3>1. PICK pc, t : /\ pc = (IF dep[k].todo = {u} THEN "reload" ELSE "put files")
                       /\ t = dep[k].todo \ {u} /\ GoesWith(k, pc, t)
      BY <2>1
    <3> QED BY <1>1, <3>1, TodoOn
  <2>3. UNCHANGED <<page, ops>> /\ dep[k].pc = "put files" BY <1>5 DEF PutFile, At
  <2>4. u \in DOMAIN journal.file /\ \A v \in Unit : v # u => file'[v] = file[v]
    BY <1>1, <2>1, <2>3
  <2>5. SameLive /\ CStep
    <3>1. \A v \in Unit : LiveUnit'[v] = LiveUnit[v] BY <1>1, <2>4 DEF LiveUnit
    <3>2. PageThere' = PageThere BY <1>1, <2>3 DEF PageThere
    <3>3. LiveOps' = LiveOps BY <1>1, <2>3 DEF LiveOps
    <3> QED BY <1>1, <2>2, <3>1, <3>2, <3>3, HostLive DEF SameChoice, Working, Swapping
  <2>6. ChoiceOf(k)' BY <1>1, <2>2, <2>5, ChoiceStays DEF Swapping
  <2>7. \A v \in dep[k].restart \ (dep[k].todo \ {u}) : file'[v] = dep[k].want.sha
    <3>1. dep[k].restart \subseteq Unit BY <1>1 DEF Dep
    <3>2. \A v \in dep[k].restart \ dep[k].todo : file[v] = dep[k].want.sha
      BY <1>1, <2>3 DEF SwapOf
    <3> QED BY <1>1, <2>1, <3>1, <3>2
  <2>8. SwapOf(k)'
    BY <1>1, <1>2, <2>2, <2>3, <2>7 DEF SwapOf, SameChoice, Swapping
  <2>9. BackOf(k)' /\ ThereOf(k)'
    BY <2>2 DEF BackOf, ThereOf, Succeeds, Undoing
  <2>10. JobOf(k)' BY <1>1, <2>2 DEF JobOf, CInv, CInvOf
  <2> QED BY <1>1, <2>2, <2>5, <2>6, <2>8, <2>9, <2>10, HolderKeeps DEF CInvOf, Working, Swapping
<1> QED BY <1>3, <1>4, <1>5

(* On the way back nothing is said of the choice, nor of what is there. *)
LEMMA BackStep ==
  ASSUME IInv, IInv', CInv, NEW k \in Deploys, dep[k].pc \in Undoing, Elsewhere(k), SameChoice(k),
         dep'[k].pc \in Undoing, SameLive, BackOf(k)', job' = job, asker' = asker
  PROVE  CInv' /\ CStep
<1>1. CStep BY Stutters DEF Elsewhere, SameChoice
<1>2. ChoiceOf(k)' /\ SwapOf(k)' /\ ThereOf(k)'
  BY DEF ChoiceOf, SwapOf, ThereOf, Succeeds, Swapping, Undoing
<1>3. JobOf(k)' BY DEF CInv, CInvOf, JobOf, Undoing
<1> QED BY <1>1, <1>2, <1>3, HolderKeeps DEF CInvOf, Working, Undoing

LEMMA Unputs ==
  ASSUME IInv, IInv', CInv, NEW k \in Deploys,
         UndoOps(k) \/ UndoPage(k) \/ UndoFile(k) \/ StopFails(k)
  PROVE  CInv' /\ CStep
<1>0. dep \in [Deploys -> Dep] /\ file \in [Unit -> Release] BY DEF IInv, TypeOK
<1>1. /\ dep[k].pc \in {"undo", "undo page", "undo files"} /\ BackOf(k) /\ journal # None
      /\ dep[k].pc = "undo files" => dep[k].todo \subseteq DOMAIN journal.file
      /\ UNCHANGED <<journal, job, asker>>
  BY DEF UndoOps, UndoPage, UndoFile, StopFails, At, IInv, TypeOK, CInv, CInvOf, StepsOf,
         UndoingOf, Undoing
<1>2. CASE UndoOps(k)
  <2>1. /\ Elsewhere(k) /\ SameChoice(k) /\ dep'[k].pc = "undo page" /\ UNCHANGED <<file, page>>
        /\ ops' = (IF journal.ops = Same THEN ops ELSE journal.ops)
    BY <1>0, <1>2, GoesOn DEF UndoOps
  <2>2. SameLive
    <3>1. \A u \in Unit : LiveUnit'[u] = LiveUnit[u] BY <1>1, <2>1 DEF LiveUnit
    <3>2. PageThere' = PageThere BY <1>1, <2>1 DEF PageThere
    <3>3. LiveOps' = LiveOps BY <1>1, <2>1 DEF LiveOps
    <3> QED BY <1>1, <2>1, <3>1, <3>2, <3>3, HostLive DEF SameChoice, Working, Undoing
  <2>3. BackOf(k)' BY <1>1, <2>1 DEF BackOf, Undoing
  <2> QED BY <1>1, <2>1, <2>2, <2>3, BackStep DEF Undoing
<1>3. CASE UndoPage(k)
  <2>1. /\ dep[k].pc = "undo page" /\ UNCHANGED <<file, ops>>
        /\ page' = (IF journal.page = Same THEN page ELSE journal.page)
    BY <1>3 DEF UndoPage, At
  <2>2. Elsewhere(k) /\ SameChoice(k) /\ dep'[k].pc = "undo files"
    <3>1. PICK pc, t : pc = "undo files" /\ GoesWith(k, pc, t) BY <1>3 DEF UndoPage
    <3>2. GoesWith(k, pc, t) BY <3>1
    <3> QED BY <1>0, <3>1, <3>2, TodoOn
  <2>3. SameLive
    <3>1. \A u \in Unit : LiveUnit'[u] = LiveUnit[u] BY <1>1, <2>1 DEF LiveUnit
    <3>2. PageThere' = PageThere BY <1>1, <2>1 DEF PageThere
    <3>3. LiveOps' = LiveOps BY <1>1, <2>1 DEF LiveOps
    <3> QED BY <1>1, <2>2, <3>1, <3>2, <3>3, HostLive DEF SameChoice, Working, Undoing
  <2>4. BackOf(k)' BY <1>1, <2>1, <2>2 DEF BackOf, Undoing
  <2> QED BY <1>1, <2>2, <2>3, <2>4, BackStep DEF Undoing
<1>4. CASE UndoFile(k) \/ StopFails(k)
  <2>1. dep[k].pc = "undo files" /\ UNCHANGED <<page, ops>>
    BY <1>4 DEF UndoFile, StopFails, At
  <2>2. PICK u \in dep[k].todo :
          /\ file' = [file EXCEPT ![u] = journal.file[u]]
          /\ \E pc, t : /\ pc = (IF dep[k].todo = {u} THEN "undo reload" ELSE "undo files")
                        /\ GoesWith(k, pc, t) \/ Troubled(k, pc, t)
    BY <1>4 DEF UndoFile, StopFails
  <2>3. /\ Elsewhere(k) /\ SameChoice(k)
        /\ dep'[k].pc = (IF dep[k].todo = {u} THEN "undo reload" ELSE "undo files")
    <3>1. PICK pc, t : /\ pc = (IF dep[k].todo = {u} THEN "undo reload" ELSE "undo files")
                       /\ GoesWith(k, pc, t) \/ Troubled(k, pc, t)
      BY <2>2
    <3>2. GoesWith(k, pc, t) \/ Troubled(k, pc, t) BY <3>1
    <3> QED BY <1>0, <3>1, <3>2, TodoOn
  <2>4. SameLive
    <3>1. u \in DOMAIN journal.file BY <1>1, <2>1
    <3>2. \A v \in Unit : v # u => file'[v] = file[v] BY <1>0, <2>2
    <3>3. \A v \in Unit : LiveUnit'[v] = LiveUnit[v] BY <1>1, <3>1, <3>2 DEF LiveUnit
    <3>4. PageThere' = PageThere BY <1>1, <2>1 DEF PageThere
    <3>5. LiveOps' = LiveOps BY <1>1, <2>1 DEF LiveOps
    <3> QED BY <1>1, <2>3, <3>3, <3>4, <3>5, HostLive DEF SameChoice, Working, Undoing
  <2>5. dep'[k].pc = "undo reload" => \A v \in DOMAIN journal'.file : file'[v] = journal'.file[v]
    BY DEF IInv, StepsOf, UndoingOf, PutBack
  <2>6. BackOf(k)' BY <1>1, <2>1, <2>3, <2>5 DEF BackOf, Undoing
  <2> QED BY <1>1, <2>3, <2>4, <2>6, BackStep DEF Undoing
<1> QED BY <1>2, <1>3, <1>4

(* With everything put back the journal goes, and nothing shows of it. *)
LEMMA UnputsAll == ASSUME IInv, IInv', CInv, NEW k \in Deploys, UndoEnds(k) PROVE CInv' /\ CStep
<1>0. dep \in [Deploys -> Dep] BY DEF IInv, TypeOK
<1>1. /\ dep[k].pc = "undo restart" /\ BackOf(k) /\ JobOf(k) /\ journal # None
      /\ UNCHANGED <<file, page, ops, job, asker>>
      /\ journal' = (IF dep[k].trouble THEN journal ELSE None)
  BY DEF UndoEnds, At, IInv, TypeOK, CInv, CInvOf, Undoing
<1>2. PICK pc \in {"tell", "leave", "look"} :
        Fails(k, pc) \/ (Goes(k, pc) /\ (pc = "tell" => dep[k].result = "failed"))
  BY DEF UndoEnds
<1>3. /\ Elsewhere(k) /\ SameChoice(k) /\ dep'[k].pc = pc
      /\ pc = "tell" => dep'[k].result = "failed"
  <2>1. CASE Fails(k, pc) BY <1>0, <2>1, FailsOn
  <2>2. CASE Goes(k, pc) /\ (pc = "tell" => dep[k].result = "failed") BY <1>0, <2>2, GoesOn
  <2> QED BY <1>2, <2>1, <2>2
<1>4. SameLive /\ CStep
  <2>1. /\ \A u \in DOMAIN journal.file : file[u] = journal.file[u]
        /\ journal.page # Same => page = journal.page
        /\ journal.ops # Same => ops = journal.ops
    BY <1>1 DEF BackOf, Undoing
  <2>2. \A u \in Unit : LiveUnit'[u] = LiveUnit[u] BY <1>1, <2>1 DEF LiveUnit
  <2>3. PageThere' = PageThere BY <1>1, <2>1 DEF PageThere
  <2>4. LiveOps' = LiveOps BY <1>1, <2>1 DEF LiveOps
  <2> QED BY <1>1, <1>3, <2>2, <2>3, <2>4, HostLive DEF SameChoice, Working, Undoing
<1>5. ChoiceOf(k)' /\ SwapOf(k)' /\ BackOf(k)' /\ ThereOf(k)'
  BY <1>3 DEF ChoiceOf, SwapOf, BackOf, ThereOf, Succeeds, Swapping, Undoing
<1>6. JobOf(k)' BY <1>1, <1>3 DEF JobOf
<1> QED BY <1>1, <1>3, <1>4, <1>5, <1>6, HolderKeeps DEF CInvOf, Working, Undoing

(* A page that moves alone is on trial. *)
LEMMA Tries == ASSUME IInv, IInv', CInv, NEW k \in Deploys, SwapPage(k) PROVE CInv' /\ CStep
<1> DEFINE w == dep[k].want
<1>0. dep \in [Deploys -> Dep] BY DEF IInv, TypeOK
<1>1. /\ dep[k].pc = "page" /\ ThereOf(k) /\ JobOf(k) /\ journal = None /\ page' = w.sha
      /\ UNCHANGED <<file, ops, journal, job, asker>>
  BY DEF SwapPage, At, IInv, CInv, CInvOf, StepsOf, DoingOf
<1>2. /\ Elsewhere(k) /\ SameChoice(k) /\ dep'[k].pc = "trial" /\ dep'[k].prev = page
  BY <1>0 DEF SwapPage, Elsewhere, SameChoice, Dep
<1>3. SameLive
  <2>1. LiveUnit' = LiveUnit /\ LiveOps' = LiveOps BY <1>1 DEF LiveUnit, LiveOps
  <2>2. LivePage = page BY <1>1, NoTrial DEF PageThere, Working
  <2>3. PageIs' BY PageLive, PTL
  <2>4. LivePage' = dep'[k].prev BY <1>2, <2>3 DEF PageIs, At
  <2> QED BY <1>2, <2>1, <2>2, <2>4 DEF SameLive
<1>4. CStep BY <1>1, <1>2, <1>3, Stutters DEF Elsewhere, SameChoice
<1>5. /\ PageGoes(w)' = PageGoes(w) /\ OpsGo(w)' = OpsGo(w) /\ w' = w
      /\ \A u : UnitMeets(u, w)' = UnitMeets(u, w)
  BY <1>2, <1>3, LivePredicates DEF SameChoice
<1>6. dep'[k].want = w BY <1>2 DEF SameChoice
<1>7. ThereOf(k)'
  <2>1. /\ \A u \in w.units : UnitMeets(u, w)
        /\ PageGoes(w) /\ (dep[k].ops /\ dep[k].restart = {} => OpsGo(w))
    BY <1>1 DEF ThereOf
  <2>2. dep'[k].ops = dep[k].ops /\ dep'[k].restart = dep[k].restart BY <1>2 DEF SameChoice
  <2> HIDE DEF w
  <2> QED BY <1>1, <1>2, <1>5, <1>6, <2>1, <2>2 DEF ThereOf, Succeeds
<1>8. ChoiceOf(k)' /\ SwapOf(k)' /\ BackOf(k)'
  BY <1>2 DEF ChoiceOf, SwapOf, BackOf, Swapping, Undoing
<1>9. JobOf(k)' BY <1>1, <1>2 DEF JobOf
<1> QED BY <1>1, <1>2, <1>4, <1>7, <1>8, <1>9, HolderKeeps DEF CInvOf, Working

LEMMA TriesInVain == ASSUME IInv, IInv', CInv, NEW k \in Deploys, PageFails(k) PROVE CInv' /\ CStep
<1>0. dep \in [Deploys -> Dep] BY DEF IInv, TypeOK
<1>1. /\ dep[k].pc = "trial" /\ JobOf(k) /\ journal = None /\ page' = dep[k].prev
      /\ UNCHANGED <<file, ops, journal, job, asker>>
  BY DEF PageFails, At, IInv, CInv, CInvOf, StepsOf, DoingOf
<1>2. Elsewhere(k) /\ SameChoice(k) /\ dep'[k].pc = "tell" /\ dep'[k].result = "failed"
  BY <1>0, FailsOn DEF PageFails
<1>3. SameLive
  <2>1. LiveUnit' = LiveUnit /\ LiveOps' = LiveOps BY <1>1 DEF LiveUnit, LiveOps
  <2>2. LivePage = dep[k].prev BY <1>1, PageLive DEF PageIs, At
  <2>3. LivePage' = PageThere' BY <1>1, <1>2, NoTrialNext DEF Working
  <2> QED BY <1>1, <2>1, <2>2, <2>3 DEF SameLive, PageThere
<1>4. CStep BY <1>1, <1>2, <1>3, Stutters DEF Elsewhere, SameChoice
<1>5. ChoiceOf(k)' /\ SwapOf(k)' /\ BackOf(k)' /\ ThereOf(k)'
  BY <1>2 DEF ChoiceOf, SwapOf, BackOf, ThereOf, Succeeds, Swapping, Undoing
<1>6. JobOf(k)' BY <1>1, <1>2 DEF JobOf
<1> QED BY <1>1, <1>2, <1>4, <1>5, <1>6, HolderKeeps DEF CInvOf, Working

(* Between the checks and the next step the journal goes: the contract's
   units, their page and the ops bundle change together. *)
LEMMA Installs == ASSUME IInv, IInv', CInv, NEW k \in Deploys, SwapEnds(k) PROVE CInv' /\ CStep
<1> DEFINE w == dep[k].want
           d == dep[k]
<1>0. dep \in [Deploys -> Dep] BY DEF IInv, TypeOK
<1>1. /\ d.pc = "check" /\ ChoiceOf(k) /\ SwapOf(k) /\ JobOf(k)
      /\ journal # None /\ DOMAIN journal.file = d.restart /\ journal' = None
      /\ UNCHANGED <<file, page, ops, job, asker>> /\ journal \in Journal
  BY DEF SwapEnds, At, IInv, TypeOK, CInv, CInvOf, StepsOf, DoingOf, Swapping
<1>2. d.restart # {} /\ d.restart \subseteq Unit BY <1>1, JournalKnown
<1>3. PICK pc \in {"page", "prune"} : Goes(k, pc) /\ (pc = "page" <=> d.swap)
  BY <1>2 DEF SwapEnds, AfterUnits, AfterSwaps
<1>4. Elsewhere(k) /\ SameChoice(k) /\ dep'[k].pc = pc BY <1>0, <1>3, GoesOn
<1>5. w # None /\ w.sha # None /\ w.units \subseteq Unit BY <1>1, WantIs
<1>6. /\ d.restart = MayGo(w)
      /\ \A u \in w.units : u \in d.restart \/ Contract!Newer(LiveUnit[u], w)
      /\ Contract!PageAlone(w) => d.swap \/ PageMeets(w)
      /\ d.swap => PageGoes(w)
      /\ d.ops <=> OpsGo(w)
  BY <1>1 DEF ChoiceOf, Swapping
<1>7. /\ \A u \in Unit : LiveUnit'[u] = IF u \in d.restart THEN w.sha ELSE LiveUnit[u]
      /\ LiveUnit' = [u \in Unit |-> IF u \in d.restart THEN w.sha ELSE LiveUnit[u]]
  <2>1. \A u \in d.restart : file[u] = w.sha BY <1>1 DEF SwapOf
  <2> QED BY <1>1, <1>2, <2>1 DEF LiveUnit
<1>8. LivePage' = IF Backend \in d.restart THEN w.sha ELSE LivePage
  <2>1. LivePage = PageThere BY <1>1, NoTrial DEF Working, Swapping
  <2>2. LivePage' = PageThere' BY <1>1, <1>3, <1>4, NoTrialNext DEF Working, Swapping
  <2>3. /\ journal.page = Same <=> Backend \notin d.restart
        /\ Backend \in d.restart => page = w.sha
    BY <1>1 DEF SwapOf, Swapping
  <2> QED BY <1>1, <2>1, <2>2, <2>3 DEF PageThere
<1>9. LiveOps' = IF d.ops THEN w.sha ELSE LiveOps
  <2>1. (journal.ops = Same <=> ~d.ops) /\ (d.ops => ops = w.sha) BY <1>1 DEF SwapOf, Swapping
  <2> QED BY <1>1, <2>1 DEF LiveOps
<1>10. Contract!PageAlone(w) => LiveFrom' = LiveFrom
  <2>1. Backend \in Unit BY DeployAssumption DEF DeployAssumption
  <2>2. Contract!PageAlone(w) => Backend \notin d.restart
    BY <1>6 DEF MayGo, Contract!PageAlone
  <2> QED BY <1>7, <1>8, <2>1, <2>2 DEF LiveFrom
<1>11. dep'[k].want = w /\ dep'[k].ops = d.ops /\ dep'[k].restart = d.restart /\ w' = w
  BY <1>4 DEF SameChoice
<1>12. CStep
  <2>1. Asked' = Asked /\ Asked[k] = w BY <1>4 DEF Asked, Elsewhere, SameChoice
  <2>2. Contract!Takes(w) = d.restart BY <1>6 DEF MayGo, Contract!Takes
  <2>3. Contract!TakesOps(w) <=> d.ops BY <1>6 DEF OpsGo, Contract!TakesOps
  <2>4. \A u \in w.units : Contract!Old(LiveUnit[u], w) \/ Contract!Newer(LiveUnit[u], w)
    BY <1>6 DEF MayGo
  <2>5. Contract!PageAlone(w) => Contract!Old(LiveFrom, w) \/ Contract!Newer(LiveFrom, w)
    BY <1>6 DEF PageGoes, PageMeets, Contract!Old
  <2>6. Contract!PageFrom = LiveFrom BY DEF Contract!PageFrom, LiveFrom
  <2> HIDE DEF w, d
  <2>7. Contract!Install(k)
    BY <1>1, <1>2, <1>5, <1>7, <1>8, <1>9, <2>1, <2>2, <2>3, <2>4, <2>5, <2>6
       DEF Contract!Install, Asked
  <2> QED BY <2>7 DEF CStep, Contract!Next
<1>13. ThereOf(k)'
  <2>1. \A u \in w.units : UnitMeets(u, w)'
    BY <1>5, <1>6, <1>7, <1>11 DEF UnitMeets
  <2>2. Contract!PageAlone(w) => (PageMeets(w)' <=> PageMeets(w))
    BY <1>10, <1>11 DEF PageMeets
  <2>3. PageGoes(w) => PageGoes(w)' BY <1>10, <1>11 DEF PageGoes
  <2> HIDE DEF w
  <2> QED BY <1>2, <1>3, <1>4, <1>6, <1>11, <2>1, <2>2, <2>3 DEF ThereOf, Succeeds
<1>14. ChoiceOf(k)' /\ SwapOf(k)' /\ BackOf(k)'
  BY <1>3, <1>4 DEF ChoiceOf, SwapOf, BackOf, Swapping, Undoing
<1>15. JobOf(k)' BY <1>1, <1>3, <1>4 DEF JobOf
<1> QED BY <1>1, <1>3, <1>4, <1>12, <1>13, <1>14, <1>15, HolderKeeps DEF CInvOf, Working, Swapping

(* The page on trial becomes the one to serve: when it answers, and when its
   deploy is killed before. *)
LEMMA TrialCounts ==
  ASSUME IInv, CInv, NEW k \in Deploys, dep[k].pc = "trial",
         \A j \in Deploys : dep'[j].want = dep[j].want, UNCHANGED <<file, page, ops, journal, job>>,
         LivePage' = PageThere'
  PROVE  /\ CStep /\ LiveUnit' = LiveUnit /\ LiveOps' = LiveOps
         /\ LivePage' = dep[k].want.sha
<1> DEFINE w == dep[k].want
<1>1. journal = None /\ ThereOf(k) BY DEF IInv, CInv, CInvOf, StepsOf, DoingOf
<1>2. PageGoes(w) /\ page = w.sha BY <1>1 DEF ThereOf
<1>3. LiveUnit' = LiveUnit /\ LiveOps' = LiveOps BY DEF LiveUnit, LiveOps
<1>4. LivePage' = w.sha BY <1>1, <1>2 DEF PageThere
<1>5. Asked' = Asked /\ Asked[k] = w /\ w # None BY WantIs DEF Asked
<1>6. Contract!PageAlone(w) /\ Contract!Old(Contract!PageFrom, w)
  BY <1>2 DEF PageGoes, LiveFrom, Contract!PageFrom
<1> HIDE DEF w
<1>7. Contract!SwapPage(k) BY <1>3, <1>4, <1>5, <1>6 DEF Contract!SwapPage, Asked
<1> USE DEF w
<1> QED BY <1>3, <1>4, <1>7 DEF CStep, Contract!Next

LEMMA Answers == ASSUME IInv, IInv', CInv, NEW k \in Deploys, PageAnswers(k) PROVE CInv' /\ CStep
<1> DEFINE w == dep[k].want
<1>0. dep \in [Deploys -> Dep] BY DEF IInv, TypeOK
<1>1. /\ dep[k].pc = "trial" /\ ThereOf(k) /\ JobOf(k)
      /\ UNCHANGED <<file, page, ops, journal, job, asker>>
  BY DEF PageAnswers, At, CInv, CInvOf, host
<1>2. PICK pc \in {"ops", "prune"} :
        Goes(k, pc) /\ (pc = "ops" => dep[k].ops /\ dep[k].restart = {})
  BY DEF PageAnswers, AfterSwaps
<1>3. Elsewhere(k) /\ SameChoice(k) /\ dep'[k].pc = pc BY <1>0, <1>2, GoesOn
<1>4. LivePage' = PageThere' BY <1>1, <1>2, <1>3, NoTrialNext DEF Working
<1>5. CStep /\ LiveUnit' = LiveUnit /\ LiveOps' = LiveOps /\ LivePage' = w.sha
  BY <1>1, <1>3, <1>4, TrialCounts DEF Elsewhere, SameChoice
<1>6. w.sha # None BY <1>1, WantIs
<1>7. dep'[k].want = w /\ w' = w BY <1>3 DEF SameChoice
<1>8. ThereOf(k)'
  <2>1. /\ \A u \in w.units : UnitMeets(u, w)
        /\ dep[k].ops /\ dep[k].restart = {} => OpsGo(w)
    BY <1>1 DEF ThereOf
  <2>2. (\A u \in w.units : UnitMeets(u, w)') /\ (OpsGo(w)' <=> OpsGo(w))
    BY <1>5, <1>7, <2>1 DEF UnitMeets, OpsGo
  <2>3. PageMeets(w)' BY <1>5, <1>6, <1>7 DEF PageMeets, LiveFrom
  <2> HIDE DEF w
  <2> QED BY <1>2, <1>3, <1>7, <2>1, <2>2, <2>3 DEF ThereOf, Succeeds
<1>9. ChoiceOf(k)' /\ SwapOf(k)' /\ BackOf(k)'
  BY <1>2, <1>3 DEF ChoiceOf, SwapOf, BackOf, Swapping, Undoing
<1>10. JobOf(k)' BY <1>1, <1>2, <1>3 DEF JobOf
<1> QED BY <1>1, <1>2, <1>3, <1>5, <1>8, <1>9, <1>10, HolderKeeps DEF CInvOf, Working

LEMMA InstallsOps == ASSUME IInv, IInv', CInv, NEW k \in Deploys, InstallOps(k) PROVE CInv' /\ CStep
<1> DEFINE w == dep[k].want
<1>0. dep \in [Deploys -> Dep] BY DEF IInv, TypeOK
<1>1. /\ dep[k].pc = "ops" /\ ThereOf(k) /\ JobOf(k) /\ journal = None /\ ops' = w.sha
      /\ UNCHANGED <<file, page, journal, job, asker>>
  BY DEF InstallOps, At, IInv, CInv, CInvOf, StepsOf, DoingOf
<1>2. Elsewhere(k) /\ SameChoice(k) /\ dep'[k].pc = "prune" BY <1>0, GoesOn DEF InstallOps
<1>3. /\ OpsGo(w) /\ \A u \in w.units : UnitMeets(u, w)
      /\ Contract!PageAlone(w) => PageMeets(w)
  BY <1>1 DEF ThereOf
<1>4. LiveUnit' = LiveUnit /\ LivePage' = LivePage /\ LiveOps' = w.sha
  <2>1. LivePage = PageThere BY <1>1, NoTrial DEF Working
  <2>2. LivePage' = PageThere' BY <1>1, <1>2, NoTrialNext DEF Working
  <2> QED BY <1>1, <2>1, <2>2 DEF LiveUnit, LiveOps, PageThere
<1>5. dep'[k].want = w /\ w' = w BY <1>2 DEF SameChoice
<1>6. CStep
  <2>1. Asked' = Asked /\ Asked[k] = w /\ w # None
    BY <1>1, <1>2, WantIs DEF Asked, Elsewhere, SameChoice
  <2>2. Contract!TakesOps(w) BY <1>3 DEF OpsGo, Contract!TakesOps
  <2> HIDE DEF w
  <2>3. Contract!InstallOps(k) BY <1>1, <1>4, <2>1, <2>2 DEF Contract!InstallOps, Asked
  <2> QED BY <2>3 DEF CStep, Contract!Next
<1>7. ThereOf(k)'
  <2>1. \A u \in w.units : UnitMeets(u, w)' BY <1>3, <1>4, <1>5 DEF UnitMeets
  <2>2. Contract!PageAlone(w) => PageMeets(w)' BY <1>3, <1>4, <1>5 DEF PageMeets, LiveFrom
  <2> HIDE DEF w
  <2> QED BY <1>2, <1>5, <2>1, <2>2 DEF ThereOf, Succeeds
<1>8. ChoiceOf(k)' /\ SwapOf(k)' /\ BackOf(k)'
  BY <1>2 DEF ChoiceOf, SwapOf, BackOf, Swapping, Undoing
<1>9. JobOf(k)' BY <1>1, <1>2 DEF JobOf
<1> QED BY <1>1, <1>2, <1>6, <1>7, <1>8, <1>9, HolderKeeps DEF CInvOf, Working

(* A result is told under the lock, of what is there. *)
LEMMA Tells == ASSUME IInv, IInv', CInv, NEW k \in Deploys, Tell(k) PROVE CInv' /\ CStep
<1> DEFINE w == dep[k].want
<1>0. dep \in [Deploys -> Dep] /\ job \in [Deploys -> {"none", "running", "succeeded", "failed"}]
  BY DEF IInv, TypeOK
<1>1. /\ dep[k].pc = "tell" /\ ThereOf(k) /\ JobOf(k)
      /\ job' = [job EXCEPT ![k] = dep[k].result]
      /\ UNCHANGED <<file, page, ops, journal, asker>>
  BY DEF Tell, At, CInv, CInvOf, host
<1>2. Elsewhere(k) /\ SameChoice(k) /\ dep'[k].pc = "leave" BY <1>0, GoesOn DEF Tell
<1>3. SameLive BY <1>1, <1>2, LiveStays
<1>4. CStep
  <2>1. Asked' = Asked /\ Asked[k] = w BY <1>2 DEF Asked, Elsewhere, SameChoice
  <2>2. job[k] = "running" BY <1>1 DEF JobOf
  <2>3. dep[k].result \in {"succeeded", "failed"} BY <1>0 DEF Dep
  <2>4. dep[k].result = "succeeded" => Contract!IsThere(w)
    BY <1>1 DEF ThereOf, Succeeds, UnitMeets, PageMeets, LiveFrom, Contract!IsThere, Contract!PageFrom
  <2> HIDE DEF w
  <2>5. Contract!Tell(k) BY <1>1, <1>3, <2>1, <2>2, <2>3, <2>4 DEF Contract!Tell, Asked, SameLive
  <2> QED BY <2>5 DEF CStep, Contract!Next
<1>5. CInvOf(k)'
  BY <1>2 DEF CInvOf, ChoiceOf, SwapOf, BackOf, ThereOf, Succeeds, JobOf, Swapping, Undoing
<1>6. \A j \in Deploys \ {k} : job'[j] = job[j] BY <1>0, <1>1
<1> QED BY <1>1, <1>2, <1>4, <1>5, <1>6, HolderKeeps DEF Working

(* A step of one deploy that leaves the host alone. *)
LEMMA AwayKeeps ==
  ASSUME IInv, CInv, NEW k \in Deploys, Elsewhere(k), UNCHANGED <<file, page, ops, journal, asker>>,
         dep[k].pc \notin {"done", "dead"}, dep'[k].pc # "new", dep[k].pc \in Working \/ SameLive,
         \A j \in Deploys \ {k} : job'[j] = job[j], CInvOf(k)'
  PROVE  CInv'
<1>1. ASSUME NEW j \in Deploys \ {k} PROVE CInvOf(j)'
  <2>1. dep[k].pc \in Working => dep[j].pc \notin Working BY Alone
  <2> QED BY <2>1, OtherOf DEF CInv, Elsewhere
<1>2. AskerInv'
  <2> SUFFICES ASSUME asker # None
               PROVE  /\ dep'[asker.of].pc # "new"
                      /\ asker.gone => dep'[asker.of].pc \in {"done", "dead"}
    BY DEF AskerInv
  <2>1. asker.of \in Deploys BY DEF IInv, TypeOK
  <2>2. CASE asker.of = k BY <2>2 DEF CInv, AskerInv
  <2>3. CASE asker.of # k BY <2>1, <2>3 DEF CInv, AskerInv, Elsewhere
  <2> QED BY <2>2, <2>3
<1> QED BY <1>1, <1>2 DEF CInv

(* Where nothing is said of a deploy but that its result is open. *)
LEMMA Apart ==
  ASSUME NEW k \in Deploys, dep'[k].pc \in {"accept", "pid", "end", "done", "dead"},
         dep'[k].pc \in {"accept", "pid"} => job'[k] = "running"
  PROVE  CInvOf(k)'
BY DEF CInvOf, ChoiceOf, SwapOf, BackOf, ThereOf, Succeeds, JobOf, Swapping, Undoing

LEMMA Calls == ASSUME IInv, IInv', CInv, NEW k \in Deploys, Call(k) PROVE CInv' /\ CStep
<1>1. PICK w \in Wants : dep' = [dep EXCEPT ![k].pc = "accept", ![k].want = w]
  BY DEF Call
<1>2. /\ dep[k].pc = "new" /\ job' = [job EXCEPT ![k] = "running"]
      /\ UNCHANGED <<file, page, ops, journal, asker>>
      /\ dep \in [Deploys -> Dep] /\ job \in [Deploys -> {"none", "running", "succeeded", "failed"}]
  BY DEF Call, At, host, IInv, TypeOK
<1>3. Elsewhere(k) /\ dep'[k].pc = "accept" /\ dep'[k].want = w
  BY <1>1, <1>2 DEF Elsewhere, Dep
<1>4. dep[k].want = None /\ job[k] = "none" BY <1>2 DEF CInv, CInvOf, JobOf
<1>5. SameLive BY <1>2, <1>3, LiveStays
<1>6. CStep
  <2>1. Asked[k] = None /\ Asked' = [Asked EXCEPT ![k] = w]
    BY <1>3, <1>4 DEF Asked, Elsewhere
  <2>2. Contract!Ask(k) BY <1>2, <1>5, <2>1 DEF Contract!Ask, Asked, SameLive
  <2> QED BY <2>2 DEF CStep, Contract!Next
<1>7. CInvOf(k)' BY <1>2, <1>3, Apart
<1> QED BY <1>2, <1>3, <1>5, <1>6, <1>7, AwayKeeps

LEMMA ComesOn ==
  ASSUME IInv, IInv', CInv, NEW k \in Deploys, NotAccepted(k) \/ KernelLock(k)
  PROVE  CInv' /\ CStep
<1>1. /\ dep[k].pc = "accept" /\ UNCHANGED <<file, page, ops, journal, asker, job>>
      /\ dep \in [Deploys -> Dep]
  BY DEF NotAccepted, KernelLock, At, host, IInv, TypeOK
<1>2. Elsewhere(k) /\ SameChoice(k) /\ dep'[k].pc \in {"end", "pid"}
  BY <1>1, GoesOn, FailsOn DEF NotAccepted, KernelLock
<1>3. SameLive BY <1>1, <1>2, LiveStays
<1>4. CStep BY <1>1, <1>2, <1>3, Stutters DEF Elsewhere, SameChoice
<1>5. CInvOf(k)'
  <2>1. job[k] = "running" BY <1>1 DEF CInv, CInvOf, JobOf
  <2> QED BY <1>1, <1>2, <2>1, Apart
<1> QED BY <1>1, <1>2, <1>3, <1>4, <1>5, AwayKeeps

LEMMA Failing ==
  ASSUME NEW k \in Deploys, SameLive, Asked' = Asked, job[k] = "running",
         job' = [job EXCEPT ![k] = "failed"]
  PROVE  CStep
<1>1. Contract!Tell(k) BY DEF Contract!Tell, Asked, SameLive
<1> QED BY <1>1 DEF CStep, Contract!Next

LEMMA Leaves ==
  ASSUME IInv, IInv', CInv, NEW k \in Deploys, EndRun(k) \/ Kill(k)
  PROVE  CInv' /\ CStep
<1>1. /\ dep[k].pc \notin {"new", "done", "dead"} /\ UNCHANGED <<file, page, ops, journal, asker>>
      /\ dep \in [Deploys -> Dep] /\ job \in [Deploys -> {"none", "running", "succeeded", "failed"}]
  BY DEF EndRun, Kill, At, Alive, host, IInv, TypeOK
<1>2. PICK pc \in {"done", "dead"} : dep' = [dep EXCEPT ![k] = Gone(k, pc)]
  BY DEF EndRun, Kill
<1>3. Gone(k, pc).pc = pc /\ Gone(k, pc).want = dep[k].want
  BY <1>1, GoneIs DEF Pcs
<1>4. Elsewhere(k) /\ dep'[k].pc = pc /\ dep'[k].want = dep[k].want
  BY <1>1, <1>2, <1>3 DEF Elsewhere
<1>5. CInvOf(k)' BY <1>4, Apart
<1>6. CASE dep[k].pc # "trial"
  <2>1. SameLive BY <1>1, <1>4, <1>6, LiveStays
  <2>2. Asked' = Asked BY <1>4 DEF Asked, Elsewhere
  <2>3. job' = job \/ (job[k] = "running" /\ job' = [job EXCEPT ![k] = "failed"])
    BY DEF EndRun, Kill
  <2>4. CStep
    <3>1. CASE job' = job BY <1>4, <2>1, <3>1, Stutters DEF Elsewhere
    <3>2. CASE job[k] = "running" /\ job' = [job EXCEPT ![k] = "failed"]
      BY <2>1, <2>2, <3>2, Failing
    <3> QED BY <2>3, <3>1, <3>2
  <2>5. \A j \in Deploys \ {k} : job'[j] = job[j] BY <1>1, <2>3
  <2> QED BY <1>1, <1>4, <1>5, <2>1, <2>4, <2>5, AwayKeeps
<1>7. CASE dep[k].pc = "trial"
  <2>1. job' = job BY <1>7 DEF EndRun, Kill, At
  <2>2. LivePage' = PageThere' BY <1>4, <1>7, NoTrialNext DEF Working
  <2>3. CStep BY <1>1, <1>4, <1>7, <2>1, <2>2, TrialCounts DEF Elsewhere
  <2> QED BY <1>1, <1>4, <1>5, <1>7, <2>1, <2>3, AwayKeeps DEF Working
<1> QED BY <1>6, <1>7

LEMMA HostStays ==
  ASSUME IInv, IInv', UNCHANGED <<file, page, ops, journal, dep>>
  PROVE  SameLive /\ Asked' = Asked
<1>1. LivePage' = LivePage BY DEF LivePage, At
<1> QED BY <1>1 DEF SameLive, LiveUnit, LiveOps, Asked

LEMMA Asks ==
  ASSUME IInv, IInv', CInv, (\E k \in Deploys : AskRuns(k)) \/ AskUnit \/ AskEnds
  PROVE  CInv' /\ CStep
<1>1. UNCHANGED <<file, page, ops, journal, dep>> BY DEF AskRuns, AskUnit, AskEnds, host
<1>2. SameLive /\ Asked' = Asked BY <1>1, HostStays
<1>3. /\ asker # None => asker.of \in Deploys
      /\ job \in [Deploys -> {"none", "running", "succeeded", "failed"}] BY DEF IInv, TypeOK
<1>4. CASE \E k \in Deploys : AskRuns(k)
  <2>1. PICK k \in Deploys : /\ job[k] = "running" /\ job' = job
                             /\ asker' = [of |-> k, gone |-> FALSE]
    BY <1>4 DEF AskRuns
  <2>2. dep[k].pc # "new" BY <2>1 DEF CInv, CInvOf, JobOf
  <2>3. AskerInv' BY <1>1, <2>1, <2>2 DEF AskerInv
  <2>4. ASSUME NEW j \in Deploys PROVE CInvOf(j)' BY <1>1, <1>2, <2>1, OtherOf DEF CInv
  <2> QED BY <1>1, <1>2, <2>1, <2>3, <2>4, Stutters DEF CInv
<1>5. CASE AskUnit
  <2>1. AskerInv'
    BY <1>1, <1>5, <1>3 DEF AskUnit, CInv, AskerInv, Alive, IInv, TypeOK
  <2>2. job' = job BY <1>5 DEF AskUnit
  <2>3. ASSUME NEW j \in Deploys PROVE CInvOf(j)' BY <1>1, <1>2, <2>2, OtherOf DEF CInv
  <2> QED BY <1>1, <1>2, <2>1, <2>2, <2>3, Stutters DEF CInv
<1>6. CASE AskEnds
  <2> DEFINE k == asker.of
  <2>1. /\ k \in Deploys /\ dep[k].pc \in {"done", "dead"} /\ asker' = None
        /\ job' = [job EXCEPT ![k] = IF @ = "running" THEN "failed" ELSE @]
    BY <1>3, <1>6 DEF AskEnds, CInv, AskerInv
  <2> HIDE DEF k
  <2>2. AskerInv' BY <2>1 DEF AskerInv
  <2>3. ASSUME NEW j \in Deploys PROVE CInvOf(j)'
    <3>1. CASE j = k BY <1>1, <2>1, <3>1, Apart
    <3>2. CASE j # k
      <4>1. job'[j] = job[j] BY <1>3, <2>1, <3>2
      <4> QED BY <1>1, <1>2, <4>1, OtherOf DEF CInv
    <3> QED BY <3>1, <3>2
  <2>4. CStep
    <3>1. CASE job[k] = "running"
      <4>1. job' = [job EXCEPT ![k] = "failed"] BY <1>3, <2>1, <3>1
      <4>2. PICK i \in Deploys : i = k BY <2>1
      <4> QED BY <1>2, <3>1, <4>1, <4>2, Failing
    <3>2. CASE job[k] # "running"
      <4>1. job' = job BY <1>3, <2>1, <3>2
      <4> QED BY <1>1, <1>2, <4>1, Stutters
    <3> QED BY <3>1, <3>2
  <2> QED BY <2>2, <2>3, <2>4 DEF CInv
<1> QED BY <1>4, <1>5, <1>6

LEMMA Reboots == ASSUME IInv, IInv', CInv, Reboot PROVE CInv' /\ CStep
<1>1. /\ UNCHANGED <<file, page, ops, journal, job>> /\ asker' = None /\ dep \in [Deploys -> Dep]
  BY DEF Reboot, IInv, TypeOK
<1>2. ASSUME NEW j \in Deploys
      PROVE  /\ dep'[j] = dep[j] \/ dep'[j].pc = "dead"
             /\ dep'[j].pc \in {"new", "done", "dead"}
             /\ dep'[j].want = dep[j].want
  <2>1. Gone(j, "dead").pc = "dead" /\ Gone(j, "dead").want = dep[j].want
    BY <1>1, GoneIs DEF Pcs
  <2>2. dep'[j] = IF Alive(j) THEN Gone(j, "dead") ELSE dep[j] BY DEF Reboot
  <2> QED BY <2>1, <2>2 DEF Alive
<1>3. CInv'
  <2>1. ASSUME NEW j \in Deploys PROVE CInvOf(j)'
    <3>1. CASE dep'[j] = dep[j]
      BY <1>1, <1>2, <3>1, OtherOf DEF CInv, Working, Swapping, Undoing
    <3>2. CASE dep'[j].pc = "dead" BY <3>2, Apart
    <3> QED BY <1>2, <3>1, <3>2
  <2> QED BY <1>1, <2>1 DEF CInv, AskerInv
<1>4. LivePage' = PageThere'
  <2>1. (\A j \in Deploys : ~At(j, "trial"))' BY <1>2 DEF At
  <2>2. PageIs' BY PageLive, PTL
  <2> QED BY <2>1, <2>2 DEF PageIs
<1>5. CStep
  <2>1. CASE \E k \in Deploys : At(k, "trial")
    <3>1. PICK k \in Deploys : dep[k].pc = "trial" BY <2>1 DEF At
    <3> QED BY <1>1, <1>2, <1>4, <3>1, TrialCounts
  <2>2. CASE \A k \in Deploys : ~At(k, "trial")
    <3>1. LivePage = PageThere BY <2>2, PageLive DEF PageIs
    <3>2. SameLive BY <1>1, <1>4, <3>1 DEF SameLive, PageThere, LiveUnit, LiveOps
    <3> QED BY <1>1, <1>2, <3>2, Stutters
  <2> QED BY <2>1, <2>2
<1> QED BY <1>3, <1>5

LEMMA StillHost ==
  ASSUME IInv, IInv', CInv, UnitRestarts \/ UNCHANGED vars
  PROVE  CInv' /\ CStep
<1>1. UNCHANGED <<file, page, ops, journal, dep, job, asker>> BY DEF UnitRestarts, vars
<1>2. SameLive /\ Asked' = Asked BY <1>1, HostStays
<1>3. ASSUME NEW j \in Deploys PROVE CInvOf(j)' BY <1>1, <1>2, OtherOf DEF CInv
<1>4. AskerInv' BY <1>1 DEF CInv, AskerInv
<1> QED BY <1>1, <1>2, <1>3, <1>4, Stutters DEF CInv

LEMMA ContractSteps == ASSUME IInv, IInv', CInv, [Next]_vars PROVE CInv' /\ CStep
<1>1. ASSUME NEW k \in Deploys, Step(k) PROVE CInv' /\ CStep
  <2>1. OwnPid(k) \/ SeeStale(k) \/ MoveAside(k) \/ FindsSwap(k) \/ RefusedToUndo(k)
          \/ SelectRefuses(k) \/ PrepareFails(k) \/ GateRefuses(k) \/ PutThrows(k)
          \/ RestartFails(k) \/ SwapFails(k) \/ Leave(k) => CInv' /\ CStep
    BY Outward
  <2>2. Select(k) \/ Prepare(k) \/ Gate(k) \/ WriteJournal(k) => CInv' /\ CStep
    BY Selects, Readies, Writes
  <2>3. PutOps(k) \/ PutPage(k) \/ PutFile(k) \/ UndoOps(k) \/ UndoPage(k) \/ UndoFile(k)
          \/ StopFails(k) => CInv' /\ CStep
    BY Puts, Unputs
  <2>4. Reload(k) \/ Restart(k) \/ UndoReload(k) \/ UndoReloadFails(k)
          \/ UndoRestart(k) \/ UndoRestartFails(k) \/ Prune(k) => CInv' /\ CStep
    BY Runs
  <2>5. SwapEnds(k) \/ UndoEnds(k) \/ InstallOps(k) \/ Tell(k) => CInv' /\ CStep
    BY Installs, UnputsAll, InstallsOps, Tells
  <2>6. SwapPage(k) \/ PageAnswers(k) \/ PageFails(k) => CInv' /\ CStep
    BY Tries, Answers, TriesInVain
  <2>7. NotAccepted(k) \/ KernelLock(k) \/ EndRun(k) => CInv' /\ CStep
    BY ComesOn, Leaves
  <2> QED BY <1>1, <2>1, <2>2, <2>3, <2>4, <2>5, <2>6, <2>7 DEF Step
<1>2. ASSUME NEW k \in Deploys, Call(k) \/ Kill(k) PROVE CInv' /\ CStep
  BY <1>2, Calls, Leaves
<1>3. CASE Reboot \/ UnitRestarts \/ UNCHANGED vars BY <1>3, Reboots, StillHost
<1>4. CASE (\E k \in Deploys : AskRuns(k)) \/ AskUnit \/ AskEnds BY <1>4, Asks
<1> QED BY <1>1, <1>2, <1>3, <1>4 DEF Next

(* The host implements the contract: units, page and ops bundle change     *)
(* together, to a commit that may replace what was there; who is told      *)
(* "succeeded" has what was asked for; each result is told once (deploy.ts:*)
(* swapUnits, order, finish), whoever deploys and whatever is killed,      *)
(* fails or reboots.                                                       *)
THEOREM ContractKept == Spec => KeepsContract
<1>1. Init => CInv /\ Contract!Init
  <2> SUFFICES ASSUME Init PROVE CInv /\ Contract!Init OBVIOUS
  <2>1. \A k \in Deploys : dep[k].pc = "new" /\ dep[k].want = None /\ job[k] = "none"
    BY DEF Init, New
  <2>2. asker = None /\ journal = None /\ file = Before /\ page = None /\ ops = None
        /\ job = [k \in Deploys |-> "none"]
    BY DEF Init
  <2>3. CInv
    BY <2>1, <2>2
       DEF CInv, AskerInv, CInvOf, ChoiceOf, SwapOf, BackOf, ThereOf, Succeeds, JobOf, Swapping, Undoing
  <2>4. LiveUnit = Before /\ LivePage = None /\ LiveOps = None
    BY <2>1, <2>2, DeployAssumption DEF LiveUnit, LivePage, LiveOps, At, DeployAssumption
  <2>5. Asked = [k \in Deploys |-> None] BY <2>1 DEF Asked
  <2>6. Contract!Init BY <2>2, <2>4, <2>5 DEF Contract!Init, Asked
  <2> QED BY <2>3, <2>6
<1>2. ASSUME IInv, IInv', CInv, [Next]_vars
      PROVE  CInv' /\ [Contract!Next]_<<Asked, LiveUnit, LivePage, LiveOps, job>>
  BY <1>2, ContractSteps DEF CStep
<1>3. Init => IInv BY Start
<1>4. IInv /\ [Next]_vars => IInv' BY Inductive
<1> QED BY <1>1, <1>2, <1>3, <1>4, PTL DEF Spec, KeepsContract, Contract!Spec, Asked
=============================================================================
