-------------------------- MODULE MCLifecycleLock --------------------------
(***************************************************************************)
(* LifecycleLock for TLC: two sessions, in catalog order.  Below, a        *)
(* comment of the code that some schedule of the code does not keep;       *)
(* README.md names the bounds that show it.                                *)
(***************************************************************************)
EXTENDS LifecycleLock

MCSessions == 1..2

(* The scenarios of Lock.cfg: an operation of another kind beside attaches *)
(* and Ends, or a failure, or a restart.                                   *)
EachAlone == {<<0, 1, 1>>, <<1, 0, 1>>, <<1, 1, 0>>}
NothingSpent == {<<0, 0, 0>>}

-----------------------------------------------------------------------------
(* The comment in handlePaneExitWatcherCompletion: a follow-up is queued   *)
(* "after that ownership token is released instead of spinning".           *)
FollowUpAfterRelease ==
  [][queue.blockers # {} /\ queue'.blockers = {} =>
       \/ \E s \in queue.blockers : owner'[s] # owner[s]
       \/ startup'.pc = "watch"]_vars
=============================================================================
