---------------------------- MODULE MCWakeQueue ----------------------------
(***************************************************************************)
(* WakeQueue for TLC: the passes are interchangeable.  Below, statements   *)
(* of the code's comments and of docs/api-v1.md that some schedule of the  *)
(* code does not keep; README.md names the bounds that show each.          *)
(***************************************************************************)
EXTENDS WakeQueue, TLC

PassSymmetry == Permutations(Passes)

(* The scenarios, each a budget of outside events. *)
Scenario(b) == b @@ [k \in Kind |-> 0]

(* Delivery in every way it has, with an edit, a fault or a late failure;  *)
(* End, kept check-ins, a fault or a restart beside two passes.            *)
Scenarios ==
  { Scenario([passes |-> 1, notes |-> 2, rides |-> 1, edits |-> 1, faults |-> 1]),
    Scenario([passes |-> 1, notes |-> 2, polls |-> 1, edits |-> 1, faults |-> 1]),
    Scenario([passes |-> 1, notes |-> 2, rides |-> 1, polls |-> 1, late |-> 1]),
    Scenario([passes |-> 2, notes |-> 2, ends |-> 1, faults |-> 1]),
    Scenario([passes |-> 2, notes |-> 2, ends |-> 1, restarts |-> 1]) }

(* For liveness: the agent turns busy, the owner types, a step fails, and  *)
(* the session ends with kept check-ins or has a native puller.            *)
LiveScenarios ==
  { Scenario([passes |-> 2, notes |-> 1, turns |-> 1, faults |-> 1, ends |-> 1]),
    Scenario([passes |-> 2, notes |-> 1, turns |-> 1, faults |-> 1, polls |-> 1]) }

(* For the disagreement: two passes and a kept check-in.                   *)
TwiceScenarios == {Scenario([passes |-> 2, notes |-> 1, ends |-> 1])}

-----------------------------------------------------------------------------
(* "At most once: the rows go before the paste and come back only when it  *)
(* certainly did not happen" (wakes.ts:1116-1117).                         *)
AtMostOnce == \A n \in Notes : went[n].sure + went[n].late <= 1

(* "While one is attached, and for PULLER_GRACE_MS after, nothing is       *)
(* pasted to the session" (wakes.ts:888-890).                              *)
NoPasteUnderPuller ==
  [][\A p \in Passes : ~At(p, "pasting") /\ At(p, "pasting")'
                          => puller # "alive"]_vars

(* "One pass; concurrent calls fold into one more pass" (wakes.ts:1008).   *)
OnePass ==
  Cardinality({p \in Passes : pass[p].at \notin {"off", "exit"}}) <= 1

(* "Each wake goes out at most once" (docs/api-v1.md:617): no two new      *)
(* sessions are launched for one kept check-in.                            *)
OneRelaunch ==
  \A p, q \in Passes :
    p # q /\ At(p, "launch") /\ At(q, "launch")
      => pass[p].kept \intersect pass[q].kept = {}

(* "No second paste goes to a session within quietSeconds of the last"     *)
(* (docs/api-v1.md:617).                                                   *)
NoPasteOnStaleIdle ==
  [][\A p \in Passes : At(p, "pasting") /\ At(p, "kept")' /\ went' # went
                          => cooled]_vars

(* "A newer line for the same report arrived while the paste was out: it   *)
(* stands" (wakes.ts:469-470): a line that a failed paste puts back never  *)
(* gives way to an older one.                                              *)
NewestStands ==
  [][\A r \in Sending :
       fate[r.note] = "open" /\ fate'[r.note] = "replaced"
         => \E n \in queue' : n.src = r.src /\ n.note > r.note]_vars

(* "Every other wake goes with its session, whichever path deleted the     *)
(* row" (schema.ts:225-226): no row names a session that is gone.          *)
WakesGoWithSession == session = "gone" => Live(queue) = {}

(* "An End that does not happen takes the mark back"                       *)
(* (lifecycle-api.ts:1051-1052): no live session has kept check-ins but    *)
(* during an End.                                                          *)
MarksTakenBack == \A r \in Live(queue) : r.kept => ending # "no"

(* "The wake stays listed ... until the owner moves or cancels it"         *)
(* (docs/api-v1.md:628): one the owner cancelled is not relaunched.        *)
CancelledStaysCancelled ==
  [][\A n \in Notes :
       fate[n] = "recalled" /\ went[n].sure = 0 /\ n \notin NotesOf(Sending)
         => went'[n].sure = 0]_vars
=============================================================================
