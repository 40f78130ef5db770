--------------------------- MODULE DeployContract ---------------------------
(***************************************************************************)
(* What aico deploy promises of the host it deploys to, whoever else       *)
(* deploys and whatever is killed: a deploy's units, their page and the    *)
(* ops bundle change together, in one step, and only to what that deploy   *)
(* asked for; a unit or a page served alone never goes back to an older    *)
(* commit, unless the deploy is a rollback; a deploy's result is told      *)
(* once; and where it is "succeeded", what was asked for is there.         *)
(***************************************************************************)
CONSTANTS None, Unit, Backend, Commit, Ancestors, Deploys, Wants, Before

VARIABLES asked,   \* what each deploy asks for
          unit,    \* the commit each unit is to run
          page,    \* the commit whose page the link serves; None: the backend's own
          ops,     \* the commit whose ops bundle is installed
          told     \* each deploy's result

Old(from, w) == from = None \/ from = w.sha \/ w.back \/ from \in Ancestors[w.sha]
Newer(from, w) == from # None /\ w.sha \in Ancestors[from]
PageFrom == IF page = None THEN unit[Backend] ELSE page
PageAlone(w) == w.page /\ Backend \notin w.units
TakesOps(w) == w.ops /\ ops # w.sha /\ Old(ops, w)

Init ==
  /\ asked = [k \in Deploys |-> None]
  /\ unit = Before /\ page = None /\ ops = None
  /\ told = [k \in Deploys |-> "none"]

Ask(k) ==
  /\ asked[k] = None
  /\ \E w \in Wants : asked' = [asked EXCEPT ![k] = w]
  /\ told' = [told EXCEPT ![k] = "running"]
  /\ UNCHANGED <<unit, page, ops>>

Takes(w) == {u \in w.units : Old(unit[u], w)}

(* All of the deploy's units at once, with the page and the ops bundle that
   go with them; none of them where one asked for has diverged. *)
Install(k) ==
  LET w == asked[k]
  IN /\ w # None /\ Takes(w) # {}
     /\ \A u \in w.units : Old(unit[u], w) \/ Newer(unit[u], w)
     /\ PageAlone(w) => Old(PageFrom, w) \/ Newer(PageFrom, w)
     /\ unit' = [u \in Unit |-> IF u \in Takes(w) THEN w.sha ELSE unit[u]]
     /\ page' = IF Backend \in Takes(w) THEN w.sha ELSE page
     /\ ops' = IF TakesOps(w) THEN w.sha ELSE ops
     /\ UNCHANGED <<asked, told>>

SwapPage(k) ==
  /\ asked[k] # None /\ PageAlone(asked[k]) /\ Old(PageFrom, asked[k])
  /\ page' = asked[k].sha
  /\ UNCHANGED <<asked, unit, ops, told>>

InstallOps(k) ==
  /\ asked[k] # None /\ TakesOps(asked[k])
  /\ ops' = asked[k].sha
  /\ UNCHANGED <<asked, unit, page, told>>

IsThere(w) ==
  /\ \A u \in w.units : unit[u] = w.sha \/ Newer(unit[u], w)
  /\ PageAlone(w) => PageFrom = w.sha \/ Newer(PageFrom, w)

Tell(k) ==
  /\ told[k] = "running"
  /\ \/ told' = [told EXCEPT ![k] = "failed"]
     \/ IsThere(asked[k]) /\ told' = [told EXCEPT ![k] = "succeeded"]
  /\ UNCHANGED <<asked, unit, page, ops>>

Next == \E k \in Deploys : Ask(k) \/ Install(k) \/ SwapPage(k) \/ InstallOps(k) \/ Tell(k)

Spec == Init /\ [][Next]_<<asked, unit, page, ops, told>>
=============================================================================
