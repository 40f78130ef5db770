--------------------------- MODULE SessionContract ---------------------------
(***************************************************************************)
(* What Tether promises about one durable session, whatever happens to the *)
(* daemon, to tmux or to a command: work Tether launched runs in scopes;   *)
(* it is launched one scope at a time, beside at most the one scope it     *)
(* replaces; work ends, alone or cleaned up; and the session ends once,    *)
(* with nothing it launched still running, and never comes back.           *)
(***************************************************************************)
CONSTANT Scopes

VARIABLES listed,    \* the session is in the catalog
          running    \* the scopes in which launched work may run

Init == listed = TRUE /\ running = {}

Launch == /\ listed
          /\ \A s, t \in running : s = t      \* in at most one other scope
          /\ \E s \in Scopes \ running : running' = running \cup {s}
          /\ UNCHANGED listed

WorkEnds == /\ running' \subseteq running
            /\ UNCHANGED listed

End == /\ listed' = FALSE
       /\ listed /\ running = {}
       /\ UNCHANGED running

Next == \/ running' # running /\ (Launch \/ WorkEnds)
        \/ End

Spec == Init /\ [][Next]_<<listed, running>>
=============================================================================
