----------------------------- MODULE Placement -----------------------------
(***************************************************************************)
(* Host placement (packages/tether/src/hub/placement.ts): which host a root *)
(* is created on, and the reservation it holds there; composed with the     *)
(* create route (lifecycle/root-control.ts), the forwarded create of the    *)
(* hub (hub/hub.ts), the restore of a crashed agent's reservation           *)
(* (recovery-placement.ts), and the replacements that ask for none          *)
(* (lifecycle-api.ts).                                                      *)
(*                                                                         *)
(* Memory stands for memory and CPUs. A reading is at most the size of its  *)
(* room, and may always be too small or fail. What is read of a host, and   *)
(* what its Tether says of a root, is read in a step of its own.           *)
(*                                                                         *)
(* Left out: capabilities, pools beside the default one, the memory of a    *)
(* Proxmox node besides its VM's, a host that comes back to hosts.json, and *)
(* an agent started by hand in the shell of a pane: Tether has it exited.   *)
(***************************************************************************)
EXTENDS Naturals, Sequences, FiniteSets, SequencesExt

CONSTANTS
  None,       \* no host, no reservation
  DryRun,     \* GET /v1/placement
  Request,    \* request ids of creates with needs
  Attempt,    \* POST /v1/roots, each time a client sends it
  Of,         \* the request of an attempt
  Host,       \* the hosts, this computer among them
  Local,      \* this computer
  Vm,         \* hosts whose Proxmox node says whether they are stopped
  Order,      \* the default pool: its hosts in order
  Rooms,      \* the rooms: their hosts, and how much they hold
  Needs,      \* how much the root of a request needs
  Budgets     \* bounds: how often each kind of outside event happens, per scenario

Kind == {"link", "power", "retire", "restart", "dry", "exit", "return", "late", "again"}
Booking == [host : Host, state : {"placing", "held"}]
Fate == {"live", "missing", "ended", "exited", "unknown", "retired"}

PlacementAssumption ==
  /\ Of \in [Attempt -> Request]
  /\ Local \in Host /\ Vm \subseteq Host \ {Local} /\ None \notin Host
  /\ Order \in Seq(Host)
  /\ Rooms \subseteq [hosts : SUBSET Host, size : Nat]
  /\ Needs \in [Request -> Nat]
  /\ IsFiniteSet(Request)
  /\ Budgets \subseteq [Kind -> Nat]
  /\ None \notin Fate \union {"asked"} \union Booking
  /\ DryRun \notin ({"place"} \X Attempt) \union ({"restore", "done"} \X Request)
ASSUME PlacementAssumption

VARIABLES
  book,      \* the reservation of each request (saved at every change)
  intent,    \* the host each placed request was last reserved on (saved too)
  queue,     \* the chain of decisions: each starts when the one before has ended
  pass,      \* the step of each decision, and what it has read
  call,      \* each attempt: where it is, and on which host
  root,      \* the root of each request on each host, as its Tether knows it
  host,      \* each host: linked ("up"), running without a link, off, or retired
  late,      \* creates their sender gave up, which their host may handle later
  left       \* how many outside events of each kind may still happen

vars == <<book, intent, queue, pass, call, root, host, late, left>>

Decision == ({"place"} \X Attempt) \union ({"restore", "done"} \X Request) \union {DryRun}

Pass == [at : {"off", "asking", "judging", "verdict"},
         fate : [Request -> Fate \union {"asked", None}],
         hosts : Seq(Host),     \* still to be judged
         fits : BOOLEAN]        \* what the judgement of the first came to
Call == [at : {"new", "deciding", "creating", "sent", "handled", "over"},
         host : Host \union {None},
         owns : BOOLEAN]        \* it made the reservation: its done() is not empty
(* unplaced: it runs, like live, and its replacement left it no reservation. *)
Root == {"none", "live", "unplaced", "exited", "ended", "retained", "returning"}

Off == [at |-> "off", fate |-> [r \in Request |-> None], hosts |-> <<>>, fits |-> FALSE]

Spend(kind) == left[kind] > 0 /\ left' = [left EXCEPT ![kind] = @ - 1]

-----------------------------------------------------------------------------
(* Rooms.                                                                  *)

(* The needs of a request, as units to be counted. *)
Units(r) == {r} \X (1..Needs[r])

(* held: what the reservations b take of the memory of these hosts. *)
Held(b, hosts) ==
  Cardinality(UNION {Units(r) : r \in {q \in Request : b[q] # None /\ b[q].host \in hosts}})

(* The largest reading of every room the host is in leaves the needs free. *)
Fits(b, h, r) == \A room \in Rooms : h \in room.hosts => Held(b, room.hosts) + Needs[r] <= room.size

-----------------------------------------------------------------------------
(* The chain of decisions (locked).                                        *)

(* Mutant: the chain goes on when the hosts are judged, before it reserves. *)
TurnAtOnce(d) ==
  /\ pass[d] = Off /\ d \in ToSet(queue)
  /\ Head(queue) = d \/ pass[Head(queue)].at = "verdict"

Turn(d) == pass[d] = Off /\ queue # <<>> /\ Head(queue) = d

(* The decision is over, and the one behind it may start. *)
Over(d) == queue' = Tail(queue) /\ pass' = [pass EXCEPT ![d] = Off]

-----------------------------------------------------------------------------
(* Reconciling: what became of the roots.                                  *)

(* Mutant: the agent's exit is believed while recovery brings it back. *)
FateByMarker(state) ==
  CASE state = "none" -> "missing"
    [] state = "ended" -> "ended"
    [] state \in {"exited", "retained", "returning"} -> "exited"
    [] OTHER -> "live"

(* What the Tether of its host says of a root; one that recovery or
   continuity keeps here is live. *)
FateOf(state) ==
  CASE state = "none" -> "missing"
    [] state \in {"ended", "exited"} -> state
    [] OTHER -> "live"

(* Mutant: only reservations are looked at. *)
TrackedBooked(r) == book[r] # None /\ book[r].state = "held"

(* Reservations whose create has ended, and placed requests without one. *)
Tracked(r) == IF book[r] # None THEN book[r].state = "held" ELSE intent[r] # None
HostOf(r) == IF book[r] # None THEN book[r].host ELSE intent[r]

(* Local roots are read at once; a host that is not linked cannot answer. *)
FirstLook(r) ==
  LET h == HostOf(r)
  IN CASE ~Tracked(r) -> None
       [] Tracked(r) /\ h = Local -> FateOf(root[r][Local])
       [] Tracked(r) /\ h # Local /\ host[h] = "retired" -> "retired"
       [] Tracked(r) /\ h # Local /\ host[h] = "up" -> "asked"
       [] OTHER -> "unknown"

Reconcile(d, hosts) ==
  pass' = [pass EXCEPT ![d] = [at |-> "asking", fate |-> [r \in Request |-> FirstLook(r)],
                               hosts |-> hosts, fits |-> FALSE]]

(* remoteRootFate: the host answers, or there is no answer in time. *)
FateArrives(d, r) ==
  /\ pass[d].at = "asking" /\ pass[d].fate[r] = "asked"
  /\ \/ pass' = [pass EXCEPT ![d].fate[r] = "unknown"]
     \/ /\ host[HostOf(r)] = "up"
        /\ pass' = [pass EXCEPT ![d].fate[r] = FateOf(root[r][HostOf(r)])]
  /\ UNCHANGED <<book, intent, queue, call, root, host, late, left>>

Gone == {"missing", "ended", "retired"}

Released(r, fate) ==
  CASE fate \in Gone \union {"exited"} -> None
    [] fate = "live" /\ book[r] = None /\ intent[r] \notin {None, Local} ->
         [host |-> intent[r], state |-> "held"]
    [] OTHER -> book[r]

(* All have answered: end what has ended, rebook what came back elsewhere. *)
Reconciled(d) ==
  /\ pass[d].at = "asking"
  /\ \A r \in Request : pass[d].fate[r] # "asked"
  /\ book' = [r \in Request |-> Released(r, pass[d].fate[r])]
  /\ intent' = [r \in Request |-> IF pass[d].fate[r] \in Gone THEN None ELSE intent[r]]
  /\ IF pass[d].hosts = <<>> THEN Over(d)
     ELSE pass' = [pass EXCEPT ![d].at = "judging"] /\ UNCHANGED queue
  /\ UNCHANGED <<call, root, host, late, left>>

-----------------------------------------------------------------------------
(* Deciding (place, check).                                                *)

(* existingHost: this computer's catalog, then what the hub has heard of its
   hosts' roots, which may be nothing. *)
Known(r) ==
  IF book[r] # None THEN {book[r].host}
  ELSE IF root[r][Local] # "none" THEN {Local}
  ELSE {None} \union {h \in Host : root[r][h] # "none" /\ host[h] # "retired"}

(* The request of an attempt is already placed, refused, or has to be judged. *)
DecideCreate(a) ==
  LET d == <<"place", a>>
      r == Of[a]
      named == call[a].host
  IN /\ Turn(d) /\ call[a].at = "deciding"
     /\ \E known \in Known(r) :
          IF named # None /\ (host[named] = "retired" \/ known \notin {None, named}) THEN
            Over(d) /\ call' = [call EXCEPT ![a].at = "over"]
          ELSE IF known # None THEN
            Over(d) /\ call' = [call EXCEPT ![a].at = "creating", ![a].host = known]
          ELSE
            /\ Reconcile(d, IF named # None THEN <<named>> ELSE Order)
            /\ UNCHANGED <<queue, call>>
     /\ UNCHANGED <<book, intent, root, host, late, left>>

(* Recovery asked for it, and goes on unless the root left it meanwhile. *)
Resume(r) == root' = [root EXCEPT ![r][Local] = IF @ = "retained" THEN "returning" ELSE @]

(* place(..., rebook): the root is judged on its host, unless it is booked; *)
(* a request last placed elsewhere is refused.                             *)
DecideRestore(r) ==
  LET d == <<"restore", r>>
  IN /\ Turn(d)
     /\ IF book[r] # None THEN
          Over(d) /\ Resume(r)
        ELSE IF intent[r] # Local THEN Over(d) /\ UNCHANGED root
        ELSE Reconcile(d, <<Local>>) /\ UNCHANGED <<queue, root>>
     /\ UNCHANGED <<book, intent, call, host, late, left>>

DecideOther(d) ==
  /\ Turn(d)
  /\ \/ d = DryRun /\ Reconcile(d, Order)
     \/ d \in {"done"} \X Request /\ Reconcile(d, <<>>)
  /\ UNCHANGED <<book, intent, queue, call, root, host, late, left>>

(* releaseStopped: a stopped VM runs no root. *)
Stopped(h) ==
  [r \in Request |->
     IF book[r] # None /\ book[r].host = h /\ book[r].state = "held" THEN None ELSE book[r]]

RequestOf(d) == IF d[1] = "place" THEN Of[d[2]] ELSE d[2]

(* judge: what is reserved in the rooms of the next host, and its readings; a
   stopped VM is known by its Proxmox node, if that answers. *)
Judge(d) ==
  /\ pass[d].at = "judging"
  /\ LET h == Head(pass[d].hosts)
         off == h \in Vm /\ host[h] = "off"
     IN \E stopped \in {FALSE, off} :
          /\ book' = IF stopped THEN Stopped(h) ELSE book
          /\ \E fits \in BOOLEAN :
               /\ fits => /\ d # DryRun /\ host[h] \in {"up", "off"} /\ off = stopped
                          /\ Fits(book', h, RequestOf(d))
               /\ pass' = [pass EXCEPT ![d].at = "verdict", ![d].fits = fits]
  /\ UNCHANGED <<intent, queue, call, root, host, late, left>>

(* It does not fit: the next host is judged, or the request is refused. *)
Refuse(d) ==
  /\ pass[d].at = "verdict" /\ ~pass[d].fits
  /\ IF Len(pass[d].hosts) > 1 THEN
       /\ pass' = [pass EXCEPT ![d].at = "judging", ![d].hosts = Tail(@)]
       /\ UNCHANGED <<queue, call>>
     ELSE
       /\ Over(d)
       /\ call' = IF d \in {"place"} \X Attempt THEN [call EXCEPT ![d[2]].at = "over"] ELSE call
  /\ UNCHANGED <<book, intent, root, host, late, left>>

(* It fits: the needs are reserved there, and the create goes there. *)
Place(a) ==
  LET d == <<"place", a>>
      h == Head(pass[d].hosts)
  IN /\ pass[d].at = "verdict" /\ pass[d].fits
     /\ book' = [book EXCEPT ![Of[a]] = [host |-> h, state |-> "placing"]]
     /\ intent' = [intent EXCEPT ![Of[a]] = h]
     /\ call' = [call EXCEPT ![a] = [at |-> "creating", host |-> h, owns |-> TRUE]]
     /\ Over(d)
     /\ UNCHANGED <<root, host, late, left>>

(* restoreSessionReservation: booked, and done() at once. *)
Rebook(r) ==
  LET d == <<"restore", r>>
  IN /\ pass[d].at = "verdict" /\ pass[d].fits
     /\ book' = [book EXCEPT ![r] = [host |-> Local, state |-> "held"]]
     /\ intent' = [intent EXCEPT ![r] = Local]
     /\ Resume(r)
     /\ queue' = Append(Tail(queue), <<"done", r>>)
     /\ pass' = [pass EXCEPT ![d] = Off]
     /\ UNCHANGED <<call, host, late, left>>

-----------------------------------------------------------------------------
(* Creating (POST /v1/roots, and the hub's create).                        *)

SentBefore(a) == \E b \in Attempt \ {a} : Of[b] = Of[a] /\ call[b].at # "new"

(* The client sends the create, for a host it names or for any; a named one
   that runs without a link is waited for first, or the create is refused. *)
Send(a) ==
  /\ call[a].at = "new"
  /\ IF SentBefore(a) THEN Spend("again") ELSE UNCHANGED left
  /\ \E h \in Host \union {None} :
       /\ h # None => host[h] # "away"
       /\ call' = [call EXCEPT ![a] = [at |-> "deciding", host |-> h, owns |-> FALSE]]
  /\ queue' = Append(queue, <<"place", a>>)
  /\ UNCHANGED <<book, intent, pass, root, host, late>>

(* The attempt is answered, and done() called: who made the reservation lets
   the next reconciliation judge it by its root. *)
Done(a) ==
  /\ call' = [call EXCEPT ![a].at = "over"]
  /\ IF call[a].owns
     THEN /\ book' = [book EXCEPT ![Of[a]].state = "held"]
          /\ queue' = Append(queue, <<"done", Of[a]>>)
     ELSE UNCHANGED <<book, queue>>

(* A create reaches the Tether of h: the root is made, or known, or refused. *)
Handles(r, h) ==
  \/ root[r][h] = "none" /\ root' = [root EXCEPT ![r][h] = "live"]
  \/ UNCHANGED root

(* createLocal, or the create reaches its host. *)
Handle(a) ==
  LET h == call[a].host
  IN /\ \/ call[a].at = "creating" /\ h = Local
        \/ call[a].at = "sent" /\ host[h] = "up"
     /\ call' = [call EXCEPT ![a].at = "handled"]
     /\ Handles(Of[a], h)
     /\ UNCHANGED <<book, intent, queue, pass, host, late, left>>

Answered(a) ==
  /\ call[a].at = "handled" /\ host[call[a].host] = "up"
  /\ Done(a)
  /\ UNCHANGED <<intent, pass, root, host, late, left>>

(* hub.create: the host is woken; once its link is up, the create is sent. *)
Forward(a) ==
  LET h == call[a].host
  IN /\ call[a].at = "creating" /\ h # Local /\ host[h] # "retired"
     /\ host' = [host EXCEPT ![h] = "up"]
     /\ call' = [call EXCEPT ![a].at = "sent"]
     /\ UNCHANGED <<book, intent, queue, pass, root, late, left>>

(* The host does not come up: nothing was created. *)
Unavailable(a) ==
  /\ call[a].at = "creating" /\ call[a].host # Local
  /\ Done(a)
  /\ UNCHANGED <<intent, pass, root, host, late, left>>

(* A create whose sender gives up: the host may handle it all the same. *)
Strays(a) ==
  IF call[a].at # "sent" THEN UNCHANGED <<late, left>>
  ELSE \/ UNCHANGED <<late, left>>
       \/ Spend("late") /\ late' = late \union {<<Of[a], call[a].host>>}

(* outcome_uncertain: the link broke, or no answer came in time. *)
Uncertain(a) ==
  /\ call[a].at \in {"sent", "handled"} /\ call[a].host # Local
  /\ Done(a) /\ Strays(a)
  /\ UNCHANGED <<intent, pass, root, host>>

HandleLate ==
  \E m \in late :
    /\ host[m[2]] = "up" /\ root[m[1]][m[2]] = "none"
    /\ root' = [root EXCEPT ![m[1]][m[2]] = "live"]
    /\ UNCHANGED <<book, intent, queue, pass, call, host, late, left>>

-----------------------------------------------------------------------------
(* Roots.                                                                  *)

(* The agent exits, or dies and is kept for recovery; the root is ended. *)
Exits(r, h) ==
  /\ root[r][h] \in {"live", "unplaced", "exited", "retained"} /\ Spend("exit")
  /\ \E state \in {"exited", "ended"} \union (IF h = Local THEN {"retained"} ELSE {}) :
       state # root[r][h] /\ root' = [root EXCEPT ![r][h] = state]
  /\ UNCHANGED <<book, intent, queue, pass, call, host, late>>

(* Another host's Tether restores or replaces its own agent. *)
Restores(r, h) ==
  /\ h # Local /\ root[r][h] = "exited" /\ host[h] \in {"up", "away", "retired"}
  /\ Spend("return") /\ root' = [root EXCEPT ![r][h] = "live"]
  /\ UNCHANGED <<book, intent, queue, pass, call, host, late>>

(* The reservation is released, or a decision that read the exit is about to. *)
LosesBooking(r) ==
  book[r] = None \/ \E d \in Decision : pass[d].at = "asking" /\ pass[d].fate[r] = "exited"

(* respawn, load-tui, switch-project: the owner replaces an agent that exited
   or waits for recovery here; no placement step is asked. *)
Respawns(r) ==
  /\ root[r][Local] \in {"exited", "retained"} /\ Spend("return")
  /\ root' = [root EXCEPT ![r][Local] = IF LosesBooking(r) THEN "unplaced" ELSE "live"]
  /\ UNCHANGED <<book, intent, queue, pass, call, host, late>>

(* Recovery and reboot restore ask for the reservation; a request that was
   never placed needs none. *)
AskRestore(r) ==
  /\ root[r][Local] = "retained" /\ ~Contains(queue, <<"restore", r>>) /\ Spend("return")
  /\ IF intent[r] = None
     THEN root' = [root EXCEPT ![r][Local] = "returning"] /\ UNCHANGED queue
     ELSE queue' = Append(queue, <<"restore", r>>) /\ UNCHANGED root
  /\ UNCHANGED <<book, intent, pass, call, host, late>>

Relaunch(r) ==
  /\ root[r][Local] = "returning" /\ root' = [root EXCEPT ![r][Local] = "live"]
  /\ UNCHANGED <<book, intent, queue, pass, call, host, late, left>>

-----------------------------------------------------------------------------
(* Hosts.                                                                  *)

AskDryRun ==
  /\ ~Contains(queue, DryRun) /\ Spend("dry") /\ queue' = Append(queue, DryRun)
  /\ UNCHANGED <<book, intent, pass, call, root, host, late>>

(* A link breaks or comes back; a host is stopped or boots. *)
LinkChanges(h) ==
  /\ h # Local /\ host[h] \in {"up", "away"} /\ Spend("link")
  /\ host' = [host EXCEPT ![h] = IF @ = "up" THEN "away" ELSE "up"]
  /\ UNCHANGED <<book, intent, queue, pass, call, root, late>>

PowerChanges(h) ==
  /\ h # Local /\ host[h] \in {"up", "away", "off"} /\ Spend("power")
  /\ host' = [host EXCEPT ![h] = IF @ = "off" THEN "up" ELSE "off"]
  /\ UNCHANGED <<book, intent, queue, pass, call, root, late>>

(* The owner takes a host out of hosts.json: its link is let go. *)
Retires(h) ==
  /\ h # Local /\ host[h] # "retired" /\ Spend("retire")
  /\ host' = [host EXCEPT ![h] = "retired"]
  /\ UNCHANGED <<book, intent, queue, pass, call, root, late>>

(* The intents of the settings, and one for every reservation. *)
Loaded(b, i) == [r \in Request |-> IF i[r] = None /\ b[r] # None THEN b[r].host ELSE i[r]]

(* Tether restarts: creates in flight end with it, and their reservations are
   judged by their roots; a create that was sent may still be handled. *)
Restart ==
  /\ Spend("restart")
  /\ book' = [r \in Request |-> IF book[r] = None THEN None ELSE [book[r] EXCEPT !.state = "held"]]
  /\ intent' = Loaded(book, intent)
  /\ queue' = <<>> /\ pass' = [d \in Decision |-> Off]
  /\ call' = [a \in Attempt |-> IF call[a].at = "new" THEN call[a] ELSE [call[a] EXCEPT !.at = "over"]]
  /\ root' = [r \in Request |-> [root[r] EXCEPT ![Local] = IF @ = "returning" THEN "retained" ELSE @]]
  /\ \E lost \in SUBSET {a \in Attempt : call[a].at = "sent"} :
       late' = late \union {<<Of[a], call[a].host>> : a \in lost}
  /\ UNCHANGED host

-----------------------------------------------------------------------------
Init ==
  /\ book = [r \in Request |-> None]
  /\ intent = [r \in Request |-> None]
  /\ queue = <<>>
  /\ pass = [d \in Decision |-> Off]
  /\ call = [a \in Attempt |-> [at |-> "new", host |-> None, owns |-> FALSE]]
  /\ root = [r \in Request |-> [h \in Host |-> "none"]]
  /\ host = [h \in Host |-> "up"]
  /\ late = {}
  /\ left \in Budgets

Deciding ==
  \/ \E a \in Attempt : DecideCreate(a) \/ Place(a)
  \/ \E r \in Request : DecideRestore(r) \/ Rebook(r)
  \/ \E d \in Decision : DecideOther(d) \/ Reconciled(d) \/ Judge(d) \/ Refuse(d)
  \/ \E d \in Decision, r \in Request : FateArrives(d, r)

Creating ==
  \/ \E a \in Attempt :
       Send(a) \/ Handle(a) \/ Answered(a) \/ Forward(a) \/ Unavailable(a) \/ Uncertain(a)
  \/ HandleLate

Outside ==
  \/ \E r \in Request, h \in Host : Exits(r, h) \/ Restores(r, h)
  \/ \E r \in Request : AskRestore(r) \/ Relaunch(r) \/ Respawns(r)
  \/ \E h \in Host : LinkChanges(h) \/ PowerChanges(h) \/ Retires(h)
  \/ AskDryRun \/ Restart

Next == Deciding \/ Creating \/ Outside

Spec == Init /\ [][Next]_vars

TypeOK ==
  /\ book \in [Request -> Booking \union {None}]
  /\ intent \in [Request -> Host \union {None}]
  /\ queue \in Seq(Decision)
  /\ pass \in [Decision -> Pass]
  /\ call \in [Attempt -> Call]
  /\ root \in [Request -> [Host -> Root]]
  /\ host \in [Host -> {"up", "away", "off", "retired"}]
  /\ late \subseteq Request \X Host
  /\ left \in [Kind -> Nat]

-----------------------------------------------------------------------------
(* "Decisions are serialized, so concurrent creates cannot take the same    *)
(* room" (docs/api-v1.md): a reservation that a decision makes, for a create *)
(* or to restore a root, fits into every room of its host with all that are *)
(* there by then.                                                          *)
NoRoomTwice ==
  [][\A r \in Request :
         (\/ \E a \in Attempt : /\ Of[a] = r /\ call[a].at = "deciding"
                                /\ call'[a].at = "creating" /\ call'[a].owns
          \/ pass[<<"restore", r>>].at = "verdict" /\ book[r] = None /\ book'[r] # None)
       => \A room \in Rooms :
            book'[r].host \in room.hosts => Held(book', room.hosts) <= room.size]_vars

(* The create of r was sent once, and h did not handle it too late. *)
Clean(r, h) ==
  /\ <<r, h>> \notin late
  /\ \A a \in Attempt : Of[a] = r /\ call[a].at # "new" => ~SentBefore(a)

(* "A placed root holds its needs on that host from the decision until the  *)
(* Tether that owns it says it is gone, ended or its agent exited": one     *)
(* that runs here has its reservation; one that runs on another host has    *)
(* it, or is known by its intent and rebooked when that host answers. Not   *)
(* so after a retry, a create handled late, or a replacement here once the  *)
(* exit released it (unplaced): README.md says why.                         *)
RunningIsBooked ==
  \A r \in Request, h \in Host :
    root[r][h] \in {"live", "returning"} /\ host[h] # "retired" /\ Clean(r, h) =>
      \/ book[r] # None /\ book[r].host = h
      \/ h # Local /\ intent[r] = h

(* "A root on another host ... is booked again at the next decision ... once *)
(* it reports live": when a decision comes to judge, every root that runs   *)
(* has its reservation, unless its host did not answer this decision, or    *)
(* said that the agent had exited. An unplaced root here is overlooked:     *)
(* only roots on other hosts are booked again.                              *)
NoneOverlooked ==
  [][\A d \in Decision, r \in Request, h \in Host :
         /\ pass[d].at = "asking" /\ pass'[d].at = "judging"
         /\ root[r][h] = "live" /\ host[h] # "retired" /\ Clean(r, h) /\ book'[r] = None
       => pass[d].fate[r] \in {"unknown", "exited"}]_vars
=============================================================================
