----------------------------- MODULE NotesSync -----------------------------
(***************************************************************************)
(* The sync engine of the web server (packages/web-server/src/sync) on one *)
(* file (notes.db): every host has a copy that it writes whenever it likes, *)
(* and pulls the others' changes, page by page, after a cursor. Composed    *)
(* with the local writes of notes-db.ts and notes-data.ts.                 *)
(*                                                                         *)
(* A version's text is the number of the edit that wrote it. A row's unique *)
(* value (a list's source, an upload's client id) is held or given up.     *)
(*                                                                         *)
(* Left out: the columns of a row, view state and its max merge, schema     *)
(* versions, malformed pages, blobs, nudges (a pass may begin at any time); *)
(* a conflict revision is remembered but not itself synced.                *)
(***************************************************************************)
EXTENDS Naturals, FiniteSets, Sequences

CONSTANTS
  None,       \* no version, no base, no page, no backup
  Host,       \* the hosts; their order is the order of their names
  Key,        \* row ids, in their order
  RowKind,    \* per key: a plain "note", a "list" of the well-known source, an "upload"
  Limit,      \* rows per page
  MaxAhead,   \* how far a stamp may be ahead of the clock
  Retention,  \* how long tombstones are kept
  LateRestore,  \* a restored host's clock is past every stamp that was given out
  Budgets     \* bounds: how often each kind of outside event happens, per scenario

Kind == {"notes", "lists", "uploads", "edits", "deletes",
         "ticks", "skews", "years", "purges", "lost", "restarts", "backups", "restores"}

VARIABLES
  file,    \* each host's copy
  backup,  \* a copy of a host's file, set aside
  now,     \* each host's wall clock
  pull,    \* each host's pull
  ids,     \* how many db_ids were given out
  texts,   \* history: what each edit replaced, in order
  kept,    \* history: the edits saved as conflict revisions
  top,     \* history: the newest stamp each host had of each row
  lossy,   \* history: the hosts that lost what they wrote after a backup
  left     \* how many outside events of each kind may still happen

vars == <<file, backup, now, pull, ids, texts, kept, top, lossy, left>>

Spend(kind) == left[kind] > 0 /\ left' = [left EXCEPT ![kind] = @ - 1]

-----------------------------------------------------------------------------
(* Versions of a row.                                                      *)

Stamp == [clock: Nat, origin: Host]
Version == [at: Stamp, base: Stamp \union {None}, dead: BOOLEAN, holds: BOOLEAN, text: Nat, seq: Nat]

SyncAssumption ==
  /\ Host \subseteq Nat \ {0} /\ IsFiniteSet(Host)
  /\ Key \subseteq Nat /\ IsFiniteSet(Key)
  /\ None \notin Stamp /\ None \notin Version /\ None \notin Nat
  /\ RowKind \in [Key -> {"note", "list", "upload"}]
  /\ Limit \in Nat \ {0} /\ MaxAhead \in Nat /\ Retention \in Nat
  /\ LateRestore \in BOOLEAN
  /\ Budgets \subseteq [Kind -> Nat]
ASSUME SyncAssumption

Later(s, t) == s.clock > t.clock \/ (s.clock = t.clock /\ s.origin > t.origin)

(* The newest version by another host that an edit of v is built on. *)
BaseOf(h, v) == IF v.at.origin # h THEN v.at ELSE v.base

(* later is earlier or was built on it: one host's versions are one history. *)
Descends(later, earlier) ==
  LET known == IF later.at.origin = earlier.at.origin THEN later.at ELSE later.base
  IN known # None /\ known.origin = earlier.at.origin /\ known.clock >= earlier.at.clock

Latest(s, t) == IF s >= t THEN s ELSE t
Newest(S) == CHOOSE c \in S : \A d \in S : d <= c

(* HybridClock.next, after observing a stamp. *)
NextClock(h, last) == Latest(now[h], last + 1)

Rows(f) == {k \in Key : f.row[k] # None}
Live(f) == {k \in Rows(f) : ~f.row[k].dead}
Shares(j, k) == j # k /\ RowKind[j] = RowKind[k] /\ RowKind[k] # "note"

(* A local edit of row k of host h's file f to v. *)
Edited(f, h, k, v) ==
  LET clock == NextClock(h, f.hlc)
  IN [f EXCEPT !.seq = @ + 1, !.hlc = clock,
               !.row[k] = [v EXCEPT !.at = [clock |-> clock, origin |-> h],
                                    !.base = BaseOf(h, f.row[k]), !.seq = f.seq + 1]]

Inserted(f, h, k) ==
  LET clock == NextClock(h, f.hlc)
  IN [f EXCEPT !.seq = @ + 1, !.hlc = clock,
               !.row[k] = [at |-> [clock |-> clock, origin |-> h], base |-> None, dead |-> FALSE,
                           holds |-> RowKind[k] # "note", text |-> Len(texts) + 1, seq |-> f.seq + 1]]

-----------------------------------------------------------------------------
(* Local writes.                                                           *)

TopOf(f, t) == [k \in Key |-> IF f.row[k] # None THEN f.row[k].at ELSE t[k]]

Saves(h, f) ==
  /\ file' = [file EXCEPT ![h] = f]
  /\ top' = [top EXCEPT ![h] = TopOf(f, @)]

(* The edit that wrote a text, its row, and the texts it was written over. *)
Wrote(h, k, over) ==
  texts' = Append(texts, [by |-> h, key |-> k,
                          over |-> IF over = None THEN {} ELSE {over} \union texts[over].over])

Fresh == {k \in Key : \A i \in DOMAIN texts : texts[i].key # k}

LocalOnly == UNCHANGED <<backup, now, pull, ids, kept, lossy>>

CreateNote(h, k) ==
  /\ k \in Fresh /\ RowKind[k] = "note" /\ Spend("notes")
  /\ Saves(h, Inserted(file[h], h, k)) /\ Wrote(h, k, None) /\ LocalOnly

(* The same upload again: nothing, while its client id is there. *)
InsertCapture(h, k) ==
  /\ k \in Fresh /\ RowKind[k] = "upload" /\ Spend("uploads")
  /\ \A j \in Rows(file[h]) : Shares(j, k) => ~file[h].row[j].holds
  /\ Saves(h, Inserted(file[h], h, k)) /\ Wrote(h, k, None) /\ LocalOnly

(* groceries(): the list; a tombstoned one is set aside; one that sync      *)
(* renamed is adopted; else a new one is made.                             *)
Groceries(h, k) ==
  LET f == file[h]
      lists == {j \in Rows(f) : RowKind[j] = "list"}
      found == {j \in lists : f.row[j].holds}
      aside == IF found = {} THEN f
               ELSE LET j == CHOOSE j \in found : TRUE
                    IN Edited(f, h, j, [f.row[j] EXCEPT !.holds = FALSE])
      renamed == {j \in lists \ found : ~f.row[j].dead}
  IN /\ RowKind[k] = "list" /\ Spend("lists")
     /\ \A j \in found : f.row[j].dead
     /\ \/ /\ k \in renamed /\ \A j \in renamed : k <= j
           /\ Saves(h, Edited(aside, h, k, [f.row[k] EXCEPT !.holds = TRUE]))
           /\ UNCHANGED texts
        \/ /\ renamed = {} /\ k \in Fresh
           /\ Saves(h, Inserted(aside, h, k)) /\ Wrote(h, k, None)
     /\ LocalOnly

Update(h, k) ==
  /\ k \in Live(file[h]) /\ Spend("edits")
  /\ Saves(h, Edited(file[h], h, k, [file[h].row[k] EXCEPT !.text = Len(texts) + 1]))
  /\ Wrote(h, k, file[h].row[k].text) /\ LocalOnly

RemoveRow(h, k) ==
  /\ k \in Live(file[h]) /\ Spend("deletes")
  /\ Saves(h, Edited(file[h], h, k, [file[h].row[k] EXCEPT !.dead = TRUE]))
  /\ UNCHANGED texts /\ LocalOnly

-----------------------------------------------------------------------------
(* Applying a page.                                                        *)

Put(f, k, v) == [f EXCEPT !.seq = @ + 1, !.row[k] = [v EXCEPT !.seq = f.seq + 1]]

(* claimUnique and write: of two rows with one value the lower key keeps    *)
(* it, a live one against a tombstone; the other gives it up in an edit of  *)
(* this host's, and a second live upload is deleted.                       *)
Write(f, h, k, v) ==
  LET others == {j \in Rows(f) : v.holds /\ Shares(j, k) /\ f.row[j].holds}
      j == CHOOSE j \in others : TRUE
      other == f.row[j]
      incomingLoses == IF v.dead # other.dead THEN v.dead ELSE k > j
      loser == IF incomingLoses THEN v ELSE other
      drop == RowKind[k] = "upload" /\ ~v.dead /\ ~other.dead
      clock == NextClock(h, Latest(f.hlc, loser.at.clock))
      renamed == [loser EXCEPT !.holds = FALSE, !.dead = @ \/ drop, !.seq = f.seq + 1,
                               !.at = [clock |-> clock, origin |-> h], !.base = BaseOf(h, loser)]
      stamped == [f EXCEPT !.seq = @ + 1, !.hlc = clock]
  IN CASE others = {} -> Put(f, k, v)
       [] others # {} /\ incomingLoses -> Put(stamped, k, renamed)
       [] OTHER -> Put([stamped EXCEPT !.row[j] = renamed], k, v)

(* applyRow: the peer's version replaces ours when it is built on it, or, of
   two made apart, when it is the newer. *)
(* Mutant: of two versions made apart the last one pulled is taken. *)
TakesLast(local, remote) ==
  local = None \/ (remote.at # local.at /\ ~Descends(local, remote))

Takes(local, remote) ==
  \/ local = None
  \/ /\ remote.at # local.at
     /\ \/ Descends(remote, local)
        \/ ~Descends(local, remote) /\ Later(remote.at, local.at)

(* This host's own edit loses to one made apart: its text is kept. *)
(* Mutant: a version with a base is taken for one built on ours. *)
LosesToUnbased(h, local, remote) ==
  /\ local # None /\ Takes(local, remote) /\ remote.base = None
  /\ local.at.origin = h /\ remote.at.origin # h

Loses(h, local, remote) ==
  /\ local # None /\ Takes(local, remote) /\ ~Descends(remote, local)
  /\ local.at.origin = h /\ remote.at.origin # h

ApplyRow(h, done, r) ==
  LET local == done.f.row[r.key]
  IN IF ~Takes(local, r.v) THEN done
     ELSE [f |-> Write(done.f, h, r.key, r.v),
           kept |-> IF Loses(h, local, r.v) /\ local.text # r.v.text /\ RowKind[r.key] # "upload"
                    THEN done.kept \union {local.text} ELSE done.kept]

ApplyRows(h, f, rows) ==
  LET done[i \in 0..Len(rows)] == IF i = 0 THEN [f |-> f, kept |-> kept]
                                  ELSE ApplyRow(h, done[i - 1], rows[i])
  IN done[Len(rows)]

-----------------------------------------------------------------------------
(* Serving.                                                                *)

Peers(h) == Host \ {h}

(* Mutant: the row the cursor stands on is sent again. *)
AfterOrAt(f, since) == {k \in Rows(f) : f.row[k].seq >= since}

After(f, since) == {k \in Rows(f) : f.row[k].seq > since}

(* changesSince: the rows after a change number, oldest change first. *)
PageOf(f, since) ==
  LET after == After(f, since)
      order == [i \in 1..Cardinality(after) |->
                  CHOOSE k \in after : Cardinality({j \in after : f.row[j].seq <= f.row[k].seq}) = i]
      sent == SubSeq(order, 1, IF Len(order) < Limit THEN Len(order) ELSE Limit)
  IN [db |-> f.id, rows |-> [i \in DOMAIN sent |-> [key |-> sent[i], v |-> f.row[sent[i]]]],
      next |-> IF sent = <<>> THEN since ELSE f.row[sent[Len(sent)]].seq,
      more |-> Len(order) > Limit]

(* resetDbId *)
Reset(f) == [f EXCEPT !.id = ids + 1, !.served = [h \in Host |-> 0], !.handed = [h \in Host |-> 0]]

(* A cursor past what this file handed out: it was replaced by an older copy. *)
(* Mutant: only the change number is compared. *)
ForgottenBySeq(f, h, since) == since > f.seq

Forgotten(f, h, since) == since > f.seq \/ since > f.handed[h]

ServeChanges(h) ==
  LET p == pull[h].peer
      f == file[p]
      since == pull[h].cursor
      page == PageOf(f, since)
  IN /\ pull[h].pc = "ask"
     /\ IF Forgotten(f, h, since)
        THEN /\ file' = [file EXCEPT ![p] = Reset(f)]
             /\ ids' = ids + 1
             /\ pull' = [pull EXCEPT ![h].pc = "page", ![h].page =
                           [db |-> ids + 1, rows |-> <<>>, next |-> 0, more |-> FALSE]]
        ELSE /\ file' = [file EXCEPT ![p].served[h] = since,
                                     ![p].handed[h] = Latest(@, page.next)]
             /\ pull' = [pull EXCEPT ![h].pc = "page", ![h].page = page]
             /\ UNCHANGED ids
     /\ UNCHANGED <<backup, now, texts, kept, top, lossy, left>>

-----------------------------------------------------------------------------
(* Pulling: hello, then pages until there is no more.                      *)

Idle(h) == pull[h].pc = "idle"
Idles(h) == [pull EXCEPT ![h].pc = "idle", ![h].page = None, ![h].cursor = 0, ![h].resets = 0, ![h].db = 0]

(* The loop pulls from one peer after another. *)
NextPeer(h) ==
  LET p == pull[h].peer
      after == {q \in Peers(h) : q > p}
      from == IF after = {} THEN Peers(h) ELSE after
  IN CHOOSE q \in from : \A r \in from : q <= r

Hello(h) ==
  /\ Idle(h) /\ Peers(h) # {}
  /\ LET p == NextPeer(h)
         known == file[h].peer[p]
     IN pull' = [pull EXCEPT ![h] =
          [pc |-> "ask", peer |-> p, db |-> file[p].id, resets |-> 0, page |-> None,
           cursor |-> IF known.db = file[p].id THEN known.cursor ELSE 0]]
  /\ UNCHANGED <<file, backup, now, ids, texts, kept, top, lossy, left>>

(* The request or its answer is lost. *)
Unreachable(h) ==
  /\ ~Idle(h) /\ Spend("lost")
  /\ pull' = Idles(h)
  /\ UNCHANGED <<file, backup, now, ids, texts, kept, top, lossy>>

(* The peer's file has another id than at hello: from the start, once. *)
StartOver(h) ==
  /\ pull[h].pc = "page" /\ pull[h].page.db # pull[h].db
  /\ pull' = IF pull[h].resets > 0 THEN Idles(h)
             ELSE [pull EXCEPT ![h].pc = "ask", ![h].db = pull[h].page.db, ![h].cursor = 0,
                               ![h].resets = 1, ![h].page = None]
  /\ UNCHANGED <<file, backup, now, ids, texts, kept, top, lossy, left>>

ClockAhead(h, rows) == \E i \in DOMAIN rows : rows[i].v.at.clock > now[h] + MaxAhead

Refuse(h) ==
  /\ pull[h].pc = "page" /\ pull[h].page.db = pull[h].db
  /\ ClockAhead(h, pull[h].page.rows)
  /\ pull' = Idles(h)
  /\ UNCHANGED <<file, backup, now, ids, texts, kept, top, lossy, left>>

Highest(f, rows) ==
  LET highest[i \in 0..Len(rows)] == IF i = 0 THEN f.hlc
                                     ELSE Latest(highest[i - 1], rows[i].v.at.clock)
  IN highest[Len(rows)]

ApplyPage(h) ==
  LET page == pull[h].page
      done == ApplyRows(h, file[h], page.rows)
      after == [done.f EXCEPT !.hlc = Highest(done.f, page.rows),
                              !.peer[pull[h].peer] = [db |-> page.db, cursor |-> page.next]]
  IN /\ pull[h].pc = "page" /\ page.db = pull[h].db /\ ~ClockAhead(h, page.rows)
     /\ Saves(h, after)
     /\ kept' = done.kept
     /\ pull' = IF page.more
                THEN [pull EXCEPT ![h].pc = "ask", ![h].cursor = page.next, ![h].page = None]
                ELSE Idles(h)
     /\ UNCHANGED <<backup, now, ids, texts, lossy, left>>

-----------------------------------------------------------------------------
(* Tombstones, clocks, restarts and restores.                              *)

(* purgeTombstones: old ones that every peer's cursor is past. *)
Purgeable(h) ==
  {k \in Rows(file[h]) :
     /\ file[h].row[k].dead /\ file[h].row[k].at.clock + Retention < now[h]
     /\ Peers(h) # {} /\ \A p \in Peers(h) : file[h].row[k].seq <= file[h].served[p]}

PurgeTombstones(h) ==
  /\ Idle(h) /\ {p \in Peers(h) : p > pull[h].peer} = {} /\ Purgeable(h) # {} /\ Spend("purges")
  /\ file' = [file EXCEPT ![h].row =
                [k \in Key |-> IF k \in Purgeable(h) THEN None ELSE @[k]]]
  /\ UNCHANGED <<backup, now, pull, ids, texts, kept, top, lossy>>

Tick(h) ==
  /\ Spend("ticks") /\ now' = [now EXCEPT ![h] = @ + 1]
  /\ UNCHANGED <<file, backup, pull, ids, texts, kept, top, lossy>>

(* A clock is set far ahead, and the others get there. *)
Skew(h) ==
  /\ Spend("skews") /\ now' = [now EXCEPT ![h] = @ + 2 * MaxAhead]
  /\ UNCHANGED <<file, backup, pull, ids, texts, kept, top, lossy>>

TimePasses ==
  LET most == Newest({now[h] : h \in Host})
  IN /\ \E h \in Host : now[h] < most
     /\ now' = [h \in Host |-> most]
     /\ UNCHANGED <<file, backup, pull, ids, texts, kept, top, lossy, left>>

(* The retention passes: no request is open so long, and no backup is restored so late. *)
YearsPass ==
  /\ Spend("years") /\ \A h \in Host : Idle(h)
  /\ now' = [h \in Host |-> now[h] + 2 * Retention]
  /\ backup' = [h \in Host |-> None]
  /\ UNCHANGED <<file, pull, ids, texts, kept, top, lossy>>

Restart(h) ==
  /\ ~Idle(h) /\ Spend("restarts")
  /\ pull' = Idles(h)
  /\ UNCHANGED <<file, backup, now, ids, texts, kept, top, lossy>>

Backup(h) ==
  /\ Spend("backups") /\ backup' = [backup EXCEPT ![h] = file[h]]
  /\ UNCHANGED <<file, now, pull, ids, texts, kept, top, lossy>>

Restore(h) ==
  /\ backup[h] # None /\ backup[h] # file[h] /\ Spend("restores")
  /\ file' = [file EXCEPT ![h] = backup[h]]
  /\ backup' = [backup EXCEPT ![h] = None]
  /\ top' = [top EXCEPT ![h] = TopOf(backup[h], [k \in Key |-> None])]
  /\ lossy' = lossy \union {h}
  /\ pull' = Idles(h)
  /\ now' = IF LateRestore THEN [now EXCEPT ![h] = Latest(@, 1 + Newest({file[p].hlc : p \in Host}))]
            ELSE now
  /\ UNCHANGED <<ids, texts, kept>>

-----------------------------------------------------------------------------
(* The specification.                                                      *)

Init ==
  /\ file = [h \in Host |->
       [row |-> [k \in Key |-> None], seq |-> 0, hlc |-> 0, id |-> h,
        served |-> [p \in Host |-> 0], handed |-> [p \in Host |-> 0],
        peer |-> [p \in Host |-> [db |-> 0, cursor |-> 0]]]]
  /\ backup = [h \in Host |-> None]
  /\ now = [h \in Host |-> 1]
  /\ pull = [h \in Host |-> [pc |-> "idle", peer |-> h, db |-> 0, cursor |-> 0, resets |-> 0, page |-> None]]
  /\ ids = Cardinality(Host) /\ texts = <<>> /\ kept = {}
  /\ top = [h \in Host |-> [k \in Key |-> None]] /\ lossy = {}
  /\ left \in Budgets

Writes(h) == \E k \in Key : \/ CreateNote(h, k) \/ InsertCapture(h, k) \/ Groceries(h, k)
                            \/ Update(h, k) \/ RemoveRow(h, k)
Pulls(h) == Hello(h) \/ ServeChanges(h) \/ StartOver(h) \/ Refuse(h) \/ ApplyPage(h)
World(h) == Unreachable(h) \/ PurgeTombstones(h) \/ Tick(h) \/ Skew(h) \/ Restart(h) \/ Backup(h) \/ Restore(h)

Next == TimePasses \/ YearsPass \/ \E h \in Host : Writes(h) \/ Pulls(h) \/ World(h)

Spec == Init /\ [][Next]_vars

(* A pull has a next step whatever it waits for (a request is answered, or
   times out; the loop's timer begins the next), so fairness of Pulls(h) is
   that it goes on for ever. Clocks that are behind get there. *)
FairSpec ==
  /\ Spec /\ WF_vars(TimePasses)
  /\ \A h \in Host : []<><<pull[h]' # pull[h]>>_pull

-----------------------------------------------------------------------------
(* Properties.                                                             *)

File == [row: [Key -> Version \union {None}], seq: Nat, hlc: Nat, id: Nat,
         served: [Host -> Nat], handed: [Host -> Nat], peer: [Host -> [db: Nat, cursor: Nat]]]

TypeOK ==
  /\ file \in [Host -> File] /\ backup \in [Host -> File \union {None}]
  /\ now \in [Host -> Nat] /\ ids \in Nat
  /\ kept \subseteq DOMAIN texts /\ lossy \subseteq Host
  /\ top \in [Host -> [Key -> Stamp \union {None}]]
  /\ left \in [Kind -> Nat]

(* A bad clock does not carry the others' stamps away: whatever was pulled, a
   host's stamps stay near its wall clock (applyPage's look at the stamps). *)
ClocksAreNear == \A h \in Host : file[h].hlc <= now[h] + MaxAhead + file[h].seq

(* Of the rows with one unique value one holds it, in each file and at any
   time (claimUnique; the columns are UNIQUE). *)
OneHolds ==
  \A h \in Host : \A j, k \in Rows(file[h]) :
    Shares(j, k) => ~(file[h].row[j].holds /\ file[h].row[k].holds)

(* docs/plans/notes-and-capture.md: "Nothing is silently lost". What a host's
   user wrote there is in some host's row, was written over by someone who saw
   it, or is kept as a conflict revision; a deleted note's text goes with it.
   Not what was written after a backup that was restored, nor a capture's
   caption (keepLoser; no text column of captures).  It fails where a deleted
   note's tombstone is purged before a newer edit comes (SyncPurged.cfg). *)
NothingLost ==
  \A i \in DOMAIN texts :
    LET t == texts[i]
        rows == {file[h].row[t.key] : h \in Host} \ {None}
    IN \/ t.by \in lossy \/ file[t.by].row[t.key] = None \/ RowKind[t.key] = "upload"
       \/ \E j \in kept \union {v.text : v \in rows} : i = j \/ i \in texts[j].over

(* h has all of p's changes, by a cursor that p will take as its own. *)
HasAll(h, p) ==
  LET known == file[h].peer[p]
  IN /\ known.db = file[p].id /\ known.cursor <= file[p].handed[h]
     /\ \A k \in Rows(file[p]) : file[p].row[k].seq <= known.cursor

Settled == \A h \in Host : \A p \in Peers(h) : HasAll(h, p)

Seen(f, k) == IF f.row[k] = None \/ f.row[k].dead THEN None ELSE [f.row[k] EXCEPT !.seq = 0]

SameRows ==
  /\ \A h, p \in Host : \A k \in Key : Seen(file[h], k) = Seen(file[p], k)
  /\ \A h \in Host : \A j, k \in Live(file[h]) : Shares(j, k) => RowKind[k] = "list"

(* When every host has every other's changes, all of them show the same rows,
   and one upload that reached two hosts is one capture: whatever was edited,
   deleted, purged, lost in transit or restored in between, and in whatever
   order the hosts pulled (applyRow, claimUnique, serveChanges). *)
Agree ==
  /\ TypeOK /\ ClocksAreNear /\ OneHolds
  /\ Settled => SameRows

(* No row of a host goes back to an older version, not even by way of a page
   that was served before the host's own edit, or twice, or after the row was
   purged (applyRow; docs/plans: "no row regresses"). A restore does. *)
NeverBack ==
  [][\A h \in Host : \A k \in Key :
       top[h][k] # None /\ file'[h].row[k] # None /\ left'["restores"] = left["restores"]
         => ~Later(top[h][k], file'[h].row[k].at)]_vars

(* The hosts come to rest with the same rows: an exchange of changes ends,
   though each pull gives the rows it takes change numbers of its own, claims
   of unique values make new versions, and a file may have to be pulled again
   from the start. *)
Settles == <>[]SameRows

=============================================================================
