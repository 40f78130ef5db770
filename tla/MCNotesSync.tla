---------------------------- MODULE MCNotesSync ----------------------------
(* NotesSync for TLC: two hosts, a note, two groceries lists and two captures
   of one upload. *)
EXTENDS NotesSync, TLC

Kinds == <<"note", "list", "list", "upload", "upload">>

Scenario(b) == b @@ [k \in Kind |-> 0]

Scenarios ==
  { Scenario([notes |-> 1, edits |-> 2, deletes |-> 1]),
    Scenario([notes |-> 1, edits |-> 1, backups |-> 1, restores |-> 1]),
    Scenario([notes |-> 1, uploads |-> 1, backups |-> 1, restores |-> 1]),
    Scenario([notes |-> 1, deletes |-> 1, years |-> 1, purges |-> 2]),
    Scenario([lists |-> 3, deletes |-> 1]),
    Scenario([lists |-> 2, edits |-> 1]),
    Scenario([uploads |-> 2, deletes |-> 1]),
    Scenario([notes |-> 1, edits |-> 1, ticks |-> 1, skews |-> 1]),
    Scenario([notes |-> 1, edits |-> 1, lost |-> 1, restarts |-> 1]) }

(* A clock ahead, and a host restored before its own gets there. *)
EarlyRestores ==
  { Scenario([notes |-> 1, edits |-> 2, ticks |-> 1, backups |-> 1, restores |-> 1]) }

(* A host and its peer are restored one after the other. *)
BothRestored ==
  { Scenario([notes |-> 2, edits |-> 1, backups |-> 2, restores |-> 2]) }
TwoNotes == <<"note", "note">>

(* A deleted note is edited on a host that was away, and the tombstone is dropped. *)
EditedLate ==
  { Scenario([notes |-> 1, edits |-> 3, deletes |-> 1, years |-> 1, purges |-> 1]) }
OneNote == <<"note">>
=============================================================================
