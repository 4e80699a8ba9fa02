----------------------------- MODULE MCDesktop -----------------------------
(***************************************************************************)
(* Instances of Desktop for TLC.  Only the first process writes and        *)
(* reports: what the second one does to the desktop is to replace it.  It  *)
(* writes a candidate and a final entry.                                   *)
(***************************************************************************)
EXTENDS Desktop

Entries_MC == [p \in Process |-> IF p = 1 THEN 2 ELSE 0]
Candidates_MC == {<<1, 1>>}
FirstOnly == [p \in Process |-> IF p = 1 THEN 1 ELSE 0]
=============================================================================
