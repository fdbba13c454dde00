----------------------------- MODULE MCRehearsal -----------------------------
(* Small instances of Rehearsal for TLC; see the .cfg files. *)
EXTENDS Rehearsal, TLC

CONSTANTS draft, send

\* A routine that drafts and then sends.
MCBodies == {<<draft, send>>}

Symmetry == Permutations(Executors) \cup Permutations(Undoers)
==============================================================================
