--------------------------- MODULE MCRunLifecycle ---------------------------
(* Small instances of RunLifecycle for TLC. The sets are model values given *)
(* in the .cfg files; slots and rows are interchangeable, so the safety     *)
(* runs reduce by symmetry.                                                 *)
EXTENDS RunLifecycle, TLC

Symmetry == Permutations(Runs) \cup Permutations(Approvals)
            \cup Permutations(Requests) \cup Permutations(Loops)
=============================================================================
