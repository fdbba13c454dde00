----------------------------- MODULE MCDelegation -----------------------------
(* A small instance of Delegation for TLC. It checks liveness, so it makes no  *)
(* use of the symmetry of tasks.                                               *)
EXTENDS Delegation
=============================================================================
