----------------------------- MODULE MCWorkQueue -----------------------------
(* A small instance of WorkQueue for TLC. It checks liveness, so it makes no  *)
(* use of the symmetry of replicas and bots.                                  *)
EXTENDS WorkQueue
=============================================================================
