----------------------------- MODULE MCRoutineRun -----------------------------
(* A small instance of RoutineRun for TLC; see the .cfg file. *)
EXTENDS RoutineRun, TLC
===============================================================================
