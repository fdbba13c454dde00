----------------------------- MODULE MCModelRouter -----------------------------
(* A small instance of ModelRouter for TLC; see the .cfg file. *)
EXTENDS ModelRouter
===============================================================================
