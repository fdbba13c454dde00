------------------------------- MODULE MCPageRefs -------------------------------
(* A small instance of PageRefs for TLC; see the .cfg files. *)
EXTENDS PageRefs

MCNodes == 1 .. 2
\* A main frame and one within it.
MCFrames == {{1}, {2}}
===============================================================================
