------------------------------ MODULE MCAgentLoop ------------------------------
(* A small instance of AgentLoop for TLC; see the .cfg files. *)
EXTENDS AgentLoop
===============================================================================
