----------------------------- MODULE MCPthread ------------------------------
(* Two tasks, one of which the other may create.                           *)
EXTENDS Pthread

CONSTANTS a, b
=============================================================================
