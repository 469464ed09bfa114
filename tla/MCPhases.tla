------------------------------ MODULE MCPhases ------------------------------
(* Three jobs for two permits, or one after the other through the graph.   *)
EXTENDS Phases
=============================================================================
