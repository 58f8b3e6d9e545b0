------------------------------ MODULE MCTaskStack ------------------------------
(* TaskStack for TLC: four instances are enough for a subtask of a subtask    *)
(* and one replacement.                                                        *)
EXTENDS TaskStack
=============================================================================
