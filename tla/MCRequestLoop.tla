----------------------------- MODULE MCRequestLoop -----------------------------
(* RequestLoop with a message of up to two tools.  Every kind but "plain",    *)
(* whose steps are those of "command" without its feedback.                   *)
EXTENDS RequestLoop

SpecialTools == ToolKinds \ {"plain"}
=============================================================================
