------------------------------ MODULE MCTerminals ------------------------------
(* Terminals with interchangeable tasks.                                      *)
EXTENDS Terminals, TLC

SameTasks == Permutations(Tasks)
=============================================================================
