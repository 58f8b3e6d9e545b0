-------------------------------- MODULE MCMcpHub --------------------------------
(* The hub with interchangeable servers and configurations.                   *)
EXTENDS McpHub, TLC

SameServers == Permutations(Servers) \cup Permutations(Configs)
=============================================================================
