---------------------------- MODULE MCElection ----------------------------
(* Two nodes, each the seed of the other, of different priorities, and of  *)
(* the same one (the default).                                             *)
EXTENDS Election

CONSTANTS low, high

MCSeeds == [n \in Nodes |-> IF n = low THEN <<high>> ELSE <<low>>]
MCPriority == [n \in Nodes |-> IF n = low THEN 1 ELSE 2]
MCEqual == [n \in Nodes |-> 1]
=============================================================================
