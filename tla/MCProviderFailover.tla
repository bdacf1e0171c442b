------------------------ MODULE MCProviderFailover ------------------------
(* Two providers of high priority, of which one cannot be used, and three   *)
(* that follow.                                                             *)
EXTENDS ProviderFailover

CONSTANTS node, dead, p1, p2, p3

MCPriority == [p \in Provider |-> IF p \in {node, dead} THEN 20 ELSE IF p = p1 THEN 10 ELSE 5]
===========================================================================
