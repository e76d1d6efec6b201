--------------------------- MODULE MCPersistence ---------------------------
(* Persistence with three keys; one of the two integers is stored packed.  *)
EXTENDS Persistence

CONSTANTS k1, k2, k3, packed

MCValues == {packed, 0, -1}
MCPayloads == {0, -1}
MCPack == [v \in {0} |-> packed]
MCUnpack == [v \in {packed} |-> 0]
MCHash == [k \in Keys |-> IF k = k1 THEN {1, 2} ELSE IF k = k2 THEN {2, 3} ELSE {1, 3}]
=============================================================================
