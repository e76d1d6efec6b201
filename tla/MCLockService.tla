--------------------------- MODULE MCLockService ---------------------------
(* Two owners of one lock in a cache that other clients write too.         *)
EXTENDS LockService

CONSTANTS lock, other, ann, bob

MCValues == {ann, bob, 0, -1}
MCPack == << >>
MCHash == [k \in Keys |-> IF k = lock THEN {1, 2} ELSE {2, 3}]
=============================================================================
