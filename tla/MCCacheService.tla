--------------------------- MODULE MCCacheService ---------------------------
(* CacheService with two keys that compete for one entry, a payload that   *)
(* is compressed, the compressed form of it, which a client may send too,  *)
(* and the two integers of one bit.                                        *)
EXTENDS CacheService

CONSTANTS k1, k2, word, packed

MCValues == {word, packed, 0, -1}
MCPack == [v \in {word} |-> packed]
MCUnpack == [v \in {packed} |-> word]
MCDeltas == {1, -1}

\* The bits of k1 are among those of k2: a false positive.
MCHash == [k \in Keys |-> IF k = k1 THEN {1, 2} ELSE {1, 2, 3}]
=============================================================================
