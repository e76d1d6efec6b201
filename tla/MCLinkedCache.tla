--------------------------- MODULE MCLinkedCache ---------------------------
(* LinkedCache over three keys, a word and the integers of IntBits bits.   *)
EXTENDS LinkedCache

CONSTANTS k1, k2, k3, word

MCKeyLen == [k \in Keys |-> CASE k = k1 -> 1 [] k = k2 -> 2 [] OTHER -> 3]
MCValueLen == [v \in Values |-> IF v = word THEN 4 ELSE IF v < 0 THEN 2 ELSE 1]
MCValues == {word, -1, 0}
MCDeltas == {1, -1}
=============================================================================
