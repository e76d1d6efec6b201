--------------------------- MODULE MCWriteBehind ---------------------------
(* WriteBehind with two databases and a buffer that fills up.              *)
EXTENDS WriteBehind

CONSTANTS db1, db2
=============================================================================
