---------------------------- MODULE MCCasClients ----------------------------
(* Two clients of one key, with another key that may evict it.             *)
EXTENDS CasClients

CONSTANTS shared, other, ann, bob, word

MCValues == {word, 0, -1}
MCDeltas == {1, -1}
=============================================================================
