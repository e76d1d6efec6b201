---------------------------- MODULE TaggedStore ----------------------------
(***************************************************************************)
(* What the interface StorageAdapter (db/adapter.ts) promises: a durable   *)
(* map of entries with tags, each of which is gone from the instant at     *)
(* which it expires, and whose writes are all or nothing.                  *)
(***************************************************************************)
EXTENDS Integers

CONSTANTS Ids, Tags, Absent, Never

VARIABLES entries, now

vars == <<entries, now>>

Init == entries = [id \in Ids |-> Absent] /\ now = 0

\* All of the entries written take their new value, tags and expiry.
Write(rows) ==
    /\ entries' = [id \in Ids |-> IF id \in DOMAIN rows THEN rows[id] ELSE entries[id]]
    /\ UNCHANGED now

Remove(S) ==
    /\ entries' = [id \in Ids |-> IF id \in S THEN Absent ELSE entries[id]]
    /\ UNCHANGED now

Tagged(tags) == {id \in Ids : entries[id] # Absent /\ entries[id].tags \cap tags # {}}

\* Time passes, and what expires is gone.
Tick ==
    /\ now' = now + 1
    /\ entries' = [id \in Ids |->
                     IF entries[id] # Absent /\ entries[id].expires = now'
                     THEN Absent ELSE entries[id]]

Next ==
    \/ \E S \in SUBSET Ids :
          \/ Remove(S)
          \/ /\ \A id \in S : entries'[id] # Absent /\ entries'[id].tags \subseteq Tags
             /\ Write([id \in S |-> entries'[id]])
    \/ Tick

Spec == Init /\ [][Next]_vars
=============================================================================
