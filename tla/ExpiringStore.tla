--------------------------- MODULE ExpiringStore ---------------------------
(***************************************************************************)
(* What a client of the cache service may rely on: a map of bounded size   *)
(* in which the answer for a key changes only by a write of that key, its  *)
(* removal, or as the one victim of a write that adds another key to a     *)
(* full map.                                                               *)
(***************************************************************************)
EXTENDS Integers, FiniteSets

CONSTANTS Keys, Values, MaxEntries, Absent, NoDeadline

VARIABLES
    store,     \* what a get of each key answers
    deadline,  \* when each key expires
    now

vars == <<store, deadline, now>>

Present == {k \in Keys : store[k] # Absent}

Init ==
    /\ store = [k \in Keys |-> Absent]
    /\ deadline = [k \in Keys |-> NoDeadline]
    /\ now = 0

\* k gets some deadline in the future.
Postpone(k) ==
    /\ deadline'[k] \in Nat /\ deadline'[k] > now
    /\ deadline' = [deadline EXCEPT ![k] = deadline'[k]]

\* A write that adds a key to a full map loses one other; which one is not
\* promised.  It sets a deadline or leaves the key's deadline as it was.
Write(k, v) ==
    \E lost \in SUBSET (Present \ {k}) :
        /\ Cardinality(lost) = IF k \notin Present /\ Cardinality(Present) = MaxEntries
                               THEN 1 ELSE 0
        /\ store' = [x \in Keys |-> IF x = k THEN v
                                    ELSE IF x \in lost THEN Absent ELSE store[x]]
        /\ \/ UNCHANGED deadline
           \/ Postpone(k)

\* By a client or an expiry: the deadline goes with the entry.
Remove(k) ==
    /\ store' = [store EXCEPT ![k] = Absent]
    /\ deadline' = [deadline EXCEPT ![k] = NoDeadline]

\* A new deadline, or none.
Touch(k) ==
    /\ k \in Present
    /\ \/ deadline' = [deadline EXCEPT ![k] = NoDeadline]
       \/ Postpone(k)
    /\ UNCHANGED store

Clear ==
    /\ store' = [k \in Keys |-> Absent]
    /\ deadline' = [k \in Keys |-> NoDeadline]

Next ==
    \/ /\ UNCHANGED now
       /\ \/ \E k \in Keys, v \in Values : Write(k, v)
          \/ \E k \in Keys : Remove(k) \/ Touch(k)
          \/ Clear
    \/ now' = now + 1 /\ UNCHANGED <<store, deadline>>

Spec == Init /\ [][Next]_vars
=============================================================================
