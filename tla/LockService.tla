---------------------------- MODULE LockService ----------------------------
(***************************************************************************)
(* The lock service (services/lock-service.ts): a lock is an entry of the  *)
(* cache whose value names the owner and whose time to live is the lease.  *)
(* Owners act on the expiry time they were told; the other clients of the  *)
(* cache, who may write the entry of a lock like any other (its key is     *)
(* valid), its evictions, its timers, its flush and its restarts from a    *)
(* snapshot act on the same entries.                                       *)
(***************************************************************************)
EXTENDS Persistence

CONSTANTS
    Locks,     \* the keys of lock entries
    Owners,    \* the values of lock entries
    LockTTLs,  \* the times to live that owners ask for; acquire takes any number
    MaxTTL     \* maxTTL

ASSUME LocksAssumption ==
    Locks \subseteq Keys /\ Owners \subseteq Payloads \ DOMAIN Unpack
ASSUME LockTTLAssumption ==
    LockTTLs \subseteq Int /\ Undefined \notin Int /\ MaxTTL \in Nat \ {0}

VARIABLES
    claim,  \* the expiry each owner was told of; 0 once it has released, or
            \* once another client has written the entry of the lock
    lease   \* the time to live with which an owner wrote the lock's entry;
            \* Null if another client wrote it last

claims == <<claim, lease>>
lockvars == <<vars, pvars, claims>>

LockTypeOK ==
    /\ PersistenceTypeOK
    /\ claim \in [Owners -> [Locks -> Int]]
    /\ lease \in [Locks -> Int \cup {Null}]

LockInit ==
    /\ PersistenceInit
    /\ claim = [o \in Owners |-> [l \in Locks |-> 0]]
    /\ lease = [l \in Locks |-> Null]

Serving == busy = "no" /\ ~Scanning

-----------------------------------------------------------------------------

Capped(time) == IF time < MaxTTL THEN time ELSE MaxTTL

Told(o, l, time) == claim' = [claim EXCEPT ![o][l] = time]

\* The owner is told when the lease ends.
Grant(o, l, time) ==
    /\ Told(o, l, now + time)
    /\ lease' = [lease EXCEPT ![l] = time]

\* Wrong: the lease is told to the owner and not passed to the cache.
AcquireForEver(l, o, time) ==
    /\ Serving
    /\ Answer(l) = Null
    /\ SetFrom(cache, l, o, Undefined)
    /\ Grant(o, l, Capped(time))
    /\ UNCHANGED <<scan, now, pvars>>

\* A get that answers null means a free lock; it reads nothing.  The time to
\* live is not checked: one of zero or less arms no timer.
Acquire(l, o, time) ==
    /\ Serving
    /\ Answer(l) = Null
    /\ SetFrom(cache, l, o, Capped(time))
    /\ Grant(o, l, Capped(time))
    /\ UNCHANGED <<scan, now, pvars>>

\* Wrong: release does not compare the owner.
ReleaseForeign(l, o) ==
    /\ Serving
    /\ Answer(l) # Null
    /\ DeleteFrom(Read(cache, l), l)
    /\ Told(o, l, 0)
    /\ UNCHANGED <<scan, now, pvars, lease>>

\* release, extend and an acquire in vain read the entry before they decide.
Release(l, o) ==
    /\ Serving
    /\ Answer(l) = o
    /\ DeleteFrom(Read(cache, l), l)
    /\ Told(o, l, 0)
    /\ UNCHANGED <<scan, now, pvars, lease>>

\* A touch and a set, with the same time to live; the set sets the last timer.
Extend(l, o, time) ==
    /\ Serving
    /\ Answer(l) = o
    /\ CanAccess(l)
    /\ time > 0
    /\ SetFrom(Read(cache, l), l, o, Capped(time))
    /\ Grant(o, l, Capped(time))
    /\ UNCHANGED <<scan, now, pvars>>

Refused(l) == Serving /\ Get(l) /\ UNCHANGED <<pvars, claims>>

\* The administrator's: the owner is not told.
ForceRelease(l) == Serving /\ DeleteKey(l) /\ UNCHANGED <<pvars, claims>>

LockCalls ==
    \E l \in Locks :
        \/ \E o \in Owners, time \in LockTTLs : Acquire(l, o, time) \/ Extend(l, o, time)
        \/ \E o \in Owners : Release(l, o)
        \/ Refused(l)

\* What another client of the cache does to the entry of a key, by a request on
\* the key, an upload of a snapshot or the sets of another service.
Writes(k) ==
    \/ \E v \in Payloads, time \in TTLs \cup {Undefined} : Set(k, v, time)
    \/ \E v \in Payloads, n \in 1..MaxAccess : CasPut(k, v, n)
    \/ \E delta \in Deltas : Incr(k, delta)
    \/ \E time \in TTLs : Touch(k, time)
    \/ \E stored \in Values : SetRaw(k, stored)
    \/ DeleteKey(k)

\* Whoever writes the entry of a lock takes the lock from its owner, who is not
\* told.
Voided(k) ==
    /\ claim' = [o \in Owners |-> [l \in Locks |-> IF l = k THEN 0 ELSE claim[o][l]]]
    /\ lease' = [l \in Locks |-> IF l = k THEN Null ELSE lease[l]]

\* The other clients of the cache and the event loop.
Traffic ==
    /\ Serving
    /\ UNCHANGED pvars
    /\ \/ \E k \in Keys : Writes(k) /\ Voided(k)
       \/ /\ \/ \E k \in Keys : Get(k)
             \/ ListKeys
             \/ \E timer \in timers : TimerFires(timer)
             \/ Tick
          /\ UNCHANGED claims

Administration ==
    \/ \E l \in Locks : ForceRelease(l)
    \/ Serving /\ Clear /\ UNCHANGED <<pvars, claims>>

Restarts == PersistenceStep /\ UNCHANGED claims

\* The process runs on, and no administrator intervenes.
LockSpec == LockInit /\ [][LockCalls \/ Traffic]_lockvars /\ Fairness

LockNext == LockCalls \/ Traffic \/ Administration \/ Restarts

DisturbedSpec == LockInit /\ [][LockNext]_lockvars /\ PersistenceFairness

-----------------------------------------------------------------------------
(* Properties.                                                             *)

Holder(l) == Answer(l)

Claims(o, l) == claim[o][l] > now

\* Until the time an owner was told, or until it released the lock or another
\* client of the cache wrote the lock's entry, the lock is its own: no timer, no
\* write of another key and no other owner takes it away, whatever was released,
\* extended, expired or overwritten before; and so no two owners hold it at once.
LeasesAreHonoured ==
    LockTypeOK /\ \A o \in Owners, l \in Locks : Claims(o, l) => Holder(l) = o

\* "Locks are stored in the cache with TTL for automatic release": a lock on
\* which no owner has a claim any more is free again at some time, if its owner
\* asked for a positive time to live and no other client wrote its entry since.
AutomaticRelease ==
    \A l \in Locks :
        LET Abandoned == /\ l \in Cached(cache)
                         /\ lease[l] # Null /\ lease[l] > 0
                         /\ \A o \in Owners : ~Claims(o, l)
        IN  Abandoned ~> ~Abandoned

\* The same promise as it is written, whatever time to live the owner passed: it
\* fails for one of zero or less.
EveryLockIsReleased ==
    \A l \in Locks :
        LET Abandoned == /\ l \in Cached(cache)
                         /\ lease[l] # Null
                         /\ \A o \in Owners : ~Claims(o, l)
        IN  Abandoned ~> ~Abandoned
=============================================================================
