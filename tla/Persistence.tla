---------------------------- MODULE Persistence ----------------------------
(***************************************************************************)
(* Snapshots (services/persistence-service.ts) of a cache service that may *)
(* crash and restart.  save, on a timer or on demand, exports the entries, *)
(* writes them to a temporary file and renames it; load, before the server *)
(* answers, puts them back one at a time.  Both are synchronous, so while  *)
(* one is in progress nothing else happens but a crash.                    *)
(***************************************************************************)
EXTENDS CacheService

CONSTANTS
    NoFile, Partial,  \* a file that does not exist, or is cut short
    MaxCrashes        \* bound on the crashes

ASSUME CrashesAssumption == MaxCrashes \in Nat

VARIABLES
    file,     \* the snapshot's entries
    tmpFile,
    snapshot, \* the entries that save is about to write
    busy,     \* the step of save or load in progress, or "no"
    loading,  \* the keys that load has still to put back
    crashes

disk == <<file, tmpFile>>
pvars == <<file, tmpFile, snapshot, busy, loading, crashes>>
allvars == <<vars, pvars>>

PersistenceTypeOK ==
    /\ TypeOK
    /\ file = NoFile \/ DOMAIN file \subseteq Keys
    /\ busy \in {"no", "exporting", "writing", "renaming", "loading"}
    /\ loading \subseteq Keys
    /\ crashes \in 0..MaxCrashes

PersistenceInit ==
    /\ Init
    /\ file = NoFile
    /\ tmpFile = NoFile
    /\ snapshot = << >>
    /\ busy = "no"
    /\ loading = {}
    /\ crashes = 0

Content == [k \in Cached(cache) |-> cache.entries[k].value]

-----------------------------------------------------------------------------

SaveStarts ==
    /\ busy = "no"
    /\ \/ ExportEntries
       \/ ~Scanning /\ keySet = {} /\ UNCHANGED vars
    /\ busy' = "exporting"
    /\ UNCHANGED <<disk, snapshot, loading, crashes>>

\* The export's loop, then its return, which hands over the entries.
SaveExports ==
    /\ busy = "exporting"
    /\ \/ \E k \in scan.left : ExportNext(k) /\ UNCHANGED <<pvars>>
       \/ /\ scan.left = {}
          /\ ExportReturns \/ (~Scanning /\ UNCHANGED vars)
          /\ tmpFile' = Partial
          /\ snapshot' = scan.entries
          /\ busy' = "writing"
          /\ UNCHANGED <<file, loading, crashes>>

SaveWrites ==
    /\ busy = "writing"
    /\ tmpFile' = snapshot
    /\ busy' = "renaming"
    /\ UNCHANGED <<vars, file, snapshot, loading, crashes>>

SaveRenames ==
    /\ busy = "renaming"
    /\ file' = tmpFile
    /\ tmpFile' = NoFile
    /\ busy' = "no"
    /\ snapshot' = << >>
    /\ UNCHANGED <<vars, loading, crashes>>

\* Wrong: a save that failed writes again, for as long as it fails.
SaveRetries ==
    /\ busy \in {"writing", "renaming"}
    /\ busy' = "writing"
    /\ tmpFile' = Partial
    /\ UNCHANGED <<vars, file, snapshot, loading, crashes>>

\* An error while writing or renaming is caught; save returns false.  What it
\* leaves in the temporary file is never read.
SaveFails ==
    /\ busy \in {"writing", "renaming"}
    /\ busy' = "no"
    /\ tmpFile' = Partial
    /\ snapshot' = << >>
    /\ UNCHANGED <<vars, file, loading, crashes>>

\* The process dies at any step, with all of its memory; the clock goes on.
Crash ==
    /\ crashes < MaxCrashes
    /\ crashes' = crashes + 1
    /\ cache' = EmptyCache
    /\ keySet' = {}
    /\ bloom' = {}
    /\ ttlTimers' = [k \in Keys |-> Null]
    /\ ttlExpiry' = [k \in Keys |-> Null]
    /\ timers' = {}
    /\ scan' = NoScan
    /\ snapshot' = << >>
    /\ busy' = "loading"
    /\ loading' = IF file = NoFile THEN {} ELSE DOMAIN file
    /\ tmpFile' = IF tmpFile = NoFile THEN NoFile ELSE Partial
    /\ UNCHANGED <<file, now>>

LoadNext(k) ==
    /\ busy = "loading"
    /\ k \in loading
    /\ SetRaw(k, file[k])
    /\ loading' = loading \ {k}
    /\ UNCHANGED <<disk, snapshot, busy, crashes>>

Loaded ==
    /\ busy = "loading"
    /\ loading = {}
    /\ busy' = "no"
    /\ UNCHANGED <<vars, disk, snapshot, loading, crashes>>

SaveStep == SaveExports \/ SaveWrites \/ SaveRenames \/ SaveFails
LoadStep == (\E k \in loading : LoadNext(k)) \/ Loaded

PersistenceStep == SaveStarts \/ SaveStep \/ Crash \/ LoadStep

\* Wrong: an asynchronous write, with requests served in between.
ServingWhileSaving ==
    \/ busy \in {"no", "writing", "renaming"} /\ Next /\ UNCHANGED pvars
    \/ PersistenceStep

PersistenceNext ==
    \/ busy = "no" /\ Next /\ UNCHANGED pvars
    \/ PersistenceStep

\* A save or a load in progress goes on unless the process dies.
PersistenceFairness == Fairness /\ WF_allvars(SaveStep \/ LoadStep)

PersistenceSpec ==
    PersistenceInit /\ [][PersistenceNext]_allvars /\ PersistenceFairness

-----------------------------------------------------------------------------
(* Properties.                                                             *)

\* "Write to temp file first, then atomically rename": the snapshot on disk only
\* ever becomes the whole content of the cache at the moment of its replacement,
\* and so never a part of one, however a save fails or the process dies.
SavesTheContent == [][file' # file => file' = Content]_allvars

\* When load has run, the cache holds exactly the entries of the snapshot and
\* get finds each of them.
RestoreIsComplete ==
    busy = "loading" /\ loading = {} =>
        /\ Content = IF file = NoFile THEN << >> ELSE file
        /\ \A k \in Cached(cache) : Answer(k) # Null

\* The service's own invariants survive crashes, restores and saves.
ServiceOK == PersistenceTypeOK /\ KnownKeys /\ NoFalseNegative

\* The server answers again after every crash, and every save ends.
BusyEnds == busy # "no" ~> busy = "no"
=============================================================================
