---------------------------- MODULE WriteBehind ----------------------------
(***************************************************************************)
(* The write-behind buffer of the database proxy                           *)
(* (db/write-behind-buffer.ts): writes are accepted at once and executed   *)
(* later by a flush, on a timer, on demand, when the buffer is full or at  *)
(* the shutdown of the server.  A flush awaits the database for each write *)
(* and, between two attempts, a delay; requests are served meanwhile.      *)
(***************************************************************************)
EXTENDS Naturals, FiniteSets, Sequences

CONSTANTS
    Databases,
    MaxBufferSize,
    RetryAttempts,
    MaxWrites      \* bound on the writes accepted

ASSUME ConfigAssumption ==
    /\ MaxBufferSize \in Nat \ {0}
    /\ RetryAttempts \in Nat
    /\ MaxWrites \in Nat

VARIABLES
    accepted,    \* the connector of each write, in the order of acceptance
    buffer,      \* the writes that wait: the buffer keeps that order
    flushing,
    batch,       \* what the flush in progress has still to execute
    current,     \* the write being executed
    retryCount,  \* the attempts at it that failed
    sleeping,    \* it waits for its next attempt
    counts,      \* the writes that the flush in progress flushed and failed
    totals,
    applied,     \* what each database executed
    shutdown

progress == <<flushing, batch, current, retryCount, sleeping>>
buffervars == <<accepted, buffer, progress, counts, totals, applied, shutdown>>

Writes == 1..Len(accepted)
Count == [flushed : Nat, failed : Nat]
Zero == [flushed |-> 0, failed |-> 0]

BufferTypeOK ==
    /\ accepted \in Seq(Databases)
    /\ buffer \subseteq Writes
    /\ flushing \in BOOLEAN
    /\ batch \subseteq Writes
    /\ current \in Writes \cup {0}
    /\ flushing <=> current # 0
    /\ retryCount \in 0..RetryAttempts
    /\ sleeping \in BOOLEAN
    /\ counts \in Count /\ totals \in Count
    /\ applied \in [Databases -> Seq(Writes)]
    /\ shutdown \in {"no", "draining", "exited"}

BufferInit ==
    /\ accepted = << >>
    /\ buffer = {} /\ batch = {}
    /\ flushing = FALSE /\ current = 0 /\ retryCount = 0 /\ sleeping = FALSE
    /\ counts = Zero /\ totals = Zero
    /\ applied = [c \in Databases |-> << >>]
    /\ shutdown = "no"

-----------------------------------------------------------------------------

Up == shutdown # "exited"

First(w, S) == w \in S /\ \A x \in S : w <= x

\* The next write of the batch, which is grouped by connector: the first of
\* the same connector while there is one, else the first that is left.
Follows(w, connector) ==
    LET same == {x \in batch : accepted[x] = connector}
    IN  First(w, IF same # {} THEN same ELSE batch)

Execute(w) == current' = w /\ retryCount' = 0 /\ sleeping' = FALSE

\* flush takes all that waits out of the buffer and starts on the first.
Take(waiting) ==
    /\ flushing' = TRUE
    /\ buffer' = {}
    /\ \E w \in waiting :
          /\ First(w, waiting)
          /\ batch' = waiting \ {w}
          /\ Execute(w)
    /\ UNCHANGED counts

\* A full buffer is flushed, unless a flush is in progress.
Add(connector) ==
    /\ Up
    /\ Len(accepted) < MaxWrites
    /\ accepted' = Append(accepted, connector)
    /\ LET waiting == buffer \cup {Len(accepted) + 1} IN
       IF Cardinality(waiting) >= MaxBufferSize /\ ~flushing
       THEN Take(waiting)
       ELSE buffer' = waiting /\ UNCHANGED <<progress, counts>>
    /\ UNCHANGED <<totals, applied, shutdown>>

FlushBuffer ==
    /\ Up
    /\ ~flushing /\ buffer # {}
    /\ Take(buffer)
    /\ UNCHANGED <<accepted, totals, applied, shutdown>>

\* The interval, which stop clears.
FlushTimer == shutdown = "no" /\ FlushBuffer

\* Wrong: the totals are those of the last flush.
AdvanceResettingTotals(settled) ==
    IF batch # {}
    THEN /\ \E w \in batch :
               /\ Follows(w, accepted[current])
               /\ batch' = batch \ {w}
               /\ Execute(w)
         /\ counts' = settled
         /\ UNCHANGED <<flushing, totals, shutdown>>
    ELSE /\ flushing' = FALSE
         /\ Execute(0)
         /\ counts' = Zero
         /\ totals' = settled
         /\ shutdown' = IF shutdown = "draining" THEN "exited" ELSE shutdown
         /\ UNCHANGED batch

\* The write is settled, with the counts given: on to the next one of the
\* batch, or to the end of the flush, for which the shutdown may be waiting.
Advance(settled) ==
    IF batch # {}
    THEN /\ \E w \in batch :
               /\ Follows(w, accepted[current])
               /\ batch' = batch \ {w}
               /\ Execute(w)
         /\ counts' = settled
         /\ UNCHANGED <<flushing, totals, shutdown>>
    ELSE /\ flushing' = FALSE
         /\ Execute(0)
         /\ counts' = Zero
         /\ totals' = [flushed |-> totals.flushed + settled.flushed,
                       failed |-> totals.failed + settled.failed]
         /\ shutdown' = IF shutdown = "draining" THEN "exited" ELSE shutdown
         /\ UNCHANGED batch

Calling == Up /\ flushing /\ ~sleeping

Applies ==
    applied' = [applied EXCEPT ![accepted[current]] = Append(@, current)]

CallSucceeds ==
    /\ Calling
    /\ Applies
    /\ Advance([counts EXCEPT !.flushed = @ + 1])
    /\ UNCHANGED <<accepted, buffer>>

\* Wrong: a write that failed goes back to the buffer, behind later ones.
CallFailsRequeued ==
    /\ Calling
    /\ buffer' = buffer \cup {current}
    /\ Advance(counts)
    /\ UNCHANGED <<accepted, applied>>

\* Wrong: the failed attempts are not counted.
CallFailsForEver ==
    /\ Calling
    /\ sleeping' = TRUE
    /\ UNCHANGED <<accepted, buffer, flushing, batch, current, retryCount,
                   counts, totals, applied, shutdown>>

\* An error, from the connector or because it is no longer registered.  When
\* it is the answer that was lost, the database has executed the write.
CallFails ==
    /\ Calling
    /\ Applies \/ UNCHANGED applied
    /\ IF retryCount + 1 > RetryAttempts
       THEN Advance([counts EXCEPT !.failed = @ + 1])
       ELSE /\ retryCount' = retryCount + 1
            /\ sleeping' = TRUE
            /\ UNCHANGED <<flushing, batch, current, counts, totals, shutdown>>
    /\ UNCHANGED <<accepted, buffer>>

SleepEnds ==
    /\ Up
    /\ sleeping
    /\ sleeping' = FALSE
    /\ UNCHANGED <<accepted, buffer, flushing, batch, current, retryCount,
                   counts, totals, applied, shutdown>>

\* stop, of a signal and perhaps of a second one: a last flush of what waits,
\* which one in progress makes return at once, and then the exit.
Stop ==
    /\ Up
    /\ IF buffer # {} /\ ~flushing
       THEN Take(buffer) /\ shutdown' = "draining"
       ELSE UNCHANGED <<buffer, progress, counts>> /\ shutdown' = "exited"
    /\ UNCHANGED <<accepted, totals, applied>>

BufferNext ==
    \/ \E connector \in Databases : Add(connector)
    \/ FlushBuffer
    \/ CallSucceeds
    \/ CallFails
    \/ SleepEnds
    \/ Stop

\* The interval and the delays elapse, and a database answers every call.
Fairness == WF_buffervars(FlushTimer) /\ WF_buffervars(SleepEnds) /\ WF_buffervars(CallSucceeds \/ CallFails)

BufferSpec == BufferInit /\ [][BufferNext]_buffervars /\ Fairness

-----------------------------------------------------------------------------
(* Properties.                                                             *)

\* A database never executes a write after a later one, whatever fails, is
\* retried, or is accepted while a flush is in progress.
WritesKeepTheirOrder ==
    \A c \in Databases : \A i, j \in DOMAIN applied[c] :
        i <= j => applied[c][i] <= applied[c][j]

Settled(c) == c.flushed + c.failed

\* getStats: a write that was accepted waits, is in the flush in progress, or
\* is counted once, as flushed or as failed.
EveryWriteIsCounted ==
    Len(accepted) = Cardinality(buffer) + Cardinality(batch \cup ({current} \ {0}))
                    + Settled(counts) + Settled(totals)

\* Every write accepted is executed or given up in the end, unless the server
\* is shut down first.
WritesSettle ==
    \A w \in 1..MaxWrites :
        w \in Writes ~> w \notin buffer \cup batch \cup {current} \/ ~Up

\* stop: "Final flush to drain any remaining entries".
FinalFlushDrains == ~Up => buffer \cup batch \cup ({current} \ {0}) = {}
=============================================================================
