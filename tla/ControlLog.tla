------------------------------- MODULE ControlLog -------------------------------
(***************************************************************************)
(* The two growing tables of the control store: the metrics of the nodes'  *)
(* heartbeats, of which those of three days are kept, and the events, of   *)
(* which the most recent ones are listed.                                  *)
(*                                                                         *)
(* Both are written with the server's wall clock, which may be set back.   *)
(* Each write is a transaction of redb.                                    *)
(***************************************************************************)
EXTENDS Naturals, Sequences, FiniteSets

CONSTANTS
    Nodes,
    MaxClock,      \* the clock is between 0 and this
    MaxRecords,    \* heartbeats and events at most
    Retention,     \* METRIC_RETENTION_MS
    Limit          \* events that GET /v1/events lists

VARIABLES
    clock,         \* now_unix_ms of the server
    metrics,       \* the metrics table
    beats,         \* history: the heartbeats that were acknowledged
    sequence,      \* node -> sequence number of its last heartbeat
    events         \* the events table

vars == <<clock, metrics, beats, sequence, events>>

Room == Cardinality(beats) + Cardinality(events) < MaxRecords
Lesser(a, b) == IF a < b THEN a ELSE b
Least(n, lower) == IF n > lower THEN n - lower ELSE 0     \* saturating_sub

MutantPrune(kept, now) ==                      \* the last Retention metrics
    {m \in kept : Cardinality({k \in kept : k.ms > m.ms}) < Retention}
\* The transaction that inserts a metric drops what is out of date, of any node.
Prune(kept, now) == {m \in kept : m.ms >= Least(now, Retention)}

\* The key is the node, the time and the sequence number; the record that had it
\* before is replaced.
Heartbeat(n) ==
    /\ Room
    /\ sequence' = [sequence EXCEPT ![n] = @ + 1]
    /\ LET m == [node |-> n, ms |-> clock, seq |-> sequence'[n]] IN
       /\ metrics' = Prune(metrics \cup {m}, clock)
       /\ beats' = beats \cup {m}
    /\ UNCHANGED <<clock, events>>

\* The client starts again and counts from 1.
ClientRestarts(n) ==
    /\ sequence[n] > 0
    /\ sequence' = [sequence EXCEPT ![n] = 0]
    /\ UNCHANGED <<clock, metrics, beats, events>>

\* An event id is a UUID of version 7: later ones are greater.  The write may fail,
\* which is only logged.
RecordEvent ==
    /\ Room
    /\ \E stored \in BOOLEAN :
         events' = IF stored THEN events \cup {[ms |-> clock, id |-> Cardinality(events)]}
                             ELSE events
    /\ UNCHANGED <<clock, metrics, beats, sequence>>

ClockMoves ==
    /\ clock' \in 0..MaxClock /\ clock' # clock
    /\ UNCHANGED <<metrics, beats, sequence, events>>

--------------------------------------------------------------------------------
(* Reading *)

\* Keys are ordered by their time, and those of one millisecond by what follows it.
Earlier(a, b) == a.ms < b.ms
KeyBefore(a, b) == Earlier(a, b) \/ (a.ms = b.ms /\ a.id < b.id)
\* The elements of a set in an order of them.
Ordered(S, Before(_, _)) ==
    CHOOSE s \in [1..Cardinality(S) -> S] :
        \A i, j \in DOMAIN s : i < j => Before(s[i], s[j])
EventsTable == Ordered(events, KeyBefore)

MutantRecentEvents ==                          \* cut before it is sorted
    SubSeq(EventsTable, 1, Lesser(Limit, Len(EventsTable)))
\* The sort by time is stable: one millisecond stays in the order of the keys.
NewestFirst(a, b) == Earlier(b, a) \/ (a.ms = b.ms /\ a.id < b.id)
RecentEvents ==
    LET newest == Ordered(events, NewestFirst) IN
    SubSeq(newest, 1, Lesser(Limit, Len(newest)))

Init ==
    /\ clock \in 0..MaxClock
    /\ metrics = {} /\ beats = {} /\ events = {}
    /\ sequence = [n \in Nodes |-> 0]

Next ==
    \/ \E n \in Nodes : Heartbeat(n) \/ ClientRestarts(n)
    \/ RecordEvent \/ ClockMoves

Spec == Init /\ [][Next]_vars

--------------------------------------------------------------------------------
(* Properties *)

\* A heartbeat that was acknowledged stays on record until one is recorded more
\* than Retention after it, of whatever node and however the clock is set
\* (put_metric; techspec.md:193).
Outdated(m) == \E b \in beats : b.ms > m.ms + Retention
MetricsKept == \A m \in beats : ~Outdated(m) => m \in metrics

\* An event that is not listed has Limit others that are not older: a millisecond
\* with many events is the only thing that can hide a newer one (recent_events).
Listed == {RecentEvents[i] : i \in DOMAIN RecentEvents}
UnlistedIsOutdated ==
    \A e \in events \ Listed : Cardinality({f \in events \ {e} : f.ms >= e.ms}) >= Limit
================================================================================
