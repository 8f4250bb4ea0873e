---------------------------- MODULE IndexTracker ----------------------------
(***************************************************************************)
(* _IndexChangeTracker (server/main.py): when did the index last change?   *)
(* The store only knows the newest seen_at of its rows, which goes back    *)
(* when rows are deleted; the tracker stamps the changes it observes.      *)
(*                                                                         *)
(* observe is called by the poller and by the /stats handler, each on the  *)
(* answer of a query it awaited: answers may be observed out of order.     *)
(* Server composes it with the accessor the queries go through.            *)
(***************************************************************************)
EXTENDS Naturals, FiniteSets, FiniteSetsExt

CONSTANTS
    Rows,          \* rows the store may hold
    Poller,        \* the task that polls the backend
    Handlers,      \* concurrent /stats requests
    HasMarker,     \* the backend reports last_indexed_at
    MaxClock,      \* bound: seconds that pass
    MaxChanges     \* bound: batches the indexer commits

Callers == Handlers \cup {Poller}

ASSUME TrackerAssumption ==
    /\ IsFiniteSet(Rows) /\ IsFiniteSet(Handlers) /\ Poller \notin Handlers
    /\ HasMarker \in BOOLEAN
    /\ MaxClock \in Nat \ {0} /\ MaxChanges \in Nat

VARIABLES
    clock,      \* seconds since the epoch, 1 at the start of the server
    rows,       \* the store: row -> seen_at, 0 when absent
    snapshot,   \* _snapshot, or None
    changedAt,  \* _changed_at, 0 for None
    pc,         \* of each caller: idle, asked or answered
    got,        \* the answer it awaits or has
    reported,   \* ghost: last_indexed_at of the last response
    floor,      \* ghost: what was reported when a request began
    changes     \* batches committed so far

trackerVars == <<clock, rows, snapshot, changedAt, pc, got, reported, floor, changes>>

None == [chunks |-> 0, newest |-> 0, none |-> TRUE]

\* stats() of an accessor: the number of rows and the newest seen_at.
StatsOf(r) ==
    [chunks |-> Cardinality({x \in Rows : r[x] # 0}),
     newest |-> IF HasMarker THEN Max({r[x] : x \in Rows} \cup {0}) ELSE 0,
     none   |-> FALSE]

-----------------------------------------------------------------------------
Tick ==
    /\ clock < MaxClock
    /\ clock' = clock + 1
    /\ UNCHANGED <<rows, snapshot, changedAt, pc, got, reported, floor, changes>>

\* The indexer writes some rows, seen now, and deletes others.
Commit ==
    /\ changes < MaxChanges
    /\ changes' = changes + 1
    /\ rows' \in [Rows -> {0, clock} \cup {rows[x] : x \in Rows}]
    /\ \A x \in Rows : rows'[x] \in {0, clock, rows[x]}
    /\ rows' # rows
    /\ UNCHANGED <<clock, snapshot, changedAt, pc, got, reported, floor>>

\* The poller's next round, or a /stats request.
Ask(c) ==
    /\ pc[c] = "idle"
    /\ pc' = [pc EXCEPT ![c] = "asked"]
    /\ floor' = [floor EXCEPT ![c] = IF c = Poller THEN 0 ELSE reported]
    /\ UNCHANGED <<clock, rows, snapshot, changedAt, got, reported, changes>>

\* The backend answers with the store of this moment.
StatsAnswered(c) ==
    /\ pc[c] = "asked"
    /\ got' = [got EXCEPT ![c] = StatsOf(rows)]
    /\ pc' = [pc EXCEPT ![c] = "answered"]
    /\ UNCHANGED <<clock, rows, snapshot, changedAt, reported, floor, changes>>

\* What a caller that is done, or whose task was cancelled, leaves behind.
Ends(c) ==
    /\ pc' = [pc EXCEPT ![c] = "idle"]
    /\ got' = [got EXCEPT ![c] = None]
    /\ floor' = [floor EXCEPT ![c] = 0]

\* Or it raises: the poller skips the round, the handler says so.
StatsFail(c) ==
    /\ pc[c] = "asked"
    /\ Ends(c)
    /\ UNCHANGED <<clock, rows, snapshot, changedAt, reported, changes>>

\* The key differs from the last one looked at.
Moved(key) == snapshot # None /\ key # snapshot

\* Mutated form: what the backend reports goes first.
Later_Stored(a, b) == IF b # 0 THEN b ELSE a

\* What observe leaves in last_indexed_at.
Later(a, b) == IF a > b THEN a ELSE b

\* Mutated form: the snapshot is taken once.
Remember_First(key) == snapshot' = IF snapshot = None THEN key ELSE snapshot
Remember(key) == snapshot' = key

\* _changed_at after an observation.
Stamp(key) == IF Moved(key) THEN clock ELSE changedAt

\* observe, and the response of a handler.
Observe(c) ==
    /\ pc[c] = "answered"
    /\ Remember(got[c])
    /\ changedAt' = Stamp(got[c])
    /\ reported' = IF c = Poller THEN reported ELSE Later(changedAt', got[c].newest)
    /\ Ends(c)
    /\ UNCHANGED <<clock, rows, changes>>

-----------------------------------------------------------------------------
TrackerInit ==
    /\ clock = 1
    /\ rows \in {[x \in Rows |-> 0], [x \in Rows |-> 1]}
    /\ snapshot = None /\ changedAt = 0
    /\ pc = [c \in Callers |-> "idle"]
    /\ got = [c \in Callers |-> None]
    /\ reported = 0
    /\ floor = [c \in Callers |-> 0]
    /\ changes = 0

Caller(c) == Ask(c) \/ StatsAnswered(c) \/ StatsFail(c) \/ Observe(c)

\* The poller's task is cancelled, between two awaits or in one.
CancelPoller ==
    /\ Ends(Poller)
    /\ UNCHANGED <<clock, rows, snapshot, changedAt, reported, changes>>

TrackerNext == Tick \/ Commit \/ CancelPoller \/ \E c \in Callers : Caller(c)

TrackerSpec == TrackerInit /\ [][TrackerNext]_trackerVars

-----------------------------------------------------------------------------
(* What the code is expected to guarantee.                                 *)

Keys == [chunks : 0..Cardinality(Rows), newest : 0..MaxClock, none : BOOLEAN]

\* Types of the tracker's fields and of its callers' locals.
TrackerTypeOK ==
    /\ clock \in 1..MaxClock
    /\ rows \in [Rows -> 0..MaxClock]
    /\ snapshot \in Keys /\ changedAt \in 0..MaxClock
    /\ pc \in [Callers -> {"idle", "asked", "answered"}]
    /\ got \in [Callers -> Keys]
    /\ reported \in 0..MaxClock /\ floor \in [Callers -> 0..MaxClock]
    /\ changes \in 0..MaxChanges

\* main.py:98-101: the time of the last change never goes back, whatever is
\* deleted: a /stats request that begins after a response was sent reports
\* no earlier time, although answers are observed out of order.
NeverRollsBack ==
    [][\A c \in Handlers :
         pc[c] = "answered" /\ pc'[c] = "idle" => reported' >= floor[c]]_trackerVars
=============================================================================
