----------------------------- MODULE HybridIndex -----------------------------
(***************************************************************************)
(* The in-process BM25 index of a vector accessor (server/hybrid.py):      *)
(* built from a scan of the stored chunks, cached together with the change *)
(* signal it was built for, rebuilt by the query that sees the signal move *)
(* and refreshed in the background on a timer.                             *)
(*                                                                         *)
(* The store is written by another process, the indexer.  Every query is a *)
(* coroutine of the server's event loop: each await in the code is a       *)
(* boundary between two actions here, and what runs between two awaits is  *)
(* one action.                                                             *)
(*                                                                         *)
(* The store's past is kept in `history`, one element per committed batch; *)
(* an epoch is an index into it.  What a process knows is recorded as the  *)
(* epoch at which it was read.                                             *)
(***************************************************************************)
EXTENDS Naturals, Sequences, FiniteSets, FiniteSetsExt

CONSTANTS
    Chunks,        \* identities of the chunks the store may hold
    Pages,         \* how one scan walks them: a sequence of sets of chunks
    Queries,       \* coroutines that serve a retrieval request
    Refresher,     \* the background refresh task
    HasMarker,     \* the backend reports the newest seen_at (DuckDB, pgvector)
    Timed,         \* hybrid_refresh_seconds is not null
    MaxChunks,     \* hybrid_max_chunks
    MaxChanges,    \* bound: batches the indexer commits
    MaxStamp,      \* bound: seconds of the clock seen_at is taken from
    MaxFailures    \* bound: backend calls that raise

Procs == Queries \cup {Refresher}

ASSUME ProcsAssumption == Refresher \notin Queries
ASSUME PagesAssumption ==
    /\ Pages \in Seq(SUBSET Chunks)
    /\ Len(Pages) > 0
    /\ \A c \in Chunks : \E i \in 1..Len(Pages) : c \in Pages[i]
ASSUME BoundsAssumption ==
    /\ MaxChunks \in Nat
    /\ MaxChanges \in Nat
    /\ MaxStamp \in Nat
    /\ MaxFailures \in Nat
    /\ HasMarker \in BOOLEAN
    /\ Timed \in BOOLEAN

VARIABLES
    history,    \* contents of the store, oldest first: chunk -> seen_at, 0 = absent
    index,      \* _bm25 and _bm25_built_for: none, or the scan and its label
    due,        \* _refresh_due(): the ttl has passed since _bm25_built_at
    queue,      \* _bm25_lock: its holder, then the waiters in FIFO order
    pc,         \* where each coroutine is suspended
    ver,        \* the version a coroutine read, as the epoch of the answer (1
                \* when it runs no request: a local that is out of scope)
    scan,       \* rows fetched so far by a rebuild: chunk -> epoch, 0 = not yet
    page,       \* next page of that scan
    held,       \* the index object a query answers from
    life,       \* of the accessor: open, closing or closed
    failures    \* backend calls that raised so far

vars == <<history, index, due, queue, pc, ver, scan, page, held, life, failures>>

None == [built |-> FALSE]

Now == Len(history)
Rows == history[Now]

\* The change signal of _hybrid_version for one content of the store.
Signal(rows) ==
    << Cardinality({c \in Chunks : rows[c] > 0}),
       IF HasMarker THEN Max({rows[c] : c \in Chunks} \cup {0}) ELSE 0 >>

SignalAt(e) == Signal(history[e])

\* An index built from rows read at epochs `at`, labelled with the signal
\* the building coroutine had read at epoch `label`.
Index == [built : {TRUE}, at : [Chunks -> Nat], label : Nat]

\* Mutated form: the marker is not compared.
IndexCurrent_CountOnly(p) ==
    /\ index.built
    /\ SignalAt(index.label)[1] = SignalAt(ver[p])[1]

\* _index_current: the cached index carries the version p has read.
IndexCurrent(p) ==
    /\ index.built
    /\ SignalAt(index.label) = SignalAt(ver[p])

-----------------------------------------------------------------------------
(* The indexer: one committed batch removes and writes chunks.  seen_at is *)
(* a whole number of seconds that never runs backwards from one batch to   *)
(* the next, and a later batch may carry the same stamp.                   *)

Commit(gone, new, s) ==
    /\ Now <= MaxChanges
    /\ gone \cup new # {}
    /\ \A c \in gone : Rows[c] > 0
    /\ history' = Append(history,
                    [c \in Chunks |-> CASE c \in new  -> s
                                        [] c \in gone -> 0
                                        [] OTHER      -> Rows[c]])
    /\ UNCHANGED <<index, due, queue, pc, ver, scan, page, held, life, failures>>

IndexerCommits ==
    \E gone, new \in {S \in SUBSET Chunks : Cardinality(S) <= 1} :
    \E s \in 1..MaxStamp :
        /\ gone \cap new = {}
        /\ \A e \in 1..Now, c \in Chunks : history[e][c] <= s
        /\ Commit(gone, new, s)

-----------------------------------------------------------------------------
(* A query.                                                                *)

\* A retrieval request reaches _keyword_hits and the backend answers its
\* version query; the coroutine has yet to be resumed with the answer.
ReadVersion(q) ==
    /\ life = "open"
    /\ pc[q] = "idle"
    /\ ver' = [ver EXCEPT ![q] = Now]
    /\ pc' = [pc EXCEPT ![q] = "decide"]
    /\ UNCHANGED <<history, index, due, queue, scan, page, held, life, failures>>

\* Above the size cap the keyword leg is skipped.
SkipTooLarge(q) ==
    /\ pc[q] = "decide"
    /\ SignalAt(ver[q])[1] > MaxChunks
    /\ pc' = [pc EXCEPT ![q] = "idle"]
    /\ ver' = [ver EXCEPT ![q] = 1]
    /\ UNCHANGED <<history, index, due, queue, scan, page, held, life, failures>>

\* No index, or one built for another version: queue for the lock of _rebuild.
NeedsRebuild(q) ==
    /\ pc[q] = "decide"
    /\ SignalAt(ver[q])[1] <= MaxChunks
    /\ ~IndexCurrent(q)
    /\ queue' = Append(queue, q)
    /\ pc' = [pc EXCEPT ![q] = "lock"]
    /\ UNCHANGED <<history, index, due, ver, scan, page, held, life, failures>>

\* The cached index is current: answer from it, and start a refresh behind
\* it when one is due and none is running (_schedule_refresh).
ServeCached(q) ==
    /\ pc[q] = "decide"
    /\ SignalAt(ver[q])[1] <= MaxChunks
    /\ IndexCurrent(q)
    /\ held' = [held EXCEPT ![q] = index]
    /\ IF due /\ pc[Refresher] = "idle"
         THEN /\ pc' = [pc EXCEPT ![q] = "search", ![Refresher] = "spawned"]
              /\ ver' = [ver EXCEPT ![Refresher] = ver[q]]
         ELSE /\ pc' = [pc EXCEPT ![q] = "search"]
              /\ ver' = ver
    /\ UNCHANGED <<history, index, due, queue, scan, page, life, failures>>

\* bm25.search runs in a thread on the object the query holds.
Search(q) ==
    /\ pc[q] = "search"
    /\ pc' = [pc EXCEPT ![q] = "idle"]
    /\ held' = [held EXCEPT ![q] = None]
    /\ ver' = [ver EXCEPT ![q] = 1]
    /\ UNCHANGED <<history, index, due, queue, scan, page, life, failures>>

-----------------------------------------------------------------------------
(* _rebuild, entered by a query or by the refresh task.                    *)

\* The refresh task starts and queues for the lock.
RefreshStarts ==
    /\ pc[Refresher] = "spawned"
    /\ queue' = Append(queue, Refresher)
    /\ pc' = [pc EXCEPT ![Refresher] = "lock"]
    /\ UNCHANGED <<history, index, due, ver, scan, page, held, life, failures>>

\* Mutated form: no mutual exclusion.
Owns_NoLock(p) == queue # <<>>

\* `async with self._bm25_lock`: p holds the lock.
Owns(p) == queue # <<>> /\ Head(queue) = p

\* Leaving _rebuild: a query goes on to search, the refresh task ends.
Finished(p) == IF p = Refresher THEN "idle" ELSE "search"

\* The rows fetched so far are a local of the call that ends.
DropScan(p) ==
    /\ scan' = [scan EXCEPT ![p] = [c \in Chunks |-> 0]]
    /\ page' = [page EXCEPT ![p] = 1]

\* Mutated form: a timed refresh finds the version unchanged and does nothing.
NothingToDo_IgnoreTtl(p) == IndexCurrent(p)

\* The recheck of _rebuild under the lock.
NothingToDo(p) == IndexCurrent(p) /\ ~due

\* With the lock: another caller has rebuilt meanwhile, nothing to do.
AlreadyRebuilt(p) ==
    /\ pc[p] = "lock"
    /\ Owns(p)
    /\ NothingToDo(p)
    /\ queue' = Tail(queue)
    /\ pc' = [pc EXCEPT ![p] = Finished(p)]
    /\ held' = IF p = Refresher THEN held ELSE [held EXCEPT ![p] = index]
    /\ ver' = IF p = Refresher THEN [ver EXCEPT ![p] = 1] ELSE ver
    /\ UNCHANGED <<history, index, due, scan, page, life, failures>>

\* With the lock: start the scan of the whole store.
StartScan(p) ==
    /\ pc[p] = "lock"
    /\ Owns(p)
    /\ ~NothingToDo(p)
    /\ scan' = [scan EXCEPT ![p] = [c \in Chunks |-> 0]]
    /\ page' = [page EXCEPT ![p] = 1]
    /\ pc' = [pc EXCEPT ![p] = "scan"]
    /\ UNCHANGED <<history, index, due, queue, ver, held, life, failures>>

\* The backend returns one page of rows, as they are at that moment.
ReadPage(p) ==
    /\ pc[p] = "scan"
    /\ page[p] <= Len(Pages)
    /\ scan' = [scan EXCEPT ![p] =
                  [c \in Chunks |-> IF c \in Pages[page[p]] THEN Now ELSE scan[p][c]]]
    /\ page' = [page EXCEPT ![p] = @ + 1]
    /\ UNCHANGED <<history, index, due, queue, pc, ver, held, life, failures>>

\* Mutated form: the lock is not released when the scan raises.
ScanFails_KeepLock(p) ==
    /\ failures < MaxFailures
    /\ pc[p] = "scan"
    /\ page[p] <= Len(Pages)
    /\ pc' = [pc EXCEPT ![p] = "idle"]
    /\ failures' = failures + 1
    /\ ver' = [ver EXCEPT ![p] = 1]
    /\ DropScan(p)
    /\ UNCHANGED <<history, index, due, queue, held, life>>

\* The scan raises: the lock is released and the error reaches the request,
\* or is logged by _refresh and the previous index stays.
ScanFails(p) ==
    /\ failures < MaxFailures
    /\ pc[p] = "scan"
    /\ page[p] <= Len(Pages)
    /\ queue' = Tail(queue)
    /\ pc' = [pc EXCEPT ![p] = "idle"]
    /\ failures' = failures + 1
    /\ ver' = [ver EXCEPT ![p] = 1]
    /\ DropScan(p)
    /\ UNCHANGED <<history, index, due, held, life>>

\* The index has been built off the loop: publish it under `label`, release
\* the lock and go on.
PublishAs(p, label) ==
    /\ pc[p] = "scan"
    /\ page[p] > Len(Pages)
    /\ index' = [built |-> TRUE, at |-> scan[p], label |-> label]
    /\ due' = FALSE
    /\ queue' = Tail(queue)
    /\ pc' = [pc EXCEPT ![p] = Finished(p)]
    /\ held' = IF p = Refresher THEN held ELSE [held EXCEPT ![p] = index']
    /\ ver' = IF p = Refresher THEN [ver EXCEPT ![p] = 1] ELSE ver
    /\ DropScan(p)
    /\ UNCHANGED <<history, life, failures>>

\* Mutated form: the version is asked for again after the scan.
Publish_LabelNow(p) == PublishAs(p, Now)

\* The label is the version this coroutine read before it queued for the lock.
Publish(p) == PublishAs(p, ver[p])

-----------------------------------------------------------------------------
(* Time and shutdown.                                                      *)

\* hybrid_refresh_seconds pass after the last build.
TtlPasses ==
    /\ Timed /\ index.built /\ ~due
    /\ due' = TRUE
    /\ UNCHANGED <<history, index, queue, pc, ver, scan, page, held, life, failures>>

\* The server shuts down once its requests are answered ...
BeginClose ==
    /\ life = "open"
    /\ \A q \in Queries : pc[q] = "idle"
    /\ life' = "closing"
    /\ UNCHANGED <<history, index, due, queue, pc, ver, scan, page, held, failures>>

\* Mutated form: close() does not wait for the refresh.
CloseHybrid_NoWait ==
    /\ life = "closing"
    /\ life' = "closed"
    /\ UNCHANGED <<history, index, due, queue, pc, ver, scan, page, held, failures>>

\* ... and close() lets a running refresh finish before the client goes.
CloseHybrid ==
    /\ life = "closing"
    /\ pc[Refresher] = "idle"
    /\ life' = "closed"
    /\ UNCHANGED <<history, index, due, queue, pc, ver, scan, page, held, failures>>

-----------------------------------------------------------------------------
Init ==
    /\ history \in {<<rows>> : rows \in [Chunks -> {0, 1}]}
    /\ index = None
    /\ due = FALSE
    /\ queue = <<>>
    /\ pc = [p \in Procs |-> "idle"]
    /\ ver = [p \in Procs |-> 1]
    /\ scan = [p \in Procs |-> [c \in Chunks |-> 0]]
    /\ page = [p \in Procs |-> 1]
    /\ held = [q \in Queries |-> None]
    /\ life = "open"
    /\ failures = 0

Rebuild(p) ==
    \/ AlreadyRebuilt(p)
    \/ StartScan(p)
    \/ ReadPage(p)
    \/ ScanFails(p)
    \/ Publish(p)

Query(q) ==
    \/ ReadVersion(q)
    \/ SkipTooLarge(q)
    \/ NeedsRebuild(q)
    \/ ServeCached(q)
    \/ Search(q)

Next ==
    \/ IndexerCommits
    \/ \E q \in Queries : Query(q)
    \/ RefreshStarts
    \/ \E p \in Procs : Rebuild(p)
    \/ TtlPasses
    \/ BeginClose
    \/ CloseHybrid

Spec == Init /\ [][Next]_vars

\* The event loop runs every coroutine that is ready and the backend answers;
\* clients, the indexer and failures are under no obligation.
Fairness ==
    /\ \A q \in Queries :
         /\ WF_vars(SkipTooLarge(q) \/ NeedsRebuild(q) \/ ServeCached(q))
         /\ WF_vars(Search(q))
    /\ WF_vars(RefreshStarts)
    /\ \A p \in Procs :
         WF_vars(AlreadyRebuilt(p) \/ StartScan(p) \/ ReadPage(p) \/ Publish(p))
    /\ WF_vars(TtlPasses)
    /\ WF_vars(CloseHybrid)

FairSpec == Spec /\ Fairness

-----------------------------------------------------------------------------
(* What the code is expected to guarantee.                                 *)

\* Every variable holds a value the code could give it (of the fields of
\* KeywordHybridMixin and of the locals of its coroutines).
TypeOK ==
    /\ history \in Seq([Chunks -> Nat])
    /\ Len(history) >= 1
    /\ index \in Index \cup {None}
    /\ due \in BOOLEAN
    /\ queue \in Seq(Procs)
    /\ pc \in [Procs -> {"idle", "decide", "spawned", "lock", "scan", "search"}]
    /\ ver \in [Procs -> 1..Len(history)]
    /\ scan \in [Procs -> [Chunks -> 0..Len(history)]]
    /\ page \in [Procs -> 1..(Len(Pages) + 1)]
    /\ held \in [Queries -> Index \cup {None}]
    /\ life \in {"open", "closing", "closed"}
    /\ failures \in Nat

\* "One build at a time": the lock of _rebuild never lets two scans of the
\* whole store run side by side.
OneBuildAtATime ==
    \A p, r \in Procs : pc[p] = "scan" /\ pc[r] = "scan" => p = r

\* The index a query searches was scanned at or after a moment at which the
\* store had the very signal the query read: a cached index is never newer
\* in name than in content.
ServedForVersion ==
    \A q \in Queries : pc[q] = "search" =>
        \E e \in 1..Now :
            /\ SignalAt(e) = SignalAt(ver[q])
            /\ \A c \in Chunks : held[q].at[c] >= e

\* No two contents of the store ever had the same signal.
SignalFaithful ==
    \A i, j \in 1..Now : SignalAt(i) = SignalAt(j) => i = j

\* As long as the signal has told every change apart, a query never searches
\* a row older than the version query it made itself.
FreshWhenSignalFaithful ==
    SignalFaithful =>
        \A q \in Queries : pc[q] = "search" =>
            \A c \in Chunks : held[q].at[c] >= ver[q]

\* Replacing the index (a rebuild, a refresh, a waiter that rebuilds once
\* more for the version it read long ago) never brings back an older row.
IndexNeverRegresses ==
    [][index.built =>
         index'.built /\ \A c \in Chunks : index'.at[c] >= index.at[c]]_vars

\* The index keeps the promise of VersionedCache.
Abstract ==
    INSTANCE VersionedCache WITH
        Keys    <- Chunks,
        NoLabel <- <<>>,
        store   <- [e \in 1..Now |-> SignalAt(e)],
        cache   <- IF index.built
                     THEN [built |-> TRUE, at |-> index.at, label |-> SignalAt(index.label)]
                     ELSE None

\* The index implements VersionedCache: no interleaving of queries, waiters
\* and the refresh publishes a label the rows are too old for.
KeepsPromise == Abstract!Spec

\* close() is never over while a coroutine still uses the backend's client.
NothingRunsAfterClose ==
    life = "closed" => \A p \in Procs : pc[p] = "idle"

\* Every retrieval request that reaches the keyword leg gets out of it,
\* whatever fails and whoever else holds the lock.
QueryAnswered ==
    \A q \in Queries : (pc[q] = "decide") ~> (pc[q] = "idle")

\* The rows of the cached index are the rows of the store.
IndexUpToDate ==
    index.built /\ \A c \in Chunks : history[index.at[c]][c] = Rows[c]

\* With a timed refresh, once the store stays as it is and queries keep
\* coming, the index ends up equal to the store even if the signal missed
\* or confused changes (the timed refresh is "the net for changes it misses").
EventuallyFresh ==
    (\E q \in Queries : []<>(pc[q] = "decide"))
        => <>[](Cardinality({c \in Chunks : Rows[c] > 0}) > MaxChunks \/ IndexUpToDate)

-----------------------------------------------------------------------------
(* Why they hold: an inductive invariant.                                  *)

\* A coroutine that scans is the one that owns the lock.
LockInv == \A p \in Procs : pc[p] = "scan" => Owns(p)

\* The cached index was labelled before its first row was read.
Labelled(i) ==
    /\ i.label \in 1..Len(history)
    /\ \A c \in Chunks : i.at[c] \in i.label..Len(history)

IndexInv == index.built => Labelled(index)

\* Rows already read by a running scan.
Fetched(p) == {c \in Chunks : \E i \in 1..(page[p] - 1) : c \in Pages[i]}

\* A running scan has read its rows after the version of its coroutine, and
\* no earlier than the rows of the index it is going to replace.
ScanInv ==
    \A p \in Procs : pc[p] = "scan" =>
        \A c \in Fetched(p) :
            /\ ver[p] <= scan[p][c]
            /\ index.built => index.at[c] <= scan[p][c]

\* A query searches an index that carries the version the query has read.
HeldInv ==
    \A q \in Queries : pc[q] = "search" =>
        /\ held[q].built
        /\ Labelled(held[q])
        /\ SignalAt(held[q].label) = SignalAt(ver[q])

\* Together, what every step of the code preserves (about the lock of
\* _rebuild, the label it writes and the object a query captured).
IInv == TypeOK /\ LockInv /\ IndexInv /\ ScanInv /\ HeldInv
=============================================================================
