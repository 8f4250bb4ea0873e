----------------------------- MODULE CatalogCache -----------------------------
(***************************************************************************)
(* The document catalog of an accessor (server/hybrid.py, list_documents): *)
(* one entry per indexed document, built from a scan of the store, cached  *)
(* under the change signal like the BM25 index, but refreshed in another   *)
(* way: the timed refresh erases the label and then rebuilds.              *)
(*                                                                         *)
(* Only the store's signals matter here, not its rows: `history` is the    *)
(* sequence of signals after each committed batch, and an epoch an index   *)
(* into it.  A signal may repeat (chunks added and deleted again, or a     *)
(* change the signal misses).                                              *)
(***************************************************************************)
EXTENDS Naturals, Sequences, FiniteSets

CONSTANTS
    Requests,      \* coroutines that call list_documents (/rag, /documents)
    Refresher,     \* the background refresh task
    Signals,       \* values of the backend's change signal
    TooLarge,      \* of them, those above hybrid_max_chunks
    NoLabel,       \* None
    MaxChanges,    \* bound: batches the indexer commits
    MaxFailures    \* bound: backend calls that raise

Procs == Requests \cup {Refresher}

ASSUME CatalogAssumption ==
    /\ Refresher \notin Requests
    /\ TooLarge \subseteq Signals
    /\ NoLabel \notin Signals
    /\ MaxChanges \in Nat /\ MaxFailures \in Nat

VARIABLES
    history,    \* signals of the store, oldest first
    catalog,    \* _catalog, as the epoch its rows were read at (0: None)
    label,      \* _catalog_built_for
    due,        \* the ttl has passed since _catalog_built_at
    queue,      \* _catalog_lock: its holder, then the waiters in FIFO order
    pc,         \* where each coroutine is suspended
    ver,        \* the version a coroutine read, as an epoch
    got,        \* the epoch at which its scan was answered
    failures    \* backend calls that raised so far

vars == <<history, catalog, label, due, queue, pc, ver, got, failures>>

Now == Len(history)
VersionOf(p) == history[ver[p]]

-----------------------------------------------------------------------------
(* The indexer, and a request.                                             *)

\* The indexer commits a batch; the signal may move, repeat or stay.
IndexerCommits ==
    /\ Now <= MaxChanges
    /\ \E s \in Signals : history' = Append(history, s)
    /\ UNCHANGED <<catalog, label, due, queue, pc, ver, got, failures>>

\* list_documents is called and the backend answers its version query.
ReadVersion(q) ==
    /\ pc[q] = "idle"
    /\ ver' = [ver EXCEPT ![q] = Now]
    /\ pc' = [pc EXCEPT ![q] = "decide"]
    /\ UNCHANGED <<history, catalog, label, due, queue, got, failures>>

\* The coroutine ends, with a result or with an exception.
Ends(p) ==
    /\ pc' = [pc EXCEPT ![p] = "idle"]
    /\ ver' = [ver EXCEPT ![p] = 1]
    /\ got' = [got EXCEPT ![p] = 0]

\* Above the cap the catalog is not built: the call raises.
RefuseTooLarge(q) ==
    /\ pc[q] = "decide"
    /\ VersionOf(q) \in TooLarge
    /\ Ends(q)
    /\ UNCHANGED <<history, catalog, label, due, queue, failures>>

\* The label is not the version read (or there is no catalog): rebuild.
NeedsRebuild(q) ==
    /\ pc[q] = "decide"
    /\ VersionOf(q) \notin TooLarge
    /\ catalog = 0 \/ label # VersionOf(q)
    /\ queue' = Append(queue, q)
    /\ pc' = [pc EXCEPT ![q] = "lock"]
    /\ UNCHANGED <<history, catalog, label, due, ver, got, failures>>

\* The cached catalog is the answer; a refresh is started when one is due
\* and none is running.
ServeCached(q) ==
    /\ pc[q] = "decide"
    /\ VersionOf(q) \notin TooLarge
    /\ catalog # 0 /\ label = VersionOf(q)
    /\ got' = [got EXCEPT ![q] = catalog]
    /\ IF due /\ pc[Refresher] = "idle"
         THEN /\ pc' = [pc EXCEPT ![q] = "done", ![Refresher] = "spawned"]
              /\ ver' = [ver EXCEPT ![Refresher] = ver[q]]
         ELSE /\ pc' = [pc EXCEPT ![q] = "done"]
              /\ ver' = ver
    /\ UNCHANGED <<history, catalog, label, due, queue, failures>>

\* The caller takes the list.
Return(q) ==
    /\ pc[q] = "done"
    /\ Ends(q)
    /\ UNCHANGED <<history, catalog, label, due, queue, failures>>

-----------------------------------------------------------------------------
(* _rebuild_catalog, entered by a request or by the refresh task.          *)

\* Mutated form: the label is not erased.
RefreshStarts_KeepLabel ==
    /\ pc[Refresher] = "spawned"
    /\ queue' = Append(queue, Refresher)
    /\ pc' = [pc EXCEPT ![Refresher] = "lock"]
    /\ UNCHANGED <<history, catalog, label, due, ver, got, failures>>

\* _refresh_catalog starts: it erases the label, then queues for the lock.
RefreshStarts ==
    /\ pc[Refresher] = "spawned"
    /\ label' = NoLabel
    /\ queue' = Append(queue, Refresher)
    /\ pc' = [pc EXCEPT ![Refresher] = "lock"]
    /\ UNCHANGED <<history, catalog, due, ver, got, failures>>

\* Mutated form: no mutual exclusion.
Owns_NoLock(p) == queue # <<>>

\* `async with self._catalog_lock`: p holds the lock.
Owns(p) == queue # <<>> /\ Head(queue) = p

\* What _rebuild_catalog leaves to its caller.
Finish(p, at) ==
    IF p = Refresher
      THEN Ends(p)
      ELSE /\ pc' = [pc EXCEPT ![p] = "done"]
           /\ got' = [got EXCEPT ![p] = at]
           /\ ver' = ver

\* The recheck under the lock.
BuiltFor(p) == catalog # 0 /\ label = VersionOf(p)

\* Another caller has rebuilt meanwhile.
AlreadyRebuilt(p) ==
    /\ pc[p] = "lock" /\ Owns(p)
    /\ BuiltFor(p)
    /\ queue' = Tail(queue)
    /\ Finish(p, catalog)
    /\ UNCHANGED <<history, catalog, label, due, failures>>

\* Nobody has: scan the store.
StartScan(p) ==
    /\ pc[p] = "lock" /\ Owns(p)
    /\ ~BuiltFor(p)
    /\ pc' = [pc EXCEPT ![p] = "scan"]
    /\ UNCHANGED <<history, catalog, label, due, queue, ver, got, failures>>

\* The backend answers the scan.
ScanAnswered(p) ==
    /\ pc[p] = "scan"
    /\ got' = [got EXCEPT ![p] = Now]
    /\ pc' = [pc EXCEPT ![p] = "scanned"]
    /\ UNCHANGED <<history, catalog, label, due, queue, ver, failures>>

\* The catalog is published under a signal and the lock released.
PublishAs(p, s) ==
    /\ pc[p] = "scanned"
    /\ catalog' = got[p]
    /\ label' = s
    /\ due' = FALSE
    /\ queue' = Tail(queue)
    /\ Finish(p, got[p])
    /\ UNCHANGED <<history, failures>>

\* Under the version this coroutine read before it queued for the lock.
Publish(p) == PublishAs(p, VersionOf(p))

\* Mutated form: the lock is not released.
RequestFails_KeepLock(q) ==
    /\ failures < MaxFailures
    /\ pc[q] = "scan"
    /\ failures' = failures + 1
    /\ Ends(q)
    /\ UNCHANGED <<history, catalog, label, due, queue>>

\* The scan of a request raises, and so does list_documents.
RequestFails(q) ==
    /\ failures < MaxFailures
    /\ pc[q] = "scan"
    /\ failures' = failures + 1
    /\ queue' = Tail(queue)
    /\ Ends(q)
    /\ UNCHANGED <<history, catalog, label, due>>

\* The scan of the refresh raises and a label is put back.
RefreshFailsTo(s) ==
    /\ failures < MaxFailures
    /\ pc[Refresher] = "scan"
    /\ failures' = failures + 1
    /\ queue' = Tail(queue)
    /\ label' = s
    /\ Ends(Refresher)
    /\ UNCHANGED <<history, catalog, due>>

\* Mutated form: the label put back is the signal of the moment.
RefreshFails_LabelNow == RefreshFailsTo(history[Now])

\* The label the refresh started from.
RefreshFails == RefreshFailsTo(VersionOf(Refresher))

\* hybrid_refresh_seconds pass after the last build.
TtlPasses ==
    /\ catalog # 0 /\ ~due
    /\ due' = TRUE
    /\ UNCHANGED <<history, catalog, label, queue, pc, ver, got, failures>>

-----------------------------------------------------------------------------
Init ==
    /\ history \in {<<s>> : s \in Signals}
    /\ catalog = 0
    /\ label = NoLabel
    /\ due = FALSE
    /\ queue = <<>>
    /\ pc = [p \in Procs |-> "idle"]
    /\ ver = [p \in Procs |-> 1]
    /\ got = [p \in Procs |-> 0]
    /\ failures = 0

Request(q) ==
    \/ ReadVersion(q)
    \/ RefuseTooLarge(q)
    \/ NeedsRebuild(q)
    \/ ServeCached(q)
    \/ Return(q)
    \/ RequestFails(q)

Rebuild(p) ==
    \/ AlreadyRebuilt(p)
    \/ StartScan(p)
    \/ ScanAnswered(p)
    \/ Publish(p)

Next ==
    \/ IndexerCommits
    \/ \E q \in Requests : Request(q)
    \/ RefreshStarts
    \/ \E p \in Procs : Rebuild(p)
    \/ RefreshFails
    \/ TtlPasses

Spec == Init /\ [][Next]_vars

\* Coroutines that can go on do, and the backend answers.
Fairness ==
    /\ \A q \in Requests :
         WF_vars(RefuseTooLarge(q) \/ NeedsRebuild(q) \/ ServeCached(q) \/ Return(q))
    /\ WF_vars(RefreshStarts)
    /\ \A p \in Procs : WF_vars(Rebuild(p))
    /\ WF_vars(TtlPasses)

FairSpec == Spec /\ Fairness

-----------------------------------------------------------------------------
(* What the code is expected to guarantee.                                 *)

\* Types of the catalog's fields and of the locals of its coroutines.
TypeOK ==
    /\ history \in Seq(Signals) /\ Now >= 1
    /\ catalog \in 0..Now
    /\ label \in Signals \cup {NoLabel}
    /\ due \in BOOLEAN
    /\ queue \in Seq(Procs)
    /\ pc \in [Procs -> {"idle", "decide", "spawned", "lock", "scan", "scanned", "done"}]
    /\ ver \in [Procs -> 1..Now]
    /\ got \in [Procs -> 0..Now]
    /\ failures \in Nat

\* The catalog a caller gets was scanned at or after a moment at which the
\* store had the signal the caller read, also when a refresh failed in
\* between and put its own label back.
ListedForVersion ==
    \A q \in Requests : pc[q] = "done" =>
        \E e \in 1..got[q] : history[e] = VersionOf(q)

\* The rows of every catalog read so far are as old as the signal that
\* labels it, the label of a refresh in flight included.
LabelHonest ==
    /\ label # NoLabel => \E e \in 1..catalog : history[e] = label
    /\ pc[Refresher] \in {"spawned", "lock", "scan", "scanned"} =>
         \E e \in 1..catalog : history[e] = VersionOf(Refresher)

\* One scan of the store at a time, whatever the refresh does to the label.
OneScanAtATime ==
    \A p, r \in Procs :
        pc[p] \in {"scan", "scanned"} /\ pc[r] \in {"scan", "scanned"} => p = r

\* The cached value as VersionedCache sees it: one row, the catalog.
Cache ==
    IF catalog = 0
      THEN [built |-> FALSE]
      ELSE [built |-> TRUE, at |-> [k \in {"catalog"} |-> catalog], label |-> label]

Abstract ==
    INSTANCE VersionedCache WITH Keys <- {"catalog"}, store <- history, cache <- Cache

\* list_documents implements VersionedCache: no interleaving of requests, of
\* the refresh and of its failures publishes an older catalog or a label the
\* catalog is too old for.
KeepsPromise == Abstract!Spec

\* Every call of list_documents returns or raises.
RequestAnswered ==
    \A q \in Requests : (pc[q] = "decide") ~> (pc[q] = "idle")

\* Once the store stays as it is and requests keep coming, the catalog ends
\* up scanned after the last change, even if the signal missed it.
EventuallyRefreshed ==
    (\E q \in Requests : []<>(pc[q] = "decide"))
        => <>[](history[Now] \in TooLarge \/ catalog = Now)
=============================================================================
