-------------------------- MODULE CatalogCacheProofs --------------------------
(***************************************************************************)
(* Proofs about CatalogCache, for any number of requests, signals, commits *)
(* and failures: every catalog handed out is as recent as the signal its   *)
(* caller read, and the cache implements VersionedCache.                   *)
(***************************************************************************)
EXTENDS CatalogCache, TLAPS

Scanning == {"scan", "scanned"}
Refreshing == {"spawned", "lock", "scan", "scanned"}

\* The store had signal s at one of the first n epochs.
Had(n, s) == \E e \in 1..n : history[e] = s

\* Only the holder of the lock scans.
LockInv == \A p \in Procs : pc[p] \in Scanning => Owns(p)

\* A scan that was answered is no older than its version, nor than the
\* catalog it will replace.
ScanInv == \A p \in Procs : pc[p] = "scanned" => ver[p] <= got[p] /\ catalog <= got[p]

IInv == TypeOK /\ LockInv /\ ScanInv /\ LabelHonest /\ ListedForVersion

\* Requests and the refresher are the coroutines, and they differ.
LEMMA ProcFacts == Requests \subseteq Procs /\ Refresher \in Procs /\ Refresher \notin Requests
  BY CatalogAssumption DEF Procs

-----------------------------------------------------------------------------
(* Types.                                                                  *)

\* The commit of the indexer appends a signal.
LEMMA HistoryGrows ==
  ASSUME TypeOK, IndexerCommits
  PROVE  /\ history' \in Seq(Signals) /\ Len(history') = Len(history) + 1
         /\ \A e \in 1..Len(history) : history'[e] = history[e]
         /\ history' = Append(history, history'[Len(history')])
  BY DEF TypeOK, IndexerCommits

\* The coroutines keep their types when one of them ends.
LEMMA EndsTypes ==
  ASSUME TypeOK, NEW p \in Procs, Ends(p)
  PROVE  /\ pc' \in [Procs -> {"idle", "decide", "spawned", "lock", "scan", "scanned", "done"}]
         /\ ver' \in [Procs -> 1..Now] /\ got' \in [Procs -> 0..Now]
  BY DEF TypeOK, Ends, Now

\* And when it takes its catalog.
LEMMA FinishTypes ==
  ASSUME TypeOK, NEW p \in Procs, NEW at \in 0..Now, Finish(p, at)
  PROVE  /\ pc' \in [Procs -> {"idle", "decide", "spawned", "lock", "scan", "scanned", "done"}]
         /\ ver' \in [Procs -> 1..Now] /\ got' \in [Procs -> 0..Now]
  BY EndsTypes DEF TypeOK, Finish

\* Queueing and releasing keep the queue a sequence of coroutines.
LEMMA QueueTypes ==
  ASSUME queue \in Seq(Procs), NEW p \in Procs
  PROVE  Append(queue, p) \in Seq(Procs) /\ (queue # <<>> => Tail(queue) \in Seq(Procs))
  OBVIOUS

\* The version of a coroutine is a signal, hence a label.
LEMMA VersionIsSignal ==
  ASSUME TypeOK, NEW p \in Procs
  PROVE  VersionOf(p) \in Signals /\ VersionOf(p) # NoLabel
  BY CatalogAssumption DEF TypeOK, VersionOf, Now

\* Every step keeps the types.
LEMMA NextTypes ==
  ASSUME TypeOK, LockInv, [Next]_vars PROVE TypeOK'
<1> USE ProcFacts
<1>1. CASE IndexerCommits
  <2>1. history' \in Seq(Signals) /\ Len(history') = Len(history) + 1
    BY <1>1, HistoryGrows
  <2>2. 1..Len(history) \subseteq 1..Len(history') /\ 0..Len(history) \subseteq 0..Len(history')
    BY <2>1 DEF TypeOK
  <2> QED  BY <1>1, <2>1, <2>2 DEF TypeOK, IndexerCommits, Now
<1>2. ASSUME NEW q \in Requests, ReadVersion(q) PROVE TypeOK'
  <2>1. Now \in 1..Now
    BY DEF TypeOK, Now
  <2> QED  BY <1>2, <2>1 DEF TypeOK, ReadVersion, Now
<1>3. ASSUME NEW q \in Requests, RefuseTooLarge(q) \/ Return(q) PROVE TypeOK'
  BY <1>3, EndsTypes DEF TypeOK, RefuseTooLarge, Return, Now
<1>4. ASSUME NEW q \in Requests, NeedsRebuild(q) PROVE TypeOK'
  BY <1>4, QueueTypes DEF TypeOK, NeedsRebuild, Now
<1>5. ASSUME NEW q \in Requests, ServeCached(q) PROVE TypeOK'
  BY <1>5 DEF TypeOK, ServeCached, Now
<1>6. ASSUME NEW q \in Requests, RequestFails(q) PROVE TypeOK'
  <2>1. queue' \in Seq(Procs)
    BY <1>6, QueueTypes DEF TypeOK, RequestFails, LockInv, Scanning, Owns
  <2>2. failures' \in Nat /\ history' = history
    BY <1>6 DEF TypeOK, RequestFails
  <2>3. /\ pc' \in [Procs -> {"idle", "decide", "spawned", "lock", "scan", "scanned", "done"}]
        /\ ver' \in [Procs -> 1..Now] /\ got' \in [Procs -> 0..Now]
    BY <1>6, EndsTypes DEF RequestFails
  <2> QED  BY <1>6, <2>1, <2>2, <2>3 DEF TypeOK, RequestFails, Now
<1>7. CASE RefreshStarts
  BY <1>7, QueueTypes DEF TypeOK, RefreshStarts, Now
<1>8. ASSUME NEW p \in Procs, AlreadyRebuilt(p) PROVE TypeOK'
  BY <1>8, QueueTypes, FinishTypes DEF TypeOK, AlreadyRebuilt, Owns, Now
<1>9. ASSUME NEW p \in Procs, StartScan(p) PROVE TypeOK'
  BY <1>9 DEF TypeOK, StartScan, Now
<1>10. ASSUME NEW p \in Procs, ScanAnswered(p) PROVE TypeOK'
  <2>1. Now \in 0..Now
    BY DEF TypeOK, Now
  <2> QED  BY <1>10, <2>1 DEF TypeOK, ScanAnswered, Now
<1>11. ASSUME NEW p \in Procs, Publish(p) PROVE TypeOK'
  BY <1>11, QueueTypes, FinishTypes, VersionIsSignal
     DEF TypeOK, Publish, PublishAs, LockInv, Scanning, Owns, Now
<1>12. CASE RefreshFails
  <2>1. queue' \in Seq(Procs)
    BY <1>12, QueueTypes DEF TypeOK, RefreshFails, RefreshFailsTo, LockInv, Scanning, Owns
  <2>2. failures' \in Nat /\ history' = history /\ label' \in Signals
    BY <1>12, VersionIsSignal DEF TypeOK, RefreshFails, RefreshFailsTo
  <2>3. /\ pc' \in [Procs -> {"idle", "decide", "spawned", "lock", "scan", "scanned", "done"}]
        /\ ver' \in [Procs -> 1..Now] /\ got' \in [Procs -> 0..Now]
    BY <1>12, EndsTypes DEF RefreshFails, RefreshFailsTo
  <2> QED  BY <1>12, <2>1, <2>2, <2>3 DEF TypeOK, RefreshFails, RefreshFailsTo, Now
<1>13. CASE TtlPasses \/ UNCHANGED vars
  BY <1>13 DEF TypeOK, TtlPasses, vars, Now
<1> QED
  BY <1>1, <1>2, <1>3, <1>4, <1>5, <1>6, <1>7, <1>8, <1>9, <1>10, <1>11, <1>12, <1>13
     DEF Next, Request, Rebuild

-----------------------------------------------------------------------------
(* The lock.                                                               *)

\* Two coroutines cannot both own the lock.
LEMMA OneOwner ==
  ASSUME LockInv, NEW p \in Procs, NEW r \in Procs, pc[p] \in Scanning, pc[r] \in Scanning
  PROVE  p = r
  BY DEF LockInv, Owns

\* Joining the queue does not change its head.
LEMMA OwnerStays ==
  ASSUME TypeOK, NEW p \in Procs, NEW r \in Procs, Owns(r), queue' = Append(queue, p)
  PROVE  Owns(r)'
<1>1. queue # <<>> /\ Head(queue) = r /\ queue \in Seq(Procs)
  BY DEF Owns, TypeOK
<1>2. Len(queue') = Len(queue) + 1 /\ queue'[1] = queue[1] /\ queue' \in Seq(Procs)
  BY <1>1
<1>3. queue' # <<>> /\ Head(queue') = queue'[1] /\ Head(queue) = queue[1]
  BY <1>1, <1>2
<1> QED  BY <1>1, <1>2, <1>3 DEF Owns

\* Who starts to scan owns the lock, and nobody takes it away.
LEMMA NextLock ==
  ASSUME TypeOK, LockInv, [Next]_vars PROVE LockInv'
<1> SUFFICES ASSUME NEW r \in Procs, pc'[r] \in Scanning PROVE Owns(r)'
  BY DEF LockInv
<1> USE ProcFacts DEF Scanning
<1>1. ASSUME queue' = queue, pc[r] \in Scanning PROVE Owns(r)'
  BY <1>1 DEF LockInv, Owns
<1>2. ASSUME NEW p \in Procs, queue' = Append(queue, p), pc[r] \in Scanning PROVE Owns(r)'
  BY <1>2, OwnerStays DEF LockInv
<1>3. ASSUME NEW p \in Procs, Owns(p), pc'[p] \notin Scanning,
             \A x \in Procs : x # p => pc'[x] = pc[x]
      PROVE  Owns(r)'
  <2>1. r # p /\ pc[r] \in Scanning
    BY <1>3
  <2> QED  BY <1>3, <2>1 DEF LockInv, Owns
<1>4. CASE IndexerCommits \/ TtlPasses \/ UNCHANGED vars
  BY <1>1, <1>4 DEF IndexerCommits, TtlPasses, vars
<1>5. ASSUME NEW q \in Requests, ReadVersion(q) \/ RefuseTooLarge(q) \/ ServeCached(q) \/ Return(q)
      PROVE  Owns(r)'
  <2>1. queue' = queue /\ pc[r] \in Scanning
    BY <1>5 DEF TypeOK, ReadVersion, RefuseTooLarge, ServeCached, Return, Ends
  <2> QED  BY <1>1, <2>1
<1>6. ASSUME NEW q \in Requests, NeedsRebuild(q) PROVE Owns(r)'
  <2>1. queue' = Append(queue, q) /\ pc[r] \in Scanning
    BY <1>6 DEF TypeOK, NeedsRebuild
  <2> QED  BY <1>2, <2>1
<1>7. CASE RefreshStarts
  <2>1. queue' = Append(queue, Refresher) /\ pc[r] \in Scanning
    BY <1>7 DEF TypeOK, RefreshStarts
  <2> QED  BY <1>2, <2>1
<1>8. ASSUME NEW q \in Requests, RequestFails(q) PROVE Owns(r)'
  BY <1>3, <1>8 DEF TypeOK, RequestFails, Ends, LockInv
<1>9. CASE RefreshFails
  BY <1>3, <1>9 DEF TypeOK, RefreshFails, RefreshFailsTo, Ends, LockInv
<1>10. ASSUME NEW p \in Procs, AlreadyRebuilt(p) PROVE Owns(r)'
  BY <1>3, <1>10 DEF TypeOK, AlreadyRebuilt, Finish, Ends
<1>11. ASSUME NEW p \in Procs, Publish(p) PROVE Owns(r)'
  <2>1. pc[p] = "scanned" /\ Owns(p)
    BY <1>11 DEF Publish, PublishAs, LockInv
  <2>2. pc'[p] \in {"idle", "done"} /\ \A x \in Procs : x # p => pc'[x] = pc[x]
    BY <1>11 DEF TypeOK, Publish, PublishAs, Finish, Ends
  <2> QED  BY <1>3, <2>1, <2>2
<1>12. ASSUME NEW p \in Procs, StartScan(p) PROVE Owns(r)'
  BY <1>12 DEF TypeOK, StartScan, LockInv, Owns
<1>13. ASSUME NEW p \in Procs, ScanAnswered(p) PROVE Owns(r)'
  BY <1>13 DEF TypeOK, ScanAnswered, LockInv, Owns
<1> QED
  BY <1>4, <1>5, <1>6, <1>7, <1>8, <1>9, <1>10, <1>11, <1>12, <1>13 DEF Next, Request, Rebuild

-----------------------------------------------------------------------------
(* What a step does to the store and to the cached catalog.                *)

\* Nothing but a commit changes the store.
LEMMA StoreKept == [Next]_vars => IndexerCommits \/ history' = history
  BY DEF Next, Request, Rebuild, ReadVersion, RefuseTooLarge, NeedsRebuild, ServeCached, Return,
         RequestFails, RefreshStarts, AlreadyRebuilt, StartScan, ScanAnswered, Publish, PublishAs,
         RefreshFails, RefreshFailsTo, TtlPasses, vars

\* The past of the store stays.
LEMMA PastKept ==
  ASSUME TypeOK, [Next]_vars
  PROVE  Len(history') >= Len(history) /\ \A e \in 1..Len(history) : history'[e] = history[e]
<1>1. CASE IndexerCommits
  <2>1. Len(history) \in Nat
    BY DEF TypeOK
  <2> QED  BY <1>1, <2>1, HistoryGrows
<1>2. CASE history' = history
  BY <1>2 DEF TypeOK
<1> QED  BY <1>1, <1>2, StoreKept

\* Only Publish changes the catalog, and only it, the start and the failure
\* of a refresh the label.
LEMMA CatalogKept ==
  ASSUME [Next]_vars
  PROVE  \/ catalog' = catalog /\ label' = label
         \/ RefreshStarts \/ RefreshFails
         \/ \E p \in Procs : Publish(p)
  BY DEF Next, Request, Rebuild, IndexerCommits, ReadVersion, RefuseTooLarge, NeedsRebuild,
         ServeCached, Return, RequestFails, AlreadyRebuilt, StartScan, ScanAnswered, TtlPasses, vars

\* The catalog never goes back.
LEMMA CatalogGrows ==
  ASSUME TypeOK, ScanInv, [Next]_vars PROVE catalog' >= catalog
<1>1. ASSUME NEW p \in Procs, Publish(p) PROVE catalog' >= catalog
  BY <1>1 DEF TypeOK, ScanInv, Publish, PublishAs
<1>2. CASE RefreshStarts \/ RefreshFails
  BY <1>2 DEF TypeOK, RefreshStarts, RefreshFails, RefreshFailsTo
<1> QED  BY <1>1, <1>2, CatalogKept DEF TypeOK

\* What the store had, it has had.
LEMMA HadKept ==
  ASSUME TypeOK, [Next]_vars, NEW n \in 0..Now, NEW m \in Nat, m >= n, NEW s, Had(n, s)
  PROVE  \E e \in 1..m : history'[e] = s
<1>1. PICK e \in 1..n : history[e] = s
  BY DEF Had
<1>2. e \in 1..Len(history) /\ e \in 1..m
  BY DEF Now, TypeOK
<1> QED  BY <1>1, <1>2, PastKept

\* The version of a coroutine keeps its signal.
LEMMA VersionKept ==
  ASSUME TypeOK, [Next]_vars, NEW p \in Procs, NEW r \in Procs, ver'[p] = ver[r]
  PROVE  VersionOf(p)' = VersionOf(r)
<1>1. ver[r] \in 1..Len(history)
  BY DEF TypeOK, Now
<1>2. history'[ver[r]] = history[ver[r]]
  BY <1>1, PastKept
<1> QED  BY <1>2 DEF VersionOf

\* When a version was read the store had its signal.
LEMMA VersionHad ==
  ASSUME TypeOK, NEW p \in Procs, NEW n \in 0..Now, ver[p] <= n
  PROVE  Had(n, VersionOf(p))
  BY DEF TypeOK, Had, VersionOf, Now

-----------------------------------------------------------------------------
(* The other parts of the invariant.                                       *)

\* An answered scan stays recent: nobody else publishes meanwhile.
LEMMA NextScan ==
  ASSUME TypeOK, LockInv, ScanInv, [Next]_vars PROVE ScanInv'
<1> SUFFICES ASSUME NEW p \in Procs, pc'[p] = "scanned"
             PROVE  ver'[p] <= got'[p] /\ catalog' <= got'[p]
  BY DEF ScanInv
<1> USE ProcFacts
<1>1. CASE ScanAnswered(p)
  BY <1>1 DEF TypeOK, ScanAnswered, Now
<1>2. CASE ~ScanAnswered(p)
  <2>1. pc[p] = "scanned" /\ ver'[p] = ver[p] /\ got'[p] = got[p]
    <3> DEFINE Same == pc[p] = "scanned" /\ ver'[p] = ver[p] /\ got'[p] = got[p]
    <3>1. ASSUME NEW q \in Requests, Request(q) PROVE Same
      BY <3>1 DEF TypeOK, Request, ReadVersion, RefuseTooLarge, NeedsRebuild, ServeCached,
           Return, RequestFails, Ends
    <3>2. ASSUME NEW r \in Procs, AlreadyRebuilt(r) \/ StartScan(r) PROVE Same
      BY <3>2 DEF TypeOK, AlreadyRebuilt, StartScan, Finish, Ends
    <3>3. ASSUME NEW r \in Procs, ScanAnswered(r) PROVE Same
      BY <1>2, <3>3 DEF TypeOK, ScanAnswered
    <3>4. ASSUME NEW r \in Procs, Publish(r) PROVE Same
      BY <3>4 DEF TypeOK, Publish, PublishAs, Finish, Ends
    <3>5. CASE IndexerCommits \/ RefreshStarts \/ RefreshFails \/ TtlPasses \/ UNCHANGED vars
      BY <3>5 DEF TypeOK, IndexerCommits, RefreshStarts, RefreshFails, RefreshFailsTo, Ends,
           TtlPasses, vars
    <3> QED  BY <3>1, <3>2, <3>3, <3>4, <3>5 DEF Next, Rebuild
  <2>2. ASSUME NEW r \in Procs, Publish(r) PROVE FALSE
    <3>1. pc[r] = "scanned" /\ pc'[r] # "scanned"
      BY <2>2 DEF TypeOK, Publish, PublishAs, Finish, Ends
    <3> QED  BY <2>1, <3>1, OneOwner DEF Scanning
  <2>3. catalog' = catalog
    BY <2>2, CatalogKept DEF RefreshStarts, RefreshFails, RefreshFailsTo
  <2> QED  BY <2>1, <2>3 DEF ScanInv
<1> QED  BY <1>1, <1>2

\* A refresh in flight was in flight before, or a request starts it now.
LEMMA RefreshKept ==
  ASSUME TypeOK, [Next]_vars, pc'[Refresher] \in Refreshing
  PROVE  \/ pc[Refresher] \in Refreshing /\ ver'[Refresher] = ver[Refresher]
         \/ \E q \in Requests :
              catalog # 0 /\ label = VersionOf(q) /\ ver'[Refresher] = ver[q] /\ catalog' = catalog
<1> USE ProcFacts DEF Refreshing
<1>1. ASSUME NEW q \in Requests, ServeCached(q)
      PROVE  \/ pc[Refresher] \in Refreshing /\ ver'[Refresher] = ver[Refresher]
             \/ catalog # 0 /\ label = VersionOf(q) /\ ver'[Refresher] = ver[q] /\ catalog' = catalog
  BY <1>1 DEF TypeOK, ServeCached
<1>2. ASSUME NEW q \in Requests, ReadVersion(q) \/ RefuseTooLarge(q) \/ NeedsRebuild(q)
                                 \/ Return(q) \/ RequestFails(q)
      PROVE  pc[Refresher] \in Refreshing /\ ver'[Refresher] = ver[Refresher]
  BY <1>2 DEF TypeOK, ReadVersion, RefuseTooLarge, NeedsRebuild, Return, RequestFails, Ends
<1>3. ASSUME NEW p \in Procs, Rebuild(p)
      PROVE  pc[Refresher] \in Refreshing /\ ver'[Refresher] = ver[Refresher]
  BY <1>3 DEF TypeOK, Rebuild, AlreadyRebuilt, StartScan, ScanAnswered, Publish, PublishAs, Finish, Ends
<1>4. CASE IndexerCommits \/ RefreshStarts \/ RefreshFails \/ TtlPasses \/ UNCHANGED vars
  BY <1>4 DEF TypeOK, IndexerCommits, RefreshStarts, RefreshFails, RefreshFailsTo, Ends, TtlPasses, vars
<1> QED  BY <1>1, <1>2, <1>3, <1>4 DEF Next, Request

\* The label stays honest, and so does the one a refresh would put back.
LEMMA NextLabel ==
  ASSUME TypeOK, ScanInv, LabelHonest, TypeOK', [Next]_vars PROVE LabelHonest'
<1>0. catalog \in 0..Now /\ catalog' \in Nat /\ catalog' >= catalog
  BY CatalogGrows DEF TypeOK, Now
<1>1. ASSUME label' # NoLabel PROVE \E e \in 1..catalog' : history'[e] = label'
  <2>1. CASE catalog' = catalog /\ label' = label
    BY <1>0, <1>1, <2>1, HadKept DEF LabelHonest, Had
  <2>2. CASE RefreshStarts
    BY <1>1, <2>2 DEF RefreshStarts
  <2>3. CASE RefreshFails
    <3>1. label' = VersionOf(Refresher) /\ pc[Refresher] = "scan"
      BY <2>3 DEF RefreshFails, RefreshFailsTo
    <3>2. Had(catalog, VersionOf(Refresher))
      BY <3>1 DEF LabelHonest, Had
    <3> QED  BY <1>0, <3>1, <3>2, HadKept
  <2>4. ASSUME NEW p \in Procs, Publish(p) PROVE \E e \in 1..catalog' : history'[e] = label'
    <3>1. catalog' = got[p] /\ label' = VersionOf(p) /\ pc[p] = "scanned"
      BY <2>4 DEF Publish, PublishAs
    <3>2. got[p] \in 0..Now /\ ver[p] <= got[p]
      BY <3>1 DEF TypeOK, ScanInv
    <3>3. Had(got[p], VersionOf(p))
      BY <3>2, VersionHad
    <3> QED  BY <1>0, <3>1, <3>2, <3>3, HadKept
  <2> QED  BY <2>1, <2>2, <2>3, <2>4, CatalogKept
<1>2. ASSUME pc'[Refresher] \in Refreshing
      PROVE  \E e \in 1..catalog' : history'[e] = VersionOf(Refresher)'
  <2>1. CASE pc[Refresher] \in Refreshing /\ ver'[Refresher] = ver[Refresher]
    <3>1. Had(catalog, VersionOf(Refresher))
      BY <2>1 DEF LabelHonest, Had, Refreshing
    <3>2. VersionOf(Refresher)' = VersionOf(Refresher)
      BY <2>1, VersionKept, ProcFacts
    <3> QED  BY <1>0, <3>1, <3>2, HadKept
  <2>2. ASSUME NEW q \in Requests,
               catalog # 0 /\ label = VersionOf(q) /\ ver'[Refresher] = ver[q] /\ catalog' = catalog
        PROVE  \E e \in 1..catalog' : history'[e] = VersionOf(Refresher)'
    <3>1. Had(catalog, VersionOf(q))
      BY <2>2, VersionIsSignal, ProcFacts DEF LabelHonest, Had
    <3>2. VersionOf(Refresher)' = VersionOf(q)
      BY <2>2, VersionKept, ProcFacts
    <3> QED  BY <1>0, <3>1, <3>2, HadKept
  <2> QED  BY <1>2, <2>1, <2>2, RefreshKept
<1> QED  BY <1>1, <1>2 DEF LabelHonest, Refreshing

\* How a request comes by its catalog.
LEMMA DoneKept ==
  ASSUME TypeOK, [Next]_vars, NEW q \in Requests, pc'[q] = "done"
  PROVE  /\ ver'[q] = ver[q]
         /\ \/ pc[q] = "done" /\ got'[q] = got[q]
            \/ label = VersionOf(q) /\ got'[q] = catalog
            \/ pc[q] = "scanned" /\ got'[q] = got[q]
<1> USE ProcFacts
<1>1. ASSUME NEW r \in Requests, Request(r)
      PROVE  /\ ver'[q] = ver[q]
             /\ \/ pc[q] = "done" /\ got'[q] = got[q]
                \/ label = VersionOf(q) /\ got'[q] = catalog
  <2>1. CASE ServeCached(r)
    BY <2>1 DEF TypeOK, ServeCached
  <2>2. CASE ReadVersion(r) \/ RefuseTooLarge(r) \/ NeedsRebuild(r) \/ Return(r) \/ RequestFails(r)
    BY <2>2 DEF TypeOK, ReadVersion, RefuseTooLarge, NeedsRebuild, Return, RequestFails, Ends
  <2> QED  BY <1>1, <2>1, <2>2 DEF Request
<1>2. ASSUME NEW p \in Procs, AlreadyRebuilt(p)
      PROVE  /\ ver'[q] = ver[q]
             /\ \/ pc[q] = "done" /\ got'[q] = got[q]
                \/ label = VersionOf(q) /\ got'[q] = catalog
  BY <1>2 DEF TypeOK, AlreadyRebuilt, BuiltFor, Finish, Ends
<1>3. ASSUME NEW p \in Procs, StartScan(p) \/ ScanAnswered(p) \/ Publish(p)
      PROVE  /\ ver'[q] = ver[q] /\ got'[q] = got[q]
             /\ pc[q] \in {"done", "scanned"}
  BY <1>3 DEF TypeOK, StartScan, ScanAnswered, Publish, PublishAs, Finish, Ends
<1>4. CASE IndexerCommits \/ RefreshStarts \/ RefreshFails \/ TtlPasses \/ UNCHANGED vars
  BY <1>4 DEF TypeOK, IndexerCommits, RefreshStarts, RefreshFails, RefreshFailsTo, Ends, TtlPasses, vars
<1> QED  BY <1>1, <1>2, <1>3, <1>4 DEF Next, Rebuild

\* What a request takes is as recent as the signal it read.
LEMMA NextListed ==
  ASSUME TypeOK, ScanInv, LabelHonest, ListedForVersion, TypeOK', [Next]_vars
  PROVE  ListedForVersion'
<1> SUFFICES ASSUME NEW q \in Requests, pc'[q] = "done"
             PROVE  \E e \in 1..got'[q] : history'[e] = VersionOf(q)'
  BY DEF ListedForVersion
<1>0. q \in Procs
  BY ProcFacts
<1>1. ver'[q] = ver[q] /\ VersionOf(q)' = VersionOf(q)
  BY <1>0, DoneKept, VersionKept
<1>2. got[q] \in 0..Now /\ catalog \in 0..Now /\ got[q] \in Nat /\ catalog \in Nat
  BY <1>0 DEF TypeOK
<1>3. CASE pc[q] = "done" /\ got'[q] = got[q]
  <2>1. Had(got[q], VersionOf(q))
    BY <1>3 DEF ListedForVersion, Had
  <2>2. \E e \in 1..got[q] : history'[e] = VersionOf(q)
    BY <1>2, <2>1, HadKept
  <2> QED  BY <1>1, <1>3, <2>2
<1>4. CASE label = VersionOf(q) /\ got'[q] = catalog
  <2>1. Had(catalog, VersionOf(q))
    BY <1>0, <1>4, VersionIsSignal DEF LabelHonest, Had
  <2>2. \E e \in 1..catalog : history'[e] = VersionOf(q)
    BY <1>2, <2>1, HadKept
  <2> QED  BY <1>1, <1>4, <2>2
<1>5. CASE pc[q] = "scanned" /\ got'[q] = got[q]
  <2>1. Had(got[q], VersionOf(q))
    BY <1>0, <1>2, <1>5, VersionHad DEF ScanInv
  <2>2. \E e \in 1..got[q] : history'[e] = VersionOf(q)
    BY <1>2, <2>1, HadKept
  <2> QED  BY <1>1, <1>5, <2>2
<1> QED  BY <1>3, <1>4, <1>5, DoneKept

-----------------------------------------------------------------------------
\* The invariant holds at the start.
LEMMA InitInv == Init => IInv
<1> SUFFICES ASSUME Init PROVE IInv
  OBVIOUS
<1>1. PICK s \in Signals : history = <<s>>
  BY DEF Init
<1>2. history \in Seq(Signals) /\ Len(history) = 1
  BY <1>1
<1>3. catalog = 0 /\ queue \in Seq(Procs) /\ failures \in Nat
  BY DEF Init
<1>4. ver \in [Procs -> 1..1] /\ got \in [Procs -> 0..1]
  BY DEF Init
<1>5. TypeOK
  <2>1. catalog \in 0..Now /\ Now >= 1 /\ ver \in [Procs -> 1..Now] /\ got \in [Procs -> 0..Now]
    BY <1>2, <1>3, <1>4 DEF Now
  <2>2. pc \in [Procs -> {"idle", "decide", "spawned", "lock", "scan", "scanned", "done"}]
    BY DEF Init
  <2>3. label \in Signals \cup {NoLabel} /\ due \in BOOLEAN
    BY DEF Init
  <2> QED  BY <1>2, <1>3, <2>1, <2>2, <2>3 DEF TypeOK
<1>6. LockInv /\ ScanInv
  BY DEF Init, LockInv, ScanInv, Scanning
<1>7. LabelHonest /\ ListedForVersion
  BY ProcFacts DEF Init, LabelHonest, ListedForVersion
<1> QED  BY <1>5, <1>6, <1>7 DEF IInv

\* Every step keeps it.
LEMMA NextInv == IInv /\ [Next]_vars => IInv'
  BY NextTypes, NextLock, NextScan, NextLabel, NextListed DEF IInv

\* The invariant holds for every value of the constants.
THEOREM Invariance == Spec => []IInv
  BY InitInv, NextInv, PTL DEF Spec

\* A caller of list_documents gets a catalog no older than a moment at which
\* the store had the signal it read.
THEOREM CatalogGuarantee == Spec => []ListedForVersion
<1>1. IInv => ListedForVersion
  BY DEF IInv
<1> QED  BY <1>1, Invariance, PTL

\* One scan of the store at a time.
THEOREM OneScan == Spec => []OneScanAtATime
<1>1. IInv => OneScanAtATime
  BY OneOwner DEF IInv, OneScanAtATime, Scanning
<1> QED  BY <1>1, Invariance, PTL

\* The cached catalog implements the abstract cache: a step of the indexer
\* moves the store, a publication, and the start and the failure of a
\* refresh, replace the value or its label, and the rest stutters.
THEOREM Implementation == Spec => KeepsPromise
<1>1. Init => Abstract!Init
  <2> SUFFICES ASSUME Init PROVE Abstract!Init
    OBVIOUS
  <2>1. PICK s \in Signals : history = <<s>>
    BY DEF Init
  <2>2. Cache = [built |-> FALSE]
    BY DEF Init, Cache
  <2> QED  BY <2>1, <2>2 DEF Abstract!Init, Abstract!Nothing
<1>2. ASSUME IInv, [Next]_vars PROVE [Abstract!Next]_<<history, Cache>>
  <2> USE <1>2
  <2>1. CASE IndexerCommits
    <3>1. Abstract!StoreMoves
      BY <2>1, HistoryGrows DEF IInv, Abstract!StoreMoves, IndexerCommits, Cache
    <3> QED  BY <3>1 DEF Abstract!Next
  <2>2. ASSUME history' = history, catalog' # 0 PROVE Abstract!Replace
    <3>1. IInv'
      BY NextInv
    <3>2. /\ Cache' = [built |-> TRUE, at |-> [k \in {"catalog"} |-> catalog'], label |-> label']
      BY <2>2 DEF Cache
    <3>3. ASSUME label' # NoLabel PROVE Abstract!Honest(Cache'.at, Cache'.label)
      <4>1. PICK e \in 1..catalog' : history'[e] = label'
        BY <3>1, <3>3 DEF IInv, LabelHonest
      <4>2. catalog' \in 0..Len(history)
        BY <2>2, <3>1 DEF IInv, TypeOK, Now
      <4>3. e \in 1..Len(history) /\ catalog' \in e..Len(history)
        BY <4>1, <4>2
      <4> QED  BY <2>2, <3>2, <4>1, <4>3 DEF Abstract!Honest
    <3>4. Cache.built => \A k \in {"catalog"} : Cache'.at[k] >= Cache.at[k]
      BY <3>2, CatalogGrows DEF IInv, Cache
    <3> QED  BY <2>2, <3>2, <3>3, <3>4 DEF Abstract!Replace
  <2>3. CASE history' = history /\ catalog' = 0
    <3>1. catalog = 0
      BY <2>3, CatalogGrows DEF IInv, TypeOK, Now
    <3> QED  BY <2>3, <3>1 DEF Cache
  <2> QED  BY <2>1, <2>2, <2>3, StoreKept DEF Abstract!Next
<1> QED  BY <1>1, <1>2, Invariance, PTL DEF Spec, KeepsPromise, Abstract!Spec
=============================================================================
