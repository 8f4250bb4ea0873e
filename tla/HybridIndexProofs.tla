-------------------------- MODULE HybridIndexProofs --------------------------
(* Proofs of the safety properties of HybridIndex, for any set of chunks,   *)
(* any number of concurrent queries, any paging of the scan, with and       *)
(* without a change marker, and for every bound.                            *)
EXTENDS HybridIndex, TLAPS

\* Committing a batch keeps the recorded past of the store.
LEMMA HistoryGrows ==
    ASSUME TypeOK, IndexerCommits
    PROVE  /\ history' \in Seq([Chunks -> Nat])
           /\ Len(history') = Len(history) + 1
           /\ \A e \in 1..Len(history) : history'[e] = history[e]
  <1>1. PICK gone \in SUBSET Chunks, new \in SUBSET Chunks, s \in 1..MaxStamp :
             Commit(gone, new, s)
    BY DEF IndexerCommits
  <1> DEFINE batch == [c \in Chunks |-> CASE c \in new  -> s
                                          [] c \in gone -> 0
                                          [] OTHER      -> Rows[c]]
  <1>2. history' = Append(history, batch)
    BY <1>1 DEF Commit
  <1>3. Rows \in [Chunks -> Nat]
    BY DEF TypeOK, Rows, Now
  <1>4. batch \in [Chunks -> Nat]
    BY <1>3, BoundsAssumption
  <1> QED
    BY <1>2, <1>4 DEF TypeOK

\* Every step keeps the variables within their types (the first conjunct of
\* the inductive invariant).  Releasing the lock needs LockInv: only a holder
\* releases it, so the queue is not empty.
LEMMA TypeStep ==
    ASSUME TypeOK, LockInv, [Next]_vars
    PROVE  TypeOK'
  <1> USE DEF TypeOK, Now
  <1>0. Queries \subseteq Procs /\ Refresher \in Procs
    BY DEF Procs
  <1> USE <1>0
  <1>1. CASE IndexerCommits
    <2>1. /\ history' \in Seq([Chunks -> Nat])
          /\ Len(history') = Len(history) + 1
      BY <1>1, HistoryGrows
    <2>2. UNCHANGED <<index, due, queue, pc, ver, scan, page, held, life, failures>>
      BY <1>1 DEF IndexerCommits, Commit
    <2>3. 1..Len(history) \subseteq 1..Len(history') /\ 0..Len(history) \subseteq 0..Len(history')
      <3>1. Len(history) \in Nat
        OBVIOUS
      <3> HIDE DEF TypeOK
      <3> QED  BY <2>1, <3>1
    <2>4. ver' \in [Procs -> 1..Len(history')]
      BY <2>2, <2>3
    <2>5. scan' \in [Procs -> [Chunks -> 0..Len(history')]]
      BY <2>2, <2>3
    <2>6. /\ history' \in Seq([Chunks -> Nat]) /\ Len(history') >= 1
          /\ index' \in Index \cup {None} /\ held' \in [Queries -> Index \cup {None}]
      BY <2>1, <2>2
    <2> QED
      BY <2>2, <2>4, <2>5, <2>6
  <1>2. ASSUME NEW q \in Queries, ReadVersion(q)
        PROVE  TypeOK'
    BY <1>2 DEF ReadVersion
  <1>3. ASSUME NEW q \in Queries, SkipTooLarge(q)
        PROVE  TypeOK'
    BY <1>3 DEF SkipTooLarge
  <1>4. ASSUME NEW q \in Queries, NeedsRebuild(q)
        PROVE  TypeOK'
    BY <1>4 DEF NeedsRebuild
  <1>5. ASSUME NEW q \in Queries, ServeCached(q)
        PROVE  TypeOK'
    BY <1>5 DEF ServeCached
  <1>6. ASSUME NEW q \in Queries, Search(q)
        PROVE  TypeOK'
    BY <1>6 DEF Search
  <1>7. CASE RefreshStarts
    BY <1>7 DEF RefreshStarts
  <1>8. ASSUME NEW p \in Procs, AlreadyRebuilt(p)
        PROVE  TypeOK'
    <2>1. queue' \in Seq(Procs)
      BY <1>8 DEF AlreadyRebuilt, Owns
    <2>2. pc' \in [Procs -> {"idle", "decide", "spawned", "lock", "scan", "search"}]
      BY <1>8 DEF AlreadyRebuilt, Finished
    <2>3. held' \in [Queries -> Index \cup {None}]
      BY <1>8 DEF AlreadyRebuilt, Procs
    <2>4. ver' \in [Procs -> 1..Len(history)]
      BY <1>8 DEF AlreadyRebuilt
    <2> QED
      BY <1>8, <2>1, <2>2, <2>3, <2>4 DEF AlreadyRebuilt
  <1>9. ASSUME NEW p \in Procs, StartScan(p)
        PROVE  TypeOK'
    BY <1>9 DEF StartScan
  <1>10. ASSUME NEW p \in Procs, ReadPage(p)
         PROVE  TypeOK'
    BY <1>10 DEF ReadPage
  <1>11. ASSUME NEW p \in Procs, ScanFails(p)
         PROVE  TypeOK'
    <2>1. queue' \in Seq(Procs)
      BY <1>11 DEF ScanFails, LockInv, Owns
    <2>2. scan' \in [Procs -> [Chunks -> 0..Len(history)]]
      BY <1>11 DEF ScanFails, DropScan
    <2>3. page' \in [Procs -> 1..(Len(Pages) + 1)]
      BY <1>11 DEF ScanFails, DropScan
    <2>4. pc' \in [Procs -> {"idle", "decide", "spawned", "lock", "scan", "search"}]
      BY <1>11 DEF ScanFails
    <2>5. ver' \in [Procs -> 1..Len(history)]
      BY <1>11 DEF ScanFails
    <2>6. failures' \in Nat /\ UNCHANGED <<history, index, due, held, life>>
      BY <1>11 DEF ScanFails
    <2> QED
      BY <2>1, <2>2, <2>3, <2>4, <2>5, <2>6
  <1>12. ASSUME NEW p \in Procs, Publish(p)
         PROVE  TypeOK'
    <2>1. queue' \in Seq(Procs)
      BY <1>12 DEF Publish, PublishAs, LockInv, Owns
    <2>2. pc' \in [Procs -> {"idle", "decide", "spawned", "lock", "scan", "search"}]
      BY <1>12 DEF Publish, PublishAs, Finished
    <2>3. scan[p] \in [Chunks -> Nat] /\ ver[p] \in Nat
      OBVIOUS
    <2>4. index' \in Index
      BY <1>12, <2>3 DEF Publish, PublishAs, Index
    <2>5. held' \in [Queries -> Index \cup {None}]
      BY <1>12, <2>4 DEF Publish, PublishAs
    <2>6. ver' \in [Procs -> 1..Len(history)]
      BY <1>12 DEF Publish, PublishAs
    <2>7. /\ scan' \in [Procs -> [Chunks -> 0..Len(history)]]
          /\ page' \in [Procs -> 1..(Len(Pages) + 1)]
      BY <1>12 DEF Publish, PublishAs, DropScan
    <2> QED
      BY <1>12, <2>1, <2>2, <2>4, <2>5, <2>6, <2>7 DEF Publish, PublishAs
  <1>13. CASE TtlPasses
    BY <1>13 DEF TtlPasses
  <1>14. CASE BeginClose
    BY <1>14 DEF BeginClose
  <1>15. CASE CloseHybrid
    BY <1>15 DEF CloseHybrid
  <1>16. CASE UNCHANGED vars
    BY <1>16 DEF vars
  <1> QED
    BY <1>1, <1>2, <1>3, <1>4, <1>5, <1>6, <1>7, <1>8, <1>9, <1>10, <1>11,
       <1>12, <1>13, <1>14, <1>15, <1>16 DEF Next, Query, Rebuild

\* The lock of _rebuild: entering a scan, and leaving it, keeps every other
\* coroutine out (queueing only changes the head of an empty queue, and only
\* the holder removes it).
LEMMA LockStep ==
    ASSUME TypeOK, LockInv, [Next]_vars
    PROVE  LockInv'
  <1> SUFFICES ASSUME NEW r \in Procs, pc'[r] = "scan"
               PROVE  Owns(r)'
    BY DEF LockInv
  <1> USE DEF TypeOK, Owns
  <1>0. Queries \subseteq Procs /\ Refresher \in Procs
    BY DEF Procs
  <1> USE <1>0
  <1>1. CASE UNCHANGED <<pc, queue>>
    BY <1>1 DEF LockInv
  <1>2. ASSUME NEW p \in Procs, queue' = Append(queue, p), pc[r] = "scan"
        PROVE  Owns(r)'
    <2>1. queue # <<>> /\ Head(queue) = r
      BY <1>2 DEF LockInv
    <2>2. Len(queue') = Len(queue) + 1 /\ queue'[1] = queue[1]
      BY <1>2, <2>1
    <2>3. queue' \in Seq(Procs) /\ Len(queue') # 0
      BY <1>2, <2>2
    <2>4. Head(queue') = queue'[1]
      BY <2>3
    <2>5. queue' # <<>>
      BY <2>3
    <2>6. Head(queue) = queue[1]
      BY <2>1
    <2> QED
      BY <2>1, <2>2, <2>4, <2>5, <2>6
  <1>3. ASSUME NEW p \in Procs, Owns(p), pc'[p] # "scan",
               \A x \in Procs : x # p => pc'[x] = pc[x]
        PROVE  Owns(r)'
    <2>1. r # p /\ pc[r] = "scan"
      BY <1>3
    <2>2. Owns(r)
      BY <2>1 DEF LockInv
    <2> QED
      BY <1>3, <2>1, <2>2
  <1>4. ASSUME NEW q \in Queries, NeedsRebuild(q)
        PROVE  Owns(r)'
    <2>1. pc[r] = "scan"
      BY <1>4 DEF NeedsRebuild
    <2> QED
      BY <1>2, <1>4, <2>1 DEF NeedsRebuild
  <1>5. CASE RefreshStarts
    <2>1. pc[r] = "scan"
      BY <1>5 DEF RefreshStarts
    <2> QED
      BY <1>2, <1>5, <2>1 DEF RefreshStarts
  <1>6. ASSUME NEW q \in Queries,
               ReadVersion(q) \/ SkipTooLarge(q) \/ ServeCached(q) \/ Search(q)
        PROVE  Owns(r)'
    <2>1. pc[r] = "scan" /\ queue' = queue
      BY <1>6 DEF ReadVersion, SkipTooLarge, ServeCached, Search
    <2> QED
      BY <2>1 DEF LockInv
  <1>7. ASSUME NEW p \in Procs, AlreadyRebuilt(p)
        PROVE  Owns(r)'
    <2>1. pc'[p] # "scan"
      BY <1>7 DEF AlreadyRebuilt, Finished
    <2>2. \A x \in Procs : x # p => pc'[x] = pc[x]
      BY <1>7 DEF AlreadyRebuilt
    <2> QED
      BY <1>7, <2>1, <2>2, <1>3 DEF AlreadyRebuilt
  <1>8. ASSUME NEW p \in Procs, StartScan(p)
        PROVE  Owns(r)'
    BY <1>8 DEF StartScan, LockInv
  <1>9. ASSUME NEW p \in Procs, ReadPage(p)
        PROVE  Owns(r)'
    BY <1>9, <1>1 DEF ReadPage
  <1>10. ASSUME NEW p \in Procs, ScanFails(p)
         PROVE  Owns(r)'
    <2>1. Owns(p)
      BY <1>10 DEF ScanFails, LockInv
    <2> QED
      BY <1>10, <2>1, <1>3 DEF ScanFails
  <1>11. ASSUME NEW p \in Procs, Publish(p)
         PROVE  Owns(r)'
    <2>1. Owns(p)
      BY <1>11 DEF Publish, PublishAs, LockInv
    <2>2. pc'[p] # "scan"
      BY <1>11 DEF Publish, PublishAs, Finished
    <2> QED
      BY <1>11, <2>1, <2>2, <1>3 DEF Publish, PublishAs
  <1>12. CASE IndexerCommits \/ TtlPasses \/ BeginClose \/ CloseHybrid \/ UNCHANGED vars
    BY <1>12, <1>1 DEF IndexerCommits, Commit, TtlPasses, BeginClose, CloseHybrid, vars
  <1> QED
    BY <1>4, <1>5, <1>6, <1>7, <1>8, <1>9, <1>10, <1>11, <1>12
       DEF Next, Query, Rebuild

\* Two coroutines cannot both own the lock: "one build at a time".
LEMMA OneOwner ==
    ASSUME LockInv, NEW p \in Procs, NEW r \in Procs, pc[p] = "scan", pc[r] = "scan"
    PROVE  p = r
  BY DEF LockInv, Owns

\* Every label and every row's epoch stays in the recorded past.
LEMMA LabelledStable ==
    ASSUME TypeOK, TypeOK', NEW i, Labelled(i),
           Len(history') >= Len(history)
    PROVE  /\ i.label \in 1..Len(history')
           /\ \A c \in Chunks : i.at[c] \in i.label..Len(history')
  <1>1. Len(history) \in Nat /\ Len(history') \in Nat
    BY DEF TypeOK
  <1> QED
    BY <1>1 DEF Labelled

\* What a step may do to the past, seen from the other variables.
LEMMA PastKept ==
    ASSUME TypeOK, LockInv, [Next]_vars
    PROVE  /\ Len(history') >= Len(history)
           /\ \A e \in 1..Len(history) : SignalAt(e)' = SignalAt(e)
  <1>1. CASE IndexerCommits
    <2>1. /\ Len(history') = Len(history) + 1
          /\ \A e \in 1..Len(history) : history'[e] = history[e]
      BY <1>1, HistoryGrows
    <2>2. ASSUME NEW e \in 1..Len(history)
          PROVE  SignalAt(e)' = SignalAt(e)
      <3>1. history'[e] = history[e]
        BY <2>1
      <3> QED
        BY <3>1 DEF SignalAt, Signal
    <2> QED
      BY <2>1, <2>2 DEF TypeOK
  <1>2. CASE ~IndexerCommits
    <2>1. history' = history
      BY <1>2 DEF Next, Query, Rebuild, ReadVersion, SkipTooLarge, NeedsRebuild,
                  ServeCached, Search, RefreshStarts, AlreadyRebuilt, StartScan,
                  ReadPage, ScanFails, Publish, PublishAs, TtlPasses, BeginClose,
                  CloseHybrid, vars
    <2> QED
      BY <2>1 DEF TypeOK, SignalAt, Signal
  <1> QED
    BY <1>1, <1>2

\* When the last page has been read every row of the scan is known, was read
\* after the version it will be labelled with, and replaces no newer row.
LEMMA ScanComplete ==
    ASSUME TypeOK, ScanInv, NEW p \in Procs, pc[p] = "scan", page[p] > Len(Pages)
    PROVE  \A c \in Chunks :
             /\ scan[p][c] \in ver[p]..Len(history)
             /\ index.built => index.at[c] <= scan[p][c]
  <1> SUFFICES ASSUME NEW c \in Chunks
               PROVE  /\ scan[p][c] \in ver[p]..Len(history)
                      /\ index.built => index.at[c] <= scan[p][c]
    OBVIOUS
  <1>1. page[p] = Len(Pages) + 1
    BY PagesAssumption DEF TypeOK
  <1>2. c \in Fetched(p)
    BY <1>1, PagesAssumption DEF Fetched
  <1> QED
    BY <1>2 DEF ScanInv, TypeOK

\* The index only changes when a complete scan is published.
LEMMA IndexKept ==
    ASSUME [Next]_vars
    PROVE  index' = index \/ \E p \in Procs : Publish(p)
  BY DEF Next, Query, Rebuild, ReadVersion, SkipTooLarge, NeedsRebuild, ServeCached,
         Search, RefreshStarts, AlreadyRebuilt, StartScan, ReadPage, ScanFails,
         TtlPasses, BeginClose, CloseHybrid, IndexerCommits, Commit, vars

\* The index carries a version read before any of its rows.
LEMMA IndexStep ==
    ASSUME TypeOK, LockInv, IndexInv, ScanInv, TypeOK', [Next]_vars
    PROVE  IndexInv'
  <1>1. Len(history') >= Len(history)
    BY PastKept
  <1>2. CASE index' = index
    <2> SUFFICES ASSUME index.built
                 PROVE  Labelled(index)'
      BY <1>2 DEF IndexInv
    <2>1. Labelled(index)
      BY DEF IndexInv
    <2> QED
      BY <1>1, <1>2, <2>1, LabelledStable DEF Labelled
  <1>3. ASSUME NEW p \in Procs, Publish(p)
        PROVE  IndexInv'
    <2>1. /\ index'.label = ver[p] /\ index'.at = scan[p]
          /\ pc[p] = "scan" /\ page[p] > Len(Pages)
          /\ history' = history
      BY <1>3 DEF Publish, PublishAs
    <2>2. \A c \in Chunks : scan[p][c] \in ver[p]..Len(history)
      BY <2>1, ScanComplete
    <2> QED
      BY <2>1, <2>2 DEF IndexInv, Labelled, TypeOK
  <1> QED
    BY <1>2, <1>3, IndexKept

\* A rebuild replaces rows by rows that are at least as recent: the step form
\* of IndexNeverRegresses.
LEMMA NeverRegressesStep ==
    ASSUME TypeOK, ScanInv, [Next]_vars
    PROVE  index.built =>
             index'.built /\ \A c \in Chunks : index'.at[c] >= index.at[c]
  <1> SUFFICES ASSUME index.built
               PROVE  index'.built /\ \A c \in Chunks : index'.at[c] >= index.at[c]
    OBVIOUS
  <1>1. index \in Index
    BY DEF TypeOK, None
  <1>2. CASE index' = index
    BY <1>1, <1>2 DEF Index
  <1>3. ASSUME NEW p \in Procs, Publish(p)
        PROVE  index'.built /\ \A c \in Chunks : index'.at[c] >= index.at[c]
    <2>1. \A c \in Chunks : scan[p][c] \in ver[p]..Len(history) /\ index.at[c] <= scan[p][c]
      BY <1>3, ScanComplete DEF Publish, PublishAs
    <2>2. index'.built /\ index'.at = scan[p]
      BY <1>3 DEF Publish, PublishAs
    <2> QED
      BY <1>1, <2>1, <2>2 DEF Index, TypeOK
  <1> QED
    BY <1>2, <1>3, IndexKept

\* No row of the index was read in the future.
LEMMA IndexPast ==
    ASSUME TypeOK, IndexInv, index.built, NEW c \in Chunks
    PROVE  index.at[c] <= Len(history)
  <1>1. Len(history) \in Nat
    BY DEF TypeOK
  <1>2. index.label \in 1..Len(history) /\ index.at[c] \in index.label..Len(history)
    BY DEF IndexInv, Labelled
  <1> QED
    BY <1>1, <1>2

\* A running scan stays ahead of its version and of the index: the rows it
\* has read do not change, and the index does not change under it.
LEMMA ScanStep ==
    ASSUME TypeOK, LockInv, IndexInv, ScanInv, [Next]_vars
    PROVE  ScanInv'
  <1> SUFFICES ASSUME NEW r \in Procs, pc'[r] = "scan"
               PROVE  \A c \in Fetched(r)' :
                        /\ ver'[r] <= scan'[r][c]
                        /\ index'.built => index'.at[c] <= scan'[r][c]
    BY DEF ScanInv
  <1> DEFINE Ahead == \A c \in Fetched(r)' :
                        /\ ver'[r] <= scan'[r][c]
                        /\ index'.built => index'.at[c] <= scan'[r][c]
  <1>0. Queries \subseteq Procs /\ Refresher \in Procs
    BY DEF Procs
  <1> USE <1>0 DEF TypeOK
  \* Nothing that concerns r moves.
  <1>1. ASSUME pc[r] = "scan", ver'[r] = ver[r], scan'[r] = scan[r],
               page'[r] = page[r], index' = index
        PROVE  Ahead
    BY <1>1 DEF ScanInv, Fetched
  <1>2. CASE IndexerCommits
    BY <1>1, <1>2 DEF IndexerCommits, Commit
  <1>3. ASSUME NEW q \in Queries, ReadVersion(q)
        PROVE  Ahead
    BY <1>1, <1>3 DEF ReadVersion
  <1>4. ASSUME NEW q \in Queries, SkipTooLarge(q)
        PROVE  Ahead
    BY <1>1, <1>4 DEF SkipTooLarge
  <1>5. ASSUME NEW q \in Queries, NeedsRebuild(q)
        PROVE  Ahead
    BY <1>1, <1>5 DEF NeedsRebuild
  <1>6. ASSUME NEW q \in Queries, ServeCached(q)
        PROVE  Ahead
    BY <1>1, <1>6 DEF ServeCached
  <1>7. ASSUME NEW q \in Queries, Search(q)
        PROVE  Ahead
    BY <1>1, <1>7 DEF Search
  <1>8. CASE RefreshStarts
    BY <1>1, <1>8 DEF RefreshStarts
  <1>9. ASSUME NEW p \in Procs, AlreadyRebuilt(p)
        PROVE  Ahead
    BY <1>1, <1>9 DEF AlreadyRebuilt, Finished
  <1>10. ASSUME NEW p \in Procs, StartScan(p)
         PROVE  Ahead
    <2>1. CASE p = r
      BY <1>10, <2>1 DEF StartScan, Fetched
    <2>2. CASE p # r
      BY <1>1, <1>10, <2>2 DEF StartScan
    <2> QED
      BY <2>1, <2>2
  <1>11. ASSUME NEW p \in Procs, ReadPage(p)
         PROVE  Ahead
    <2>1. CASE p # r
      BY <1>1, <1>11, <2>1 DEF ReadPage
    <2>2. CASE p = r
      <3> SUFFICES ASSUME NEW c \in Fetched(r)'
                   PROVE  /\ ver[r] <= scan'[r][c]
                          /\ index.built => index.at[c] <= scan'[r][c]
        BY <1>11 DEF ReadPage
      <3>1. c \in Chunks
        BY DEF Fetched
      <3>2. CASE c \in Pages[page[r]]
        <4>1. scan'[r][c] = Len(history)
          BY <1>11, <2>2, <3>1, <3>2 DEF ReadPage, Now
        <4>2. ver[r] <= Len(history)
          OBVIOUS
        <4>3. index.built => index.at[c] <= Len(history)
          BY <3>1, IndexPast
        <4> QED
          BY <4>1, <4>2, <4>3
      <3>3. CASE c \notin Pages[page[r]]
        <4>1. scan'[r][c] = scan[r][c]
          BY <1>11, <2>2, <3>1, <3>3 DEF ReadPage
        <4>2. page'[r] = page[r] + 1
          BY <1>11, <2>2 DEF ReadPage
        <4>3. page[r] \in Nat
          BY PagesAssumption
        <4>4. PICK i \in 1..(page'[r] - 1) : c \in Pages[i]
          BY DEF Fetched
        <4>5. i \in 1..(page[r] - 1)
          BY <3>3, <4>2, <4>3, <4>4
        <4>6. c \in Fetched(r)
          BY <3>1, <4>4, <4>5 DEF Fetched
        <4>7. pc[r] = "scan"
          BY <1>11, <2>2 DEF ReadPage
        <4> QED
          BY <1>11, <4>1, <4>6, <4>7 DEF ScanInv, ReadPage
      <3> QED
        BY <3>2, <3>3
    <2> QED
      BY <2>1, <2>2
  <1>12. ASSUME NEW p \in Procs, ScanFails(p)
         PROVE  Ahead
    BY <1>1, <1>12 DEF ScanFails, DropScan
  <1>13. ASSUME NEW p \in Procs, Publish(p)
         PROVE  Ahead
    <2>1. p # r
      BY <1>13 DEF Publish, PublishAs, Finished
    <2>2. pc[r] = "scan" /\ pc[p] = "scan"
      BY <1>13, <2>1 DEF Publish, PublishAs
    <2> QED
      BY <2>1, <2>2, OneOwner
  <1>14. CASE TtlPasses \/ BeginClose \/ CloseHybrid \/ UNCHANGED vars
    BY <1>1, <1>14 DEF TtlPasses, BeginClose, CloseHybrid, vars
  <1> QED
    BY <1>2, <1>3, <1>4, <1>5, <1>6, <1>7, <1>8, <1>9, <1>10, <1>11, <1>12,
       <1>13, <1>14 DEF Next, Query, Rebuild

\* A query that searches holds an index that carries its own version, since
\* the object and the label change together and the captured object never.
LEMMA HeldStep ==
    ASSUME TypeOK, LockInv, IndexInv, ScanInv, HeldInv, [Next]_vars
    PROVE  HeldInv'
  <1> SUFFICES ASSUME NEW r \in Queries, pc'[r] = "search"
               PROVE  /\ held'[r].built
                      /\ held'[r].label \in 1..Len(history')
                      /\ \A c \in Chunks :
                           held'[r].at[c] \in held'[r].label..Len(history')
                      /\ Signal(history'[held'[r].label]) = Signal(history'[ver'[r]])
    BY DEF HeldInv, Labelled, SignalAt
  <1> DEFINE Fits(i, v) == /\ i.built
                           /\ i.label \in 1..Len(history')
                           /\ \A c \in Chunks : i.at[c] \in i.label..Len(history')
                           /\ Signal(history'[i.label]) = Signal(history'[v])
  <1> SUFFICES Fits(held'[r], ver'[r])
    OBVIOUS
  <1>0. Queries \subseteq Procs /\ Refresher \in Procs /\ r # Refresher
    BY ProcsAssumption DEF Procs
  <1> USE <1>0
  <1>a. TypeOK'
    BY TypeStep
  <1>b. /\ Len(history') >= Len(history)
        /\ \A e \in 1..Len(history) : Signal(history'[e]) = Signal(history[e])
    BY PastKept DEF SignalAt
  <1>c. ver[r] \in 1..Len(history)
    BY DEF TypeOK
  \* An index that carries the version of r still does after the step.
  <1>1. ASSUME NEW i, i.built, Labelled(i), Signal(history[i.label]) = Signal(history[ver[r]])
        PROVE  Fits(i, ver[r])
    <2>1. /\ i.label \in 1..Len(history')
          /\ \A c \in Chunks : i.at[c] \in i.label..Len(history')
      BY <1>1, <1>a, <1>b, LabelledStable
    <2>2. i.label \in 1..Len(history)
      BY <1>1 DEF Labelled
    <2> QED
      BY <1>1, <1>b, <1>c, <2>1, <2>2
  \* r was searching already.
  <1>2. ASSUME pc[r] = "search", held'[r] = held[r], ver'[r] = ver[r]
        PROVE  Fits(held'[r], ver'[r])
    <2>1. held[r].built /\ Labelled(held[r]) /\ Signal(history[held[r].label]) = Signal(history[ver[r]])
      BY <1>2 DEF HeldInv, SignalAt
    <2>2. Fits(held[r], ver[r])
      BY <2>1, <1>1
    <2> QED
      BY <1>2, <2>2
  \* r takes the cached index, which is current for it.
  <1>3. ASSUME IndexCurrent(r), held'[r] = index, ver'[r] = ver[r]
        PROVE  Fits(held'[r], ver'[r])
    <2>1. index.built /\ Labelled(index) /\ Signal(history[index.label]) = Signal(history[ver[r]])
      BY <1>3 DEF IndexInv, IndexCurrent, SignalAt
    <2>2. Fits(index, ver[r])
      BY <2>1, <1>1
    <2> QED
      BY <1>3, <2>2
  <1> HIDE DEF Fits
  <1> USE DEF TypeOK
  <1>4. CASE IndexerCommits
    BY <1>2, <1>4 DEF IndexerCommits, Commit
  <1>5. ASSUME NEW q \in Queries, ReadVersion(q)
        PROVE  Fits(held'[r], ver'[r])
    BY <1>2, <1>5 DEF ReadVersion
  <1>6. ASSUME NEW q \in Queries, SkipTooLarge(q)
        PROVE  Fits(held'[r], ver'[r])
    BY <1>2, <1>6 DEF SkipTooLarge
  <1>7. ASSUME NEW q \in Queries, NeedsRebuild(q)
        PROVE  Fits(held'[r], ver'[r])
    BY <1>2, <1>7 DEF NeedsRebuild
  <1>8. ASSUME NEW q \in Queries, ServeCached(q)
        PROVE  Fits(held'[r], ver'[r])
    <2>1. ver'[r] = ver[r]
      BY <1>8 DEF ServeCached
    <2>2. CASE q = r
      <3>1. held'[r] = index
        BY <1>8, <2>2 DEF ServeCached
      <3>2. IndexCurrent(r)
        BY <1>8, <2>2 DEF ServeCached
      <3> QED
        BY <1>3, <2>1, <3>1, <3>2
    <2>3. CASE q # r
      <3>1. held'[r] = held[r] /\ pc[r] = "search"
        BY <1>8, <2>3 DEF ServeCached
      <3> QED
        BY <1>2, <2>1, <3>1
    <2> QED
      BY <2>2, <2>3
  <1>9. ASSUME NEW q \in Queries, Search(q)
        PROVE  Fits(held'[r], ver'[r])
    BY <1>2, <1>9 DEF Search
  <1>10. CASE RefreshStarts
    BY <1>2, <1>10 DEF RefreshStarts
  <1>11. ASSUME NEW p \in Procs, AlreadyRebuilt(p)
         PROVE  Fits(held'[r], ver'[r])
    <2>1. ver'[r] = ver[r]
      BY <1>11 DEF AlreadyRebuilt
    <2>2. CASE p = r
      BY <1>3, <1>11, <2>1, <2>2 DEF AlreadyRebuilt, NothingToDo
    <2>3. CASE p # r
      <3>1. pc[r] = "search"
        BY <1>11, <2>3 DEF AlreadyRebuilt
      <3>2. held'[r] = held[r]
        BY <1>11, <2>3 DEF AlreadyRebuilt
      <3> QED
        BY <1>2, <2>1, <3>1, <3>2
    <2> QED
      BY <2>2, <2>3
  <1>12. ASSUME NEW p \in Procs, StartScan(p) \/ ReadPage(p)
         PROVE  Fits(held'[r], ver'[r])
    BY <1>2, <1>12 DEF StartScan, ReadPage
  <1>13. ASSUME NEW p \in Procs, ScanFails(p)
         PROVE  Fits(held'[r], ver'[r])
    BY <1>2, <1>13 DEF ScanFails
  <1>14. ASSUME NEW p \in Procs, Publish(p)
         PROVE  Fits(held'[r], ver'[r])
    <2>1. ver'[r] = ver[r] /\ history' = history
      BY <1>14 DEF Publish, PublishAs
    <2>2. CASE p = r
      <3>1. held'[r].built /\ held'[r].at = scan[r] /\ held'[r].label = ver[r]
        BY <1>14, <2>2 DEF Publish, PublishAs
      <3>2. \A c \in Chunks : scan[r][c] \in ver[r]..Len(history)
        BY <1>14, <2>2, ScanComplete DEF Publish, PublishAs
      <3> QED
        BY <1>c, <2>1, <3>1, <3>2 DEF Fits
    <2>3. CASE p # r
      <3>1. pc[r] = "search"
        BY <1>14, <2>3 DEF Publish, PublishAs
      <3>2. held'[r] = held[r]
        BY <1>14, <2>3 DEF Publish, PublishAs
      <3> QED
        BY <1>2, <2>1, <3>1, <3>2
    <2> QED
      BY <2>2, <2>3
  <1>15. CASE TtlPasses \/ BeginClose \/ CloseHybrid \/ UNCHANGED vars
    BY <1>2, <1>15 DEF TtlPasses, BeginClose, CloseHybrid, vars
  <1> QED
    BY <1>4, <1>5, <1>6, <1>7, <1>8, <1>9, <1>10, <1>11, <1>12, <1>13, <1>14,
       <1>15 DEF Next, Query, Rebuild

-----------------------------------------------------------------------------
(* The theorems.                                                            *)

\* The inductive invariant holds when the accessor has just been built ...
LEMMA InitInv == Init => IInv
  <1> SUFFICES ASSUME Init
               PROVE  IInv
    OBVIOUS
  <1>1. PICK rows \in [Chunks -> {0, 1}] : history = <<rows>>
    BY DEF Init
  <1>2. history \in Seq([Chunks -> Nat]) /\ Len(history) = 1
    BY <1>1
  <1>3. Len(Pages) \in Nat
    BY PagesAssumption
  <1>4. TypeOK
    <2>1. /\ 1 \in 1..(Len(Pages) + 1)
          /\ 1 \in 1..Len(history) /\ 0 \in 0..Len(history)
      BY <1>2, <1>3
    <2>2. /\ page \in [Procs -> 1..(Len(Pages) + 1)]
          /\ ver \in [Procs -> 1..Len(history)]
          /\ scan \in [Procs -> [Chunks -> 0..Len(history)]]
      BY <2>1 DEF Init
    <2>3. /\ pc \in [Procs -> {"idle", "decide", "spawned", "lock", "scan", "search"}]
          /\ held \in [Queries -> Index \cup {None}]
      BY DEF Init
    <2>4. queue \in Seq(Procs)
      BY DEF Init
    <2>5. /\ index \in Index \cup {None} /\ due \in BOOLEAN
          /\ life \in {"open", "closing", "closed"} /\ failures \in Nat
      BY DEF Init
    <2> QED
      BY <1>2, <2>2, <2>3, <2>4, <2>5 DEF TypeOK
  <1> QED
    BY <1>4 DEF Init, IInv, LockInv, IndexInv, ScanInv, HeldInv, None, Procs

\* ... and every step of the code, the indexer or time preserves it.
THEOREM Invariance == Spec => []IInv
  <1>1. IInv /\ [Next]_vars => IInv'
    BY TypeStep, LockStep, IndexStep, ScanStep, HeldStep DEF IInv
  <1> QED
    BY InitInv, <1>1, PTL DEF Spec

\* The variables keep their types.
THEOREM TypeCorrect == Spec => []TypeOK
  <1>1. IInv => TypeOK
    BY DEF IInv
  <1> QED
    BY Invariance, <1>1, PTL

\* _bm25_lock admits one scan of the store at a time.
THEOREM MutualExclusion == Spec => []OneBuildAtATime
  <1>1. IInv => OneBuildAtATime
    BY OneOwner DEF IInv, OneBuildAtATime
  <1> QED
    BY Invariance, <1>1, PTL

\* A query is never served an index scanned before every moment at which the
\* store had the signal the query read.
THEOREM VersionGuarantee == Spec => []ServedForVersion
  <1>1. IInv => ServedForVersion
    <2> SUFFICES ASSUME IInv, NEW q \in Queries, pc[q] = "search"
                 PROVE  \E e \in 1..Now :
                          /\ SignalAt(e) = SignalAt(ver[q])
                          /\ \A c \in Chunks : held[q].at[c] >= e
      BY DEF ServedForVersion
    <2>1. /\ held[q].label \in 1..Len(history)
          /\ \A c \in Chunks : held[q].at[c] \in held[q].label..Len(history)
          /\ SignalAt(held[q].label) = SignalAt(ver[q])
      BY DEF IInv, HeldInv, Labelled
    <2>2. \A c \in Chunks : held[q].at[c] >= held[q].label
      BY <2>1 DEF IInv, TypeOK
    <2> QED
      BY <2>1, <2>2 DEF Now
  <1> QED
    BY Invariance, <1>1, PTL

\* With a signal that tells all contents apart, a query never searches a row
\* older than its own version query.
THEOREM Freshness == Spec => []FreshWhenSignalFaithful
  <1>1. IInv => FreshWhenSignalFaithful
    <2> SUFFICES ASSUME IInv, SignalFaithful, NEW q \in Queries, pc[q] = "search",
                        NEW c \in Chunks
                 PROVE  held[q].at[c] >= ver[q]
      BY DEF FreshWhenSignalFaithful
    <2>1. /\ held[q].label \in 1..Len(history)
          /\ held[q].at[c] \in held[q].label..Len(history)
          /\ SignalAt(held[q].label) = SignalAt(ver[q])
      BY DEF IInv, HeldInv, Labelled
    <2>2. ver[q] \in 1..Len(history)
      BY DEF IInv, TypeOK, Procs
    <2>3. held[q].label = ver[q]
      BY <2>1, <2>2 DEF SignalFaithful, Now
    <2> QED
      BY <2>1, <2>2, <2>3 DEF IInv, TypeOK
  <1> QED
    BY Invariance, <1>1, PTL

\* Replacing the index never brings back an older row.
THEOREM Monotone == Spec => IndexNeverRegresses
  <1>1. IInv /\ [Next]_vars =>
          [index.built => index'.built /\ \A c \in Chunks : index'.at[c] >= index.at[c]]_vars
    BY NeverRegressesStep DEF IInv
  <1> QED
    BY Invariance, <1>1, PTL DEF Spec, IndexNeverRegresses

-----------------------------------------------------------------------------
(* Shutdown.                                                               *)

\* The two waits behind close(): the server lets its requests end before it
\* begins, and _close_hybrid lets the refresh end before the client goes.
Quiet ==
    /\ life # "open" => \A q \in Queries : pc[q] = "idle"
    /\ life = "closed" => pc[Refresher] = "idle"

\* A step of _rebuild belongs to a caller that is suspended in it and wakes
\* nobody else.
LEMMA RebuildWakesNobody ==
    ASSUME TypeOK, NEW p \in Procs, Rebuild(p)
    PROVE  /\ life' = life /\ pc[p] # "idle"
           /\ \A r \in Procs : pc[r] = "idle" => pc'[r] = "idle"
  <1>1. /\ life' = life /\ pc[p] # "idle"
        /\ pc' = pc \/ \E at : pc' = [pc EXCEPT ![p] = at]
    BY DEF Rebuild, AlreadyRebuilt, StartScan, ReadPage, ScanFails, Publish, PublishAs
  <1> QED
    BY <1>1 DEF TypeOK

\* Nothing begins once the shutdown has: a request needs an open accessor, and
\* a refresh is only started by a request.
LEMMA QuietStep ==
    ASSUME TypeOK, Quiet, [Next]_vars
    PROVE  Quiet'
  <1>0. /\ Queries \subseteq Procs /\ Refresher \in Procs /\ Refresher \notin Queries
        /\ pc \in [Procs -> {"idle", "decide", "spawned", "lock", "scan", "search"}]
    BY ProcsAssumption DEF Procs, TypeOK
  <1>1. ASSUME NEW q \in Queries, ReadVersion(q)
        PROVE  Quiet'
    BY <1>0, <1>1 DEF Quiet, ReadVersion
  <1>2. ASSUME NEW q \in Queries,
               SkipTooLarge(q) \/ NeedsRebuild(q) \/ ServeCached(q) \/ Search(q)
        PROVE  Quiet'
    <2>1. life' = life /\ pc[q] # "idle"
      BY <1>2 DEF SkipTooLarge, NeedsRebuild, ServeCached, Search
    <2>2. life = "open"
      BY <2>1 DEF Quiet
    <2> QED
      BY <2>1, <2>2 DEF Quiet
  <1>3. CASE RefreshStarts
    BY <1>0, <1>3 DEF Quiet, RefreshStarts
  <1>4. ASSUME NEW p \in Procs, Rebuild(p)
        PROVE  Quiet'
    BY <1>0, <1>4, RebuildWakesNobody DEF Quiet
  <1>5. CASE IndexerCommits \/ TtlPasses \/ UNCHANGED vars
    BY <1>5 DEF Quiet, IndexerCommits, Commit, TtlPasses, vars
  <1>6. CASE BeginClose
    BY <1>6 DEF Quiet, BeginClose
  <1>7. CASE CloseHybrid
    BY <1>7 DEF Quiet, CloseHybrid
  <1> QED
    BY <1>1, <1>2, <1>3, <1>4, <1>5, <1>6, <1>7 DEF Next, Query

\* The client of the backend is never closed under a query or a refresh that
\* still uses it.
THEOREM CloseWaits == Spec => []NothingRunsAfterClose
  <1>1. Init => Quiet
    BY DEF Init, Quiet
  <1>2. IInv /\ Quiet /\ [Next]_vars => Quiet'
    BY QuietStep DEF IInv
  <1>3. Quiet => NothingRunsAfterClose
    BY DEF Quiet, NothingRunsAfterClose, Procs
  <1> QED
    BY Invariance, <1>1, <1>2, <1>3, PTL DEF Spec

-----------------------------------------------------------------------------
(* Refinement: the index implements VersionedCache.                         *)

\* The signals the store has had and the cached value, as VersionedCache
\* sees them.
Store == [e \in 1..Now |-> SignalAt(e)]
Cache == IF index.built
           THEN [built |-> TRUE, at |-> index.at, label |-> SignalAt(index.label)]
           ELSE None

\* A step that leaves the past of the store and the index alone stutters.
LEMMA StutterStep ==
    ASSUME history' = history, index' = index
    PROVE  Store' = Store /\ Cache' = Cache
  <1>1. \A e : SignalAt(e)' = SignalAt(e)
    BY DEF SignalAt, Signal
  <1>2. Now' = Now
    BY DEF Now
  <1> QED
    BY <1>1, <1>2 DEF Store, Cache, None

\* A committed batch appends one signal and keeps the cached value.
LEMMA CommitStep ==
    ASSUME TypeOK, LockInv, IndexInv, IndexerCommits
    PROVE  /\ Len(Store') = Len(Store) + 1
           /\ Store' = Append(Store, Store'[Len(Store')])
           /\ Cache' = Cache
  <1>1. index' = index
    BY DEF IndexerCommits, Commit
  <1>2. /\ Len(history') = Len(history) + 1
        /\ Len(history) \in Nat
    BY HistoryGrows DEF TypeOK
  <1>3. \A e \in 1..Len(history) : SignalAt(e)' = SignalAt(e)
    BY PastKept DEF Next
  <1>4. /\ Store = [e \in 1..Len(history) |-> SignalAt(e)]
        /\ Store' = [e \in 1..(Len(history) + 1) |-> SignalAt(e)']
    BY <1>2 DEF Store, Now
  <1>5. Cache' = Cache
    <2>1. CASE index.built
      <3>1. SignalAt(index.label)' = SignalAt(index.label)
        BY <1>1, <1>3, <2>1 DEF IndexInv, Labelled
      <3> QED
        BY <1>1, <2>1, <3>1 DEF Cache
    <2>2. CASE ~index.built
      BY <1>1, <2>2 DEF Cache, None
    <2> QED
      BY <2>1, <2>2
  <1> QED
    BY <1>2, <1>3, <1>4, <1>5

\* Publishing an index replaces the cached value honestly.
LEMMA PublishStep ==
    ASSUME TypeOK, IndexInv, ScanInv, LockInv, NEW p \in Procs, Publish(p)
    PROVE  /\ Cache'.built
           /\ \E e \in 1..Len(Store) :
                /\ Store[e] = Cache'.label
                /\ \A c \in Chunks : Cache'.at[c] \in e..Len(Store)
           /\ Cache.built => \A c \in Chunks : Cache'.at[c] >= Cache.at[c]
           /\ Store' = Store
  <1>1. /\ index' = [built |-> TRUE, at |-> scan[p], label |-> ver[p]]
        /\ history' = history /\ pc[p] = "scan" /\ page[p] > Len(Pages)
    BY DEF Publish, PublishAs
  <1>2. \A c \in Chunks : /\ scan[p][c] \in ver[p]..Len(history)
                          /\ index.built => index.at[c] <= scan[p][c]
    BY <1>1, ScanComplete
  <1>3. \A e : SignalAt(e)' = SignalAt(e)
    BY <1>1 DEF SignalAt, Signal
  <1>4. Cache' = [built |-> TRUE, at |-> scan[p], label |-> SignalAt(ver[p])]
    BY <1>1, <1>3 DEF Cache
  <1>5. Store = [e \in 1..Len(history) |-> SignalAt(e)] /\ Len(Store) = Len(history)
    BY DEF Store, Now, TypeOK
  <1>6. Store' = Store
    BY <1>1, <1>3 DEF Store, Now
  <1>7. ver[p] \in 1..Len(history) /\ Store[ver[p]] = SignalAt(ver[p])
    BY <1>5 DEF TypeOK
  <1>8. ASSUME Cache.built, NEW c \in Chunks
        PROVE  Cache'.at[c] >= Cache.at[c]
    <2>1. index.built /\ Cache.at = index.at
      BY <1>8 DEF Cache, None
    <2>2. index.at[c] <= scan[p][c]
      BY <1>2, <2>1
    <2>3. index \in Index
      BY <2>1 DEF TypeOK, None
    <2>4. index.at[c] \in Nat /\ scan[p][c] \in Nat
      BY <2>3 DEF TypeOK, Index
    <2> QED
      BY <1>4, <2>1, <2>2, <2>4
  <1> QED
    BY <1>2, <1>4, <1>5, <1>6, <1>7, <1>8

\* The BM25 index implements the abstract cache: its initial state maps to an
\* initial state, and every step to a step or a stutter.
THEOREM Implementation == Spec => KeepsPromise
  <1>1. Init => Abstract!Init
    <2> SUFFICES ASSUME Init
                 PROVE  Abstract!Init
      OBVIOUS
    <2>1. PICK rows \in [Chunks -> {0, 1}] : history = <<rows>>
      BY DEF Init
    <2>2. Len(history) = 1
      BY <2>1
    <2>3. Len(Store) = 1
      BY <2>2 DEF Store, Now
    <2>4. Cache = None
      BY DEF Init, Cache, None
    <2> QED
      BY <2>3, <2>4 DEF Abstract!Init, Abstract!Nothing, Store, Cache, None
  <1>2. ASSUME IInv, [Next]_vars
        PROVE  [Abstract!Next]_<<Store, Cache>>
    <2> USE <1>2 DEF IInv
    <2>1. CASE IndexerCommits
      <3>1. Abstract!StoreMoves
        BY <2>1, CommitStep DEF Abstract!StoreMoves, Store, Cache
      <3> QED
        BY <3>1 DEF Abstract!Next
    <2>2. ASSUME NEW p \in Procs, Publish(p)
          PROVE  Abstract!Next
      <3>1. Abstract!Replace
        BY <2>2, PublishStep DEF Abstract!Replace, Abstract!Honest, Store, Cache
      <3> QED
        BY <3>1 DEF Abstract!Next
    <2>3. CASE history' = history /\ index' = index
      BY <2>3, StutterStep
    <2> QED
      BY <2>1, <2>2, <2>3
         DEF Next, Query, Rebuild, ReadVersion, SkipTooLarge, NeedsRebuild, ServeCached,
             Search, RefreshStarts, AlreadyRebuilt, StartScan, ReadPage, ScanFails,
             TtlPasses, BeginClose, CloseHybrid, vars
  <1> QED
    BY Invariance, <1>1, <1>2, PTL DEF Spec, KeepsPromise, Abstract!Spec, Store, Cache
=============================================================================
