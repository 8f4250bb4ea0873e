---------------------------- MODULE IndexerProofs ----------------------------
(***************************************************************************)
(* Proofs about Fingerprint and Indexer, with edits of the configuration   *)
(* and crashes at any moment: no change of the configuration goes unasked, *)
(* but for the two cases in which the code does not ask; the types, the    *)
(* replica, and which risks make the store stop being a replica.           *)
(***************************************************************************)
EXTENDS Indexer, TLAPS

-----------------------------------------------------------------------------
(* Starts.                                                                 *)

\* The configurations the pipeline may run under without a question, or after
\* one of the cases in which there is none.
Allowed(c) == lastRun = Absent \/ c = lastRun \/ c \in agreed \/ torn \/ swapped

\* A process after the first of a start.
Second == who = "worker" \/ (who = "indexer" /\ mode.up)

\* What every start keeps true.  The file says what the store was built with,
\* or a change the user has agreed to; it is unreadable only while it is
\* written, and when that was interrupted; while it is written, and before,
\* the process that writes holds such a configuration.  A second process
\* starts when the file holds what the first one has checked, and finds the
\* same unless it has read something else.
StartInv ==
    /\ StartTypeOK
    /\ fingerprint = Garbled => pc = "write" \/ torn
    /\ fingerprint = Absent => lastRun = Absent
    /\ fingerprint \in Configs => Allowed(fingerprint)
    /\ pc \in {"truncate", "write"} => Allowed(cfg)
    /\ pc = "prepare" => fingerprint = cfg /\ who = "indexer"
    /\ pc = "load" /\ Second => fingerprint = cfg
    /\ pc = "check" /\ Second => fingerprint = cfg \/ swapped
    /\ pc \in {"check", "ask", "truncate", "write"} => who # "worker"
    /\ who = "up" => mode.up
    /\ pc = "running" /\ ~swapped => fingerprint = lastRun

\* Before the first start nothing is recorded and nothing has run.
LEMMA StartInvInit == StartInit => StartInv
<1> SUFFICES ASSUME StartInit PROVE StartInv  OBVIOUS
<1>1. torn \in BOOLEAN /\ swapped \in BOOLEAN /\ ~swapped
  BY Zenon DEF StartInit
<1>2. StartTypeOK
  BY <1>1, FingerprintAssumption DEF StartInit, StartTypeOK
<1> QED  BY <1>1, <1>2, FingerprintAssumption DEF StartInit, StartInv, Allowed, Second

\* A stop leaves the file as it is, and marks a write it has torn.
LEMMA StartInvStop ==
  ASSUME StartInv, Stop PROVE StartInv'
  BY FingerprintAssumption
  DEF Stop, StartInv, StartTypeOK, Allowed, Second

\* An edit changes the configuration file, whose content no process has read.
LEMMA StartInvEdit ==
  ASSUME StartInv, EditConfig PROVE StartInv'
  BY FingerprintAssumption
  DEF EditConfig, StartInv, StartTypeOK, Allowed, Second, ghostVars

\* A start has looked at nothing yet.
LEMMA StartInvStart ==
  ASSUME StartInv, Start PROVE StartInv'
  BY FingerprintAssumption
  DEF Start, StartInv, StartTypeOK, Allowed, Second, ghostVars

\* What the first process of a start, and an indexer after it, reads, asks,
\* truncates and writes.
LEMMA StartInvStartup ==
  ASSUME StartInv, Startup PROVE StartInv'
<1> USE FingerprintAssumption DEF StartInv, StartTypeOK, Allowed, Second, ghostVars
<1>1. CASE Load  BY <1>1 DEF Load, Accepted
<1>2. CASE Check  BY <1>2 DEF Check, Compare, Passed, Accepted
<1>3. CASE Confirm  BY <1>3 DEF Confirm
<1>4. CASE Refuse  BY <1>4 DEF Refuse
<1>5. CASE Truncate  BY <1>5 DEF Truncate
<1>6. CASE Write  BY <1>6 DEF Write, Passed
<1> QED  BY <1>1, <1>2, <1>3, <1>4, <1>5, <1>6 DEF Startup

\* The process that starts another one has recorded what it runs under.
LEMMA StartInvDelegate ==
  ASSUME StartInv, Delegate PROVE StartInv'
  BY FingerprintAssumption
  DEF Delegate, StartInv, StartTypeOK, Allowed, Second, ghostVars

\* The pipeline starts under the configuration that is recorded, or a worker
\* has read another one than its parent.
LEMMA StartInvRuns ==
  ASSUME StartInv, Runs PROVE StartInv'
  BY FingerprintAssumption
  DEF Runs, RunHere, RunWorker, Launch, StartInv, StartTypeOK, Allowed, Second

\* Every step of a start keeps the invariant.
LEMMA StartInvNext ==
  ASSUME StartInv, StartNext PROVE StartInv'
  BY StartInvEdit, StartInvStart, StartInvStop, StartInvStartup, StartInvDelegate, StartInvRuns
  DEF StartNext

\* A step of something else does.
LEMMA StartInvStutter ==
  ASSUME StartInv, UNCHANGED startVars PROVE StartInv'
  BY DEF startVars, ghostVars, StartInv, StartTypeOK, Allowed, Second

\* Every start keeps the invariant.
THEOREM StartInvariance == StartSpec => []StartInv
<1>1. StartInit => StartInv
  BY StartInvInit
<1>2. StartInv /\ [StartNext]_startVars => StartInv'
  BY StartInvNext, StartInvStutter
<1> QED  BY <1>1, <1>2, PTL DEF StartSpec

\* The pipeline only starts to run from a start: under what it last ran under,
\* or what the user has agreed to, or unprotected.
LEMMA RunsAllowed ==
  ASSUME StartInv, Runs
  PROVE  lastRun = Absent \/ lastRun' = lastRun \/ lastRun' \in agreed \/ Unprotected
  BY FingerprintAssumption
  DEF Runs, RunHere, RunWorker, Launch, StartInv, StartTypeOK, Allowed, Second, Unprotected

\* No other step makes the pipeline run.
LEMMA OnlyRunsRun ==
  ASSUME StartInv, StartNext, pc # "running", pc' = "running" PROVE Runs
<1>1. CASE Startup \/ Delegate
  BY <1>1 DEF Startup, Load, Check, Compare, Passed, Confirm, Refuse, Truncate, Write, Delegate
<1>2. CASE EditConfig \/ Start \/ Stop
  BY <1>2 DEF EditConfig, Start, Stop
<1> QED  BY <1>1, <1>2 DEF StartNext

\* fingerprint.py:31-33: a changed configuration is run only when the user has
\* agreed to it, whatever starts were refused or interrupted before and
\* whenever the file is edited, unless a crash tore the fingerprint since the
\* last run, or a process has read another configuration than its parent.
THEOREM ConsentGuarantee == StartSpec => ChangeConfirmed
<1> DEFINE Confirmed ==
      pc # "running" /\ pc' = "running" =>
         \/ lastRun = Absent \/ lastRun' = lastRun \/ lastRun' \in agreed
         \/ Unprotected
<1>1. StartInv /\ [StartNext]_startVars => [Confirmed]_startVars
  BY OnlyRunsRun, RunsAllowed DEF startVars
<1> QED  BY <1>1, StartInvariance, PTL DEF StartSpec, ChangeConfirmed

\* The recorded fingerprint is the configuration the pipeline runs under, after
\* every crash, also one while it was written, and every edit, unless workers
\* have read another configuration than their parent.
THEOREM RecordGuarantee == StartSpec => []FingerprintTells
<1>1. StartInv => FingerprintTells
  BY DEF StartInv, FingerprintTells
<1> QED  BY <1>1, StartInvariance, PTL

-----------------------------------------------------------------------------
(* Rows.                                                                   *)

\* The engine, knowing k, has written a row for p.
Has(k, p) == k.live[p] # 0 /\ k.parsed[p] # 0

\* The rows of what the engine knows.
Rows(k, c) == UNION {RowsOf(p, k.live[p], k.parsed[p], c) : p \in Paths}

\* A row stands for a document the engine knows, as it was read and cut.
LEMMA RowIn ==
  ASSUME NEW k, NEW c, NEW r
  PROVE  r \in Rows(k, c) <=> \E p \in Paths : Has(k, p) /\ r = Key(p, k.live[p], k.parsed[p], c)
<1>1. ASSUME r \in Rows(k, c)
      PROVE  \E p \in Paths : Has(k, p) /\ r = Key(p, k.live[p], k.parsed[p], c)
  <2>1. PICK p \in Paths : r \in RowsOf(p, k.live[p], k.parsed[p], c)
    BY <1>1 DEF Rows
  <2> QED  BY <2>1 DEF RowsOf, Has
<1>2. ASSUME NEW p \in Paths, Has(k, p), r = Key(p, k.live[p], k.parsed[p], c)
      PROVE  r \in Rows(k, c)
  BY <1>2 DEF Rows, RowsOf, Has
<1> QED  BY <1>1, <1>2

\* There are no rows exactly when no document has one.
LEMMA NoRows ==
  ASSUME NEW k, NEW c
  PROVE  Rows(k, c) = {} <=> \A p \in Paths : ~Has(k, p)
<1>1. ASSUME Rows(k, c) = {}, NEW p \in Paths, Has(k, p) PROVE FALSE
  BY <1>1, RowIn
<1>2. ASSUME \A p \in Paths : ~Has(k, p) PROVE Rows(k, c) = {}
  BY <1>2, RowIn
<1> QED  BY <1>1, <1>2

\* The replica, in terms of the rows.
LEMMA ReplicaRows == Replica <=> (clean => store = Rows(Known, lastRun))
  BY DEF Replica, Rows

-----------------------------------------------------------------------------
(* Types.                                                                  *)

\* Steps of a start keep the types of its variables.
LEMMA StartTypes ==
  ASSUME StartTypeOK, StartNext \/ UNCHANGED startVars PROVE StartTypeOK'
<1> USE FingerprintAssumption DEF StartTypeOK
<1>1. CASE EditConfig \/ Start  BY <1>1 DEF EditConfig, Start, ghostVars
<1>5. CASE Stop
  <2>1. torn' \in BOOLEAN
    BY <1>5, Zenon DEF Stop
  <2> QED  BY <1>5, <2>1 DEF Stop
<1>2. CASE Startup \/ Delegate
  BY <1>2 DEF Startup, Load, Check, Compare, Passed, Confirm, Refuse, Truncate, Write, Delegate,
              ghostVars
<1>3. CASE Runs  BY <1>3 DEF Runs, RunHere, RunWorker, Launch
<1>4. CASE UNCHANGED startVars  BY <1>4 DEF startVars, ghostVars
<1> QED  BY <1>1, <1>2, <1>3, <1>4, <1>5 DEF StartNext

RowType ==
    [path : Paths, version : Versions \ {0}, text : Versions \ {0}, cut : Configs]

\* What is written for a document is a row.
LEMMA RowTypes ==
  ASSUME NEW p \in Paths, NEW v \in Versions, NEW text \in Versions, NEW c \in Configs
  PROVE  RowsOf(p, v, text, c) \subseteq RowType
  BY DEF RowsOf, Key, RowType

\* What a document is read as is a version of it, or nothing.
LEMMA TextTypes ==
  ASSUME NEW p \in Paths, files \in [Paths -> Versions], NEW text \in TextOf(p)
  PROVE  text \in Versions
  BY IndexerAssumption DEF TextOf, Parse, FetchWithRetries, Fetch, Versions

\* The empty state of the engine is one of its states.
LEMMA NothingTypes ==
  Nothing \in [live : [Paths -> Versions], parsed : [Paths -> Versions]]
  BY IndexerAssumption DEF Nothing, Versions

\* The target has the vector sizes of configurations only.
LEMMA TargetTypes ==
  ASSUME StartTypeOK, target \subseteq {Dims[c] : c \in Configs}, Prepared
  PROVE  target' \subseteq {Dims[c] : c \in Configs}
<1>1. cfg \in Configs
  BY DEF StartTypeOK
<1> QED  BY <1>1 DEF Prepared, Created

\* The first state has the types.
LEMMA InitTypes == Init => TypeOK
<1> SUFFICES ASSUME Init PROVE TypeOK  OBVIOUS
<1>1. StartTypeOK
  BY StartInvInit DEF Init, StartInv
<1>2. files \in [Paths -> Versions]
  BY IndexerAssumption DEF Init, Versions
<1> QED  BY <1>1, <1>2, NothingTypes, IndexerAssumption DEF Init, TypeOK

\* Every step of the indexer keeps the types.
LEMMA NextTypes ==
  ASSUME TypeOK, [Next]_vars PROVE TypeOK'
<1> USE DEF TypeOK
<1>1. CASE (EditConfig \/ Start \/ Startup) /\ UNCHANGED dataVars
  BY <1>1, StartTypes DEF StartNext, dataVars
<1>2. CASE Launched
  <2>1. StartTypeOK'
    BY <1>2, StartTypes DEF Launched, StartNext
  <2>2. /\ live' \in [Paths -> Versions] /\ parsed' \in [Paths -> Versions]
        /\ seen' \in [Paths -> Versions]
    BY <1>2, NothingTypes DEF Launched
  <2>3. persist' \in BOOLEAN /\ clean' \in BOOLEAN
    BY <1>2, IndexerAssumption DEF Launched
  <2>4. target' \subseteq {Dims[c] : c \in Configs}
    BY <1>2, TargetTypes DEF Launched
  <2> QED  BY <1>2, <2>1, <2>2, <2>3, <2>4 DEF Launched
<1>3. CASE Stopped
  BY <1>3, StartTypes DEF Stopped, StartNext
<1>4. CASE Reset
  <2>1. StartTypeOK'
    BY <1>4 DEF Reset, StartTypeOK
  <2> QED  BY <1>4, <2>1, NothingTypes DEF Reset
<1>5. CASE ChangeFile
  BY <1>5, StartTypes, IndexerAssumption DEF ChangeFile
<1>6. ASSUME NEW p \in Paths, Index(p) PROVE TypeOK'
  <2>1. StartTypeOK'
    BY <1>6, StartTypes DEF Index
  <2>2. live' \in [Paths -> Versions] /\ files' \in [Paths -> Versions]
    BY <1>6 DEF Index
  <2>3. PICK text \in TextOf(p) :
          parsed' = [parsed EXCEPT ![p] = text] /\ Replaced(p, text)
    BY <1>6 DEF Index
  <2>4. text \in Versions
    BY <2>3, TextTypes
  <2>5. parsed' \in [Paths -> Versions]
    BY <2>3, <2>4
  <2>6. RowsOf(p, seen[p], text, cfg) \subseteq RowType
    BY <2>4, RowTypes DEF StartTypeOK
  <2>7. store' \subseteq RowType
    BY <2>3, <2>6 DEF Replaced, RowType
  <2>8. saved' \in [live : [Paths -> Versions], parsed : [Paths -> Versions]]
    BY <1>6, <2>2, <2>5 DEF Index
  <2> QED  BY <1>6, <2>1, <2>2, <2>5, <2>7, <2>8 DEF Index, RowType
<1>7. CASE UNCHANGED vars
  BY <1>7, StartTypes DEF vars, dataVars
<1>8. CASE Delegated
  <2>1. StartTypeOK'
    BY <1>8, StartTypes DEF Delegated, StartNext
  <2>2. target' \subseteq {Dims[c] : c \in Configs}
    BY <1>8, TargetTypes DEF Delegated
  <2> QED  BY <1>8, <2>1, <2>2 DEF Delegated
<1>9. ASSUME NEW p \in Paths, Report(p) PROVE TypeOK'
  <2>1. StartTypeOK'
    BY <1>9, StartTypes DEF Report
  <2>2. seen' \in [Paths -> Versions]
    BY <1>9 DEF Report
  <2> QED  BY <1>9, <2>1, <2>2 DEF Report
<1> QED  BY <1>1, <1>2, <1>3, <1>4, <1>5, <1>6, <1>7, <1>8, <1>9 DEF Next

\* Every variable of the indexer keeps its type.
THEOREM TypeCorrect == Spec => []TypeOK
  BY InitTypes, NextTypes, PTL DEF Spec

-----------------------------------------------------------------------------
(* The replica.                                                            *)

\* Between the start of a run and its end the engine works on the state it
\* knows, cuts with the configuration of the run, and persists or, when
\* nothing it persisted has rows, does not.
IndexInv ==
    /\ TypeOK
    /\ Replica
    /\ pc = "running" => cfg = lastRun
    /\ pc = "running" /\ persist => saved = [live |-> live, parsed |-> parsed]
    /\ pc = "running" /\ ~persist /\ clean => \A p \in Paths : ~Has(saved, p)

\* Nothing is known, and nothing stored.
LEMMA IndexInvInit == Init => IndexInv
<1> SUFFICES ASSUME Init PROVE IndexInv  OBVIOUS
<1>1. TypeOK
  BY InitTypes
<1>2. Known = Nothing /\ pc = "down" /\ store = {}
  BY DEF Init, StartInit, Known
<1>3. Rows(Known, lastRun) = {}
  BY <1>2, NoRows DEF Has, Nothing
<1> QED  BY <1>1, <1>2, <1>3, ReplicaRows DEF IndexInv

\* Steps that leave the data alone and do not start or end a run.
LEMMA IndexInvQuiet ==
  ASSUME IndexInv, TypeOK', UNCHANGED <<live, parsed, saved, persist, store, clean>>,
         UNCHANGED lastRun, pc' = "running" <=> pc = "running",
         pc = "running" => UNCHANGED cfg
  PROVE  IndexInv'
<1>1. Known' = Known
  BY DEF Known
<1>2. Rows(Known, lastRun)' = Rows(Known, lastRun)
  BY <1>1 DEF Rows, RowsOf, Key
<1>3. Replica'
  BY <1>2, ReplicaRows DEF IndexInv, Replica, Rows
<1>4. \A p \in Paths : Has(saved, p)' = Has(saved, p)
  BY DEF Has
<1> QED  BY <1>3, <1>4 DEF IndexInv

\* A run starts from what was persisted, or from nothing and an empty store.
LEMMA IndexInvLaunched ==
  ASSUME IndexInv, Launched, TypeOK' PROVE IndexInv'
<1>1. pc # "running" /\ pc' = "running" /\ cfg' = lastRun'
  BY DEF Launched, Runs, RunHere, RunWorker, Launch
<1>2. Known = saved /\ Known' = [live |-> live', parsed |-> parsed']
  BY <1>1 DEF Known
<1>3. saved = [live |-> saved.live, parsed |-> saved.parsed]
  BY DEF IndexInv, TypeOK
<1>4. persist' => Known' = saved /\ saved' = [live |-> live', parsed |-> parsed']
  BY <1>2, <1>3 DEF Launched
<1>5. ~persist' => \A p \in Paths : ~Has(Known', p)
  BY <1>2 DEF Launched, Nothing, Has
<1>6. clean' /\ store = {} => \A p \in Paths : ~Has(saved, p)
  <2> SUFFICES ASSUME clean', store = {} PROVE \A p \in Paths : ~Has(saved, p)
    OBVIOUS
  <2>1. Rows(saved, lastRun) = {}
    BY <1>2, ReplicaRows DEF IndexInv, Launched
  <2> QED  BY <2>1, NoRows
<1>7. clean' => store' = Rows(Known', lastRun')
  <2>1. CASE clean' /\ store = {}
    <3>1. \A p \in Paths : ~Has(Known', p)
      BY <1>4, <1>5, <1>6, <2>1
    <3> QED  BY <2>1, <3>1, NoRows DEF Launched
  <2>2. CASE clean' /\ store # {}
    <3>1. persist' /\ lastRun' = lastRun
      BY <1>1, <2>2 DEF Launched
    <3> QED  BY <1>2, <1>4, <2>2, <3>1, ReplicaRows DEF IndexInv, Launched
  <2> QED  BY <2>1, <2>2
<1>8. Replica'
  BY <1>7 DEF Replica, Rows, RowsOf, Key
<1>9. ~persist' /\ clean' => store = {}
  BY DEF Launched
<1>10. \A p \in Paths : Has(saved', p) = Has(saved, p)
  BY DEF Launched, Has
<1> QED  BY <1>1, <1>4, <1>6, <1>8, <1>9, <1>10 DEF IndexInv, Has

\* What the engine knows after a stop is what it has persisted.
LEMMA IndexInvStopped ==
  ASSUME IndexInv, Stopped, TypeOK' PROVE IndexInv'
<1>1. pc # "down" /\ pc' = "down" /\ lastRun' = lastRun
  BY DEF Stopped, Stop
<1>2. Known' = saved
  BY <1>1 DEF Known, Stopped
<1>3. clean' => store' = Rows(Known', lastRun')
  <2> SUFFICES ASSUME clean' PROVE store = Rows(saved, lastRun)
    BY <1>1, <1>2 DEF Stopped
  <2>1. CASE pc # "running" \/ persist
    <3>1. Known = saved
      BY <2>1 DEF Known, IndexInv
    <3> QED  BY <3>1, ReplicaRows DEF IndexInv, Stopped
  <2>2. CASE pc = "running" /\ ~persist
    <3>1. store = {} /\ \A p \in Paths : ~Has(saved, p)
      BY <2>2 DEF IndexInv, Stopped
    <3> QED  BY <3>1, NoRows
  <2> QED  BY <2>1, <2>2
<1>4. Replica'
  BY <1>3 DEF Replica, Rows, RowsOf, Key
<1> QED  BY <1>1, <1>4 DEF IndexInv

\* A reset forgets everything and empties the store.
LEMMA IndexInvReset ==
  ASSUME IndexInv, Reset, TypeOK' PROVE IndexInv'
<1>1. Known' = Nothing /\ pc' = "down" /\ store' = {}
  BY DEF Known, Reset
<1>2. Rows(Known', lastRun') = {}
  BY <1>1, NoRows DEF Has, Nothing
<1>3. Replica'
  BY <1>1, <1>2 DEF Replica, Rows, RowsOf, Key
<1> QED  BY <1>1, <1>3 DEF IndexInv

\* One batch replaces the rows of p and leaves those of the others.
LEMMA IndexInvIndex ==
  ASSUME IndexInv, NEW p \in Paths, Index(p), TypeOK' PROVE IndexInv'
<1>1. pc = "running" /\ pc' = "running" /\ cfg = lastRun /\ cfg' = cfg /\ lastRun' = lastRun
  BY DEF Index, IndexInv, startVars, ghostVars
<1>2. PICK text \in TextOf(p) :
        /\ parsed' = [parsed EXCEPT ![p] = text]
        /\ Replaced(p, text)
  BY DEF Index
<1> DEFINE now == [live |-> live', parsed |-> parsed']
<1>3. Known = [live |-> live, parsed |-> parsed] /\ Known' = now
  BY <1>1 DEF Known
<1>4. /\ live \in [Paths -> Versions] /\ parsed \in [Paths -> Versions]
      /\ live' = [live EXCEPT ![p] = seen[p]]
  BY DEF IndexInv, TypeOK, Index
<1>5. clean => store' = Rows(now, lastRun)
  <2> SUFFICES ASSUME clean, NEW r PROVE r \in store' <=> r \in Rows(now, lastRun)
    OBVIOUS
  <2>1. store = Rows(Known, lastRun)
    BY ReplicaRows DEF IndexInv
  <2>2. r \in store <=> \E q \in Paths : live[q] # 0 /\ parsed[q] # 0 /\ r = Key(q, live[q], parsed[q], cfg)
    BY <1>1, <1>3, <2>1, RowIn DEF Has
  <2>3. r \in store' <=>
          \/ r \in store /\ ~(live[p] # 0 /\ parsed[p] # 0 /\ r = Key(p, live[p], parsed[p], cfg))
          \/ seen[p] # 0 /\ text # 0 /\ r = Key(p, seen[p], text, cfg)
    BY <1>2 DEF Replaced, RowsOf
  <2>4. r \in Rows(now, lastRun) <=>
          \E q \in Paths :
            live'[q] # 0 /\ parsed'[q] # 0 /\ r = Key(q, live'[q], parsed'[q], cfg)
    BY <1>1, RowIn DEF Has
  <2>5. \A q \in Paths \ {p} : live'[q] = live[q] /\ parsed'[q] = parsed[q]
    BY <1>2, <1>4
  <2>6. live'[p] = seen[p] /\ parsed'[p] = text
    BY <1>2, <1>4
  <2>7. \A q \in Paths \ {p} : Key(q, live[q], parsed[q], cfg) # Key(p, live[p], parsed[p], cfg)
    BY DEF Key
  <2> HIDE DEF now
  <2> QED  BY <2>2, <2>3, <2>4, <2>5, <2>6, <2>7
<1>6. clean' = clean /\ persist' = persist
  BY DEF Index
<1>7. Replica'
  BY <1>1, <1>3, <1>5, <1>6 DEF Replica, Rows, RowsOf, Key
<1>8. persist' => saved' = now
  BY <1>6 DEF Index
<1>9. ~persist => saved' = saved
  BY DEF Index
<1> QED  BY <1>1, <1>6, <1>7, <1>8, <1>9 DEF IndexInv, Has

\* Every step of the indexer keeps the invariant.
LEMMA IndexInvNext ==
  ASSUME IndexInv, [Next]_vars PROVE IndexInv'
<1>0. TypeOK'
  BY NextTypes DEF IndexInv
<1>1. CASE (EditConfig \/ Start \/ Startup) /\ UNCHANGED dataVars
  <2>1. /\ UNCHANGED lastRun
        /\ pc' = "running" <=> pc = "running"
        /\ pc = "running" => UNCHANGED cfg
    BY <1>1
    DEF EditConfig, Start, Startup, Load, Check, Compare, Passed, Confirm, Refuse,
        Truncate, Write, Delegate, ghostVars
  <2> QED  BY <1>0, <1>1, <2>1, IndexInvQuiet DEF dataVars
<1>2. CASE Launched  BY <1>0, <1>2, IndexInvLaunched
<1>3. CASE Stopped  BY <1>0, <1>3, IndexInvStopped
<1>4. CASE Reset  BY <1>0, <1>4, IndexInvReset
<1>5. CASE ChangeFile  BY <1>0, <1>5, IndexInvQuiet DEF ChangeFile, startVars, ghostVars
<1>6. ASSUME NEW p \in Paths, Index(p) PROVE IndexInv'
  BY <1>0, <1>6, IndexInvIndex
<1>7. CASE UNCHANGED vars  BY <1>0, <1>7, IndexInvQuiet DEF vars, startVars, ghostVars, dataVars
<1>8. CASE Delegated  BY <1>0, <1>8, IndexInvQuiet DEF Delegated, Delegate, ghostVars
<1>9. ASSUME NEW p \in Paths, Report(p) PROVE IndexInv'
  BY <1>0, <1>9, IndexInvQuiet DEF Report, startVars, ghostVars
<1> QED  BY <1>1, <1>2, <1>3, <1>4, <1>5, <1>6, <1>7, <1>8, <1>9 DEF Next

\* Every step of the indexer keeps the invariant of the data.
THEOREM IndexInvariance == Spec => []IndexInv
  BY IndexInvInit, IndexInvNext, PTL DEF Spec

\* docs/README.md:441: through stops, restarts, failed parses and changes made
\* while nothing runs, the store of a clean directory is an exact replica of
\* what the engine knows.
THEOREM ReplicaGuarantee == Spec => []Replica
<1>1. IndexInv => Replica
  BY DEF IndexInv
<1> QED  BY <1>1, IndexInvariance, PTL

-----------------------------------------------------------------------------
(* Risks.                                                                  *)

\* The steps of the indexer are, for its starts, steps of a start or none.
LEMMA StartInvIndexer ==
  ASSUME StartInv, [Next]_vars PROVE StartInv'
<1>1. CASE (EditConfig \/ Start \/ Startup) /\ UNCHANGED dataVars
  BY <1>1, StartInvNext DEF StartNext
<1>2. CASE Launched  BY <1>2, StartInvNext DEF StartNext, Launched
<1>3. CASE Stopped  BY <1>3, StartInvNext DEF StartNext, Stopped
<1>4. CASE Reset
  <2>1. pc = "down" /\ UNCHANGED <<config, pc, mode, who, cfg, edits, starts>>
    BY <1>4 DEF Reset
  <2>2. fingerprint' = Absent /\ lastRun' = Absent /\ agreed' = {} /\ ~torn' /\ ~swapped'
    BY <1>4 DEF Reset
  <2>3. torn' \in BOOLEAN /\ swapped' \in BOOLEAN
    BY <1>4, Zenon DEF Reset
  <2>4. StartTypeOK'
    BY <2>1, <2>2, <2>3 DEF StartInv, StartTypeOK
  <2> QED  BY <2>1, <2>2, <2>4, FingerprintAssumption
           DEF StartInv, Allowed, Second
<1>5. CASE ChangeFile  BY <1>5, StartInvStutter DEF ChangeFile
<1>6. ASSUME NEW p \in Paths, Index(p) PROVE StartInv'
  BY <1>6, StartInvStutter DEF Index
<1>7. CASE UNCHANGED vars  BY <1>7, StartInvStutter DEF vars
<1>8. CASE Delegated  BY <1>8, StartInvDelegate DEF Delegated
<1>9. ASSUME NEW p \in Paths, Report(p) PROVE StartInv'
  BY <1>9, StartInvStutter DEF Report
<1> QED  BY <1>1, <1>2, <1>3, <1>4, <1>5, <1>6, <1>7, <1>8, <1>9 DEF Next

\* A step that takes cleanness away starts a run over rows it does not know,
\* or ends one whose rows nobody will know.
LEMMA UncleanStep ==
  ASSUME IndexInv, StartInv, [Next]_vars, clean, ~clean'
  PROVE  lastRun' \in agreed \ {lastRun} \/ ~persist \/ ~persist' \/ Unprotected
<1>1. Launched \/ Stopped
  BY DEF Next, dataVars, vars, Reset, ChangeFile, Delegated, Report, Index
<1>2. CASE Stopped
  BY <1>2 DEF Stopped
<1>3. CASE Launched
  <2>1. /\ lastRun' = cfg'
        /\ lastRun = Absent \/ lastRun' = lastRun \/ lastRun' \in agreed \/ Unprotected
    BY <1>3, RunsAllowed DEF Launched, Runs, RunHere, RunWorker, Launch
  <2>2. pc # "running"
    BY <1>3 DEF Launched, Runs, RunHere, RunWorker
  <2>3. store # {} => lastRun # Absent
    <3> SUFFICES ASSUME NEW r \in store PROVE lastRun # Absent  OBVIOUS
    <3>1. PICK p \in Paths : r = Key(p, Known.live[p], Known.parsed[p], lastRun)
      BY ReplicaRows, RowIn DEF IndexInv
    <3>2. r.cut = lastRun
      BY <3>1 DEF Key
    <3>3. r.cut \in Configs
      BY DEF IndexInv, TypeOK
    <3> QED  BY <3>2, <3>3, FingerprintAssumption
  <2>4. ~persist' \/ (store # {} /\ cfg' # lastRun)
    BY <1>3 DEF Launched
  <2> QED  BY <2>1, <2>3, <2>4
<1> QED  BY <1>1, <1>2, <1>3

\* fingerprint.py:27-33: the store stops being a replica only when the user
\* has agreed to another configuration, by a run without persistence, or by
\* one of the two cases in which the check does not protect it.
THEOREM RiskGuarantee == Spec => RiskIsTaken
<1> DEFINE Taken ==
      clean /\ ~clean' =>
        lastRun' \in agreed \ {lastRun} \/ ~persist \/ ~persist' \/ Unprotected
<1>1. Init => StartInv
  BY StartInvInit DEF Init
<1>2. StartInv /\ [Next]_vars => StartInv'
  BY StartInvIndexer
<1>3. IndexInv /\ StartInv /\ [Next]_vars => [Taken]_vars
  BY UncleanStep
<1> QED  BY <1>1, <1>2, <1>3, IndexInvariance, PTL DEF Spec, RiskIsTaken
=============================================================================
