# serviette in TLA+

Models of the concurrent and stateful parts of serviette, checked with TLC and, for the core,
proved with TLAPS. Line numbers refer to files under `src/serviette/`.

Contents: [the system](#the-system) · [the modules](#the-modules) · [runs](#runs-and-bounds) ·
[fairness](#fairness) · [proofs](#proofs) · [findings](#findings) ·
[known disagreements](#known-disagreements) · [not modelled](#not-modelled) · [how it was built](#how-it-was-built)

## The system

serviette answers questions about documents. An **indexer** process (a Pathway pipeline) keeps a
vector store equal to the source folders; a **server** process answers `/rag`, `/retrieve`,
`/stats` and `/documents` from that store; `serviette up` is a third process that starts and
stops both. The two sides share nothing but the store: the server learns of changes by asking the
store for a *change signal*, the pair of row count and newest `seen_at`.

| part | state it keeps | operations | hard part | what must hold |
|---|---|---|---|---|
| BM25 index cache (`server/hybrid.py`) | index, label it was built for, time of build, lock, tasks | keyword leg of a query, rebuild, timed refresh, close | queries interleave at every `await`; signal, lock and scan see different moments of the store; a scan is not a snapshot | a query never searches rows older than its version; the index never goes back; it ends up fresh |
| document catalog (`server/hybrid.py`) | catalog, label, time, lock | `list_documents`, refresh that erases the label | the erased label is restored over what others published meanwhile | the list returned is as new as the version read; a label is never newer than its rows |
| fingerprint (`indexer/fingerprint.py`) | `serviette-fingerprint.json` | compare, ask, write at start | three processes read the configuration; refusals and crashes between steps | a changed configuration is run only when it was asked about, two cases apart |
| pipeline (`indexer/graph.py`, `sources.py`, `prepare.py`) | engine state, memoised texts, target, rows | report, fetch, parse, split, write, restart | bytes are read after metadata; retractions are recomputed from an earlier parse with this run's splitter; restarts with and without persistence | the store is a replica of the engine's state; only agreed risks break that |
| parent of workers (`indexer/main.py`) | signals forwarded, kill time | spawn, forward, escalate | nested grace periods of several stoppers | stop leaves nothing running |
| supervisor (`up.py`) | children, flags, exit codes | spawn, two waits, loop, teardown | learns of children only by polling; signals at any step | no child is left; the exit code tells the cause; server only over a usable index |
| `/rag` request (`server/main.py`, `documents.py`) | budget, round, `k`, answer, sources | adaptive loop, arbiter, document mode, answers | budget shared by many calls; failing advisory calls; an answer kept from an earlier round | budget and calls bounded; sources are what the LLM saw; notice honest |
| retrieval (`server/main.py`, `ranking.py`, `reranker.py`) | pools and lists of a request | decompose, fetch, fuse, rerank, diversify, cut | sizes of pools and slots across rounds | what was shown stays shown; the loop gives up only when nothing is left |
| document comparison (`server/documents.py`) | chunks read | read, compare, pair, fill a budget | chunk boundaries move; documents change while they are read | differences are those of the documents, counted once |
| change tracker (`server/main.py`) | snapshot, time of change | observe, by poller and handlers | answers observed out of order; the store's own marker goes back | the reported time never goes back |
| server process (`server/main.py` `lifespan`, `server/accessors/*`) | phase, the accessor's client, the poller, the refresh task | warm-up, open a client at first use, poll, shut down in order | a field tested before an `await` and assigned after it, or after a second one that may raise; a cancelled task nobody awaits; a thread that waits for a file lock; steps that raise | no client is closed under a call or opened after the close; the poller recovers; the shutdown ends |
| wizard, configuration file, commands (`wizard.py`, `config/schema.py`, `cli.py`) | the dialogue, the file, what each process has loaded | ask, write, load, check, construct | `up` and its two children load the file at three moments; what a reference stands for is only known in the shell that runs the command | a file the wizard wrote is not refused for its own content; what `up` let pass its children do not refuse |

Interaction: `up` spawns the indexer (which may spawn workers) and the server; the indexer writes
the store; the accessors of the server read it, through the two caches or directly; a `/rag`
request calls the catalog, the retrieval, the LLM and, in document mode, reads whole documents;
the poller and `/stats` read the signal. The wizard writes the one file all three processes load, each
by itself. The remaining parts are listed under [not modelled](#not-modelled).

## The modules

Every module is written so that one action is what the code does between two points where somebody
else can act: two `await`s in the server, two polls or system calls in `up.py` and `main.py`, one
committed batch in the engine. Ghost variables (marked in the VARIABLES) only record.

**`VersionedCache`** is the abstract promise of both caches (hybrid.py:10-16, 174-182): one value
with a label; a label is a signal the store really had, no later than the rows were read; no row
is replaced by one read earlier. It knows no locks, tasks or queries.

**`HybridIndex`** - `KeywordHybridMixin` (hybrid.py:45-175). `history` holds every content the
store has had; what a coroutine knows is the epoch at which it read it. `ReadVersion`,
`SkipTooLarge`/`NeedsRebuild`/`ServeCached`, `AlreadyRebuilt`/`StartScan`/`ReadPage`/`Publish`/
`ScanFails` are the stretches between the awaits of `_keyword_hits` and `_rebuild`; `queue` is the
FIFO of `asyncio.Lock`; `RefreshStarts` and `TtlPasses` the timed refresh; `BeginClose` and
`CloseHybrid` the shutdown. `Abstract` maps it to `VersionedCache`.

**`CatalogCache`** - `list_documents` and `_refresh_catalog` (hybrid.py:195-261). Same shape, other
protocol: the refresh first erases the label, then rebuilds, and a failing refresh puts back the
label it started from. Only signals matter, so rows are the epoch they were read at. Also mapped to
`VersionedCache`.

**`Fingerprint`** - `check_fingerprint` step by step, as it runs in `up`, in the indexer and in a
parent of workers, which each load the file themselves. The user may edit the configuration and a
crash may fall at any step of a start, also between `Truncate` and `Write`, the two halves of the write
in place. Two ghosts record what the code does not protect against: `torn`, a write was interrupted
since the last run; `swapped`, a child or a worker has loaded another configuration than the one its
parent checked. A run with the configuration that was checked clears both.

**`Indexer`** (extends `Fingerprint`) - the life of a working directory: files change at any time,
also while nothing runs; `Report` is the source's poll, which sees metadata only; `Index` fetches
the bytes the file has *then*, parses (or fails: empty text), deletes the rows recomputed from the
memoised text of the old version and writes those of the new one, and commits; `Launched` resumes
the engine's state or, without persistence, none; `Prepared` creates the target if it is missing;
`Reset` is the user dropping the collection and the working directory. A file is its version number
(content together with metadata); the chunks of a text are one row, since they are written and
deleted together; `cut` names the configuration they were cut under. `seen_at`, which every start
changes, is no part of a row here, as it is no part of its id (graph.py:744): that is a constant of the
code, best tested there, and no property is stated about it.

**`SpawnSignals`** - `run_forwarding_signals` (indexer/main.py:33-96) over a process group, with a
clock, and a stopper that has a grace of its own. `pathway spawn` is external: it may ignore
signals and may exit before its workers.

**`Supervisor`** - `run()` of `up.py` with both waits, every probe, poll and test of the shutdown
flag as a step; children die, ignore SIGTERM or get Ctrl-C between any two of them; a stranger may
hold the port.

**`RagRequest`** - one `/rag` request: catalog, names, decomposition, adaptive loop, arbiter,
catalog answer, document answer, wording of a problem, under `Budget`. Texts are lengths in units of
the budget; each call returns what it may or raises.

**`Retrieval`** - `_search` and the adaptive loop over it, with `rrf_merge`, `interleave_merge` and
`mmr_select` as operators. A chunk is its text; vector and keyword scores are the order they
induce; every order is explored. The weights of RRF are exact, scaled by a common multiple.

**`Comparison`** - `_answer_documents` and the builders in `documents.py`: `_Lines`, its
`passages_missing_from`, `_pair_changed`, the excerpts, and what of it fits the budget. A document is
a sequence of chunks, a chunk one of lines; a line is a model value with a mask, a set of words, and
the relation of being found inside another. A passage is a run of places in the chunks of a document.

**`Ordering`** - what `Retrieval` and `Comparison` share: sorting a set by an order, cutting a list, and
the places `<<list, rank>>` of a sequence of lists, walked in either direction.

**`IndexTracker`** - `_IndexChangeTracker` as a component: the store with its rows and `seen_at`, and
`observe`, called by the poller and by concurrent `/stats` handlers on an answer each has awaited.

**`Server`** (extends `IndexTracker`) - one server process from its warm-up to its exit. What the
tracker's callers, `/retrieve` requests and the background refresh share is the accessor's client;
a call goes through `stage`: `opening`, `looking`, `connecting`, `trying`, `using`. The eight accessors are six
*kinds*, by how the field and the `await`s are ordered: `late`, assigned when the client is open
(pgvector); `twice`, when the client was awaited and then the collection it looks up (chroma); `lookup`,
the client is made without an `await` and the index awaited (pinecone); `early`, assigned first and
connected afterwards (milvus, weaviate); `sync`, no `await` (qdrant, mongodb); `file`, a connection per
query in a thread that retries while the writer holds the file (duckdb). Where a look-up follows, the
tested field stays empty until it returns, and when it raises the client is neither kept nor closed:
the ghost `lost` counts these, and the next call opens another. `file = "absent"` means that the
collection, the index or the table is not there yet; `Creates` is `prepare_backend`. What `close()`
finds (`Held`) is the last client made, with chroma, and that one and the index, with pinecone.
`Warms` ... `Exits` are the steps of `lifespan`; any of them may raise (`StepFails`); `BeginClose`
cancels the poller, whose thread goes on; `CloseAccessor` waits for the refresh, as `_close_hybrid`
does. uvicorn is external: it drains the requests before the shutdown half runs, and the event loop
joins its threads before the process ends.

**`Setup`** - the wizard, one action per question; the file; and `serviette indexer`, `server` and
`up`, each of which loads the file, interpolates the environment, validates, applies the checks of
its command, and then constructs what the sections name. `up` has two children that do so again
later; the user may edit the file or a directory in between. Sections are sets of at most one
record, texts are blank, present, or a reference to a variable. What the schema refuses whatever the
environment is (an unknown key, a wrong type) is one flag.

`MC*` modules only give values to constants. `*Proofs` hold theorems.

## Runs and bounds

| run | module | size | shows |
|---|---|---|---|
| `hybrid_check` | MCHybridIndex | 2 chunks in 2 pages, 2 queries, refresh, 1 commit, 1 failure, cap 1 | `ServedForVersion`, `FreshWhenSignalFaithful`, `NothingRunsAfterClose`, refinement `KeepsPromise`, `QueryAnswered`, `EventuallyFresh` |
| `catalog_check` | MCCatalogCache | 2 requests, refresh, 3 signals (one above the cap), 2 commits, 1 failure | `ListedForVersion`, refinement `KeepsPromise`, `RequestAnswered`, `EventuallyRefreshed` |
| `indexer_check` | MCIndexer | 2 documents, 2 versions, 1 change, 2 configurations of different dimension, 1 edit, 3 starts, crashes at every step, with and without persistence; 2.8 million states | `Replica`, `RiskIsTaken`, `EventuallyInSync`, and of the start `ChangeConfirmed`, `FingerprintTells` |
| `spawn_check` | SpawnSignals | 2 workers, graces 3 and 5 | `SpawnerStopped` |
| `up_check` | Supervisor | all 16 configurations, 2 signals | `ChildrenStopped`, `ExitTells`, `ServerHeldBack`, `TeardownCompletes`, `ServerStarts` |
| `rag_check` | RagRequest | all configurations, a pool of k or of 3, budgets 3, 6, 9, 24 units, 3 rounds | `BudgetRespected`, `CallsBounded`, `SourcesWereGiven`, `NoticeHonest`, `Answered` |
| `retrieval_check` | MCRetrieval | 3 texts stored up to twice, 1 sub-query, 6 configurations, k of 1 and 2, 2 rounds | `ContextGrows`, `SlotPerQuery`, `ExhaustionIsReal`, `ConsensusWins` |
| `compare_check` | MCComparison | 4 texts, every edit of one line of each, uncut, in two chunks that overlap by two lines, cut anywhere, or that do not, cut after the first line or in the middle; a document replaced while they are read | `DifferencesReported`, `DifferencesAccounted` |
| `server_check` | Server | 6 kinds of accessor, poller, one `/stats`, one `/retrieve`, refresh; 2 rows, 2 commits, clock to 2, 1 outage, 1 retry, look-ups until one has failed; 265 000 states | `InUseIsOpen`, `ClosedForGood`, `ClientsBounded`, `NeverRollsBack`, `EventuallyKnown`, `ShutdownCompletes` |
| `setup_check` | MCSetup | 1 directory, 1 source, 5 embedders, 3 backends, 10 handwritten files, 1 variable missing, 1 edit | `WizardFileRuns`, `PreflightCovers` |
| `spawn_up`, `compare_edges` | | as above | violations: see [findings](#findings) |

Why the bounds are enough. In the caches, the races are between one coroutine's version, another
one's rebuild and the refresh: two callers plus the refresher are the smallest population with a
waiter that rebuilds once more, and one commit between version and scan is what a stale label needs;
the catalog has two commits because its label can return to an old signal. `MaxChunks = 1` puts the
cap in the middle of the run, `MaxStamp = 2` lets a change fall into a second that is already in
the signal. In the indexer three starts give a run, a run that resumes it or does not, and a third
that finds what those two left; one change falls anywhere, in particular between a report and its
fetch; the proofs cover any number of documents, versions and changes. With two configurations a
torn fingerprint can do no harm that TLC would see: the edit that is needed to have a third one to run
is missing, so what `torn` excepts is exercised by the theorem alone. `swapped` is exercised by both. In `SpawnSignals` only the
order of the two graces matters. The budgets of `rag_check` are: nothing fits, one cut call, two
calls, everything; K = 2 and factor 2 make the first round fail to exhaust a store and the last one
reach it. Three texts are the fewest for which interleaving, a keyword leg that holds some of them
and a cut to k differ; `SYMMETRY` on texts is sound because the run has no liveness property and no
text is named. The four texts of `compare_check` are a plain one, one with lines too short to
compare, and two with page headers; thresholds (`_EDGE_LINES` and so on) are lowered where the
short texts need it, in the same order as in the code.

In `server_check` every pair of users that can meet on the client does: a request that is drained, one
that starts the refresh, the refresh that is waited for, and the poller that is not. Nothing bounds the clients but `ClientsBounded` itself, and what bounds `lost`:
a look-up that fails is repeated for ever by the code, so once `MaxLost` clients are lost, nobody
looks up what is not there (`WithinBounds`); the users who are under way then still may, and fail.
`Steady` and `Missing` keep the run small. The first names the kinds of accessor whose store keeps
its content and may go down; with the others it moves and does not go down: the tracker does not look at
the client, nor the client at the rows. The second names the kinds whose collection, index or file may
not be there at the start; an outage is left out for them, since it fails a look-up no differently. Its
theorems hold for any choice of the three. In `setup_check` one source, one directory and one missing variable are enough because
no check relates two of them; the handwritten files hold, one each, what the wizard never writes.

A run lists a property where the run can say something a theorem does not, or a mutant of the code
breaks it there. Properties that were checked while the proofs were built and that are theorems now
(`IInv`, `TypeOK`, `IndexNeverRegresses`, `OneBuildAtATime`, `KilledAfterGrace`,
`TeardownJustified`, `AdvisoryCallsDontFail`) are left to [the proofs](#proofs); `EscalationClears`
and the type invariant of `Setup` are definitions that hold in the same instances.

`CHECK_DEADLOCK FALSE` stands where the system really ends or rests: an accessor that is closed
(`hybrid_check`), an indexer that has used its starts, a request that has been answered, a server
that has stopped.

`RagRequest` and `Supervisor` stutter explicitly at their end instead.

## Fairness

* Server modules: weak fairness of every step a coroutine can take by itself, since the event loop
  runs what is ready and the backend answers or raises. No fairness for clients, the indexer and
  failures. The lock is a FIFO queue in `asyncio`, and in the models. The timer of the refresh comes
  (`TtlPasses`).
* `Indexer`: a running indexer polls its sources and a batch goes through. Nothing makes anybody
  start it or keep it running: `EventuallyInSync` assumes `<>[](pc = "running")`.
* `Supervisor`, `SpawnSignals`: the process is scheduled, time passes, SIGKILL kills, and a process
  of the foreground group that got Ctrl-C ends. **SIGTERM carries no fairness**: it may be ignored,
  which is what the graces are for.
* `RagRequest`: every call returns or raises. Clients of SDKs have timeouts of their own.
* `Server`: the poller, the refresh and the requests take the steps they can take, and so does
  `lifespan`. No fairness for requests to come, for signals, for the indexer and its lock, for outages or
  their end: a writer may hold the file for ever, and `ShutdownCompletes` has to hold all the same.
  `EventuallyKnown` says under which lasting conditions the poller catches up.

Everywhere else the specification is safety only.

## Proofs

All theorems hold for every value of the constants that satisfies the named ASSUMEs.

* **HybridIndexProofs** - `Invariance`: `IInv` is inductive. It says who owns the lock (`LockInv`),
  that a label is older than every row of the index it is on (`IndexInv`), that the rows a scan has
  read are newer than its coroutine's version *and than the rows they will replace* (`ScanInv`; this
  needs the lock: two scans would overwrite each other's with older rows), and that the object a
  query has captured carries the signal of its version (`HeldInv`). From it: `TypeCorrect`,
  `MutualExclusion` of scans, `VersionGuarantee` (`ServedForVersion`), `Freshness`
  (`FreshWhenSignalFaithful`), `Monotone` (the index never goes back) and `Implementation` (every
  step is a step of `VersionedCache` or a stutter). `CloseWaits` (`NothingRunsAfterClose`) has an
  invariant of its own, `Quiet`: the two waits behind `close()`, and that nothing begins after them.
* **CatalogCacheProofs** - the same for the catalog: `TypeOK`, `LockInv`, `ScanInv`, `LabelHonest`
  and `ListedForVersion` are inductive together. `LabelHonest` is what makes the restored label
  harmless: the label the refresh puts back was true of an older catalog and the one in place is
  newer. Results: `CatalogGuarantee`, `OneScan`, `Implementation`.
* **IndexerProofs**, first of the start (`Fingerprint`) - `StartInv` says, for each point of a start, how the file, the loaded
  configuration and what the user agreed to relate, as long as nothing is `torn` or `swapped`; what it says
  about a second process carries the consent of the first to the load of the next. No theorem assumes
  anything of edits and crashes: where the code gives no protection the properties except the ghosts,
  by name (`Unprotected`). Results: `ConsentGuarantee` (`ChangeConfirmed`), `RecordGuarantee`
  (`FingerprintTells`). Then of the data - `TypeCorrect`; `IndexInv`: in a clean directory the store is
  the rows of what the engine knows, a run works under the configuration it was launched with, and with
  persistence the saved state is the live one. `ReplicaGuarantee` (`Replica`) needs no exception, and
  holds even where consent can be evaded; `RiskGuarantee` (`RiskIsTaken`) joins it with `StartInv`.
* **SupervisorProofs** - `IInv` = types, `Exits` (exit codes and death), `AskedForCause` and
  `DeadForCause` (who may have been signalled or died, and why), `Order` (the server comes after the
  wait), `Waits` (what each wait has established), `Result`, `Stopped` (what each step of the
  teardown has stopped). Results: `NothingLeftRunning`, `StoppedForACause`, `ExitCode`,
  `ServerAfterIndex` for any number of signals. The second half is about `SpawnSignals`:
  `GraceGuarantee` (`KilledAfterGrace`), from an invariant that ties the kill to an expired grace and
  to everyone alive at that moment.
* **RagRequestProofs** - `IInv` = `Sizes`, `Accounts` (what was spent is what was taken off, and is
  never more), `Sources`, `Notice`, `Failures`, `Counts` (how many calls each step has behind it).
  Results: `BudgetGuarantee`, `CallGuarantee`, `SourceGuarantee`, `NoticeGuarantee`,
  `FailureGuarantee` for every budget, `k`, factor, number of candidates and number of rounds. What is
  asked outside the budget is at most one decomposition and, per round, one rating for each chunk of the
  pool, which a reranker or MMR may make wider than `k` (main.py:347).

* **ServerProofs** - in three layers. `TrackerRefined`: a step of `Server` is a step of the tracker by
  itself or leaves it alone, so `TrackerInv` (types; `Past`: nothing the tracker holds or has
  reported lies ahead of the clock; `Covered`: what was reported when a request began is at most
  what the tracker holds) is proved over the tracker's own steps only, and gives
  `ServerNeverRollsBack` (`NeverRollsBack`). `ServerInv` = `Types`, `Owned` (the client in the
  field, and every client in use, is open; a reader of a file has none) and `Ordered` (what each phase excludes:
  no request after the drain, no refresh after the close) gives `TypeCorrect`, `NeverClosedInUse`
  (`InUseIsOpen`) and `StaysClosed` (`ClosedForGood`). `CountInv` adds `Counted`: clients opened, and
  those about to open one, are no more than the callers and the clients lost, since nobody begins to open
  once there is one, and a look-up that fails trades its caller's client for a lost one; from it
  `ClientsAreBounded` (`ClientsBounded`). For any number of requests, rows, retries and failures.

* **SetupProofs** - `SetupInv` = types, `WizardInv` (what the dialogue knows at each of its questions:
  a custom endpoint has a region, LiteLLM a model, and the sections a command needs are there once
  their questions are behind), `EnvInv` (a process that builds has found every variable its file
  refers to), `UpInv` (`up` runs only what it found nothing against, and no child before). Results:
  `WizardGuarantee` (`WizardFileRuns`) and `PreflightGuarantee` (`PreflightCovers`), for any
  directories, handwritten files, backends, offered and installed packages, and any shell.
* **RetrievalProofs** - the operators first. Every sort of the model is `InOrder`, whose n-th member is
  the one with n - 1 above it; `RankFacts` and `InOrderFacts` say that this is a bijection for any
  order on a finite set, and all merges, cuts and rerankings inherit from it. `MergeFacts` holds of
  both fusions, `MmrFacts` of the selection, `RetrievedFull` and `SearchFull` say that a search that
  returns less than it was asked for has lost nothing, `SearchGrows` that a larger `k` shows all that a
  smaller one does. `RequestInv` is inductive because it speaks of searches still to come
  (`ShownStays`: what the LLM was shown is in every search for as many chunks or more). Results:
  `ContextGuarantee` (`ContextGrows`), `SlotGuarantee` (`SlotPerQuery`), `ExhaustionGuarantee`
  (`ExhaustionIsReal`), `ConsensusGuarantee` (`ConsensusWins`), `RequestTypes`. They hold for any number
  of texts, copies, sub-queries and rounds, and any `k`: of the RRF weights only that they fall with
  the rank is used. That `Scale` makes them exact is needed, and assumed, in the run only
  (`RanksAreExact` in `MCRetrieval`).
  The second half is about `Comparison`, whose documents and passages are sorted by the same
  operators. `ReportGuarantee` (`DifferencesReported`): the places a document reports are one for each
  line that the other lacks (`ReportedFacts`, by the first place a line comes at); the passages are the
  runs of these places, and their members are the places, each once (`RunFacts`: a member determines
  its place, a place the run it is in); so a line is in one passage, or in none (`Tells`). The
  premise of the property stays: the overlap repeats the lines at the edges of the chunks;
  `compare_edges` shows what comes of a split where it does not.
  `AccountGuarantee` (`DifferencesAccounted`): the pairing uses a passage once and leaves no similar
  two free (`GreedyFacts`, from an order of fractions by cross-multiplication, `Fractions`,
  `CloserSorts`), so pairs and leftovers add up to the passages (`PairFacts`), and the filling keeps
  within the budget and takes the first difference (`FillFacts`). `CompareInv` adds `CompareTypes`: what
  a context names is in the documents that were read, whatever the indexer does to the store
  meanwhile. For any documents, cuts, masks, words, thresholds and budgets.

Where the code folds or recurses (the sum of `rrf_merge`, the picks of `mmr_select`, the greedy
loops of `_pair_changed` and `_diff_context`) there is no induction: the
installed provers cannot instantiate the induction theorems, which take an operator. Each such fact is proved by a least counterexample instead (`LeastNumber`, then `SumsExist`,
`SumsUnique`, `PicksFacts`, `Upward`), which needs sets of numbers only; that a function defined by
recursion exists is proved the same way (`Recursion`). The prover also cannot expand
`SelectSeq`, hence `Others`.

Only model-checked: liveness (`QueryAnswered`, `EventuallyFresh`, `RequestAnswered`,
`EventuallyRefreshed`, `EventuallyInSync`, `SpawnerStopped`, `TeardownCompletes`, `ServerStarts`, `Answered`,
`EventuallyKnown`, `ShutdownCompletes`): the prover handles neither fairness nor ENABLED. Every safety
property of a passing run is a theorem.

## Findings

Each is a run TLC refutes, against a sentence of the repository.

* `spawn_up` (up.py:44) - `serviette up` kills the indexer's parent after 10 s; the parent escalates
  to its group only after 15 s. With several workers, one that does not react to SIGTERM outlives
  the stop, against indexer/main.py:8-10 "a stop never leaves orphans behind".
* `compare_edges` (documents.py:694) - the first and last line of a long chunk are not compared,
  because documents.py:689-691 expects them in the overlap; the default splitter has no overlap
  (graph.py:507-509), so a change there is in no reported passage.

## Known disagreements

Other places where a sentence of the repository does not hold in every execution, met while
modelling. The properties above state the condition under which they do hold.

* **Edit during `up`** (up.py:263): `up` checks the configuration it loaded and tells the indexer that
  the user has agreed; the indexer loads the file again, and runs and records an edit made in between. Workers load it a
  third time and check nothing (indexer/main.py:164), so there the record is the parent's. `ChangeConfirmed`,
  `RiskIsTaken` and, of workers, `FingerprintTells` except it (`swapped`).
* **Torn fingerprint** (fingerprint.py:202, 225): written in place; after a crash in between it is
  unreadable, and the next start accepts any configuration, a third one too. `ChangeConfirmed` and
  `RiskIsTaken` except it (`torn`).
* **Text of another version** (sources.py:142): if a file is edited between its report and its fetch
  and returns to the same metadata (a copy that preserves times) before the next report, the row
  keeps the text of the edit. `EventuallyInSync` is therefore about versions.
* **Signal before the handlers** (up.py:570): SIGTERM between the spawn of the indexer and
  `signal.signal` kills `up` and leaves the indexer.
* **Exit code of Ctrl-C** (up.py:628, docstring at 13): the indexer's 130 may be polled before the
  flag, and `up` returns it instead of 0.
* **Blame** (up.py:605): the child that failed is found by a second poll, so the report may name the
  other one when both have exited by then.
* **Port of a stranger** (up.py:476): the wait for the server asks the port, not the child.
* **Only the spawner is waited for** (indexer/main.py:66): workers may outlive it.
* **Calls outside the budget** (server/main.py:333, 372): decomposition and an LLM reranker are
  not charged; `CallsBounded` bounds their number, which for the reranker is that of the whole pool and
  not of the `k` chunks it returns (main.py:347, reranker.py:149).
* **The words around the context** (llm.py `_build_prompt`): the labels a call puts around its chunks and
  its question are not charged by `Budget.fit`, so what is sent exceeds the ceiling by some characters
  per chunk. `spent` is what is charged, in the model as in the repository's test.
* **Label that returns** (hybrid.py:155): if the signal takes an old value again, an index of that
  older content is served (`FreshWhenSignalFaithful` has the condition; the timed refresh is the
  remedy, `EventuallyFresh`). The catalog's refresh is not awaited by anyone (hybrid.py:230).
* **Scan by offset** (chroma.py:112-132): rows deleted while it runs shift the pages behind them, and
  the scan skips rows the store had all along. The next query rebuilds, since the signal (a count)
  has moved; if as many rows are added, it has not, and only the timed refresh is left.
  `ServedForVersion` holds for the other accessors, which scan by row or in one statement.
* **Clients nobody closes** (pgvector.py:46, chroma.py:49, pinecone.py:37): callers that come together
  before there is a client open one each; the last is kept and closed, against
  accessors/abstract.py:104 "Release any underlying connections / pools." With chroma and pinecone a
  client whose look-up fails is lost as well (chroma.py:61, pinecone.py:46): while the collection or
  the index is missing, the poller opens another every five seconds, without bound. `ClientsBounded`
  says that there are no others: at most one per caller, beyond those.
* **A client that never connected** (weaviate.py:51, milvus.py): the field is assigned first. When the
  connection fails, it stays, and every later call fails on it, against main.py:255-256 "the next
  tick simply looks again"; a second caller meanwhile uses it before it is connected.
  `EventuallyKnown` has the condition.
* **No table yet** (duckdb.py:16-20): what the comment says of a missing table holds for
  `_query`; other ways to read the file raise the driver's own exception, and the answer is a 500.
* **30 seconds** (duckdb.py, `_LOCK_HINT`): a reader that gives up has found the lock taken at each of
  its retries, which is not the same as held throughout; and `up` kills the server 10 s after it
  asked it to stop (up.py:44), while a thread may wait for 30.
* **No notice of a cut** (server/main.py:467, 521): an answering call whose chunks the budget cut, or
  a catalog answer whose list was dropped, carries no notice, against docs/README.md:264 "a call
  that no longer fits is cut down or not made, and `notice` says so". `CutIsNoted` in `RagRequest`
  states it; `NoticeHonest` is what does hold.
* **What the wizard advises** (wizard.py): it names `serviette up` for a file made for the server
  only, which `up` refuses (`WizardFileRuns` has "sections" for that); a port that is not a number
  ends it with a traceback.
* **Keys `up` does not ask for** (up.py:556): a reranker of type `llm` with neither a key nor an `llm`
  section needs `OPENAI_API_KEY`; nothing checks it, and the server dies in its warm-up.
  `PreflightCovers` therefore excepts constructors.
* **A reference to an empty region** (schema.py): `${AWS_REGION}` is accepted by the wizard and
  refused where the variable is empty, which the wizard does not ask.
* **A text stored twice**: the fusions count hits by text, so the loop may stop with chunks unseen
  (main.py:459-464), and such a text counts twice in each leg and may outrank a better one.
* **Keyword leg and a wider round**: with it, a wider search can lose a chunk shown before
  (`ContextGrows` is stated without).
* **A slot for every sub-query** (ranking.py:51, main.py:365): not when `k` is smaller than their
  number, and not after a reranker or MMR.
* **Size of excerpts** (documents.py:590, against 14-15): one chunk is always taken, so the excerpts of
  many documents may exceed `max_context_chars`.

## Not modelled

* Pathway itself: the engine's commit and replay are one step with the batch; one-shot sources in
  `Indexer` (in `Supervisor` they are, as an indexer that exits 0).
* Vendors: their queries, and what their sinks key rows by (Qdrant and MongoDB use the engine's own
  row key, the others the chunk id, as in `Indexer`). A target has a dimension or takes any.
* Scores: BM25, cosine and reranker values, beyond the order they induce. Tokens and characters,
  beyond lengths. Matching of names in a question is a nondeterministic answer.
* The store during one request of `Retrieval`; a reranker that rates a text differently in two rounds.
* Of the schema, the types and ranges of single keys: one flag in `Setup`. Of SDK adapters, how the
  keys of a section are split between a client and its calls, and what a provider answers. Of the
  constructors in `Setup`, two refusals: `rag.mmr` over a backend without embeddings
  (server/main.py:186-190), which no accessor of the repository is, and the OpenAI client keys and
  `base_url` the indexer's embedder does not take (graph.py:419-441). No property depends on them:
  `PreflightCovers` excepts constructors, and the wizard writes none of these.
* Demo, frontend (a stateless proxy) and the test doubles: they keep no state of their own.
* Chroma's pages by offset: `HybridIndex` and `CatalogCache` scan fixed sets of rows (see above).
* A `/rag` request over a store that moves between its rounds: `RagRequest` lets a search return
  anything, and `Retrieval` keeps the store still, so nothing is claimed of the two together.

## How it was built

From the inside out, each module checked before the next was written and proved after it was checked:
the two caches and their abstract promise (`VersionedCache`, `HybridIndex`, `CatalogCache`); the
start of an indexer and its data (`Fingerprint`, `Indexer`); the processes (`SpawnSignals`,
`Supervisor`); one request (`RagRequest`, `Retrieval`, `Comparison`); the server around the requests
(`IndexTracker`, `Server`); the configuration in front of everything (`Setup`).

What could be added next: `up` joined with `SpawnSignals`, to prove that nothing is left when its grace
is the longer one; `RagRequest` with `Retrieval` in place of its nondeterministic search; pages by
offset as a second way to scan in `HybridIndex`.
