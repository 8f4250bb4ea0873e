------------------------------- MODULE Indexer -------------------------------
(***************************************************************************)
(* The indexing pipeline (indexer/graph.py) over the lifetime of a working *)
(* directory: the source reports the metadata of a file, the bytes are     *)
(* fetched later and parsed once, the text is cut into chunks, and the     *)
(* sink holds one row per chunk, keyed by metadata and text.               *)
(*                                                                         *)
(* A file is the number of its version (0: there is none), the chunks of a *)
(* text one row that names the configuration it was cut under.  The engine *)
(* commits its own state together with the batch it wrote: that, and the   *)
(* replay of the state at a restart, is Pathway's part.                    *)
(***************************************************************************)
EXTENDS Fingerprint

CONSTANTS
    Paths,       \* documents of the sources
    MaxVersion,  \* versions a document may have
    Dims,        \* configuration -> dimension of its embeddings
    Persistence, \* values persistence.enabled may have
    MaxChanges   \* bound: changes of the files

ASSUME IndexerAssumption ==
    /\ MaxVersion \in Nat \ {0}
    /\ Dims \in [Configs -> Nat]
    /\ Persistence \subseteq BOOLEAN
    /\ MaxChanges \in Nat

VARIABLES
    files,    \* path -> version in the source
    seen,     \* path -> version the source has reported
    live,     \* path -> version the engine has indexed
    parsed,   \* path -> version whose bytes its memoised text is, 0: empty
    saved,    \* the engine's persisted state: live and parsed
    persist,  \* persistence is enabled for this run
    target,   \* dimensions the table or collection takes; {}: there is none
    store,    \* the rows of the vector store
    clean,    \* ghost: no run was started with stale rows in the store
    changes

dataVars == <<files, seen, live, parsed, saved, persist, target, store, clean, changes>>
vars == <<startVars, dataVars>>

Versions == 0..MaxVersion
Nothing == [live |-> [p \in Paths |-> 0], parsed |-> [p \in Paths |-> 0]]

-----------------------------------------------------------------------------
(* The chunks of a document.                                               *)

\* make_id of _metadata_key_json and the chunk: what identifies a row.
\* seen_at, which every start changes, is left out of it.
Key(p, v, text, c) == [path |-> p, version |-> v, text |-> text, cut |-> c]

\* The rows of a version with that text, cut under c; an empty text has none.
RowsOf(p, v, text, c) == IF v # 0 /\ text # 0 THEN {Key(p, v, text, c)} ELSE {}

-----------------------------------------------------------------------------
(* The sources.                                                            *)

\* A file is added, edited, restored or removed, also while nothing runs.
ChangeFile ==
    /\ changes < MaxChanges
    /\ changes' = changes + 1
    /\ \E p \in Paths : \E v \in Versions \ {files[p]} :
         files' = [files EXCEPT ![p] = v]
    /\ UNCHANGED startVars
    /\ UNCHANGED <<seen, live, parsed, saved, persist, target, store, clean>>

\* Mutated form: removals are not reported.
Changed_KnownOnly(p) == files[p] \notin {0, seen[p]}

\* The source sees another version, or none.
Changed(p) == files[p] # seen[p]

\* read_source: the connector polls and reports metadata, never bytes.
Report(p) ==
    /\ pc = "running"
    /\ Changed(p)
    /\ seen' = [seen EXCEPT ![p] = files[p]]
    /\ UNCHANGED startVars
    /\ UNCHANGED <<files, live, parsed, saved, persist, target, store, clean, changes>>

\* What a fetcher reads: the bytes the file has at this moment, which may be
\* of another version than the one reported; there may be none.
Fetch(p) == files[p]

\* An attempt may fail for other reasons, and so may all: a ParseError.
FetchWithRetries(p) == {0, Fetch(p)}

\* The parser the suffix is routed to returns the text, skips the format, or
\* fails: the document is indexed as empty.
Parse(bytes) == {0, bytes}

-----------------------------------------------------------------------------
(* The target.                                                             *)

\* What creating the target gives: a column for the embedder's dimension, or,
\* in DuckDB, for lists of any length.
Created(c) == {{Dims[c]}, {Dims[d] : d \in Configs}}

\* prepare_backend: create what is missing, leave what is there alone.
Prepared ==
    IF pc = "prepare" /\ target = {} THEN target' \in Created(cfg) ELSE UNCHANGED target

\* The backend takes the rows of this run.
Accepts == Dims[cfg] \in target

-----------------------------------------------------------------------------
(* The pipeline.                                                           *)

\* The parent of the workers prepares the target and starts them.
Delegated ==
    /\ Delegate
    /\ Prepared
    /\ UNCHANGED <<files, seen, live, parsed, saved, persist, store, clean, changes>>

\* run_indexer: with persistence the engine resumes its state and knows what
\* it has written; without, it starts from nothing.
Launched ==
    /\ Runs
    /\ persist' \in Persistence
    /\ LET at == IF persist' THEN saved ELSE Nothing
       IN  live' = at.live /\ parsed' = at.parsed /\ seen' = at.live
    /\ Prepared
    /\ clean' = (clean /\ (store = {} \/ (persist' /\ cfg' = lastRun)))
    /\ UNCHANGED <<files, saved, store, changes>>

\* Mutated form: the rows of a removed version are those of a new parse.
Replaced_Reparsed(p, text) ==
    \E old \in {0, files[p]} :
        store' = (store \ RowsOf(p, live[p], old, cfg)) \cup RowsOf(p, seen[p], text, cfg)

\* One batch: the rows of the old version, computed from its memoised text
\* with the splitter of this run, are deleted and those of the new one
\* upserted.
Replaced(p, text) ==
    store' = (store \ RowsOf(p, live[p], parsed[p], cfg)) \cup RowsOf(p, seen[p], text, cfg)

\* parse_document: "" when the document cannot be fetched or parsed.
TextOf(p) == IF seen[p] = 0 THEN {0} ELSE UNION {Parse(b) : b \in FetchWithRetries(p)}

\* A reported change goes through the pipeline.  A batch the backend does not
\* take ends the run (Stopped).
Index(p) ==
    /\ pc = "running"
    /\ seen[p] # live[p]
    /\ live' = [live EXCEPT ![p] = seen[p]]
    /\ \E text \in TextOf(p) :
         /\ text # 0 => Accepts
         /\ parsed' = [parsed EXCEPT ![p] = text]
         /\ Replaced(p, text)
    /\ saved' = IF persist THEN [live |-> live', parsed |-> parsed'] ELSE saved
    /\ UNCHANGED startVars /\ UNCHANGED <<files, seen, persist, target, clean, changes>>

\* The indexer stops; without persistence what the engine knew is lost.
Stopped ==
    /\ Stop
    /\ clean' = (clean /\ (pc = "running" => persist \/ store = {}))
    /\ UNCHANGED <<files, seen, live, parsed, saved, persist, target, store, changes>>

\* The user re-indexes from scratch: drops the collection and the working
\* directory.
Reset ==
    /\ pc = "down"
    /\ fingerprint' = Absent /\ lastRun' = Absent /\ agreed' = {}
    /\ torn' = FALSE /\ swapped' = FALSE
    /\ saved' = Nothing /\ target' = {} /\ store' = {} /\ clean' = TRUE
    /\ UNCHANGED <<config, pc, mode, who, cfg, edits, starts>>
    /\ UNCHANGED <<files, seen, live, parsed, persist, changes>>

-----------------------------------------------------------------------------
Init ==
    /\ StartInit
    /\ files \in [Paths -> {0, 1}]
    /\ seen = Nothing.live /\ live = Nothing.live /\ parsed = Nothing.parsed
    /\ saved = Nothing
    /\ persist \in Persistence
    /\ target = {} /\ store = {}
    /\ clean = TRUE
    /\ changes = 0

Next ==
    \/ (EditConfig \/ Start \/ Startup) /\ UNCHANGED dataVars
    \/ Delegated
    \/ Launched
    \/ Stopped
    \/ Reset
    \/ ChangeFile
    \/ \E p \in Paths : Report(p) \/ Index(p)

Spec == Init /\ [][Next]_vars

\* The sources of a running indexer are polled and the batches go through.
FairSpec == Spec /\ \A p \in Paths : WF_vars(Report(p)) /\ WF_vars(Index(p))

-----------------------------------------------------------------------------
(* What the code is expected to guarantee.                                 *)

\* Types of the engine's state and of the store.
TypeOK ==
    /\ StartTypeOK
    /\ files \in [Paths -> Versions] /\ seen \in [Paths -> Versions]
    /\ live \in [Paths -> Versions] /\ parsed \in [Paths -> Versions]
    /\ saved \in [live : [Paths -> Versions], parsed : [Paths -> Versions]]
    /\ persist \in BOOLEAN /\ clean \in BOOLEAN
    /\ target \subseteq {Dims[c] : c \in Configs}
    /\ store \subseteq [path : Paths, version : Versions \ {0}, text : Versions \ {0},
                        cut : Configs]
    /\ changes \in 0..MaxChanges

\* What the engine will know when it runs next, or knows now.
Known == IF pc = "running" THEN [live |-> live, parsed |-> parsed] ELSE saved

\* docs/README.md:441, documents changed or removed while the indexer was
\* down are retracted: as long as no run was started over rows it does not
\* know, or cut in another way, the store is an exact replica of what the
\* engine knows, through stops, restarts and failed parses.
Replica ==
    clean => store = UNION {RowsOf(p, Known.live[p], Known.parsed[p], lastRun) : p \in Paths}

\* fingerprint.py:27-33: the store stops being a replica only by a change of
\* the configuration the user has agreed to, by a run without persistence, or
\* where the check does not protect it (Unprotected).
RiskIsTaken ==
    [][clean /\ ~clean' =>
         lastRun' \in agreed \ {lastRun} \/ ~persist \/ ~persist' \/ Unprotected]_vars

\* Once the files stay as they are and the indexer keeps running, every
\* change has gone through and a clean store holds rows of the current
\* versions only, whatever was read under a version reported before.
EventuallyInSync ==
    <>[](pc = "running")
        => <>[](/\ live = files
                /\ clean => \A r \in store : r.version = files[r.path])
=============================================================================
