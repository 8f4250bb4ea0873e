----------------------------- MODULE Fingerprint -----------------------------
(***************************************************************************)
(* The configuration fingerprint (indexer/fingerprint.py) and the ways an  *)
(* indexer is started.                                                     *)
(*                                                                         *)
(* Chunk ids are recomputed when a document is retracted, so an indexer    *)
(* must not run under another configuration than the one the store was     *)
(* filled with, unless the user agrees.  check_fingerprint compares the    *)
(* two at start.  `serviette up` checks and then tells the indexer, which  *)
(* reads the configuration file again, that the user has agreed; an        *)
(* indexer with several workers checks and then starts processes that read *)
(* the file again and check nothing.  The user may edit the file at any    *)
(* moment, and a crash may fall anywhere, also while the fingerprint is    *)
(* written in place.                                                       *)
(***************************************************************************)
EXTENDS Naturals, FiniteSets

CONSTANTS
    Configs,     \* configurations that differ in what the fingerprint holds
    Absent,      \* there is no fingerprint file, or no indexer has run
    Garbled,     \* the fingerprint file cannot be parsed
    Modes,       \* ways to start: records [up, workers] of BOOLEANs
    MaxEdits,    \* bound: edits of the configuration file
    MaxStarts    \* bound: starts of an indexer

ASSUME FingerprintAssumption ==
    /\ Absent \notin Configs /\ Garbled \notin Configs /\ Absent # Garbled
    /\ Modes \subseteq [up : BOOLEAN, workers : BOOLEAN]
    /\ MaxEdits \in Nat /\ MaxStarts \in Nat

VARIABLES
    config,       \* the configuration file
    fingerprint,  \* serviette-fingerprint.json
    pc,           \* where the start is: down, load, check, ask, truncate,
                  \* write, prepare or running
    mode,         \* how the indexer was started
    who,          \* the process that is starting: up, indexer or worker
    cfg,          \* the configuration that process has loaded
    lastRun,      \* ghost: the configuration the indexer last ran under
    agreed,       \* ghost: the ones the user has agreed to since
    torn,         \* ghost: a write was interrupted since
    swapped,      \* ghost: a process has read another configuration since
                  \* than the one its parent had checked
    edits,
    starts

ghostVars == <<lastRun, agreed, torn, swapped>>
startVars == <<config, fingerprint, pc, mode, who, cfg, ghostVars, edits, starts>>

\* SERVIETTE_ACCEPT_FINGERPRINT_CHANGES is set for a child of `up`.
Accepted == mode.up /\ who = "indexer"

-----------------------------------------------------------------------------
(* The user.                                                               *)

EditConfig ==
    /\ edits < MaxEdits
    /\ \E c \in Configs \ {config} : config' = c
    /\ edits' = edits + 1
    /\ UNCHANGED <<fingerprint, pc, mode, who, cfg, ghostVars, starts>>

Start ==
    /\ pc = "down"
    /\ starts < MaxStarts
    /\ starts' = starts + 1
    /\ mode' \in Modes
    /\ who' = IF mode'.up THEN "up" ELSE "indexer"
    /\ pc' = "load"
    /\ UNCHANGED <<config, fingerprint, cfg, ghostVars, edits>>

\* A signal, an exception or a power cut.
Stop ==
    /\ pc # "down"
    /\ pc' = "down"
    /\ torn' = (torn \/ pc = "write")
    /\ UNCHANGED <<config, fingerprint, mode, who, cfg, lastRun, agreed, swapped, edits, starts>>

-----------------------------------------------------------------------------
(* check_fingerprint.                                                      *)

\* A process reads the configuration file.  A worker does not check it.
Load ==
    /\ pc = "load" /\ who # "worker"
    /\ cfg' = config
    /\ pc' = "check"
    /\ swapped' = (swapped \/ (Accepted /\ config # cfg))
    /\ UNCHANGED <<config, fingerprint, mode, who, lastRun, agreed, torn, edits, starts>>

\* The check has passed: `up` spawns the indexer, the indexer goes on.
Passed ==
    IF who = "up" THEN pc' = "load" /\ who' = "indexer"
    ELSE pc' = "prepare" /\ UNCHANGED who

\* Mutated form: the new fingerprint is stored before the question.
Compare_StoreFirst ==
    IF fingerprint \in {Absent, Garbled}
      THEN pc' = "truncate" /\ UNCHANGED <<who, fingerprint>>
    ELSE IF fingerprint = cfg THEN Passed /\ UNCHANGED fingerprint
    ELSE IF Accepted THEN pc' = "truncate" /\ UNCHANGED <<who, fingerprint>>
    ELSE pc' = "ask" /\ fingerprint' = cfg /\ UNCHANGED who

\* Mutated form: a fingerprint that cannot be read is left as it is.
Compare_KeepGarbled ==
    /\ UNCHANGED fingerprint
    /\ IF fingerprint = Absent THEN pc' = "truncate" /\ UNCHANGED who
       ELSE IF fingerprint \in {cfg, Garbled} THEN Passed
       ELSE pc' = (IF Accepted THEN "truncate" ELSE "ask") /\ UNCHANGED who

\* No readable fingerprint: write one.  The same: pass.  Another: ask, or
\* take the answer from the environment.
Compare ==
    /\ UNCHANGED fingerprint
    /\ IF fingerprint \in {Absent, Garbled} THEN pc' = "truncate" /\ UNCHANGED who
       ELSE IF fingerprint = cfg THEN Passed
       ELSE pc' = (IF Accepted THEN "truncate" ELSE "ask") /\ UNCHANGED who

Check ==
    /\ pc = "check"
    /\ Compare
    /\ UNCHANGED <<config, mode, cfg, ghostVars, edits, starts>>

\* _confirm: "yes" on the terminal, or the variable set by the user.
Confirm ==
    /\ pc = "ask"
    /\ agreed' = agreed \cup {cfg}
    /\ pc' = "truncate"
    /\ UNCHANGED <<config, fingerprint, mode, who, cfg, lastRun, torn, swapped, edits, starts>>

\* Anything else: SystemExit.
Refuse ==
    /\ pc = "ask"
    /\ pc' = "down"
    /\ UNCHANGED <<config, fingerprint, mode, who, cfg, ghostVars, edits, starts>>

\* write_text opens the file, which empties it ...
Truncate ==
    /\ pc = "truncate"
    /\ fingerprint' = Garbled
    /\ pc' = "write"
    /\ UNCHANGED <<config, mode, who, cfg, ghostVars, edits, starts>>

\* ... and writes it.
Write ==
    /\ pc = "write"
    /\ fingerprint' = cfg
    /\ Passed
    /\ UNCHANGED <<config, mode, cfg, ghostVars, edits, starts>>

-----------------------------------------------------------------------------
(* After the check.                                                        *)

\* With a run that is the one that was checked, everything is in order again.
Launch(c) ==
    /\ pc' = "running"
    /\ lastRun' = c
    /\ agreed' = {}
    /\ torn' = FALSE
    /\ swapped' = (c # cfg)

\* prepare_backend has created the target; a parent starts its workers.
Delegate ==
    /\ pc = "prepare" /\ mode.workers
    /\ pc' = "load" /\ who' = "worker"
    /\ UNCHANGED <<config, fingerprint, mode, cfg, ghostVars, edits, starts>>

\* The pipeline runs: in the indexer itself ...
RunHere ==
    /\ pc = "prepare" /\ ~mode.workers
    /\ Launch(cfg)
    /\ UNCHANGED <<config, fingerprint, mode, who, cfg, edits, starts>>

\* ... or in a worker, which has read the file itself.
RunWorker ==
    /\ pc = "load" /\ who = "worker"
    /\ cfg' = config
    /\ Launch(config)
    /\ UNCHANGED <<config, fingerprint, mode, who, edits, starts>>

Runs == RunHere \/ RunWorker

-----------------------------------------------------------------------------
StartInit ==
    /\ config \in Configs
    /\ fingerprint = Absent
    /\ pc = "down"
    /\ mode \in Modes
    /\ who = "indexer"
    /\ cfg = config
    /\ lastRun = Absent /\ agreed = {}
    /\ torn = FALSE /\ swapped = FALSE
    /\ edits = 0 /\ starts = 0

\* The steps that lead to a running indexer, and the ones around it.
Startup == Load \/ Check \/ Confirm \/ Refuse \/ Truncate \/ Write

StartNext == EditConfig \/ Start \/ Stop \/ Startup \/ Delegate \/ Runs

StartSpec == StartInit /\ [][StartNext]_startVars

-----------------------------------------------------------------------------
(* What the code is expected to guarantee.                                 *)

\* Types of the two files and of the starting process.
StartTypeOK ==
    /\ config \in Configs /\ cfg \in Configs
    /\ fingerprint \in Configs \cup {Absent, Garbled}
    /\ pc \in {"down", "load", "check", "ask", "truncate", "write", "prepare", "running"}
    /\ mode \in Modes /\ who \in {"up", "indexer", "worker"}
    /\ lastRun \in Configs \cup {Absent}
    /\ agreed \subseteq Configs
    /\ torn \in BOOLEAN /\ swapped \in BOOLEAN
    /\ edits \in 0..MaxEdits /\ starts \in 0..MaxStarts

\* What the code does not protect against: a fingerprint that was torn is
\* rewritten, and a process whose parent has checked is believed.
Unprotected == torn \/ swapped \/ lastRun' # cfg

\* fingerprint.py:31-33, with a difference "the indexer refuses to start
\* unless the user confirms": the pipeline runs under the configuration it
\* last ran under, or under one the user has agreed to since, whatever starts
\* were refused or interrupted in between; unless the fingerprint was torn,
\* or the file edited between a check and the load of the process started
\* after it.
ChangeConfirmed ==
    [][pc # "running" /\ pc' = "running" =>
         \/ lastRun = Absent \/ lastRun' = lastRun \/ lastRun' \in agreed
         \/ Unprotected]_startVars

\* fingerprint.py:194-205, 225: the recorded configuration is the one the
\* store is being filled with, also after a crash that left the fingerprint
\* empty, and when `up` had checked another one; not when it is the workers
\* who have read another one than their parent.
FingerprintTells == pc = "running" /\ ~swapped => fingerprint = lastRun
=============================================================================
