----------------------------- MODULE Supervisor -----------------------------
(***************************************************************************)
(* `serviette up` (up.py): one process that spawns the indexer, waits      *)
(* until the store has chunks, spawns the server, waits until its port     *)
(* answers, and stops both when a signal arrives or a child dies.          *)
(*                                                                         *)
(* The supervisor only learns of its children by poll(): every poll, probe *)
(* and test of the shutdown flag is a step of its own, and children die,   *)
(* signals arrive and the store fills between any two of them.             *)
(***************************************************************************)
EXTENDS Integers, FiniteSets

CONSTANTS
    MaxSignals      \* bound: signals sent to the supervisor

ASSUME BoundAssumption == MaxSignals \in Nat

Children == {"indexer", "server"}

\* poll() of a child that has not exited.
None == 1000

\* Exit codes: success, an error, death by Ctrl-C, and by SIGTERM or SIGKILL.
Codes == {0, 1, 130, -15}

VARIABLES
    conf,       \* the configuration and the machine, fixed at start
    pc,         \* where run() is
    handlers,   \* the handlers of SIGINT and SIGTERM are installed
    shutdown,   \* shutdown_requested
    child,      \* of each child: not spawned, running or dead
    code,       \* its exit code, None until it dies
    asked,      \* the signal it was last sent
    store,      \* the vector store: absent, empty or filled
    quiet,      \* no activity line for index_wait_timeout
    serving,    \* the server answers on its port: not yet, yes, no longer
    failed,     \* the result of the last wait
    result,     \* what run() returns
    blamed,     \* the child the failure report names
    signals,    \* signals sent so far
    crashed     \* ghost: children that died of themselves

vars == <<conf, pc, handlers, shutdown, child, code, asked, store, quiet,
          serving, failed, result, blamed, signals, crashed>>

\* static: all sources are one-shot; empty: the folders hold no file;
\* timeout: index_wait_timeout is set; stranger: another serviette server
\* already listens on the port.
Confs == [static : BOOLEAN, empty : BOOLEAN, timeout : BOOLEAN, stranger : BOOLEAN]

Gone(c) == child[c] # "running"
Ended == pc \in {"exited", "killed"}

Goto(from, to) == pc = from /\ pc' = to

\* What the steps of run() leave alone.
WorldUnchanged == UNCHANGED <<conf, child, code, asked, store, quiet, serving, signals, crashed>>
RunUnchanged == UNCHANGED <<failed, result, blamed>>

-----------------------------------------------------------------------------
(* run(): start.                                                           *)

Spawn(c) ==
    /\ child' = [child EXCEPT ![c] = "running"]
    /\ UNCHANGED <<conf, code, asked, store, quiet, serving, signals, crashed>>

SpawnIndexer ==
    /\ Goto("start", "spawned")
    /\ Spawn("indexer")
    /\ UNCHANGED <<handlers, shutdown>> /\ RunUnchanged

\* signal.signal for both signals; until here the default action holds.
InstallHandlers ==
    /\ Goto("spawned", "probeIndex")
    /\ handlers' = TRUE
    /\ WorldUnchanged /\ RunUnchanged /\ UNCHANGED shutdown

-----------------------------------------------------------------------------
(* _wait_for_index.                                                        *)

\* Mutated form: an existing table counts as an index.
IndexReady_Queryable == store # "absent"

\* The store has chunks, or it is queryable and there is nothing to index.
IndexReady == store = "filled" \/ (conf.empty /\ store = "empty")

ProbeIndex ==
    /\ pc = "probeIndex"
    /\ pc' = IF IndexReady THEN "indexWaited" ELSE "indexStop"
    /\ WorldUnchanged /\ RunUnchanged /\ UNCHANGED <<handlers, shutdown>>

CheckStopIndex ==
    /\ pc = "indexStop"
    /\ pc' = IF shutdown THEN "indexWaited" ELSE "indexPoll"
    /\ WorldUnchanged /\ RunUnchanged /\ UNCHANGED <<handlers, shutdown>>

\* Mutated form: a finished one-shot run counts as a failure.
PollIndexer_ZeroFails ==
    /\ pc = "indexPoll"
    /\ failed' = code["indexer"]
    /\ pc' = IF code["indexer"] # None \/ (conf.timeout /\ quiet)
               THEN "indexWaited" ELSE "probeIndex"
    /\ WorldUnchanged /\ UNCHANGED <<handlers, shutdown, result, blamed>>

\* Mutated form: the timeout is not looked at.
PollIndexer_NoTimeout ==
    /\ pc = "indexPoll"
    /\ failed' = IF code["indexer"] = 0 THEN None ELSE code["indexer"]
    /\ pc' = IF code["indexer"] # None THEN "indexWaited" ELSE "probeIndex"
    /\ WorldUnchanged /\ UNCHANGED <<handlers, shutdown, result, blamed>>

\* An error ends the wait with the code; a finished one-shot run, or the
\* timeout since the last activity, ends it without.
PollIndexer ==
    /\ pc = "indexPoll"
    /\ failed' = IF code["indexer"] = 0 THEN None ELSE code["indexer"]
    /\ pc' = IF code["indexer"] # None \/ (conf.timeout /\ quiet)
               THEN "indexWaited" ELSE "probeIndex"
    /\ WorldUnchanged /\ UNCHANGED <<handlers, shutdown, result, blamed>>

\* The caller: report and give up, stop, or go on to the server.
LeaveWith(c) ==
    /\ pc' = "termIndexer"
    /\ result' = failed
    /\ blamed' = c

StopQuietly ==
    /\ pc' = "termIndexer"
    /\ result' = 0
    /\ UNCHANGED blamed

IndexWaited ==
    /\ pc = "indexWaited"
    /\ \/ failed # None /\ LeaveWith("indexer")
       \/ failed = None /\ shutdown /\ StopQuietly
       \/ /\ failed = None /\ ~shutdown
          /\ pc' = "spawnServer"
          /\ UNCHANGED <<result, blamed>>
    /\ WorldUnchanged /\ UNCHANGED <<handlers, shutdown, failed>>

-----------------------------------------------------------------------------
(* The server, and _wait_for_server.                                       *)

SpawnServer ==
    /\ Goto("spawnServer", "probeServer")
    /\ Spawn("server")
    /\ UNCHANGED <<handlers, shutdown>> /\ RunUnchanged

\* Something on the port answers /api/v1/health.
PortAnswers == serving = "yes" \/ conf.stranger

ProbeServer ==
    /\ pc = "probeServer"
    /\ pc' = IF PortAnswers THEN "serverWaited" ELSE "serverStop"
    /\ WorldUnchanged /\ RunUnchanged /\ UNCHANGED <<handlers, shutdown>>

CheckStopServer ==
    /\ pc = "serverStop"
    /\ pc' = IF shutdown THEN "serverWaited" ELSE "serverPoll"
    /\ WorldUnchanged /\ RunUnchanged /\ UNCHANGED <<handlers, shutdown>>

PollServerStarting ==
    /\ pc = "serverPoll"
    /\ failed' = code["server"]
    /\ pc' = IF code["server"] # None THEN "serverWaited" ELSE "serverPollIndexer"
    /\ WorldUnchanged /\ UNCHANGED <<handlers, shutdown, result, blamed>>

PollIndexerStarting ==
    /\ pc = "serverPollIndexer"
    /\ failed' = IF code["indexer"] = 0 THEN None ELSE code["indexer"]
    /\ pc' = IF code["indexer"] \notin {None, 0} THEN "serverWaited" ELSE "probeServer"
    /\ WorldUnchanged /\ UNCHANGED <<handlers, shutdown, result, blamed>>

\* The caller polls the server again to tell whose code it got.
ServerWaited ==
    /\ pc = "serverWaited"
    /\ \/ /\ failed # None
          /\ LeaveWith(IF code["server"] # None THEN "server" ELSE "indexer")
       \/ failed = None /\ shutdown /\ StopQuietly
       \/ /\ failed = None /\ ~shutdown
          /\ pc' = "loopStop"
          /\ UNCHANGED <<result, blamed>>
    /\ WorldUnchanged /\ UNCHANGED <<handlers, shutdown, failed>>

-----------------------------------------------------------------------------
(* The supervision loop.                                                   *)

\* Mutated form: the loop never looks at the flag.
CheckStopLoop_Never ==
    /\ Goto("loopStop", "loopServer")
    /\ WorldUnchanged /\ RunUnchanged /\ UNCHANGED <<handlers, shutdown>>

CheckStopLoop ==
    /\ pc = "loopStop"
    /\ IF shutdown THEN StopQuietly
       ELSE pc' = "loopServer" /\ UNCHANGED <<result, blamed>>
    /\ WorldUnchanged /\ UNCHANGED <<handlers, shutdown, failed>>

Leave(c) ==
    /\ pc' = "termIndexer"
    /\ result' = code[c]
    /\ blamed' = c

PollServer ==
    /\ pc = "loopServer"
    /\ IF code["server"] # None THEN Leave("server")
       ELSE pc' = "loopIndexer" /\ UNCHANGED <<result, blamed>>
    /\ WorldUnchanged /\ UNCHANGED <<handlers, shutdown, failed>>

\* Mutated form: any exit of the indexer ends the run.
LoopIndexer_AnyExit ==
    /\ pc = "loopIndexer"
    /\ IF code["indexer"] # None THEN Leave("indexer")
       ELSE pc' = "loopStop" /\ UNCHANGED <<result, blamed>>
    /\ WorldUnchanged /\ UNCHANGED <<handlers, shutdown, failed>>

\* Exit 0 is a finished one-shot run: the server keeps serving.
LoopIndexer ==
    /\ pc = "loopIndexer"
    /\ IF code["indexer"] \notin {None, 0} THEN Leave("indexer")
       ELSE pc' = "loopStop" /\ UNCHANGED <<result, blamed>>
    /\ WorldUnchanged /\ UNCHANGED <<handlers, shutdown, failed>>

-----------------------------------------------------------------------------
(* finally: _terminate of the indexer, then of the server.                 *)

Term(c) == IF c = "indexer" THEN "termIndexer" ELSE "termServer"
Waiting(c) == IF c = "indexer" THEN "waitIndexer" ELSE "waitServer"
After(c) == IF c = "indexer" THEN "termServer" ELSE "restore"

Send(c, s) == asked' = [asked EXCEPT ![c] = s]

\* A child that was never spawned, or that has exited, is left alone.
TermStart(c) ==
    /\ pc = Term(c)
    /\ IF child[c] = "running"
         THEN pc' = Waiting(c) /\ Send(c, "term")
         ELSE pc' = After(c) /\ UNCHANGED asked
    /\ UNCHANGED <<conf, child, code, store, quiet, serving, signals, crashed, handlers, shutdown>>
    /\ RunUnchanged

\* _TERM_GRACE passes and the child is killed.
TermExpires(c) ==
    /\ pc = Waiting(c)
    /\ child[c] = "running" /\ asked[c] # "kill"
    /\ Send(c, "kill")
    /\ UNCHANGED <<conf, pc, child, code, store, quiet, serving, signals, crashed, handlers, shutdown>>
    /\ RunUnchanged

\* Mutated form: after the grace the wait is given up.
TermDone_GivesUp(c) ==
    /\ pc = Waiting(c)
    /\ Gone(c) \/ asked[c] = "term"
    /\ pc' = After(c)
    /\ WorldUnchanged /\ RunUnchanged /\ UNCHANGED <<handlers, shutdown>>

\* wait() returns.
TermDone(c) ==
    /\ pc = Waiting(c)
    /\ Gone(c)
    /\ pc' = After(c)
    /\ WorldUnchanged /\ RunUnchanged /\ UNCHANGED <<handlers, shutdown>>

\* The previous handlers come back and run() returns.
Restore ==
    /\ Goto("restore", "exited")
    /\ handlers' = FALSE
    /\ WorldUnchanged /\ RunUnchanged /\ UNCHANGED shutdown

-----------------------------------------------------------------------------
(* Signals.                                                                *)

\* What a signal does to the supervisor: the handler sets the flag; without
\* one the process dies.
Signalled ==
    /\ ~Ended
    /\ signals < MaxSignals
    /\ signals' = signals + 1
    /\ IF handlers
         THEN shutdown' = TRUE /\ UNCHANGED pc
         ELSE pc' = "killed" /\ UNCHANGED shutdown
    /\ UNCHANGED <<conf, handlers, child, code, store, quiet, serving, crashed>>
    /\ RunUnchanged

\* SIGTERM, to the supervisor alone.
Terminated == Signalled /\ UNCHANGED asked

\* Ctrl-C, to the foreground process group: the children get it too.
CtrlC ==
    /\ Signalled
    /\ asked' = [c \in Children |->
                   IF child[c] = "running" /\ asked[c] = "no" THEN "int" ELSE asked[c]]

-----------------------------------------------------------------------------
(* The children.                                                           *)

Dies(c, x) ==
    /\ child[c] = "running"
    /\ child' = [child EXCEPT ![c] = "dead"]
    /\ code' = [code EXCEPT ![c] = x]
    /\ serving' = IF c = "server" /\ serving = "yes" THEN "no longer" ELSE serving
    /\ UNCHANGED <<conf, pc, handlers, shutdown, asked, store, quiet, signals>>
    /\ RunUnchanged

\* A child dies of itself.  Only a one-shot indexer ends with 0 of itself.
ChildEnds(c) ==
    /\ \E x \in {0, 1} :
         /\ (c = "indexer" /\ x = 0) => conf.static
         /\ Dies(c, x)
    /\ crashed' = crashed \cup {c}

\* A child that was sent a signal stops.  The indexer catches Ctrl-C and
\* exits 130; the server drains its requests and exits.
ChildStops(c) ==
    /\ asked[c] # "no"
    /\ \/ asked[c] = "int" /\ Dies(c, IF c = "indexer" THEN 130 ELSE 0)
       \/ asked[c] \in {"term", "kill"} /\ Dies(c, -15)
    /\ UNCHANGED crashed

\* prepare_backend creates the target; later the first chunks arrive.
StoreGrows ==
    /\ child["indexer"] = "running"
    /\ \/ store = "absent" /\ store' = "empty"
       \/ store = "empty" /\ ~conf.empty /\ store' = "filled"
    /\ UNCHANGED <<conf, pc, handlers, shutdown, child, code, asked, quiet, serving, signals, crashed>>
    /\ RunUnchanged

\* The indexer prints an activity line; or index_wait_timeout passes.
Works ==
    /\ \/ child["indexer"] = "running" /\ quiet /\ quiet' = FALSE
       \/ pc \in {"probeIndex", "indexStop", "indexPoll"} /\ ~quiet /\ quiet' = TRUE
    /\ UNCHANGED <<conf, pc, handlers, shutdown, child, code, asked, store, serving, signals, crashed>>
    /\ RunUnchanged

\* The server's lifespan ends and the port is bound; with a stranger on the
\* port that fails and the server exits.
ServerBinds ==
    /\ child["server"] = "running" /\ serving = "not yet" /\ ~conf.stranger
    /\ serving' = "yes"
    /\ UNCHANGED <<conf, pc, handlers, shutdown, child, code, asked, store, quiet, signals, crashed>>
    /\ RunUnchanged

-----------------------------------------------------------------------------
Init ==
    /\ conf \in Confs
    /\ pc = "start"
    /\ handlers = FALSE /\ shutdown = FALSE
    /\ child = [c \in Children |-> "none"]
    /\ code = [c \in Children |-> None]
    /\ asked = [c \in Children |-> "no"]
    /\ store \in {"absent", "empty", "filled"}
    /\ quiet = FALSE /\ serving = "not yet"
    /\ failed = None /\ result = None /\ blamed = "nobody"
    /\ signals = 0 /\ crashed = {}

\* The steps of run().
Run ==
    \/ SpawnIndexer \/ InstallHandlers
    \/ ProbeIndex \/ CheckStopIndex \/ PollIndexer \/ IndexWaited
    \/ SpawnServer
    \/ ProbeServer \/ CheckStopServer \/ PollServerStarting \/ PollIndexerStarting
    \/ ServerWaited
    \/ CheckStopLoop \/ PollServer \/ LoopIndexer
    \/ \E c \in Children : TermStart(c) \/ TermExpires(c) \/ TermDone(c)
    \/ Restore

\* The supervisor has returned: nothing is left to do for it.
Finished == Ended /\ UNCHANGED vars

Next ==
    \/ Run
    \/ Terminated \/ CtrlC
    \/ \E c \in Children : ChildEnds(c) \/ ChildStops(c)
    \/ StoreGrows \/ Works \/ ServerBinds
    \/ Finished

Spec == Init /\ [][Next]_vars

\* The supervisor is scheduled, a child dies when it is killed or gets the
\* terminal's Ctrl-C, and a starting server binds its port or fails to.
\* A child may ignore SIGTERM.
Fairness ==
    /\ WF_vars(Run)
    /\ \A c \in Children : WF_vars(asked[c] \in {"int", "kill"} /\ ChildStops(c))
    /\ WF_vars(ServerBinds)
    /\ WF_vars(conf.stranger /\ ChildEnds("server"))

FairSpec == Spec /\ Fairness

-----------------------------------------------------------------------------
(* What the code is expected to guarantee.                                 *)

\* Types of the configuration and the locals of run().
RunTypes ==
    /\ conf \in Confs
    /\ pc \in {"start", "spawned", "probeIndex", "indexStop", "indexPoll", "indexWaited",
               "spawnServer", "probeServer", "serverStop", "serverPoll", "serverPollIndexer",
               "serverWaited", "loopStop", "loopServer", "loopIndexer", "termIndexer",
               "waitIndexer", "termServer", "waitServer", "restore", "exited", "killed"}
    /\ handlers \in BOOLEAN /\ shutdown \in BOOLEAN
    /\ failed \in Codes \cup {None} /\ result \in Codes \cup {None}
    /\ blamed \in Children \cup {"nobody"}

\* Types of the processes and the store around it.
WorldTypes ==
    /\ child \in [Children -> {"none", "running", "dead"}]
    /\ code \in [Children -> Codes \cup {None}]
    /\ asked \in [Children -> {"no", "int", "term", "kill"}]
    /\ store \in {"absent", "empty", "filled"}
    /\ quiet \in BOOLEAN
    /\ serving \in {"not yet", "yes", "no longer"}
    /\ signals \in 0..MaxSignals
    /\ crashed \subseteq Children

TypeOK == RunTypes /\ WorldTypes

\* up.py:13-17: when run() returns, no child is left running.
ChildrenStopped == pc = "exited" => \A c \in Children : Gone(c)

\* The teardown rules, read backwards: a child is stopped only for a signal,
\* for an exit of the server, or for a failure of the indexer; a finished
\* one-shot run stops nothing.
TeardownJustified ==
    (\E c \in Children : asked[c] \in {"term", "kill"}) =>
        \/ shutdown
        \/ "server" \in crashed
        \/ "indexer" \in crashed /\ code["indexer"] # 0

\* The exit code is 0 only for a signal or a server that ended with 0, and
\* otherwise the code of a child that was not stopped by run() itself; the
\* failure report is about a child that had exited.
ExitTells ==
    /\ blamed # "nobody" => Gone(blamed)
    /\ pc = "exited" =>
         IF result = 0
           THEN shutdown \/ code["server"] = 0
           ELSE \E c \in Children : code[c] = result /\ (c \in crashed \/ shutdown)

\* Without a timeout the server is never started over an index that cannot
\* be queried, unless a one-shot run ended without producing one.
ServerHeldBack ==
    child["server"] # "none" /\ ~conf.timeout =>
        \/ store = "filled"
        \/ conf.empty /\ store = "empty"
        \/ code["indexer"] = 0

\* A signal that the handler saw, an end of the server and a failure of the
\* indexer end the supervisor, also during the waits and also when a child
\* ignores SIGTERM.
TeardownCompletes ==
    (\/ shutdown
     \/ "server" \in crashed
     \/ "indexer" \in crashed /\ code["indexer"] # 0) ~> Ended

\* With index_wait_timeout, an indexer that prints no activity line any more
\* does not keep the server from starting.
ServerStarts == (conf.timeout /\ <>[]quiet) => <>(child["server"] # "none" \/ Ended)

=============================================================================
