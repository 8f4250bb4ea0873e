--------------------------- MODULE SupervisorProofs ---------------------------
(***************************************************************************)
(* Proofs about Supervisor, for any number of signals: what is left of the *)
(* children when run() returns, why a child is stopped, what the exit code *)
(* and the report are about, and when the server is started.  And about    *)
(* SpawnSignals, the parent of an indexer with several workers: when it    *)
(* kills its group.                                                        *)
(***************************************************************************)
EXTENDS Supervisor, SpawnSignals, TLAPS

Teardown == {"termIndexer", "waitIndexer", "termServer", "waitServer", "restore", "exited"}

Causes ==
    \/ shutdown
    \/ "server" \in crashed
    \/ "indexer" \in crashed /\ code["indexer"] # 0

\* The index could be queried, or there was nothing to wait for.
Queryable ==
    \/ store = "filled"
    \/ conf.empty /\ store = "empty"
    \/ code["indexer"] = 0

\* A child has an exit code when it has exited; what died without being
\* asked to is in crashed.
Exits ==
    /\ \A c \in Children : code[c] = None <=> child[c] # "dead"
    /\ \A c \in crashed : child[c] = "dead"

\* Nobody is asked to stop without a cause; only a Ctrl-C the handler saw, or
\* one that killed the supervisor, reaches the children directly.
AskedForCause ==
    /\ \A c \in Children : asked[c] \in {"term", "kill"} => Causes
    /\ \A c \in Children : asked[c] = "int" => shutdown \/ pc = "killed"
    /\ pc \in Teardown => Causes
    /\ pc \notin Teardown => \A c \in Children : asked[c] \in {"no", "int"} \/ pc = "killed"

\* Before the teardown a dead child died of itself or of a Ctrl-C.
DeadForCause ==
    pc \notin Teardown =>
        \A c \in Children : child[c] = "dead" => c \in crashed \/ shutdown \/ pc = "killed"

\* The server is spawned once, after the indexer.
Order ==
    /\ pc = "start" => child["indexer"] = "none"
    /\ pc \in {"start", "spawned", "probeIndex", "indexStop", "indexPoll", "indexWaited",
               "spawnServer"} => child["server"] = "none"

\* What a wait returned is the exit code of a child that has died; with no
\* failure, no stop and no timeout, the first wait ends with an index.
Waits ==
    /\ failed # None => pc \in {"indexWaited", "serverWaited", "killed"} \cup Teardown
    /\ pc \in {"indexWaited", "serverWaited"} /\ failed # None =>
          \/ failed = code["indexer"] /\ failed # 0
          \/ failed = code["server"]
    /\ pc = "indexWaited" /\ failed = None /\ ~shutdown /\ ~conf.timeout => Queryable
    /\ pc = "spawnServer" /\ ~conf.timeout => Queryable
    /\ child["server"] # "none" /\ ~conf.timeout => Queryable

\* The result is the code of a child that died before the teardown.
Result ==
    /\ blamed # "nobody" => child[blamed] = "dead"
    /\ pc \in Teardown =>
         IF result = 0
           THEN shutdown \/ code["server"] = 0
           ELSE \E c \in Children :
                  child[c] = "dead" /\ code[c] = result /\ (c \in crashed \/ shutdown)

\* The teardown goes on only after a child is gone.
Stopped ==
    /\ pc \in {"termServer", "waitServer", "restore", "exited"} => Gone("indexer")
    /\ pc \in {"restore", "exited"} => Gone("server")

\* The exit codes, and None, which is none of them.
LEMMA CodeFacts == {0, 1, 130, -15} \subseteq Codes /\ None \notin Codes
  BY DEF Codes, None

\* The locals of run() start with their types.
LEMMA InitTypes == Init => TypeOK
<1> SUFFICES ASSUME Init PROVE TypeOK
  OBVIOUS
<1>1. signals \in 0..MaxSignals
  <2>1. signals = 0
    BY DEF Init
  <2> QED  BY <2>1, BoundAssumption
<1>2. child \in [Children -> {"none", "running", "dead"}]
  BY DEF Init
<1>3. code \in [Children -> Codes \cup {None}]
  BY DEF Init
<1>4. asked \in [Children -> {"no", "int", "term", "kill"}]
  BY DEF Init
<1> QED  BY <1>1, <1>2, <1>3, <1>4 DEF Init, TypeOK, RunTypes, WorldTypes

\* How a child dies.
LEMMA ChildDies ==
  ASSUME NEW c \in Children, ChildEnds(c) \/ ChildStops(c)
  PROVE  \E x \in Codes : Dies(c, x)
  BY CodeFacts DEF ChildEnds, ChildStops

\* A child that ends of itself is in crashed; what is sent does not change.
LEMMA ChildEndsHow ==
  ASSUME NEW c \in Children, ChildEnds(c) PROVE crashed' = crashed \cup {c}
  BY DEF ChildEnds

\* A child that stops was asked to.
LEMMA ChildStopsHow ==
  ASSUME NEW c \in Children, ChildStops(c) PROVE crashed' = crashed /\ asked[c] # "no"
  BY DEF ChildStops

\* Asking a child to stop changes the place in run() and what it was asked.
LEMMA TermStartHow ==
  ASSUME NEW c \in Children, TermStart(c), asked \in [Children -> {"no", "int", "term", "kill"}]
  PROVE  /\ pc \in {"termIndexer", "termServer"}
         /\ pc' \in {"waitIndexer", "termServer", "waitServer", "restore"}
         /\ asked' \in [Children -> {"no", "int", "term", "kill"}]
         /\ \A d \in Children : asked'[d] \in {asked[d], "term"}
         /\ UNCHANGED <<conf, handlers, shutdown, child, code, store, quiet, serving, signals,
                        crashed, failed, result, blamed>>
<1>1. CASE child[c] = "running"
  BY <1>1 DEF TermStart, Term, Waiting, Send, RunUnchanged, Children
<1>2. CASE child[c] # "running"
  BY <1>2 DEF TermStart, Term, After, RunUnchanged, Children
<1> QED  BY <1>1, <1>2

\* Signals are counted up to their bound.
LEMMA SignalCount ==
  ASSUME signals \in 0..MaxSignals, Signalled PROVE signals' \in 0..MaxSignals
  BY BoundAssumption DEF Signalled

\* Every step keeps the types of the locals.
LEMMA NextRunTypes ==
  ASSUME TypeOK, [Next]_vars PROVE RunTypes'
<1> USE CodeFacts DEF TypeOK, RunTypes, WorldTypes, Children
<1>1. CASE SpawnIndexer \/ InstallHandlers \/ SpawnServer
  <2>1. CASE SpawnIndexer
    BY <2>1 DEF SpawnIndexer, Goto, Spawn, RunUnchanged
  <2>2. CASE InstallHandlers
    BY <2>2 DEF InstallHandlers, Goto, WorldUnchanged, RunUnchanged
  <2>3. CASE SpawnServer
    BY <2>3 DEF SpawnServer, Goto, Spawn, RunUnchanged
  <2> QED  BY <1>1, <2>1, <2>2, <2>3
<1>2. CASE ProbeIndex \/ CheckStopIndex \/ PollIndexer \/ IndexWaited
  <2>1. CASE ProbeIndex
    BY <2>1 DEF ProbeIndex, IndexReady, WorldUnchanged, RunUnchanged
  <2>2. CASE CheckStopIndex
    BY <2>2 DEF CheckStopIndex, WorldUnchanged, RunUnchanged
  <2>3. CASE PollIndexer
    BY <2>3 DEF PollIndexer, WorldUnchanged
  <2>4. CASE IndexWaited
    BY <2>4 DEF IndexWaited, LeaveWith, StopQuietly, WorldUnchanged
  <2> QED  BY <1>2, <2>1, <2>2, <2>3, <2>4
<1>3. CASE ProbeServer
  BY <1>3 DEF ProbeServer, WorldUnchanged, RunUnchanged
<1>4. CASE CheckStopServer
  BY <1>4 DEF CheckStopServer, WorldUnchanged, RunUnchanged
<1>5. CASE PollServerStarting
  BY <1>5 DEF PollServerStarting, WorldUnchanged
<1>6. CASE PollIndexerStarting
  BY <1>6 DEF PollIndexerStarting, WorldUnchanged
<1>7. CASE ServerWaited
  BY <1>7 DEF ServerWaited, LeaveWith, StopQuietly, WorldUnchanged
<1>8. CASE CheckStopLoop
  BY <1>8 DEF CheckStopLoop, StopQuietly, WorldUnchanged
<1>9. CASE PollServer
  <2>1. code["server"] \in Codes \cup {None} /\ "server" \in Children
    OBVIOUS
  <2>2. CASE code["server"] # None
    BY <1>9, <2>1, <2>2 DEF PollServer, Leave, WorldUnchanged
  <2>3. CASE code["server"] = None
    BY <1>9, <2>3 DEF PollServer, WorldUnchanged
  <2> QED  BY <2>2, <2>3
<1>10. CASE LoopIndexer
  <2>1. code["indexer"] \in Codes \cup {None} /\ "indexer" \in Children
    OBVIOUS
  <2>2. CASE code["indexer"] \notin {None, 0}
    BY <1>10, <2>1, <2>2 DEF LoopIndexer, Leave, WorldUnchanged
  <2>3. CASE code["indexer"] \in {None, 0}
    BY <1>10, <2>3 DEF LoopIndexer, WorldUnchanged
  <2> QED  BY <2>2, <2>3
<1>11. CASE Restore
  BY <1>11 DEF Restore, Goto, WorldUnchanged, RunUnchanged
<1>12. CASE Terminated \/ CtrlC
  <2>1. Signalled
    BY <1>12 DEF Terminated, CtrlC
  <2>2. pc' \in {pc, "killed"} /\ shutdown' \in {shutdown, TRUE}
    BY <2>1 DEF Signalled
  <2>3. UNCHANGED <<conf, handlers, failed, result, blamed>>
    BY <2>1 DEF Signalled, RunUnchanged
  <2> HIDE DEF WorldTypes, Children
  <2>4. CASE pc' = pc
    BY <2>2, <2>3, <2>4
  <2>5. CASE pc' = "killed"
    BY <2>2, <2>3, <2>5
  <2> QED  BY <2>2, <2>4, <2>5
<1>13. CASE StoreGrows \/ Works \/ ServerBinds
  <2>1. CASE StoreGrows
    BY <2>1 DEF StoreGrows, RunUnchanged
  <2>2. CASE Works
    BY <2>2 DEF Works, RunUnchanged
  <2>3. CASE ServerBinds
    BY <2>3 DEF ServerBinds, RunUnchanged
  <2> QED  BY <1>13, <2>1, <2>2, <2>3
<1>14. ASSUME NEW c \in Children, TermStart(c) PROVE RunTypes'
  <2>1. CASE child[c] = "running"
    BY <1>14, <2>1 DEF TermStart, Term, Waiting, Send, RunUnchanged
  <2>2. CASE child[c] # "running"
    BY <1>14, <2>2 DEF TermStart, Term, After, RunUnchanged
  <2> QED  BY <2>1, <2>2
<1>15. ASSUME NEW c \in Children, TermExpires(c) PROVE RunTypes'
  BY <1>15 DEF TermExpires, Waiting, Send, RunUnchanged
<1>16. ASSUME NEW c \in Children, TermDone(c) PROVE RunTypes'
  BY <1>16 DEF TermDone, Waiting, After, Gone, WorldUnchanged, RunUnchanged
<1>17. ASSUME NEW c \in Children, ChildEnds(c) PROVE RunTypes'
  <2>1. PICK x \in Codes : Dies(c, x)
    BY <1>17, ChildDies
  <2> QED  BY <1>17, <2>1, ChildEndsHow DEF Dies, RunUnchanged
<1>18. ASSUME NEW c \in Children, ChildStops(c) PROVE RunTypes'
  <2>1. PICK x \in Codes : Dies(c, x)
    BY <1>18, ChildDies
  <2> QED  BY <1>18, <2>1, ChildStopsHow DEF Dies, RunUnchanged
<1>19. CASE UNCHANGED vars
  BY <1>19 DEF vars, Gone
<1> QED
  BY <1>1, <1>2, <1>3, <1>4, <1>5, <1>6, <1>7, <1>8, <1>9, <1>10, <1>11,
      <1>12, <1>13, <1>14, <1>15, <1>16, <1>17, <1>18, <1>19 DEF Next, Run, Finished

\* And those of the world.
LEMMA NextWorldTypes ==
  ASSUME TypeOK, [Next]_vars PROVE WorldTypes'
<1> USE CodeFacts DEF TypeOK, RunTypes, WorldTypes, Children
<1>1. CASE SpawnIndexer \/ InstallHandlers \/ SpawnServer
  <2>1. CASE SpawnIndexer
    BY <2>1 DEF SpawnIndexer, Goto, Spawn, RunUnchanged
  <2>2. CASE InstallHandlers
    BY <2>2 DEF InstallHandlers, Goto, WorldUnchanged, RunUnchanged
  <2>3. CASE SpawnServer
    BY <2>3 DEF SpawnServer, Goto, Spawn, RunUnchanged
  <2> QED  BY <1>1, <2>1, <2>2, <2>3
<1>2. CASE ProbeIndex \/ CheckStopIndex \/ PollIndexer \/ IndexWaited
  <2>1. CASE ProbeIndex
    BY <2>1 DEF ProbeIndex, IndexReady, WorldUnchanged, RunUnchanged
  <2>2. CASE CheckStopIndex
    BY <2>2 DEF CheckStopIndex, WorldUnchanged, RunUnchanged
  <2>3. CASE PollIndexer
    BY <2>3 DEF PollIndexer, WorldUnchanged
  <2>4. CASE IndexWaited
    BY <2>4 DEF IndexWaited, LeaveWith, StopQuietly, WorldUnchanged
  <2> QED  BY <1>2, <2>1, <2>2, <2>3, <2>4
<1>3. CASE ProbeServer \/ CheckStopServer \/ PollServerStarting \/
      PollIndexerStarting \/ ServerWaited
  <2>1. CASE ProbeServer
    BY <2>1 DEF ProbeServer, WorldUnchanged, RunUnchanged
  <2>2. CASE CheckStopServer
    BY <2>2 DEF CheckStopServer, WorldUnchanged, RunUnchanged
  <2>3. CASE PollServerStarting
    BY <2>3 DEF PollServerStarting, WorldUnchanged
  <2>4. CASE PollIndexerStarting
    BY <2>4 DEF PollIndexerStarting, WorldUnchanged
  <2>5. CASE ServerWaited
    BY <2>5 DEF ServerWaited, LeaveWith, StopQuietly, WorldUnchanged
  <2> QED  BY <1>3, <2>1, <2>2, <2>3, <2>4, <2>5
<1>4. CASE CheckStopLoop \/ PollServer \/ LoopIndexer
  <2>1. CASE CheckStopLoop
    BY <2>1 DEF CheckStopLoop, StopQuietly, WorldUnchanged
  <2>2. CASE PollServer
    BY <2>2 DEF PollServer, Leave, WorldUnchanged
  <2>3. CASE LoopIndexer
    BY <2>3 DEF LoopIndexer, Leave, WorldUnchanged
  <2> QED  BY <1>4, <2>1, <2>2, <2>3
<1>5. CASE Restore
  BY <1>5 DEF Restore, Goto, WorldUnchanged, RunUnchanged
<1>6. CASE Terminated \/ CtrlC
  <2>1. signals' \in 0..MaxSignals
    BY <1>6, SignalCount DEF Terminated, CtrlC
  <2>2. CASE Terminated
    BY <2>1, <2>2 DEF Terminated, Signalled, RunUnchanged
  <2>3. CASE CtrlC
    BY <2>1, <2>3 DEF CtrlC, Signalled, RunUnchanged
  <2> QED  BY <1>6, <2>2, <2>3
<1>7. CASE StoreGrows \/ Works \/ ServerBinds
  <2>1. CASE StoreGrows
    BY <2>1 DEF StoreGrows, RunUnchanged
  <2>2. CASE Works
    BY <2>2 DEF Works, RunUnchanged
  <2>3. CASE ServerBinds
    BY <2>3 DEF ServerBinds, RunUnchanged
  <2> QED  BY <1>7, <2>1, <2>2, <2>3
<1>8. ASSUME NEW c \in Children, TermStart(c) PROVE WorldTypes'
  BY <1>8, TermStartHow
<1>9. ASSUME NEW c \in Children, TermExpires(c) PROVE WorldTypes'
  BY <1>9 DEF TermExpires, Waiting, Send, RunUnchanged
<1>10. ASSUME NEW c \in Children, TermDone(c) PROVE WorldTypes'
  BY <1>10 DEF TermDone, Waiting, After, Gone, WorldUnchanged, RunUnchanged
<1>11. ASSUME NEW c \in Children, ChildEnds(c) PROVE WorldTypes'
  <2>1. PICK x \in Codes : Dies(c, x)
    BY <1>11, ChildDies
  <2> QED  BY <1>11, <2>1, ChildEndsHow DEF Dies, RunUnchanged
<1>12. ASSUME NEW c \in Children, ChildStops(c) PROVE WorldTypes'
  <2>1. PICK x \in Codes : Dies(c, x)
    BY <1>12, ChildDies
  <2> QED  BY <1>12, <2>1, ChildStopsHow DEF Dies, RunUnchanged
<1>13. CASE UNCHANGED vars
  BY <1>13 DEF vars, Gone
<1> QED
  BY <1>1, <1>2, <1>3, <1>4, <1>5, <1>6, <1>7, <1>8, <1>9, <1>10, <1>11,
      <1>12, <1>13 DEF Next, Run, Finished

\* Every step keeps the types.
LEMMA NextTypes ==
  ASSUME TypeOK, [Next]_vars PROVE TypeOK'
  BY NextRunTypes, NextWorldTypes DEF TypeOK

\* For any number of signals, the locals of run() keep their types.
THEOREM TypeCorrect == Spec => []TypeOK
  BY InitTypes, NextTypes, PTL DEF Spec

\* Exit codes are set when a child dies, and a dead child stays dead.
LEMMA NextExits ==
  ASSUME TypeOK, Exits, Order, [Next]_vars PROVE Exits'
<1> USE CodeFacts DEF TypeOK, RunTypes, WorldTypes, Children, Exits, Order
<1>1. CASE SpawnIndexer \/ InstallHandlers \/ SpawnServer
  <2>1. CASE SpawnIndexer
    BY <2>1 DEF SpawnIndexer, Goto, Spawn, RunUnchanged
  <2>2. CASE InstallHandlers
    BY <2>2 DEF InstallHandlers, Goto, WorldUnchanged, RunUnchanged
  <2>3. CASE SpawnServer
    BY <2>3 DEF SpawnServer, Goto, Spawn, RunUnchanged
  <2> QED  BY <1>1, <2>1, <2>2, <2>3
<1>2. CASE ProbeIndex \/ CheckStopIndex \/ PollIndexer \/ IndexWaited
  <2>1. CASE ProbeIndex
    BY <2>1 DEF ProbeIndex, IndexReady, WorldUnchanged, RunUnchanged
  <2>2. CASE CheckStopIndex
    BY <2>2 DEF CheckStopIndex, WorldUnchanged, RunUnchanged
  <2>3. CASE PollIndexer
    BY <2>3 DEF PollIndexer, WorldUnchanged
  <2>4. CASE IndexWaited
    BY <2>4 DEF IndexWaited, LeaveWith, StopQuietly, WorldUnchanged
  <2> QED  BY <1>2, <2>1, <2>2, <2>3, <2>4
<1>3. CASE ProbeServer \/ CheckStopServer \/ PollServerStarting \/
      PollIndexerStarting \/ ServerWaited
  <2>1. CASE ProbeServer
    BY <2>1 DEF ProbeServer, WorldUnchanged, RunUnchanged
  <2>2. CASE CheckStopServer
    BY <2>2 DEF CheckStopServer, WorldUnchanged, RunUnchanged
  <2>3. CASE PollServerStarting
    BY <2>3 DEF PollServerStarting, WorldUnchanged
  <2>4. CASE PollIndexerStarting
    BY <2>4 DEF PollIndexerStarting, WorldUnchanged
  <2>5. CASE ServerWaited
    BY <2>5 DEF ServerWaited, LeaveWith, StopQuietly, WorldUnchanged
  <2> QED  BY <1>3, <2>1, <2>2, <2>3, <2>4, <2>5
<1>4. CASE CheckStopLoop \/ PollServer \/ LoopIndexer
  <2>1. CASE CheckStopLoop
    BY <2>1 DEF CheckStopLoop, StopQuietly, WorldUnchanged
  <2>2. CASE PollServer
    BY <2>2 DEF PollServer, Leave, WorldUnchanged
  <2>3. CASE LoopIndexer
    BY <2>3 DEF LoopIndexer, Leave, WorldUnchanged
  <2> QED  BY <1>4, <2>1, <2>2, <2>3
<1>5. CASE Restore
  BY <1>5 DEF Restore, Goto, WorldUnchanged, RunUnchanged
<1>6. CASE Terminated \/ CtrlC
  <2>1. CASE Terminated
    BY <2>1 DEF Terminated, Signalled, Ended, RunUnchanged
  <2>2. CASE CtrlC
    BY <2>2 DEF CtrlC, Signalled, Ended, RunUnchanged
  <2> QED  BY <1>6, <2>1, <2>2
<1>7. CASE StoreGrows \/ Works \/ ServerBinds
  <2>1. CASE StoreGrows
    BY <2>1 DEF StoreGrows, RunUnchanged
  <2>2. CASE Works
    BY <2>2 DEF Works, RunUnchanged
  <2>3. CASE ServerBinds
    BY <2>3 DEF ServerBinds, RunUnchanged
  <2> QED  BY <1>7, <2>1, <2>2, <2>3
<1>8. ASSUME NEW c \in Children, TermStart(c) PROVE Exits'
  <2>1. CASE child[c] = "running"
    BY <1>8, <2>1 DEF TermStart, Term, Waiting, Send, RunUnchanged
  <2>2. CASE child[c] # "running"
    BY <1>8, <2>2 DEF TermStart, Term, After, RunUnchanged
  <2> QED  BY <2>1, <2>2
<1>9. ASSUME NEW c \in Children, TermExpires(c) PROVE Exits'
  BY <1>9 DEF TermExpires, Waiting, Send, RunUnchanged
<1>10. ASSUME NEW c \in Children, TermDone(c) PROVE Exits'
  BY <1>10 DEF TermDone, Waiting, After, Gone, WorldUnchanged, RunUnchanged
<1>11. ASSUME NEW c \in Children, ChildEnds(c) PROVE Exits'
  <2>1. PICK x \in Codes : Dies(c, x)
    BY <1>11, ChildDies
  <2> QED  BY <1>11, <2>1, ChildEndsHow DEF Dies, RunUnchanged
<1>12. ASSUME NEW c \in Children, ChildStops(c) PROVE Exits'
  <2>1. PICK x \in Codes : Dies(c, x)
    BY <1>12, ChildDies
  <2> QED  BY <1>12, <2>1, ChildStopsHow DEF Dies, RunUnchanged
<1>13. CASE UNCHANGED vars
  BY <1>13 DEF vars, Gone
<1> QED
  BY <1>1, <1>2, <1>3, <1>4, <1>5, <1>6, <1>7, <1>8, <1>9, <1>10, <1>11,
      <1>12, <1>13 DEF Next, Run, Finished

\* Only the teardown and Ctrl-C ask a child to stop.
LEMMA NextAskedForCause ==
  ASSUME TypeOK, Exits, AskedForCause, DeadForCause, Waits, [Next]_vars PROVE AskedForCause'
<1> USE CodeFacts DEF TypeOK, RunTypes, WorldTypes, Children, Exits, AskedForCause, DeadForCause, Waits, Causes, Teardown, Queryable
<1>1. CASE SpawnIndexer \/ InstallHandlers \/ SpawnServer
  <2>1. CASE SpawnIndexer
    BY <2>1 DEF SpawnIndexer, Goto, Spawn, RunUnchanged
  <2>2. CASE InstallHandlers
    BY <2>2 DEF InstallHandlers, Goto, WorldUnchanged, RunUnchanged
  <2>3. CASE SpawnServer
    BY <2>3 DEF SpawnServer, Goto, Spawn, RunUnchanged
  <2> QED  BY <1>1, <2>1, <2>2, <2>3
<1>2. CASE ProbeIndex \/ CheckStopIndex \/ PollIndexer \/ IndexWaited
  <2>1. CASE ProbeIndex
    BY <2>1 DEF ProbeIndex, IndexReady, WorldUnchanged, RunUnchanged
  <2>2. CASE CheckStopIndex
    BY <2>2 DEF CheckStopIndex, WorldUnchanged, RunUnchanged
  <2>3. CASE PollIndexer
    BY <2>3 DEF PollIndexer, WorldUnchanged
  <2>4. CASE IndexWaited
    BY <2>4 DEF IndexWaited, LeaveWith, StopQuietly, WorldUnchanged
  <2> QED  BY <1>2, <2>1, <2>2, <2>3, <2>4
<1>3. CASE ProbeServer \/ CheckStopServer \/ PollServerStarting \/
      PollIndexerStarting \/ ServerWaited
  <2>1. CASE ProbeServer
    BY <2>1 DEF ProbeServer, WorldUnchanged, RunUnchanged
  <2>2. CASE CheckStopServer
    BY <2>2 DEF CheckStopServer, WorldUnchanged, RunUnchanged
  <2>3. CASE PollServerStarting
    BY <2>3 DEF PollServerStarting, WorldUnchanged
  <2>4. CASE PollIndexerStarting
    BY <2>4 DEF PollIndexerStarting, WorldUnchanged
  <2>5. CASE ServerWaited
    BY <2>5 DEF ServerWaited, LeaveWith, StopQuietly, WorldUnchanged
  <2> QED  BY <1>3, <2>1, <2>2, <2>3, <2>4, <2>5
<1>4. CASE CheckStopLoop \/ PollServer \/ LoopIndexer
  <2>1. CASE CheckStopLoop
    BY <2>1 DEF CheckStopLoop, StopQuietly, WorldUnchanged
  <2>2. CASE PollServer
    BY <2>2 DEF PollServer, Leave, WorldUnchanged
  <2>3. CASE LoopIndexer
    BY <2>3 DEF LoopIndexer, Leave, WorldUnchanged
  <2> QED  BY <1>4, <2>1, <2>2, <2>3
<1>5. CASE Restore
  BY <1>5 DEF Restore, Goto, WorldUnchanged, RunUnchanged
<1>6. CASE Terminated \/ CtrlC
  <2>1. CASE Terminated
    BY <2>1 DEF Terminated, Signalled, Ended, RunUnchanged
  <2>2. CASE CtrlC
    BY <2>2 DEF CtrlC, Signalled, Ended, RunUnchanged
  <2> QED  BY <1>6, <2>1, <2>2
<1>7. CASE StoreGrows \/ Works \/ ServerBinds
  <2>1. CASE StoreGrows
    BY <2>1 DEF StoreGrows, RunUnchanged
  <2>2. CASE Works
    BY <2>2 DEF Works, RunUnchanged
  <2>3. CASE ServerBinds
    BY <2>3 DEF ServerBinds, RunUnchanged
  <2> QED  BY <1>7, <2>1, <2>2, <2>3
<1>8. ASSUME NEW c \in Children, TermStart(c) PROVE AskedForCause'
  BY <1>8, TermStartHow
<1>9. ASSUME NEW c \in Children, TermExpires(c) PROVE AskedForCause'
  BY <1>9 DEF TermExpires, Waiting, Send, RunUnchanged
<1>10. ASSUME NEW c \in Children, TermDone(c) PROVE AskedForCause'
  BY <1>10 DEF TermDone, Waiting, After, Gone, WorldUnchanged, RunUnchanged
<1>11. ASSUME NEW c \in Children, ChildEnds(c) PROVE AskedForCause'
  <2>1. PICK x \in Codes : Dies(c, x)
    BY <1>11, ChildDies
  <2> QED  BY <1>11, <2>1, ChildEndsHow DEF Dies, RunUnchanged
<1>12. ASSUME NEW c \in Children, ChildStops(c) PROVE AskedForCause'
  <2>1. PICK x \in Codes : Dies(c, x)
    BY <1>12, ChildDies
  <2> QED  BY <1>12, <2>1, ChildStopsHow DEF Dies, RunUnchanged
<1>13. CASE UNCHANGED vars
  BY <1>13 DEF vars, Gone
<1> QED
  BY <1>1, <1>2, <1>3, <1>4, <1>5, <1>6, <1>7, <1>8, <1>9, <1>10, <1>11,
      <1>12, <1>13 DEF Next, Run, Finished

\* Before the teardown nobody else could have stopped a child.
LEMMA NextDeadForCause ==
  ASSUME TypeOK, DeadForCause, AskedForCause, [Next]_vars PROVE DeadForCause'
<1> USE CodeFacts DEF TypeOK, RunTypes, WorldTypes, Children, DeadForCause, AskedForCause, Causes, Teardown
<1>1. CASE SpawnIndexer \/ InstallHandlers \/ SpawnServer
  <2>1. CASE SpawnIndexer
    BY <2>1 DEF SpawnIndexer, Goto, Spawn, RunUnchanged
  <2>2. CASE InstallHandlers
    BY <2>2 DEF InstallHandlers, Goto, WorldUnchanged, RunUnchanged
  <2>3. CASE SpawnServer
    BY <2>3 DEF SpawnServer, Goto, Spawn, RunUnchanged
  <2> QED  BY <1>1, <2>1, <2>2, <2>3
<1>2. CASE ProbeIndex \/ CheckStopIndex \/ PollIndexer \/ IndexWaited
  <2>1. CASE ProbeIndex
    BY <2>1 DEF ProbeIndex, IndexReady, WorldUnchanged, RunUnchanged
  <2>2. CASE CheckStopIndex
    BY <2>2 DEF CheckStopIndex, WorldUnchanged, RunUnchanged
  <2>3. CASE PollIndexer
    BY <2>3 DEF PollIndexer, WorldUnchanged
  <2>4. CASE IndexWaited
    BY <2>4 DEF IndexWaited, LeaveWith, StopQuietly, WorldUnchanged
  <2> QED  BY <1>2, <2>1, <2>2, <2>3, <2>4
<1>3. CASE ProbeServer \/ CheckStopServer \/ PollServerStarting \/
      PollIndexerStarting \/ ServerWaited
  <2>1. CASE ProbeServer
    BY <2>1 DEF ProbeServer, WorldUnchanged, RunUnchanged
  <2>2. CASE CheckStopServer
    BY <2>2 DEF CheckStopServer, WorldUnchanged, RunUnchanged
  <2>3. CASE PollServerStarting
    BY <2>3 DEF PollServerStarting, WorldUnchanged
  <2>4. CASE PollIndexerStarting
    BY <2>4 DEF PollIndexerStarting, WorldUnchanged
  <2>5. CASE ServerWaited
    BY <2>5 DEF ServerWaited, LeaveWith, StopQuietly, WorldUnchanged
  <2> QED  BY <1>3, <2>1, <2>2, <2>3, <2>4, <2>5
<1>4. CASE CheckStopLoop \/ PollServer \/ LoopIndexer
  <2>1. CASE CheckStopLoop
    BY <2>1 DEF CheckStopLoop, StopQuietly, WorldUnchanged
  <2>2. CASE PollServer
    BY <2>2 DEF PollServer, Leave, WorldUnchanged
  <2>3. CASE LoopIndexer
    BY <2>3 DEF LoopIndexer, Leave, WorldUnchanged
  <2> QED  BY <1>4, <2>1, <2>2, <2>3
<1>5. CASE Restore
  BY <1>5 DEF Restore, Goto, WorldUnchanged, RunUnchanged
<1>6. CASE Terminated \/ CtrlC
  <2>1. CASE Terminated
    BY <2>1 DEF Terminated, Signalled, Ended, RunUnchanged
  <2>2. CASE CtrlC
    BY <2>2 DEF CtrlC, Signalled, Ended, RunUnchanged
  <2> QED  BY <1>6, <2>1, <2>2
<1>7. CASE StoreGrows \/ Works \/ ServerBinds
  <2>1. CASE StoreGrows
    BY <2>1 DEF StoreGrows, RunUnchanged
  <2>2. CASE Works
    BY <2>2 DEF Works, RunUnchanged
  <2>3. CASE ServerBinds
    BY <2>3 DEF ServerBinds, RunUnchanged
  <2> QED  BY <1>7, <2>1, <2>2, <2>3
<1>8. ASSUME NEW c \in Children, TermStart(c) PROVE DeadForCause'
  <2>1. CASE child[c] = "running"
    BY <1>8, <2>1 DEF TermStart, Term, Waiting, Send, RunUnchanged
  <2>2. CASE child[c] # "running"
    BY <1>8, <2>2 DEF TermStart, Term, After, RunUnchanged
  <2> QED  BY <2>1, <2>2
<1>9. ASSUME NEW c \in Children, TermExpires(c) PROVE DeadForCause'
  BY <1>9 DEF TermExpires, Waiting, Send, RunUnchanged
<1>10. ASSUME NEW c \in Children, TermDone(c) PROVE DeadForCause'
  BY <1>10 DEF TermDone, Waiting, After, Gone, WorldUnchanged, RunUnchanged
<1>11. ASSUME NEW c \in Children, ChildEnds(c) PROVE DeadForCause'
  <2>1. PICK x \in Codes : Dies(c, x)
    BY <1>11, ChildDies
  <2> QED  BY <1>11, <2>1, ChildEndsHow DEF Dies, RunUnchanged
<1>12. ASSUME NEW c \in Children, ChildStops(c) PROVE DeadForCause'
  <2>1. PICK x \in Codes : Dies(c, x)
    BY <1>12, ChildDies
  <2> QED  BY <1>12, <2>1, ChildStopsHow DEF Dies, RunUnchanged
<1>13. CASE UNCHANGED vars
  BY <1>13 DEF vars, Gone
<1> QED
  BY <1>1, <1>2, <1>3, <1>4, <1>5, <1>6, <1>7, <1>8, <1>9, <1>10, <1>11,
      <1>12, <1>13 DEF Next, Run, Finished

\* Each child is spawned once.
LEMMA NextOrder ==
  ASSUME TypeOK, Order, [Next]_vars PROVE Order'
<1> USE CodeFacts DEF TypeOK, RunTypes, WorldTypes, Children, Order
<1>1. CASE SpawnIndexer \/ InstallHandlers \/ SpawnServer
  <2>1. CASE SpawnIndexer
    BY <2>1 DEF SpawnIndexer, Goto, Spawn, RunUnchanged
  <2>2. CASE InstallHandlers
    BY <2>2 DEF InstallHandlers, Goto, WorldUnchanged, RunUnchanged
  <2>3. CASE SpawnServer
    BY <2>3 DEF SpawnServer, Goto, Spawn, RunUnchanged
  <2> QED  BY <1>1, <2>1, <2>2, <2>3
<1>2. CASE ProbeIndex \/ CheckStopIndex \/ PollIndexer \/ IndexWaited
  <2>1. CASE ProbeIndex
    BY <2>1 DEF ProbeIndex, IndexReady, WorldUnchanged, RunUnchanged
  <2>2. CASE CheckStopIndex
    BY <2>2 DEF CheckStopIndex, WorldUnchanged, RunUnchanged
  <2>3. CASE PollIndexer
    BY <2>3 DEF PollIndexer, WorldUnchanged
  <2>4. CASE IndexWaited
    BY <2>4 DEF IndexWaited, LeaveWith, StopQuietly, WorldUnchanged
  <2> QED  BY <1>2, <2>1, <2>2, <2>3, <2>4
<1>3. CASE ProbeServer \/ CheckStopServer \/ PollServerStarting \/
      PollIndexerStarting \/ ServerWaited
  <2>1. CASE ProbeServer
    BY <2>1 DEF ProbeServer, WorldUnchanged, RunUnchanged
  <2>2. CASE CheckStopServer
    BY <2>2 DEF CheckStopServer, WorldUnchanged, RunUnchanged
  <2>3. CASE PollServerStarting
    BY <2>3 DEF PollServerStarting, WorldUnchanged
  <2>4. CASE PollIndexerStarting
    BY <2>4 DEF PollIndexerStarting, WorldUnchanged
  <2>5. CASE ServerWaited
    BY <2>5 DEF ServerWaited, LeaveWith, StopQuietly, WorldUnchanged
  <2> QED  BY <1>3, <2>1, <2>2, <2>3, <2>4, <2>5
<1>4. CASE CheckStopLoop \/ PollServer \/ LoopIndexer
  <2>1. CASE CheckStopLoop
    BY <2>1 DEF CheckStopLoop, StopQuietly, WorldUnchanged
  <2>2. CASE PollServer
    BY <2>2 DEF PollServer, Leave, WorldUnchanged
  <2>3. CASE LoopIndexer
    BY <2>3 DEF LoopIndexer, Leave, WorldUnchanged
  <2> QED  BY <1>4, <2>1, <2>2, <2>3
<1>5. CASE Restore
  BY <1>5 DEF Restore, Goto, WorldUnchanged, RunUnchanged
<1>6. CASE Terminated \/ CtrlC
  <2>1. CASE Terminated
    BY <2>1 DEF Terminated, Signalled, Ended, RunUnchanged
  <2>2. CASE CtrlC
    BY <2>2 DEF CtrlC, Signalled, Ended, RunUnchanged
  <2> QED  BY <1>6, <2>1, <2>2
<1>7. CASE StoreGrows \/ Works \/ ServerBinds
  <2>1. CASE StoreGrows
    BY <2>1 DEF StoreGrows, RunUnchanged
  <2>2. CASE Works
    BY <2>2 DEF Works, RunUnchanged
  <2>3. CASE ServerBinds
    BY <2>3 DEF ServerBinds, RunUnchanged
  <2> QED  BY <1>7, <2>1, <2>2, <2>3
<1>8. ASSUME NEW c \in Children, TermStart(c) PROVE Order'
  <2>1. CASE child[c] = "running"
    BY <1>8, <2>1 DEF TermStart, Term, Waiting, Send, RunUnchanged
  <2>2. CASE child[c] # "running"
    BY <1>8, <2>2 DEF TermStart, Term, After, RunUnchanged
  <2> QED  BY <2>1, <2>2
<1>9. ASSUME NEW c \in Children, TermExpires(c) PROVE Order'
  BY <1>9 DEF TermExpires, Waiting, Send, RunUnchanged
<1>10. ASSUME NEW c \in Children, TermDone(c) PROVE Order'
  BY <1>10 DEF TermDone, Waiting, After, Gone, WorldUnchanged, RunUnchanged
<1>11. ASSUME NEW c \in Children, ChildEnds(c) PROVE Order'
  <2>1. PICK x \in Codes : Dies(c, x)
    BY <1>11, ChildDies
  <2> QED  BY <1>11, <2>1, ChildEndsHow DEF Dies, RunUnchanged
<1>12. ASSUME NEW c \in Children, ChildStops(c) PROVE Order'
  <2>1. PICK x \in Codes : Dies(c, x)
    BY <1>12, ChildDies
  <2> QED  BY <1>12, <2>1, ChildStopsHow DEF Dies, RunUnchanged
<1>13. CASE UNCHANGED vars
  BY <1>13 DEF vars, Gone
<1> QED
  BY <1>1, <1>2, <1>3, <1>4, <1>5, <1>6, <1>7, <1>8, <1>9, <1>10, <1>11,
      <1>12, <1>13 DEF Next, Run, Finished

\* What the waits return.
LEMMA NextWaits ==
  ASSUME TypeOK, Exits, Waits, Order, [Next]_vars PROVE Waits'
<1> USE CodeFacts DEF TypeOK, RunTypes, WorldTypes, Children, Exits, Waits, Order, Queryable, Teardown
<1>1. CASE SpawnIndexer \/ InstallHandlers \/ SpawnServer
  <2>1. CASE SpawnIndexer
    BY <2>1 DEF SpawnIndexer, Goto, Spawn, RunUnchanged
  <2>2. CASE InstallHandlers
    BY <2>2 DEF InstallHandlers, Goto, WorldUnchanged, RunUnchanged
  <2>3. CASE SpawnServer
    BY <2>3 DEF SpawnServer, Goto, Spawn, RunUnchanged
  <2> QED  BY <1>1, <2>1, <2>2, <2>3
<1>2. CASE ProbeIndex \/ CheckStopIndex \/ PollIndexer \/ IndexWaited
  <2>1. CASE ProbeIndex
    BY <2>1 DEF ProbeIndex, IndexReady, WorldUnchanged, RunUnchanged
  <2>2. CASE CheckStopIndex
    BY <2>2 DEF CheckStopIndex, WorldUnchanged, RunUnchanged
  <2>3. CASE PollIndexer
    BY <2>3 DEF PollIndexer, WorldUnchanged
  <2>4. CASE IndexWaited
    BY <2>4 DEF IndexWaited, LeaveWith, StopQuietly, WorldUnchanged
  <2> QED  BY <1>2, <2>1, <2>2, <2>3, <2>4
<1>3. CASE ProbeServer \/ CheckStopServer \/ PollServerStarting \/
      PollIndexerStarting \/ ServerWaited
  <2>1. CASE ProbeServer
    BY <2>1 DEF ProbeServer, WorldUnchanged, RunUnchanged
  <2>2. CASE CheckStopServer
    BY <2>2 DEF CheckStopServer, WorldUnchanged, RunUnchanged
  <2>3. CASE PollServerStarting
    BY <2>3 DEF PollServerStarting, WorldUnchanged
  <2>4. CASE PollIndexerStarting
    BY <2>4 DEF PollIndexerStarting, WorldUnchanged
  <2>5. CASE ServerWaited
    BY <2>5 DEF ServerWaited, LeaveWith, StopQuietly, WorldUnchanged
  <2> QED  BY <1>3, <2>1, <2>2, <2>3, <2>4, <2>5
<1>4. CASE CheckStopLoop \/ PollServer \/ LoopIndexer
  <2>1. CASE CheckStopLoop
    BY <2>1 DEF CheckStopLoop, StopQuietly, WorldUnchanged
  <2>2. CASE PollServer
    BY <2>2 DEF PollServer, Leave, WorldUnchanged
  <2>3. CASE LoopIndexer
    BY <2>3 DEF LoopIndexer, Leave, WorldUnchanged
  <2> QED  BY <1>4, <2>1, <2>2, <2>3
<1>5. CASE Restore
  BY <1>5 DEF Restore, Goto, WorldUnchanged, RunUnchanged
<1>6. CASE Terminated \/ CtrlC
  <2>1. CASE Terminated
    BY <2>1 DEF Terminated, Signalled, Ended, RunUnchanged
  <2>2. CASE CtrlC
    BY <2>2 DEF CtrlC, Signalled, Ended, RunUnchanged
  <2> QED  BY <1>6, <2>1, <2>2
<1>7. CASE StoreGrows \/ Works \/ ServerBinds
  <2>1. CASE StoreGrows
    BY <2>1 DEF StoreGrows, RunUnchanged
  <2>2. CASE Works
    BY <2>2 DEF Works, RunUnchanged
  <2>3. CASE ServerBinds
    BY <2>3 DEF ServerBinds, RunUnchanged
  <2> QED  BY <1>7, <2>1, <2>2, <2>3
<1>8. ASSUME NEW c \in Children, TermStart(c) PROVE Waits'
  <2>1. CASE child[c] = "running"
    BY <1>8, <2>1 DEF TermStart, Term, Waiting, Send, RunUnchanged
  <2>2. CASE child[c] # "running"
    BY <1>8, <2>2 DEF TermStart, Term, After, RunUnchanged
  <2> QED  BY <2>1, <2>2
<1>9. ASSUME NEW c \in Children, TermExpires(c) PROVE Waits'
  BY <1>9 DEF TermExpires, Waiting, Send, RunUnchanged
<1>10. ASSUME NEW c \in Children, TermDone(c) PROVE Waits'
  BY <1>10 DEF TermDone, Waiting, After, Gone, WorldUnchanged, RunUnchanged
<1>11. ASSUME NEW c \in Children, ChildEnds(c) PROVE Waits'
  <2>1. PICK x \in Codes : Dies(c, x)
    BY <1>11, ChildDies
  <2> QED  BY <1>11, <2>1, ChildEndsHow DEF Dies, RunUnchanged
<1>12. ASSUME NEW c \in Children, ChildStops(c) PROVE Waits'
  <2>1. PICK x \in Codes : Dies(c, x)
    BY <1>12, ChildDies
  <2> QED  BY <1>12, <2>1, ChildStopsHow DEF Dies, RunUnchanged
<1>13. CASE UNCHANGED vars
  BY <1>13 DEF vars, Gone
<1> QED
  BY <1>1, <1>2, <1>3, <1>4, <1>5, <1>6, <1>7, <1>8, <1>9, <1>10, <1>11,
      <1>12, <1>13 DEF Next, Run, Finished

\* The result is settled when the teardown begins.
LEMMA NextResult ==
  ASSUME TypeOK, Exits, Order, Waits, DeadForCause, Result, [Next]_vars PROVE Result'
<1> USE CodeFacts DEF TypeOK, RunTypes, WorldTypes, Children, Exits, Order, Waits, DeadForCause, Result, Queryable, Teardown, Causes
<1>1. CASE SpawnIndexer
  BY <1>1 DEF SpawnIndexer, Goto, Spawn, RunUnchanged
<1>2. CASE InstallHandlers
  BY <1>2 DEF InstallHandlers, Goto, WorldUnchanged, RunUnchanged
<1>3. CASE SpawnServer
  BY <1>3 DEF SpawnServer, Goto, Spawn, RunUnchanged
<1>4. CASE ProbeIndex \/ CheckStopIndex \/ PollIndexer \/ IndexWaited
  <2>1. CASE ProbeIndex
    BY <2>1 DEF ProbeIndex, IndexReady, WorldUnchanged, RunUnchanged
  <2>2. CASE CheckStopIndex
    BY <2>2 DEF CheckStopIndex, WorldUnchanged, RunUnchanged
  <2>3. CASE PollIndexer
    BY <2>3 DEF PollIndexer, WorldUnchanged
  <2>4. CASE IndexWaited
    BY <2>4 DEF IndexWaited, LeaveWith, StopQuietly, WorldUnchanged
  <2> QED  BY <1>4, <2>1, <2>2, <2>3, <2>4
<1>5. CASE ProbeServer \/ CheckStopServer \/ PollServerStarting \/
      PollIndexerStarting \/ ServerWaited
  <2>1. CASE ProbeServer
    BY <2>1 DEF ProbeServer, WorldUnchanged, RunUnchanged
  <2>2. CASE CheckStopServer
    BY <2>2 DEF CheckStopServer, WorldUnchanged, RunUnchanged
  <2>3. CASE PollServerStarting
    BY <2>3 DEF PollServerStarting, WorldUnchanged
  <2>4. CASE PollIndexerStarting
    BY <2>4 DEF PollIndexerStarting, WorldUnchanged
  <2>5. CASE ServerWaited
    BY <2>5 DEF ServerWaited, LeaveWith, StopQuietly, WorldUnchanged
  <2> QED  BY <1>5, <2>1, <2>2, <2>3, <2>4, <2>5
<1>6. CASE CheckStopLoop \/ PollServer \/ LoopIndexer
  <2>1. CASE CheckStopLoop
    BY <2>1 DEF CheckStopLoop, StopQuietly, WorldUnchanged
  <2>2. CASE PollServer
    BY <2>2 DEF PollServer, Leave, WorldUnchanged
  <2>3. CASE LoopIndexer
    BY <2>3 DEF LoopIndexer, Leave, WorldUnchanged
  <2> QED  BY <1>6, <2>1, <2>2, <2>3
<1>7. CASE Restore
  BY <1>7 DEF Restore, Goto, WorldUnchanged, RunUnchanged
<1>8. CASE Terminated \/ CtrlC
  <2>1. CASE Terminated
    BY <2>1 DEF Terminated, Signalled, Ended, RunUnchanged
  <2>2. CASE CtrlC
    BY <2>2 DEF CtrlC, Signalled, Ended, RunUnchanged
  <2> QED  BY <1>8, <2>1, <2>2
<1>9. CASE StoreGrows \/ Works \/ ServerBinds
  <2>1. CASE StoreGrows
    BY <2>1 DEF StoreGrows, RunUnchanged
  <2>2. CASE Works
    BY <2>2 DEF Works, RunUnchanged
  <2>3. CASE ServerBinds
    BY <2>3 DEF ServerBinds, RunUnchanged
  <2> QED  BY <1>9, <2>1, <2>2, <2>3
<1>10. ASSUME NEW c \in Children, TermStart(c) PROVE Result'
  <2>1. /\ pc \in Teardown
        /\ UNCHANGED <<child, code, shutdown, crashed, result, blamed>>
    BY <1>10, TermStartHow
  <2> QED  BY <2>1 DEF Result
<1>11. ASSUME NEW c \in Children, TermExpires(c) PROVE Result'
  <2>1. pc \in Teardown /\ UNCHANGED <<child, code, shutdown, crashed, result, blamed>>
    BY <1>11 DEF TermExpires, Waiting, RunUnchanged
  <2> QED  BY <2>1 DEF Result
<1>12. ASSUME NEW c \in Children, TermDone(c) PROVE Result'
  <2>1. pc \in Teardown /\ UNCHANGED <<child, code, shutdown, crashed, result, blamed>>
    BY <1>12 DEF TermDone, Waiting, WorldUnchanged, RunUnchanged
  <2> QED  BY <2>1 DEF Result
<1>13. ASSUME NEW c \in Children, ChildEnds(c) PROVE Result'
  <2>1. PICK x \in Codes : Dies(c, x)
    BY <1>13, ChildDies
  <2>2. \A d \in Children : child[d] = "dead" => child'[d] = "dead" /\ code'[d] = code[d]
    BY <2>1 DEF Dies
  <2>3. pc' = pc /\ shutdown' = shutdown /\ result' = result /\ blamed' = blamed /\ crashed \subseteq crashed'
    BY <1>13, <2>1, ChildEndsHow DEF Dies, RunUnchanged
  <2>4. pc \in Teardown /\ result = 0 => (shutdown \/ code["server"] = 0)'
    BY <2>2, <2>3, CodeFacts
  <2>5. ASSUME pc \in Teardown, result # 0
        PROVE  \E d \in Children : child'[d] = "dead" /\ code'[d] = result /\ (d \in crashed' \/ shutdown')
    <3>1. PICK d \in Children : child[d] = "dead" /\ code[d] = result /\ (d \in crashed \/ shutdown)
      BY <2>5
    <3> QED  BY <3>1, <2>2, <2>3
  <2> QED  BY <2>2, <2>3, <2>4, <2>5
<1>14. ASSUME NEW c \in Children, ChildStops(c) PROVE Result'
  <2>1. PICK x \in Codes : Dies(c, x)
    BY <1>14, ChildDies
  <2>2. \A d \in Children : child[d] = "dead" => child'[d] = "dead" /\ code'[d] = code[d]
    BY <2>1 DEF Dies
  <2>3. pc' = pc /\ shutdown' = shutdown /\ result' = result /\ blamed' = blamed /\ crashed \subseteq crashed'
    BY <1>14, <2>1, ChildStopsHow DEF Dies, RunUnchanged
  <2>4. pc \in Teardown /\ result = 0 => (shutdown \/ code["server"] = 0)'
    BY <2>2, <2>3, CodeFacts
  <2>5. ASSUME pc \in Teardown, result # 0
        PROVE  \E d \in Children : child'[d] = "dead" /\ code'[d] = result /\ (d \in crashed' \/ shutdown')
    <3>1. PICK d \in Children : child[d] = "dead" /\ code[d] = result /\ (d \in crashed \/ shutdown)
      BY <2>5
    <3> QED  BY <3>1, <2>2, <2>3
  <2> QED  BY <2>2, <2>3, <2>4, <2>5
<1>15. CASE UNCHANGED vars
  BY <1>15 DEF vars, Gone
<1> QED
  BY <1>1, <1>2, <1>3, <1>4, <1>5, <1>6, <1>7, <1>8, <1>9, <1>10, <1>11,
      <1>12, <1>13, <1>14, <1>15 DEF Next, Run, Finished

\* A child that is gone stays gone.
LEMMA NextStopped ==
  ASSUME TypeOK, Order, Stopped, [Next]_vars PROVE Stopped'
<1> USE CodeFacts DEF TypeOK, RunTypes, WorldTypes, Children, Order, Stopped, Gone
<1>1. CASE SpawnIndexer \/ InstallHandlers \/ SpawnServer
  <2>1. CASE SpawnIndexer
    BY <2>1 DEF SpawnIndexer, Goto, Spawn, RunUnchanged
  <2>2. CASE InstallHandlers
    BY <2>2 DEF InstallHandlers, Goto, WorldUnchanged, RunUnchanged
  <2>3. CASE SpawnServer
    BY <2>3 DEF SpawnServer, Goto, Spawn, RunUnchanged
  <2> QED  BY <1>1, <2>1, <2>2, <2>3
<1>2. CASE ProbeIndex \/ CheckStopIndex \/ PollIndexer \/ IndexWaited
  <2>1. CASE ProbeIndex
    BY <2>1 DEF ProbeIndex, IndexReady, WorldUnchanged, RunUnchanged
  <2>2. CASE CheckStopIndex
    BY <2>2 DEF CheckStopIndex, WorldUnchanged, RunUnchanged
  <2>3. CASE PollIndexer
    BY <2>3 DEF PollIndexer, WorldUnchanged
  <2>4. CASE IndexWaited
    BY <2>4 DEF IndexWaited, LeaveWith, StopQuietly, WorldUnchanged
  <2> QED  BY <1>2, <2>1, <2>2, <2>3, <2>4
<1>3. CASE ProbeServer \/ CheckStopServer \/ PollServerStarting \/
      PollIndexerStarting \/ ServerWaited
  <2>1. CASE ProbeServer
    BY <2>1 DEF ProbeServer, WorldUnchanged, RunUnchanged
  <2>2. CASE CheckStopServer
    BY <2>2 DEF CheckStopServer, WorldUnchanged, RunUnchanged
  <2>3. CASE PollServerStarting
    BY <2>3 DEF PollServerStarting, WorldUnchanged
  <2>4. CASE PollIndexerStarting
    BY <2>4 DEF PollIndexerStarting, WorldUnchanged
  <2>5. CASE ServerWaited
    BY <2>5 DEF ServerWaited, LeaveWith, StopQuietly, WorldUnchanged
  <2> QED  BY <1>3, <2>1, <2>2, <2>3, <2>4, <2>5
<1>4. CASE CheckStopLoop \/ PollServer \/ LoopIndexer
  <2>1. CASE CheckStopLoop
    BY <2>1 DEF CheckStopLoop, StopQuietly, WorldUnchanged
  <2>2. CASE PollServer
    BY <2>2 DEF PollServer, Leave, WorldUnchanged
  <2>3. CASE LoopIndexer
    BY <2>3 DEF LoopIndexer, Leave, WorldUnchanged
  <2> QED  BY <1>4, <2>1, <2>2, <2>3
<1>5. CASE Restore
  BY <1>5 DEF Restore, Goto, WorldUnchanged, RunUnchanged
<1>6. CASE Terminated \/ CtrlC
  <2>1. CASE Terminated
    BY <2>1 DEF Terminated, Signalled, Ended, RunUnchanged
  <2>2. CASE CtrlC
    BY <2>2 DEF CtrlC, Signalled, Ended, RunUnchanged
  <2> QED  BY <1>6, <2>1, <2>2
<1>7. CASE StoreGrows \/ Works \/ ServerBinds
  <2>1. CASE StoreGrows
    BY <2>1 DEF StoreGrows, RunUnchanged
  <2>2. CASE Works
    BY <2>2 DEF Works, RunUnchanged
  <2>3. CASE ServerBinds
    BY <2>3 DEF ServerBinds, RunUnchanged
  <2> QED  BY <1>7, <2>1, <2>2, <2>3
<1>8. ASSUME NEW c \in Children, TermStart(c) PROVE Stopped'
  <2>1. CASE child[c] = "running"
    BY <1>8, <2>1 DEF TermStart, Term, Waiting, Send, RunUnchanged
  <2>2. CASE child[c] # "running"
    BY <1>8, <2>2 DEF TermStart, Term, After, RunUnchanged
  <2> QED  BY <2>1, <2>2
<1>9. ASSUME NEW c \in Children, TermExpires(c) PROVE Stopped'
  BY <1>9 DEF TermExpires, Waiting, Send, RunUnchanged
<1>10. ASSUME NEW c \in Children, TermDone(c) PROVE Stopped'
  BY <1>10 DEF TermDone, Waiting, After, Gone, WorldUnchanged, RunUnchanged
<1>11. ASSUME NEW c \in Children, ChildEnds(c) PROVE Stopped'
  <2>1. PICK x \in Codes : Dies(c, x)
    BY <1>11, ChildDies
  <2> QED  BY <1>11, <2>1, ChildEndsHow DEF Dies, RunUnchanged
<1>12. ASSUME NEW c \in Children, ChildStops(c) PROVE Stopped'
  <2>1. PICK x \in Codes : Dies(c, x)
    BY <1>12, ChildDies
  <2> QED  BY <1>12, <2>1, ChildStopsHow DEF Dies, RunUnchanged
<1>13. CASE UNCHANGED vars
  BY <1>13 DEF vars, Gone
<1> QED
  BY <1>1, <1>2, <1>3, <1>4, <1>5, <1>6, <1>7, <1>8, <1>9, <1>10, <1>11,
      <1>12, <1>13 DEF Next, Run, Finished

\* The inductive invariant.
IInv ==
    /\ TypeOK
    /\ Exits /\ AskedForCause /\ DeadForCause /\ Order /\ Waits /\ Result /\ Stopped

\* It holds at the start.
LEMMA InitInv == Init => IInv
<1> SUFFICES ASSUME Init PROVE IInv
  OBVIOUS
<1>1. TypeOK
  BY InitTypes
<1>2. Exits /\ Order /\ Stopped /\ Waits
  BY DEF Init, Exits, Order, Stopped, Waits, Teardown, Children
<1>3. AskedForCause /\ DeadForCause /\ Result
  BY DEF Init, AskedForCause, DeadForCause, Result, Teardown, Children
<1> QED  BY <1>1, <1>2, <1>3 DEF IInv

\* Every step keeps it.
LEMMA NextInv == IInv /\ [Next]_vars => IInv'
  BY NextTypes, NextExits, NextAskedForCause, NextDeadForCause, NextOrder, NextWaits,
     NextResult, NextStopped DEF IInv

\* And so it is an invariant.
THEOREM Invariance == Spec => []IInv
  BY InitInv, NextInv, PTL DEF Spec

\* For any number of signals, at any moments: when run() returns, neither
\* child is running.
THEOREM NothingLeftRunning == Spec => []ChildrenStopped
<1>1. IInv => ChildrenStopped
  BY DEF IInv, Stopped, ChildrenStopped, Children
<1> QED  BY <1>1, Invariance, PTL

\* A child is only stopped for a signal, an end of the server or a failure
\* of the indexer.
THEOREM StoppedForACause == Spec => []TeardownJustified
<1>1. IInv => TeardownJustified
  BY DEF IInv, AskedForCause, Causes, TeardownJustified
<1> QED  BY <1>1, Invariance, PTL

\* The exit code of the supervisor is 0 or that of a child that had ended
\* before the teardown, and the report names a child that is dead.
THEOREM ExitCode == Spec => []ExitTells
<1>1. IInv => ExitTells
  BY DEF IInv, TypeOK, RunTypes, Result, Teardown, ExitTells, Gone
<1> QED  BY <1>1, Invariance, PTL

\* Without a timeout the server is only started over an index.
THEOREM ServerAfterIndex == Spec => []ServerHeldBack
<1>1. IInv => ServerHeldBack
  BY DEF IInv, Waits, Queryable, ServerHeldBack
<1> QED  BY <1>1, Invariance, PTL

-----------------------------------------------------------------------------
(* The indexer with several workers: types, and when the group is killed.  *)

\* The spawner and the workers make up the group.
LEMMA GroupFacts == Spawner \in Group /\ Workers \subseteq Group /\ Group = Workers \cup {Spawner}
  BY DEF Group

\* The locals start with their types.
LEMMA SpawnInitTypes == SpawnInit => SpawnTypeOK
<1> SUFFICES ASSUME SpawnInit PROVE SpawnTypeOK
  OBVIOUS
<1>1. age \in 0..KillGrace /\ stopAge \in 0..NotAsked
  BY SpawnAssumption DEF SpawnInit, NotAsked
<1>2. proc \in [Group -> {"none", "running", "dead"}]
  BY DEF SpawnInit
<1>3. sig \in [Group -> {"no", "stop", "kill"}]
  BY DEF SpawnInit
<1> QED  BY <1>1, <1>2, <1>3 DEF SpawnInit, SpawnTypeOK

\* os.killpg keeps the types of the signals.
LEMMA KillGroupTypes ==
  ASSUME SpawnTypeOK, NEW s \in {"stop", "kill"}, KillGroup(s)
  PROVE  sig' \in [Group -> {"no", "stop", "kill"}]
  BY DEF SpawnTypeOK, KillGroup

\* Every step keeps the types.
LEMMA SpawnNextTypes ==
  ASSUME SpawnTypeOK, [SpawnNext]_spawnVars PROVE SpawnTypeOK'
<1> USE SpawnAssumption DEF SpawnTypeOK, NotAsked
<1>1. CASE InstallForwarding \/ Return \/ DiesUnprepared \/ KillParent
  BY <1>1 DEF InstallForwarding, Return, DiesUnprepared, KillParent
<1>8. CASE Popen
  BY <1>8, GroupFacts DEF Popen
<1>9. CASE Arm
  BY <1>9 DEF Arm
<1>2. CASE Escalate
  BY <1>2, KillGroupTypes DEF Escalate
<1>3. CASE Forward
  BY <1>3, KillGroupTypes DEF Forward, Asked
<1>4. CASE Tick
  BY <1>4 DEF Tick, Waited
<1>5. ASSUME NEW w \in Workers, SpawnWorker(w) PROVE SpawnTypeOK'
  BY <1>5, GroupFacts DEF SpawnWorker
<1>6. ASSUME NEW p \in Group, Ends(p) \/ Stops(p) PROVE SpawnTypeOK'
  BY <1>6 DEF Ends, Stops, Died
<1>7. CASE UNCHANGED spawnVars
  BY <1>7 DEF spawnVars
<1> QED
  BY <1>1, <1>2, <1>3, <1>4, <1>5, <1>6, <1>7, <1>8, <1>9 DEF SpawnNext, ParentSteps, GroupFinished

\* The locals of the parent and the group keep their types.
THEOREM SpawnTypesCorrect == SpawnSpec => []SpawnTypeOK
  BY SpawnInitTypes, SpawnNextTypes, PTL DEF SpawnSpec

\* Before the escalation nothing was sent SIGKILL.  After it the timer stands
\* at the whole grace, everything alive was sent SIGKILL, and the spawner,
\* which was, starts nothing more.
GroupInv ==
    /\ SpawnTypeOK
    /\ armed => forwarded /\ parent \notin {"start", "popened"}
    /\ parent = "reap" => armed /\ age = KillGrace /\ sig[Spawner] = "kill"
    /\ (\E p \in Group : sig[p] = "kill") => armed /\ age = KillGrace /\ sig[Spawner] = "kill"
                                               /\ parent \in {"reap", "returned", "killed"}
    /\ sig[Spawner] = "kill" => \A p \in Group : Running(p) => sig[p] = "kill"

\* The invariant holds at the start.
LEMMA GroupInvInit == SpawnInit => GroupInv
  BY SpawnInitTypes, GroupFacts DEF SpawnInit, GroupInv

\* And every step keeps it.
LEMMA GroupInvNext ==
  ASSUME GroupInv, [SpawnNext]_spawnVars PROVE GroupInv'
<1> USE SpawnAssumption, GroupFacts DEF GroupInv, Running
<1>0. SpawnTypeOK'
  BY SpawnNextTypes
<1>1. CASE Popen \/ InstallForwarding \/ Arm \/ Return \/ DiesUnprepared \/ KillParent
  BY <1>0, <1>1 DEF Popen, InstallForwarding, Arm, Return, DiesUnprepared, KillParent, SpawnTypeOK
<1>2. CASE Escalate
  BY <1>0, <1>2 DEF Escalate, KillGroup, SpawnTypeOK
<1>3. CASE Forward
  BY <1>0, <1>3 DEF Forward, KillGroup, SpawnTypeOK
<1>4. CASE Tick
  BY <1>0, <1>4 DEF Tick, Waited, SpawnTypeOK
<1>5. ASSUME NEW w \in Workers, SpawnWorker(w) PROVE GroupInv'
  BY <1>0, <1>5 DEF SpawnWorker, SpawnTypeOK
<1>6. ASSUME NEW p \in Group, Ends(p) \/ Stops(p) PROVE GroupInv'
  BY <1>0, <1>6 DEF Ends, Stops, Died, SpawnTypeOK
<1>7. CASE UNCHANGED spawnVars
  BY <1>0, <1>7 DEF spawnVars
<1> QED
  BY <1>1, <1>2, <1>3, <1>4, <1>5, <1>6, <1>7 DEF SpawnNext, ParentSteps, GroupFinished

\* For any number of workers and signals, the group is only killed after a
\* stop was forwarded and the whole grace has passed, and then all of it.
THEOREM GraceGuarantee == SpawnSpec => []KilledAfterGrace
<1>1. GroupInv => KilledAfterGrace
  BY GroupFacts DEF GroupInv, KilledAfterGrace
<1> QED  BY <1>1, GroupInvInit, GroupInvNext, PTL DEF SpawnSpec
=============================================================================
