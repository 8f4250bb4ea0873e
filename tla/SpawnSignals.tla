---------------------------- MODULE SpawnSignals ----------------------------
(***************************************************************************)
(* The indexer with several workers (indexer/main.py): the parent process  *)
(* runs `pathway spawn` in a session of its own, waits for it, and forwards*)
(* SIGTERM and SIGINT to the whole process group; after a grace period it  *)
(* sends SIGKILL instead.                                                  *)
(*                                                                         *)
(* Whoever stops the parent (`serviette up`, systemd, docker) has a grace  *)
(* period too, after which it kills the parent and nobody else.            *)
(***************************************************************************)
EXTENDS Naturals

CONSTANTS
    Workers,       \* the worker processes
    Spawner,       \* `pathway spawn`, their parent and the group's leader
    KillGrace,     \* _KILL_GRACE of the parent, in ticks of the clock
    StopGrace      \* the grace of whoever stops the parent

Group == Workers \cup {Spawner}

ASSUME SpawnAssumption ==
    /\ Spawner \notin Workers
    /\ KillGrace \in Nat \ {0}
    /\ StopGrace \in Nat \ {0}

VARIABLES
    parent,     \* where it is: start, popened, wait, reap, returned or killed
    forwarded,  \* `forwarded` is not empty
    armed,      \* kill_at is set
    age,        \* ticks since it was
    stopAge,    \* ticks since the parent was asked to stop, or NotAsked
    proc,       \* of each process of the group: none, running or dead
    sig         \* the strongest signal it was sent

spawnVars == <<parent, forwarded, armed, age, stopAge, proc, sig>>

NotAsked == StopGrace + 1
ParentGone == parent \in {"returned", "killed"}
Running(p) == proc[p] = "running"

-----------------------------------------------------------------------------
(* The parent: run_forwarding_signals.                                     *)

\* Popen with start_new_session.
Popen ==
    /\ parent = "start"
    /\ parent' = "popened"
    /\ proc' = [proc EXCEPT ![Spawner] = "running"]
    /\ UNCHANGED <<forwarded, armed, age, stopAge, sig>>

InstallForwarding ==
    /\ parent = "popened"
    /\ parent' = "wait"
    /\ UNCHANGED <<forwarded, armed, age, stopAge, proc, sig>>

\* os.killpg: every process the group has at this moment.
KillGroup(s) ==
    sig' = [p \in Group |-> IF Running(p) /\ sig[p] # "kill" THEN s ELSE sig[p]]

\* wait(0.5) times out after a signal was forwarded: the grace begins.
Arm ==
    /\ parent = "wait" /\ Running(Spawner)
    /\ forwarded /\ ~armed
    /\ armed' = TRUE /\ age' = 0
    /\ UNCHANGED <<parent, forwarded, stopAge, proc, sig>>

\* Mutated form: only the spawner is killed.
Escalate_LeaderOnly ==
    /\ parent = "wait" /\ Running(Spawner)
    /\ armed /\ age = KillGrace
    /\ sig' = [sig EXCEPT ![Spawner] = "kill"]
    /\ parent' = "reap"
    /\ UNCHANGED <<forwarded, armed, age, stopAge, proc>>

\* Mutated form: the first timeout after a signal kills.
Escalate_AtOnce ==
    /\ parent = "wait" /\ Running(Spawner)
    /\ armed
    /\ KillGroup("kill")
    /\ parent' = "reap"
    /\ UNCHANGED <<forwarded, armed, age, stopAge, proc>>

\* The grace has passed: SIGKILL for the group, then wait() without timeout.
Escalate ==
    /\ parent = "wait" /\ Running(Spawner)
    /\ armed /\ age = KillGrace
    /\ KillGroup("kill")
    /\ parent' = "reap"
    /\ UNCHANGED <<forwarded, armed, age, stopAge, proc>>

\* wait() returns: the spawner, and only it, has been waited for.
Return ==
    /\ parent \in {"wait", "reap"}
    /\ proc[Spawner] = "dead"
    /\ parent' = "returned"
    /\ UNCHANGED <<forwarded, armed, age, stopAge, proc, sig>>

\* The stopper's grace begins with the first stop.
Asked == stopAge' = IF stopAge = NotAsked THEN 0 ELSE stopAge

\* Mutated form: every signal restarts the grace.
Forward_Rearms ==
    /\ parent \in {"wait", "reap"}
    /\ forwarded' = TRUE
    /\ armed' = FALSE
    /\ KillGroup("stop")
    /\ Asked
    /\ UNCHANGED <<parent, age, proc>>

\* SIGTERM or SIGINT with the handler installed, any number of times.
Forward ==
    /\ parent \in {"wait", "reap"}
    /\ forwarded' = TRUE
    /\ KillGroup("stop")
    /\ Asked
    /\ UNCHANGED <<parent, armed, age, proc>>

\* And without it: the parent dies, what it spawned does not.
DiesUnprepared ==
    /\ parent \in {"start", "popened"}
    /\ parent' = "killed"
    /\ UNCHANGED <<forwarded, armed, age, stopAge, proc, sig>>

-----------------------------------------------------------------------------
(* Whoever stops the parent, for instance _terminate of `serviette up`.    *)

Overdue == ~ParentGone /\ stopAge = StopGrace

KillParent ==
    /\ Overdue
    /\ parent' = "killed"
    /\ UNCHANGED <<forwarded, armed, age, stopAge, proc, sig>>

\* Ticks of the armed timer, not counted beyond the grace.
Waited == IF armed /\ age < KillGrace THEN age + 1 ELSE age

\* Time passes.  The timers are polled many times a tick, so none is late.
Tick ==
    /\ ~Overdue
    /\ ~(parent = "wait" /\ Running(Spawner) /\ forwarded /\ (~armed \/ age = KillGrace))
    /\ age' = Waited
    /\ stopAge' = IF stopAge < StopGrace THEN stopAge + 1 ELSE stopAge
    /\ <<age', stopAge'>> # <<age, stopAge>>
    /\ UNCHANGED <<parent, forwarded, armed, proc, sig>>

-----------------------------------------------------------------------------
(* The group.                                                              *)

\* `pathway spawn` starts its workers one by one.
SpawnWorker(w) ==
    /\ Running(Spawner) /\ sig[Spawner] # "kill"
    /\ proc[w] = "none"
    /\ proc' = [proc EXCEPT ![w] = "running"]
    /\ UNCHANGED <<parent, forwarded, armed, age, stopAge, sig>>

Died(p) ==
    /\ proc' = [proc EXCEPT ![p] = "dead"]
    /\ UNCHANGED <<parent, forwarded, armed, age, stopAge, sig>>

\* A worker finishes or fails; the spawner ends after its workers.
Ends(p) ==
    /\ Running(p) /\ sig[p] = "no"
    /\ p = Spawner => \A w \in Workers : proc[w] = "dead"
    /\ Died(p)

\* A process that was signalled stops, sooner or later or, when the signal
\* is not SIGKILL, never.
Stops(p) == Running(p) /\ sig[p] # "no" /\ Died(p)

-----------------------------------------------------------------------------
SpawnInit ==
    /\ parent = "start"
    /\ forwarded = FALSE /\ armed = FALSE
    /\ age = 0 /\ stopAge = NotAsked
    /\ proc = [p \in Group |-> "none"]
    /\ sig = [p \in Group |-> "no"]

ParentSteps == Popen \/ InstallForwarding \/ Arm \/ Escalate \/ Return

\* The parent is gone and so is its group.
GroupFinished ==
    /\ ParentGone /\ \A p \in Group : ~Running(p)
    /\ UNCHANGED spawnVars

SpawnNext ==
    \/ ParentSteps
    \/ Forward \/ DiesUnprepared
    \/ KillParent \/ Tick
    \/ \E w \in Workers : SpawnWorker(w)
    \/ \E p \in Group : Ends(p) \/ Stops(p)
    \/ GroupFinished

SpawnSpec == SpawnInit /\ [][SpawnNext]_spawnVars

\* The parent runs, time passes, and SIGKILL kills.
SpawnFairness ==
    /\ WF_spawnVars(ParentSteps) /\ WF_spawnVars(Tick) /\ WF_spawnVars(KillParent)
    /\ \A p \in Group : WF_spawnVars(sig[p] = "kill" /\ Stops(p))

FairSpawnSpec == SpawnSpec /\ SpawnFairness

-----------------------------------------------------------------------------
(* What the code is expected to guarantee.                                 *)

\* Types of the parent's locals and of the group.
SpawnTypeOK ==
    /\ parent \in {"start", "popened", "wait", "reap", "returned", "killed"}
    /\ forwarded \in BOOLEAN /\ armed \in BOOLEAN
    /\ age \in 0..KillGrace /\ stopAge \in 0..NotAsked
    /\ proc \in [Group -> {"none", "running", "dead"}]
    /\ sig \in [Group -> {"no", "stop", "kill"}]

\* SIGKILL is sent only after a stop was forwarded and the whole grace has
\* passed, however many signals came, and what is alive after it was sent it.
KilledAfterGrace ==
    (\E p \in Group : sig[p] = "kill") =>
        /\ forwarded /\ age = KillGrace
        /\ \A p \in Group : Running(p) => sig[p] = "kill"

\* A forwarded stop ends the spawner, though the spawner may ignore it and
\* the signal be repeated for ever.
SpawnerStopped == forwarded ~> proc[Spawner] = "dead"

\* After the escalation nothing of the group is left.
EscalationClears == (parent = "reap") ~> (\A p \in Group : ~Running(p))
=============================================================================
