------------------------------- MODULE Server -------------------------------
(***************************************************************************)
(* The life of a server process (server/main.py): start-up, requests, the  *)
(* poller and a background refresh that share one accessor, shutdown.      *)
(*                                                                         *)
(* An accessor (server/accessors) opens its client when it is first        *)
(* needed, with an await between the test of the field and what follows:   *)
(*   late   the field is assigned when the client is open (pgvector)       *)
(*   twice  the client is waited for, and then for what it has to look up; *)
(*          the field is assigned after the second wait (chroma)           *)
(*   lookup the client is there at once, only the look-up is waited for    *)
(*          (pinecone)                                                     *)
(*   early  it is assigned first and connected afterwards                  *)
(*          (milvus, weaviate)                                             *)
(*   sync   opening does not wait (qdrant, mongodb)                        *)
(*   file   every query opens the file in a thread of its own and waits    *)
(*          for the writer's lock (duckdb)                                 *)
(* A client is a number; what the queries return is IndexTracker's. What   *)
(* is looked up, a collection or an index, is there once it was created.   *)
(* uvicorn is external: at a signal it stops accepting, lets the requests  *)
(* end, and then runs the shutdown half of lifespan.                       *)
(***************************************************************************)
EXTENDS IndexTracker, Sequences

CONSTANTS
    Searches,     \* concurrent /retrieve requests
    Refresher,    \* the background refresh of the keyword index
    LockWait,     \* _LOCK_WAIT, in retries
    MaxLost,      \* bound: from here on nobody looks up what is not there
    MaxOutages,   \* bound: times the backend goes down
    Steady,       \* bound: kinds with which the store keeps its content and the
                  \* backend may go down; with the others it is the other way round
    Missing       \* bound: kinds whose store may not be there at the start, and
                  \* then does not go down

Users == Callers \cup Searches \cup {Refresher}
Kinds == {"late", "twice", "lookup", "early", "sync", "file"}
Lookups == {"twice", "lookup"}
Closers == <<"accessor", "embedder", "llm", "reranker">>
WarmUp == <<"embedder", "reranker", "prepare">>

ASSUME ServerAssumption ==
    /\ IsFiniteSet(Searches)
    /\ Searches \cap (Callers \cup {Refresher}) = {}
    /\ Refresher \notin Callers
    /\ Steady \subseteq Kinds
    /\ {"file"} \subseteq Missing /\ Missing \subseteq {"file"} \cup Lookups
    /\ LockWait \in Nat /\ MaxLost \in Nat /\ MaxOutages \in Nat

VARIABLES
    kind,       \* of the accessor
    phase,      \* starting, serving, draining, closing, exiting, stopped
    todo,       \* what the start or the shutdown has still to do, in order
    client,     \* the accessor's field, 0 for None
    opened,     \* clients opened so far, and the last of them
    live,       \* those not closed
    ready,      \* those that are connected
    lost,       \* ghost: those whose look-up failed
    stage,      \* of each user's call: out, opening, looking, connecting, trying, using
    holds,      \* the client its call works with, 0 for none
    tries,      \* of a reader that waits for the file's lock
    refreshing, \* the background task runs
    up,         \* the backend can be reached
    outages,
    file,       \* the database file, or what is looked up: absent, or table
    locked      \* the indexer holds it

callVars == <<stage, holds, tries>>
clientVars == <<client, opened, live, ready, lost>>
storeVars == <<up, outages, file, locked>>
lifeVars == <<kind, phase, todo, refreshing>>
vars == <<trackerVars, callVars, clientVars, storeVars, lifeVars>>

-----------------------------------------------------------------------------
(* A call of a user: what stands between it and an answer.                 *)

Sets(u, where, c) ==
    /\ stage' = [stage EXCEPT ![u] = where]
    /\ holds' = [holds EXCEPT ![u] = c]

\* The answer, or the exception, is passed on.
Leaves(u) == Sets(u, "out", 0) /\ tries' = [tries EXCEPT ![u] = 0]

\* The constructor of a client.
NewClient(c) ==
    /\ c = opened + 1
    /\ opened' = c
    /\ live' = live \cup {c}
    /\ lost' = lost

\* The field is tested and assigned with nothing in between.
FindsClient(u) ==
    /\ client # 0
    /\ Sets(u, "using", client)
    /\ UNCHANGED clientVars

OpensAtOnce(u) ==
    /\ kind = "sync" /\ client = 0
    /\ NewClient(opened + 1) /\ client' = opened' /\ ready' = ready \cup {opened'}
    /\ Sets(u, "using", opened')

\* The field stays empty while the client is opened.
StartsOpening(u) ==
    /\ kind \in {"late", "twice"} /\ client = 0
    /\ Sets(u, "opening", 0)
    /\ UNCHANGED clientVars

\* It stays empty too while the new client looks up the index.
StartsLooking(u) ==
    /\ kind = "lookup" /\ client = 0
    /\ NewClient(opened + 1) /\ client' = client /\ ready' = ready \cup {opened'}
    /\ Sets(u, "looking", opened')

\* It is set, and the client connected afterwards.
StartsConnecting(u) ==
    /\ kind = "early" /\ client = 0
    /\ NewClient(opened + 1) /\ client' = opened' /\ ready' = ready
    /\ Sets(u, "connecting", opened')

StartsThread(u) ==
    /\ kind = "file"
    /\ Sets(u, "trying", 0)
    /\ UNCHANGED clientVars

Ensure(u) ==
    /\ \/ FindsClient(u) \/ OpensAtOnce(u) \/ StartsOpening(u)
       \/ StartsLooking(u) \/ StartsConnecting(u) \/ StartsThread(u)
    /\ tries' = tries

\* Who may begin a call now: uvicorn lets a request in while it serves, the
\* poller's task lives until it is cancelled, the refresh is one scan.
MayCall(u) ==
    /\ stage[u] = "out"
    /\ CASE u \in Handlers \cup Searches -> phase = "serving"
         [] u = Poller                   -> phase \in {"serving", "draining"}
         [] u = Refresher                -> refreshing

\* What the call is to the tracker, for the users that observe its answer.
Tracks(u, A) == IF u \in Callers THEN A ELSE UNCHANGED trackerVars

\* A bound, the code has none: a look-up that fails is tried again for ever.
WithinBounds ==
    kind \in Lookups /\ client = 0 /\ lost >= MaxLost => up /\ file = "table"

Enter(u) ==
    /\ MayCall(u) /\ WithinBounds
    /\ Ensure(u)
    /\ Tracks(u, Ask(u))
    /\ UNCHANGED <<storeVars, lifeVars>>

\* Mutated form: the new client is returned, but not kept.
Keep_Local(c) == client' = client
Keep(c) == client' = c

\* create_pool or AsyncHttpClient returns; whoever came meanwhile has one of
\* its own, and chroma's has the collection to look up.
Opened(u) ==
    /\ stage[u] = "opening" /\ up
    /\ NewClient(opened + 1) /\ ready' = ready \cup {opened'}
    /\ \/ kind = "late"  /\ Keep(opened')    /\ Sets(u, "using", opened')
       \/ kind = "twice" /\ client' = client /\ Sets(u, "looking", opened')
    /\ tries' = tries
    /\ UNCHANGED <<trackerVars, storeVars, lifeVars>>

\* Whose connection answers: chroma's collection is that of the client that
\* looked it up, pinecone's index of the one made last.
Maker(u) == IF kind = "lookup" THEN opened ELSE holds[u]

\* get_collection or describe_index returns.
LooksUp(u) ==
    /\ stage[u] = "looking" /\ up /\ file = "table"
    /\ Keep(Maker(u))
    /\ Sets(u, "using", Maker(u)) /\ tries' = tries
    /\ UNCHANGED <<opened, live, ready, lost, trackerVars, storeVars, lifeVars>>

Connected(u) ==
    /\ stage[u] = "connecting" /\ up
    /\ ready' = ready \cup {holds[u]}
    /\ Sets(u, "using", holds[u]) /\ tries' = tries
    /\ UNCHANGED <<client, opened, live, lost, trackerVars, storeVars, lifeVars>>

\* Mutated form: the deadline is set anew by every retry.
WaitedEnough_Never(u) == FALSE

\* _connect_with_retry: the deadline has passed.
WaitedEnough(u) == tries[u] = LockWait

\* The file is locked, and the thread sleeps once more.
Retry(u) ==
    /\ stage[u] = "trying" /\ file = "table" /\ locked
    /\ ~WaitedEnough(u)
    /\ tries' = [tries EXCEPT ![u] = IF tries[u] < LockWait THEN @ + 1 ELSE @]
    /\ UNCHANGED <<stage, holds, clientVars, trackerVars, storeVars, lifeVars>>

\* It is not, and the connection is this thread's alone.
FileOpened(u) ==
    /\ stage[u] = "trying" /\ file = "table" /\ ~locked
    /\ Sets(u, "using", 0) /\ tries' = tries
    /\ UNCHANGED <<clientVars, trackerVars, storeVars, lifeVars>>

\* The task waits no longer for the thread that makes the call.
Abandoned(u) == u = Poller /\ pc[Poller] = "idle"

Ended(u) == refreshing' = IF u = Refresher THEN FALSE ELSE refreshing

\* The backend answers, with what it holds at this moment.
Answers(u) ==
    /\ stage[u] = "using"
    /\ up /\ (kind = "file" \/ holds[u] \in live \cap ready)
    /\ Leaves(u) /\ Ended(u)
    /\ IF Abandoned(u) THEN UNCHANGED trackerVars ELSE Tracks(u, StatsAnswered(u))
    /\ UNCHANGED <<clientVars, storeVars, kind, phase, todo>>

\* Why a call raises instead: no backend, nothing to look up, a client that
\* was closed or never connected, no file (IndexNotReadyError), or a lock held
\* for too long (IndexBusyError).
Fails(u) ==
    \/ stage[u] \in {"opening", "connecting"} /\ ~up
    \/ stage[u] = "looking" /\ ~(up /\ file = "table")
    \/ stage[u] = "using" /\ ~(up /\ (kind = "file" \/ holds[u] \in live \cap ready))
    \/ stage[u] = "trying" /\ file = "absent"
    \/ stage[u] = "trying" /\ locked /\ WaitedEnough(u)

\* Nothing closes the client whose look-up raises, and nothing keeps it.
Raises(u) ==
    /\ Fails(u)
    /\ Leaves(u) /\ Ended(u)
    /\ lost' = IF stage[u] = "looking" THEN lost + 1 ELSE lost
    /\ IF Abandoned(u) THEN UNCHANGED trackerVars ELSE Tracks(u, StatsFail(u))
    /\ UNCHANGED <<client, opened, live, ready, storeVars, kind, phase, todo>>

\* The answer of stats() reaches the tracker.
Observes(c) ==
    /\ Observe(c)
    /\ UNCHANGED <<callVars, clientVars, storeVars, lifeVars>>

\* A query finds the keyword index due and starts the task behind it.
StartRefresh(s) ==
    /\ stage[s] = "using" /\ ~refreshing
    /\ refreshing' = TRUE
    /\ UNCHANGED <<trackerVars, callVars, clientVars, storeVars, kind, phase, todo>>

-----------------------------------------------------------------------------
(* The store and its writer.                                               *)

GoesDown ==
    /\ kind \in Steady \ Missing /\ up
    /\ outages < MaxOutages
    /\ up' = FALSE /\ outages' = outages + 1
    /\ UNCHANGED <<file, locked, trackerVars, callVars, clientVars, lifeVars>>

ComesUp ==
    /\ ~up
    /\ up' = TRUE
    /\ UNCHANGED <<outages, file, locked, trackerVars, callVars, clientVars, lifeVars>>

\* The writer's lock excludes readers; the first one creates the table.
Lock ==
    /\ kind = "file" /\ ~locked
    /\ \A u \in Users : stage[u] # "using"
    /\ locked' = TRUE /\ file' = "table"
    /\ UNCHANGED <<up, outages, trackerVars, callVars, clientVars, lifeVars>>

Unlock ==
    /\ locked
    /\ locked' = FALSE
    /\ UNCHANGED <<up, outages, file, trackerVars, callVars, clientVars, lifeVars>>

\* prepare_backend creates the collection or the index when the indexer starts.
Creates ==
    /\ kind \in Lookups /\ file = "absent"
    /\ file' = "table"
    /\ UNCHANGED <<up, outages, locked, trackerVars, callVars, clientVars, lifeVars>>

\* Before, the store's content is in Init; after, nobody looks at it.
Indexes ==
    /\ phase = "serving" /\ kind \notin Steady
    /\ kind = "file" => locked
    /\ kind \in Lookups => file = "table"
    /\ Commit
    /\ UNCHANGED <<callVars, clientVars, storeVars, lifeVars>>

Passes ==
    /\ phase = "serving" /\ kind \notin Steady
    /\ Tick
    /\ UNCHANGED <<callVars, clientVars, storeVars, lifeVars>>

-----------------------------------------------------------------------------
(* lifespan.                                                               *)

\* Warm-up of local models, then the clients of the LLM and the reranker.
Warms ==
    /\ phase = "starting" /\ todo # <<>>
    /\ todo' = Tail(todo)
    /\ UNCHANGED <<kind, phase, refreshing, trackerVars, callVars, clientVars, storeVars>>

\* The poller is created and the port opens.
Starts ==
    /\ phase = "starting" /\ todo = <<>>
    /\ phase' = "serving"
    /\ UNCHANGED <<kind, todo, refreshing, trackerVars, callVars, clientVars, storeVars>>

\* A step that raises ends the start, and what follows it is left as it is.
StepFails ==
    /\ phase \in {"starting", "closing"} /\ todo # <<>>
    /\ todo = Closers => ~refreshing
    /\ phase' = "exiting"
    /\ UNCHANGED <<kind, todo, refreshing, trackerVars, callVars, clientVars, storeVars>>

Signal ==
    /\ phase = "serving"
    /\ phase' = "draining"
    /\ UNCHANGED <<kind, todo, refreshing, trackerVars, callVars, clientVars, storeVars>>

Drained == \A r \in Handlers \cup Searches :
               stage[r] = "out" /\ (r \in Handlers => pc[r] = "idle")

\* Mutated form: the poller's task is left running.
PollerStops_Not ==
    /\ UNCHANGED trackerVars
    /\ UNCHANGED callVars

\* poller.cancel() takes effect wherever the task waits; a thread goes on.
PollerStops ==
    /\ CancelPoller
    /\ IF kind = "file" THEN UNCHANGED callVars ELSE Leaves(Poller)

BeginClose ==
    /\ phase = "draining" /\ Drained
    /\ phase' = "closing" /\ todo' = Closers
    /\ PollerStops
    /\ UNCHANGED <<kind, refreshing, clientVars, storeVars>>

\* Mutated form: the refresh is not waited for.
RefreshDone_Ignored == TRUE

\* _close_hybrid waits for the task.
RefreshDone == ~refreshing

\* What close() finds in the fields: chroma's _client is the last one made,
\* pinecone has that one and the index.
Held ==
    CASE kind = "twice"  -> {opened}
      [] kind = "lookup" -> {client, opened}
      [] OTHER           -> {client}

CloseAccessor ==
    /\ phase = "closing" /\ todo = Closers
    /\ RefreshDone
    /\ todo' = Tail(todo)
    /\ client' = 0 /\ live' = live \ Held
    /\ UNCHANGED <<opened, ready, lost, kind, phase, refreshing, trackerVars, callVars, storeVars>>

\* The embedder, the LLM and the reranker.
CloseNext ==
    /\ phase = "closing" /\ todo \notin {Closers, <<>>}
    /\ todo' = Tail(todo)
    /\ UNCHANGED <<kind, phase, refreshing, trackerVars, callVars, clientVars, storeVars>>

LifespanEnds ==
    /\ phase = "closing" /\ todo = <<>>
    /\ phase' = "exiting"
    /\ UNCHANGED <<kind, todo, refreshing, trackerVars, callVars, clientVars, storeVars>>

\* The event loop joins the threads of its executor.
Exits ==
    /\ phase = "exiting"
    /\ kind = "file" => \A u \in Users : stage[u] = "out"
    /\ phase' = "stopped"
    /\ UNCHANGED <<kind, todo, refreshing, trackerVars, callVars, clientVars, storeVars>>

-----------------------------------------------------------------------------
Init ==
    /\ TrackerInit
    /\ kind \in Kinds
    /\ phase = "starting" /\ todo = WarmUp
    /\ client = 0 /\ opened = 0 /\ live = {} /\ ready = {} /\ lost = 0
    /\ stage = [u \in Users |-> "out"]
    /\ holds = [u \in Users |-> 0]
    /\ tries = [u \in Users |-> 0]
    /\ refreshing = FALSE
    /\ up = TRUE /\ outages = 0
    /\ file \in {"absent", "table"} /\ locked = FALSE
    /\ file = "absent" => kind \in Missing /\ \A x \in Rows : rows[x] = 0

\* What a user does once its call has begun, one step after the other.
Goes(u) ==
    \/ Opened(u) \/ LooksUp(u) \/ Connected(u) \/ Retry(u) \/ FileOpened(u)
    \/ Answers(u) \/ Raises(u)
    \/ u \in Callers /\ Observes(u)

Life == Warms \/ Starts \/ BeginClose \/ CloseAccessor \/ CloseNext \/ LifespanEnds \/ Exits

Store == GoesDown \/ ComesUp \/ Lock \/ Unlock \/ Creates \/ Indexes \/ Passes

Next ==
    \/ \E u \in Users : Enter(u) \/ Goes(u)
    \/ \E s \in Searches : StartRefresh(s)
    \/ Store \/ Life \/ Signal \/ StepFails

Spec == Init /\ [][Next]_vars

\* The event loop runs what is ready, and the backend answers or raises. Not
\* fair: clients, signals, outages and their end, the indexer and its lock.
Fairness ==
    /\ \A r \in Handlers \cup Searches : WF_vars(Goes(r))
    /\ \A t \in {Poller, Refresher} : WF_vars(Enter(t) \/ Goes(t))
    /\ WF_vars(Life)

FairSpec == Spec /\ Fairness

-----------------------------------------------------------------------------
(* What the code is expected to guarantee.                                 *)

\* Types of the server's own variables.
TypeOK ==
    /\ TrackerTypeOK
    /\ kind \in Kinds
    /\ phase \in {"starting", "serving", "draining", "closing", "exiting", "stopped"}
    /\ todo \in Seq({"accessor", "embedder", "llm", "reranker", "prepare"})
    /\ opened \in Nat /\ client \in 0..opened /\ lost \in Nat
    /\ live \subseteq 0..opened /\ ready \subseteq 0..opened
    /\ stage \in [Users -> {"out", "opening", "looking", "connecting", "trying", "using"}]
    /\ holds \in [Users -> 0..opened] /\ tries \in [Users -> 0..LockWait]
    /\ refreshing \in BOOLEAN /\ up \in BOOLEAN /\ locked \in BOOLEAN
    /\ outages \in 0..MaxOutages /\ file \in {"absent", "table"}

\* main.py:267-275, hybrid.py:257-261: the client is never closed under a
\* call that works with it, neither a request's, nor the background
\* refresh's, nor that of the poller, which is cancelled and not awaited.
InUseIsOpen ==
    \A u \in Users :
        stage[u] \in {"looking", "connecting", "using"} => holds[u] = 0 \/ holds[u] \in live

AccessorClosed ==
    phase \in {"closing", "exiting", "stopped"} /\ todo # Closers /\ todo # WarmUp

\* main.py:268-270: once the accessor is closed nobody opens a client again
\* and no call is under way; only a thread the poller has abandoned may still
\* wait for the file, or read it through a connection of its own.
ClosedForGood ==
    AccessorClosed =>
        /\ client = 0
        /\ \A u \in Users : stage[u] = "out" \/ (kind = "file" /\ u = Poller)

\* _ensure_pool, _ensure_collection and _ensure_index test a field that is
\* assigned after an await: callers that come together may each open a client,
\* and all but one are lost. Their number is bounded by those callers, and
\* grows with the calls only by the clients whose look-up failed.
ClientsBounded == opened <= Cardinality(Callers \cup Searches) + lost

\* Once nothing stands in its way any more, the poller alone makes the
\* tracker know the store: it recovers from outages, a missing file and a
\* lock held too long, unless the accessor keeps a client whose connection
\* failed (kind early).
EventuallyKnown ==
    <>[](/\ phase = "serving" /\ up /\ ~locked /\ file = "table"
         /\ client \in ready \cup {0})
    => <>[](snapshot = StatsOf(rows))

\* A server that is told to stop does, although the writer may hold its lock
\* for ever and the backend may not come back (duckdb.py:89: a reader gives
\* up after _LOCK_WAIT, and the loop joins its thread before it exits).
ShutdownCompletes == phase = "draining" ~> phase = "stopped"
=============================================================================
