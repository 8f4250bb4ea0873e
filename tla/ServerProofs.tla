----------------------------- MODULE ServerProofs -----------------------------
(***************************************************************************)
(* Proofs about IndexTracker and Server, for any number of rows, requests, *)
(* searches, clients, outages and seconds: the time of the last change     *)
(* never goes back, no client is closed under a call, and none is opened   *)
(* after the shutdown.                                                     *)
(***************************************************************************)
EXTENDS Server, FiniteSetTheorems, TLAPS

-----------------------------------------------------------------------------
(* The answers of the store.                                               *)

\* A set of naturals that is not empty has a least element.
LEMMA LeastNat ==
  ASSUME NEW T, T \subseteq Nat, T # {}
  PROVE  \E x \in T : \A y \in T : x <= y
<1>1. \E x \in T : \A y \in T : ~ (<<y, x>> \in OpToRel(<, Nat))
  BY NatLessThanWellFounded, WFMin, Zenon
<1>2. PICK x \in T : \A y \in T : ~ (<<y, x>> \in OpToRel(<, Nat))
  BY <1>1
<1>3. ASSUME NEW y \in T PROVE x <= y
  <2>1. ~ (<<y, x>> \in OpToRel(<, Nat))
    BY <1>2
  <2>2. x \in Nat /\ y \in Nat
    OBVIOUS
  <2> QED
    BY <2>1, <2>2 DEF OpToRel
<1> QED
  BY <1>3

\* And one that is bounded a greatest.
LEMMA MaxIn ==
  ASSUME NEW n \in Nat, NEW S, S \subseteq 0..n, S # {}
  PROVE  Max(S) \in S
<1> DEFINE T == {n - x : x \in S}
<1>1. T \subseteq Nat /\ T # {}
  <2>1. PICK s \in S : TRUE
    OBVIOUS
  <2>2. n - s \in T
    OBVIOUS
  <2>3. \A x \in S : n - x \in Nat
    OBVIOUS
  <2> QED
    BY <2>2, <2>3
<1>2. PICK t \in T : \A y \in T : t <= y
  BY <1>1, LeastNat
<1>3. PICK m \in S : t = n - m
  OBVIOUS
<1>4. \A y \in S : m >= y
  BY <1>2, <1>3
<1> QED
  BY <1>4 DEF Max

\* What a backend reports is a count of its rows and a time that has been.
LEMMA StatsTyped ==
  ASSUME TrackerTypeOK, \A x \in Rows : rows[x] <= clock
  PROVE  StatsOf(rows) \in Keys /\ StatsOf(rows).newest <= clock /\ StatsOf(rows).newest \in Nat
<1> DEFINE S == {rows[x] : x \in Rows} \cup {0}
           R == {x \in Rows : rows[x] # 0}
<1>1. S \subseteq 0..clock /\ clock \in Nat /\ clock <= MaxClock
  BY TrackerAssumption DEF TrackerTypeOK
<1>2. Max(S) \in 0..clock
  BY <1>1, MaxIn
<1>3. Cardinality(R) \in 0..Cardinality(Rows)
  <2>1. R \in SUBSET Rows
    OBVIOUS
  <2>2. IsFiniteSet(R) /\ Cardinality(R) <= Cardinality(Rows)
    BY <2>1, FS_Subset, TrackerAssumption
  <2> QED
    BY <2>2, FS_CardinalityType, TrackerAssumption
<1> DEFINE newest == IF HasMarker THEN Max(S) ELSE 0
<1>4. newest \in 0..clock /\ newest \in 0..MaxClock
  BY <1>1, <1>2, TrackerAssumption
<1>5. StatsOf(rows) = [chunks |-> Cardinality(R), newest |-> newest, none |-> FALSE]
  BY DEF StatsOf
<1> HIDE DEF R, newest
<1> QED
  BY <1>1, <1>3, <1>4, <1>5 DEF Keys

\* None is a key.
LEMMA NoneTyped == None \in Keys /\ None.newest = 0
<1>1. Cardinality(Rows) \in Nat
  BY FS_CardinalityType, TrackerAssumption
<1> QED
  BY <1>1, TrackerAssumption DEF None, Keys
-----------------------------------------------------------------------------
(* The tracker: why what it reports never goes back.                       *)

\* Everything that was seen or said was seen or said in the past.
Past ==
    /\ \A x \in Rows : rows[x] <= clock
    /\ snapshot.newest <= clock /\ changedAt <= clock /\ reported <= clock
    /\ \A c \in Callers : got[c].newest <= clock

\* What was reported is still what the tracker would report at least, if the
\* snapshot were observed again: what lowers the newest row changes the
\* snapshot too, and a change is stamped with a clock nothing is ahead of.
Covered ==
    /\ reported <= Later(changedAt, snapshot.newest)
    /\ \A c \in Callers : floor[c] <= reported

TrackerInv == TrackerTypeOK /\ Past /\ Covered

\* Initially nothing is known.
LEMMA TrackerInitInv == TrackerInit => TrackerInv
<1> SUFFICES ASSUME TrackerInit PROVE TrackerInv
  OBVIOUS
<1>1. /\ rows \in [Rows -> {0, 1}] /\ clock = 1 /\ clock \in 1..MaxClock
      /\ 0 \in 0..MaxClock /\ 1 \in 0..MaxClock /\ 0 \in 0..MaxChanges
  BY TrackerAssumption DEF TrackerInit
<1>2. rows \in [Rows -> 0..MaxClock] /\ \A x \in Rows : rows[x] <= clock
  BY <1>1
<1>3. TrackerTypeOK
  BY <1>1, <1>2, NoneTyped DEF TrackerInit, TrackerTypeOK
<1>4. Past /\ Covered
  BY <1>1, <1>2, NoneTyped DEF TrackerInit, Past, Covered, Later
<1> QED
  BY <1>3, <1>4 DEF TrackerInv

\* Time passes.
LEMMA TickInv == ASSUME TrackerInv, Tick PROVE TrackerInv'
<1>1. TrackerTypeOK'
  BY TrackerAssumption DEF TrackerInv, TrackerTypeOK, Tick
<1>2. Past'
  BY TrackerAssumption DEF TrackerInv, TrackerTypeOK, Past, Tick, Keys
<1>3. Covered'
  BY DEF TrackerInv, Covered, Tick, Later
<1> QED
  BY <1>1, <1>2, <1>3 DEF TrackerInv

\* The indexer writes rows with the time of the moment.
LEMMA CommitInv == ASSUME TrackerInv, Commit PROVE TrackerInv'
<1>1. rows' \in [Rows -> 0..MaxClock] /\ \A x \in Rows : rows'[x] <= clock
  <2>1. \A x \in Rows : rows'[x] \in {0, clock, rows[x]}
    BY DEF Commit
  <2>2. \A x \in Rows : rows[x] \in 0..MaxClock /\ rows[x] <= clock
    BY DEF TrackerInv, TrackerTypeOK, Past
  <2>3. clock \in 1..MaxClock /\ MaxClock \in Nat
    BY TrackerAssumption DEF TrackerInv, TrackerTypeOK
  <2>4. \A x \in Rows : rows'[x] \in 0..MaxClock /\ rows'[x] <= clock
    BY <2>1, <2>2, <2>3
  <2>5. rows' = [x \in Rows |-> rows'[x]]
    BY DEF Commit
  <2> QED
    BY <2>4, <2>5
<1>2. changes' \in 0..MaxChanges
  BY TrackerAssumption DEF TrackerInv, TrackerTypeOK, Commit
<1>3. TrackerTypeOK' /\ Past' /\ Covered'
  BY <1>1, <1>2 DEF TrackerInv, TrackerTypeOK, Past, Covered, Commit, Later
<1> QED
  BY <1>3 DEF TrackerInv

\* A caller begins: it is owed what has been reported so far.
LEMMA AskInv == ASSUME TrackerInv, NEW c \in Callers, Ask(c) PROVE TrackerInv'
<1>1. TrackerTypeOK'
  BY TrackerAssumption DEF TrackerInv, TrackerTypeOK, Ask
<1>2. Past'
  BY DEF TrackerInv, Past, Ask
<1>3. \A d \in Callers : floor'[d] <= reported'
  <2> TAKE d \in Callers
  <2>1. reported \in Nat /\ floor \in [Callers -> 0..MaxClock]
    BY TrackerAssumption DEF TrackerInv, TrackerTypeOK
  <2>2. floor'[d] \in {0, reported, floor[d]}
    BY <2>1 DEF Ask
  <2> QED
    BY <2>1, <2>2 DEF TrackerInv, Covered, Ask
<1>4. Covered'
  BY <1>3 DEF TrackerInv, Covered, Ask, Later
<1> QED
  BY <1>1, <1>2, <1>4 DEF TrackerInv

\* The backend answers with what it holds.
LEMMA StatsAnsweredInv == ASSUME TrackerInv, NEW c \in Callers, StatsAnswered(c) PROVE TrackerInv'
<1>1. StatsOf(rows) \in Keys /\ StatsOf(rows).newest <= clock
  BY StatsTyped DEF TrackerInv, Past
<1>2. /\ got \in [Callers -> Keys]
      /\ got' = [got EXCEPT ![c] = StatsOf(rows)]
  BY DEF TrackerInv, TrackerTypeOK, StatsAnswered
<1>3. got' \in [Callers -> Keys]
  BY <1>1, <1>2
<1>4. \A d \in Callers : got'[d].newest <= clock
  BY <1>1, <1>2 DEF TrackerInv, Past
<1>5. pc' \in [Callers -> {"idle", "asked", "answered"}]
  BY DEF TrackerInv, TrackerTypeOK, StatsAnswered
<1>6. TrackerTypeOK' /\ Past' /\ Covered'
  BY <1>3, <1>4, <1>5 DEF TrackerInv, TrackerTypeOK, Past, Covered, StatsAnswered, Later
<1> QED
  BY <1>6 DEF TrackerInv

\* A caller that ends, with or without an answer, is owed nothing more.
LEMMA EndsTyped ==
  ASSUME TrackerInv, NEW c \in Callers, Ends(c)
  PROVE  /\ pc' \in [Callers -> {"idle", "asked", "answered"}]
         /\ got' \in [Callers -> Keys]
         /\ \A d \in Callers : got'[d].newest <= clock
         /\ floor' \in [Callers -> 0..MaxClock]
         /\ \A d \in Callers : floor'[d] <= reported
<1>1. pc' \in [Callers -> {"idle", "asked", "answered"}]
  BY DEF TrackerInv, TrackerTypeOK, Ends
<1>2. got \in [Callers -> Keys] /\ floor \in [Callers -> 0..MaxClock] /\ clock \in Nat /\ reported \in Nat
  BY TrackerAssumption DEF TrackerInv, TrackerTypeOK
<1>3. got' \in [Callers -> Keys] /\ \A d \in Callers : got'[d].newest <= clock
  <2>1. \A d \in Callers : got'[d] \in {None, got[d]}
    BY <1>2 DEF Ends
  <2>2. \A d \in Callers : got[d].newest <= clock
    BY DEF TrackerInv, Past
  <2>3. got' \in [Callers -> Keys]
    BY <1>2, NoneTyped DEF Ends
  <2> QED
    BY <1>2, <2>1, <2>2, <2>3, NoneTyped
<1>4. floor' \in [Callers -> 0..MaxClock] /\ \A d \in Callers : floor'[d] <= reported
  <2>1. \A d \in Callers : floor'[d] \in {0, floor[d]}
    BY <1>2 DEF Ends
  <2>2. floor' \in [Callers -> 0..MaxClock]
    BY <1>2, TrackerAssumption DEF Ends
  <2> QED
    BY <1>2, <2>1, <2>2 DEF TrackerInv, Covered
<1> QED
  BY <1>1, <1>3, <1>4

\* A query that raises, and the end of the poller.
LEMMA EndsInv ==
  ASSUME TrackerInv, NEW c \in Callers, Ends(c),
         UNCHANGED <<clock, rows, snapshot, changedAt, reported, changes>>
  PROVE  TrackerInv'
<1>1. TrackerTypeOK' /\ Past' /\ Covered'
  BY EndsTyped DEF TrackerInv, TrackerTypeOK, Past, Covered, Later
<1> QED
  BY <1>1 DEF TrackerInv

\* An observation leaves nothing of what was reported behind.
LEMMA ObservationCovers ==
  ASSUME TrackerInv, NEW key \in Keys, key.newest <= clock
  PROVE  /\ reported <= Later(Stamp(key), key.newest)
         /\ Stamp(key) \in 0..MaxClock /\ Stamp(key) <= clock
         /\ Later(Stamp(key), key.newest) \in 0..MaxClock
         /\ Later(Stamp(key), key.newest) <= clock
<1>1. /\ clock \in 1..MaxClock /\ changedAt \in 0..MaxClock /\ reported \in 0..MaxClock
      /\ key.newest \in 0..MaxClock /\ snapshot.newest \in 0..MaxClock /\ MaxClock \in Nat
  BY TrackerAssumption DEF TrackerInv, TrackerTypeOK, Keys
<1>2. /\ changedAt <= clock /\ reported <= clock
      /\ reported <= Later(changedAt, snapshot.newest)
  BY DEF TrackerInv, Past, Covered
<1>3. CASE Moved(key)
  BY <1>1, <1>2, <1>3 DEF Stamp, Later
<1>4. CASE ~Moved(key) /\ key = snapshot
  BY <1>1, <1>2, <1>4 DEF Stamp, Later
<1>5. CASE ~Moved(key) /\ snapshot = None
  BY <1>1, <1>2, <1>5, NoneTyped DEF Stamp, Later
<1> QED
  BY <1>3, <1>4, <1>5 DEF Moved

\* The tracker observes an answer, and a handler reports it.
LEMMA ObserveInv ==
  ASSUME TrackerInv, NEW c \in Callers, Observe(c)
  PROVE  TrackerInv' /\ reported' >= reported
<1> DEFINE key == got[c]
<1>1. key \in Keys /\ key.newest <= clock
  BY DEF TrackerInv, TrackerTypeOK, Past
<1>2. /\ reported <= Later(Stamp(key), key.newest)
      /\ Stamp(key) \in 0..MaxClock /\ Stamp(key) <= clock
      /\ Later(Stamp(key), key.newest) \in 0..MaxClock
      /\ Later(Stamp(key), key.newest) <= clock
  BY <1>1, ObservationCovers
<1>3. snapshot' = key /\ changedAt' = Stamp(key) /\ UNCHANGED <<clock, rows, changes>>
  BY DEF Observe, Remember
<1>4. reported' \in {reported, Later(Stamp(key), key.newest)}
  BY <1>3 DEF Observe
<1>5. reported \in 0..MaxClock /\ reported <= clock /\ MaxClock \in Nat
  BY TrackerAssumption DEF TrackerInv, TrackerTypeOK, Past
<1>6. /\ reported' \in 0..MaxClock /\ reported' <= clock
      /\ reported' >= reported /\ reported' <= Later(changedAt', snapshot'.newest)
  BY <1>2, <1>3, <1>4, <1>5
<1>7. /\ pc' \in [Callers -> {"idle", "asked", "answered"}]
      /\ got' \in [Callers -> Keys]
      /\ \A d \in Callers : got'[d].newest <= clock
      /\ floor' \in [Callers -> 0..MaxClock]
      /\ \A d \in Callers : floor'[d] <= reported
  BY EndsTyped DEF Observe
<1>8. \A d \in Callers : floor'[d] <= reported'
  BY <1>5, <1>6, <1>7
<1> HIDE DEF key
<1>9. TrackerTypeOK'
  BY <1>1, <1>2, <1>3, <1>6, <1>7 DEF TrackerInv, TrackerTypeOK
<1>10. Past'
  BY <1>1, <1>2, <1>3, <1>6, <1>7 DEF TrackerInv, Past
<1>11. Covered'
  BY <1>6, <1>8, <1>3 DEF Covered, Later
<1> QED
  BY <1>6, <1>9, <1>10, <1>11 DEF TrackerInv

\* Every step of the tracker keeps the invariant.
LEMMA TrackerStepInv == TrackerInv /\ [TrackerNext]_trackerVars => TrackerInv'
<1> SUFFICES ASSUME TrackerInv, [TrackerNext]_trackerVars PROVE TrackerInv'
  OBVIOUS
<1>1. CASE Tick
  BY <1>1, TickInv
<1>2. CASE Commit
  BY <1>2, CommitInv
<1>3. CASE CancelPoller
  BY <1>3, EndsInv DEF CancelPoller, Callers
<1>4. ASSUME NEW c \in Callers, Caller(c) PROVE TrackerInv'
  <2>1. CASE Ask(c)
    BY <2>1, AskInv
  <2>2. CASE StatsAnswered(c)
    BY <2>2, StatsAnsweredInv
  <2>3. CASE StatsFail(c)
    BY <2>3, EndsInv DEF StatsFail
  <2>4. CASE Observe(c)
    BY <2>4, ObserveInv
  <2> QED
    BY <1>4, <2>1, <2>2, <2>3, <2>4 DEF Caller
<1>5. CASE UNCHANGED trackerVars
  BY <1>5 DEF trackerVars, TrackerInv, TrackerTypeOK, Past, Covered, Later
<1> QED
  BY <1>1, <1>2, <1>3, <1>4, <1>5 DEF TrackerNext
\* What a handler owes is what was reported when it began.
LEMMA ObserveReports ==
  ASSUME TrackerInv, [TrackerNext]_trackerVars, NEW c \in Handlers, pc[c] = "answered", pc'[c] = "idle"
  PROVE  reported' >= floor[c]
<1>1. c \in Callers /\ c # Poller /\ floor[c] <= reported
  BY TrackerAssumption DEF TrackerInv, Covered, Callers
<1>2. reported \in Nat /\ floor[c] \in Nat /\ pc \in [Callers -> {"idle", "asked", "answered"}]
  BY <1>1, TrackerAssumption DEF TrackerInv, TrackerTypeOK
<1>3. CASE \E d \in Callers : Observe(d)
  BY <1>1, <1>2, <1>3, ObserveInv DEF TrackerInv, TrackerTypeOK
<1>4. CASE \E d \in Callers : Ask(d) \/ StatsAnswered(d) \/ StatsFail(d)
  <2> PICK d \in Callers : Ask(d) \/ StatsAnswered(d) \/ StatsFail(d)
    BY <1>4
  <2>1. pc[d] \in {"idle", "asked"}
    BY DEF Ask, StatsAnswered, StatsFail
  <2>2. pc'[c] = pc[c]
    BY <2>1, <1>1, <1>2 DEF Ask, StatsAnswered, StatsFail, Ends
  <2> QED
    BY <2>2
<1>5. CASE CancelPoller
  BY <1>1, <1>2, <1>5 DEF CancelPoller, Ends
<1>6. CASE Tick \/ Commit \/ UNCHANGED trackerVars
  BY <1>6 DEF Tick, Commit, trackerVars
<1> QED
  BY <1>3, <1>4, <1>5, <1>6 DEF TrackerNext, Caller

-----------------------------------------------------------------------------
(* The tracker is a part of the server.                                    *)

\* A call that is answered is, to the tracker, an answer or nothing.
LEMMA CallIsTracker ==
  ASSUME NEW u \in Users, Enter(u) \/ Goes(u) PROVE [TrackerNext]_trackerVars
<1>1. CASE Enter(u)
  BY <1>1 DEF Enter, Tracks, TrackerNext, Caller
<1>2. CASE Opened(u) \/ LooksUp(u) \/ Connected(u) \/ Retry(u) \/ FileOpened(u)
  BY <1>2 DEF Opened, LooksUp, Connected, Retry, FileOpened
<1>3. CASE Answers(u)
  BY <1>3 DEF Answers, Tracks, TrackerNext, Caller
<1>4. CASE Raises(u)
  BY <1>4 DEF Raises, Tracks, TrackerNext, Caller
<1>5. CASE u \in Callers /\ Observes(u)
  BY <1>5 DEF Observes, TrackerNext, Caller
<1> QED
  BY <1>1, <1>2, <1>3, <1>4, <1>5 DEF Goes

\* Every step of the server is one of the tracker, or none.
LEMMA ServerIsTracker == [Next]_vars => [TrackerNext]_trackerVars
<1> SUFFICES ASSUME [Next]_vars PROVE [TrackerNext]_trackerVars
  OBVIOUS
<1>1. CASE \E u \in Users : Enter(u) \/ Goes(u)
  BY <1>1, CallIsTracker
<1>2. CASE \E s \in Searches : StartRefresh(s)
  BY <1>2 DEF StartRefresh
<1>3. CASE Store
  BY <1>3 DEF Store, GoesDown, ComesUp, Lock, Unlock, Creates, Indexes, Passes, TrackerNext
<1>4. CASE Life
  BY <1>4 DEF Life, Warms, Starts, BeginClose, PollerStops, CloseAccessor, CloseNext,
              LifespanEnds, Exits, TrackerNext
<1>5. CASE Signal \/ StepFails
  BY <1>5 DEF Signal, StepFails
<1>6. CASE UNCHANGED vars
  BY <1>6 DEF vars
<1> QED
  BY <1>1, <1>2, <1>3, <1>4, <1>5, <1>6 DEF Next

\* main.py:98-101: the time of the last change never goes back, whatever is
\* deleted and in whatever order answers are observed; for the server as it
\* is composed, whatever its accessor does.
THEOREM TrackerRefined == Spec => TrackerSpec
<1>1. Init => TrackerInit
  BY DEF Init
<1> QED
  BY <1>1, ServerIsTracker, PTL DEF Spec, TrackerSpec

\* The invariant holds in the tracker on its own.
THEOREM TrackerInvariant == TrackerSpec => []TrackerInv
  BY TrackerInitInv, TrackerStepInv, PTL DEF TrackerSpec

\* Hence no response goes back behind one that was sent before its request.
THEOREM TrackerNeverRollsBack == TrackerSpec => NeverRollsBack
<1>1. TrackerInv /\ [TrackerNext]_trackerVars =>
        [\A c \in Handlers :
           pc[c] = "answered" /\ pc'[c] = "idle" => reported' >= floor[c]]_trackerVars
  BY ObserveReports
<1> QED
  BY <1>1, TrackerInvariant, PTL DEF TrackerSpec, NeverRollsBack

\* And the server keeps it.
THEOREM ServerNeverRollsBack == Spec => NeverRollsBack
  BY TrackerRefined, TrackerNeverRollsBack, PTL
-----------------------------------------------------------------------------
(* The server's own variables.                                             *)

Stages == {"out", "opening", "looking", "connecting", "trying", "using"}

\* Who has called, and with what.
CallTypes ==
    /\ stage \in [Users -> Stages]
    /\ holds \in [Users -> 0..opened] /\ tries \in [Users -> 0..LockWait]

ClientTypes ==
    /\ opened \in Nat /\ client \in 0..opened /\ lost \in Nat
    /\ live \subseteq 0..opened /\ ready \subseteq 0..opened

LifeTypes ==
    /\ kind \in Kinds
    /\ phase \in {"starting", "serving", "draining", "closing", "exiting", "stopped"}
    /\ todo \in Seq({"accessor", "embedder", "llm", "reranker", "prepare"})
    /\ refreshing \in BOOLEAN

StoreTypes ==
    /\ up \in BOOLEAN /\ locked \in BOOLEAN
    /\ outages \in 0..MaxOutages /\ file \in {"absent", "table"}

Types == CallTypes /\ ClientTypes /\ LifeTypes /\ StoreTypes

\* The type invariant of the module is that of the tracker and these.
LEMMA TypesAreTypeOK == TypeOK <=> TrackerTypeOK /\ Types
  BY DEF TypeOK, Types, CallTypes, ClientTypes, LifeTypes, StoreTypes, Stages

\* The users are who they are.
LEMMA UserFacts ==
  /\ Handlers \subseteq Users /\ Searches \subseteq Users /\ Poller \in Users /\ Refresher \in Users
  /\ Poller \notin Handlers \cup Searches /\ Refresher \notin Handlers \cup Searches
  /\ Poller # Refresher
  /\ Users = Handlers \cup Searches \cup {Poller, Refresher}
  BY TrackerAssumption, ServerAssumption DEF Users, Callers

\* A call that has come somewhere is typed if its client is.
LEMMA SetsTyped ==
  ASSUME stage \in [Users -> Stages],
         holds \in [Users -> 0..opened], opened \in Nat, opened' \in Nat, opened <= opened',
         NEW u \in Users, NEW c \in 0..opened',
         NEW where \in Stages, Sets(u, where, c)
  PROVE  /\ stage' \in [Users -> Stages]
         /\ holds' \in [Users -> 0..opened']
<1>1. stage' \in [Users -> Stages]
  BY DEF Sets
<1>2. holds \in [Users -> 0..opened']
  OBVIOUS
<1>3. holds' \in [Users -> 0..opened']
  BY <1>2 DEF Sets
<1> QED
  BY <1>1, <1>3

\* Nobody is lost by a new client.
LEMMA NewClientTyped ==
  ASSUME ClientTypes, NewClient(opened + 1)
  PROVE  /\ opened' = opened + 1 /\ opened' \in Nat /\ opened \in Nat /\ lost' = lost
         /\ opened' \in 1..opened' /\ opened <= opened'
         /\ live' = live \cup {opened'} /\ live' \subseteq 0..opened' /\ ready \subseteq 0..opened'
         /\ client \in 0..opened'
  BY ServerAssumption DEF ClientTypes, NewClient

\* A call that is over leaves nothing.
LEMMA LeavesTyped ==
  ASSUME CallTypes, NEW u \in Users, Leaves(u), opened \in Nat, opened' = opened
  PROVE  CallTypes'
<1>1. tries' \in [Users -> 0..LockWait]
  BY ServerAssumption DEF CallTypes, Leaves
<1>2. Sets(u, "out", 0) /\ "out" \in Stages
  BY DEF Leaves, Stages
<1> QED
  BY <1>1, <1>2, SetsTyped DEF CallTypes

\* A call begins.
LEMMA EnsureTypes ==
  ASSUME Types, NEW u \in Users, Ensure(u) PROVE CallTypes' /\ ClientTypes'
<1>1. tries' \in [Users -> 0..LockWait]
  BY DEF Types, CallTypes, Ensure
<1>2. opened \in Nat /\ client \in 0..opened
  BY DEF Types, ClientTypes
<1>3. {"using", "opening", "looking", "connecting", "trying"} \subseteq Stages
  BY DEF Stages
<1>4. CASE FindsClient(u)
  <2>1. UNCHANGED clientVars /\ Sets(u, "using", client)
    BY <1>4 DEF FindsClient
  <2> QED
    BY <1>1, <1>2, <1>3, <2>1, SetsTyped DEF Types, CallTypes, ClientTypes, clientVars
<1>5. CASE OpensAtOnce(u) \/ StartsLooking(u) \/ StartsConnecting(u)
  <2>1. PICK where \in {"using", "looking", "connecting"} : Sets(u, where, opened')
    BY <1>5 DEF OpensAtOnce, StartsLooking, StartsConnecting
  <2>2. NewClient(opened + 1) /\ client' \in {client, opened'} /\ ready' \in {ready, ready \cup {opened'}}
    BY <1>5 DEF OpensAtOnce, StartsLooking, StartsConnecting
  <2>3. ClientTypes'
    BY <2>2, NewClientTyped DEF Types, ClientTypes
  <2> QED
    BY <1>1, <1>2, <1>3, <2>1, <2>2, <2>3, NewClientTyped, SetsTyped DEF Types, CallTypes
<1>6. CASE StartsOpening(u) \/ StartsThread(u)
  <2>1. UNCHANGED clientVars /\ (Sets(u, "opening", 0) \/ Sets(u, "trying", 0))
    BY <1>6 DEF StartsOpening, StartsThread
  <2> QED
    BY <1>1, <1>2, <1>3, <2>1, SetsTyped DEF Types, CallTypes, ClientTypes, clientVars
<1> QED
  BY <1>4, <1>5, <1>6 DEF Ensure

\* And goes on.
LEMMA GoesTypes ==
  ASSUME Types, NEW u \in Users, Goes(u) PROVE Types'
<1>1. /\ opened \in Nat /\ client \in 0..opened /\ refreshing \in BOOLEAN
      /\ holds[u] \in 0..opened /\ {"using", "looking"} \subseteq Stages
  BY DEF Types, ClientTypes, LifeTypes, CallTypes, Stages
<1>2. CASE Opened(u)
  <2>1. /\ NewClient(opened + 1) /\ client' \in {client, opened'} /\ ready' = ready \cup {opened'}
        /\ tries' = tries
    BY <1>2 DEF Opened, Keep
  <2>2. ClientTypes'
    BY <2>1, NewClientTyped DEF Types, ClientTypes
  <2>3. PICK where \in {"using", "looking"} : Sets(u, where, opened')
    BY <1>2 DEF Opened
  <2>4. CallTypes'
    BY <1>1, <2>1, <2>2, <2>3, NewClientTyped, SetsTyped DEF Types, CallTypes
  <2> QED
    BY <1>2, <2>2, <2>4 DEF Types, LifeTypes, StoreTypes, Opened, lifeVars, storeVars
<1>8. CASE LooksUp(u)
  <2>1. Maker(u) \in 0..opened
    BY <1>1 DEF Maker
  <2>2. /\ Sets(u, "using", Maker(u)) /\ client' = Maker(u) /\ tries' = tries
        /\ UNCHANGED <<opened, live, ready, lost>>
    BY <1>8 DEF LooksUp, Keep
  <2>3. CallTypes'
    BY <1>1, <2>1, <2>2, SetsTyped DEF Types, CallTypes
  <2>4. ClientTypes'
    BY <2>1, <2>2 DEF Types, ClientTypes
  <2> QED
    BY <1>8, <2>3, <2>4 DEF Types, LifeTypes, StoreTypes, LooksUp, lifeVars, storeVars
<1>3. CASE Connected(u)
  <2>1. Sets(u, "using", holds[u]) /\ tries' = tries /\ UNCHANGED <<client, opened, live, lost>>
    BY <1>3 DEF Connected
  <2>2. CallTypes'
    BY <1>1, <2>1, SetsTyped DEF Types, CallTypes
  <2>3. ready' \subseteq 0..opened
    BY <1>1, <1>3 DEF Connected, Types, ClientTypes
  <2> QED
    BY <1>3, <2>1, <2>2, <2>3 DEF Types, ClientTypes, LifeTypes, StoreTypes, Connected, lifeVars, storeVars
<1>4. CASE Retry(u)
  <2>1. tries' \in [Users -> 0..LockWait]
    <3>1. tries \in [Users -> 0..LockWait] /\ LockWait \in Nat
      BY ServerAssumption DEF Types, CallTypes
    <3>2. tries' = [tries EXCEPT ![u] = IF tries[u] < LockWait THEN @ + 1 ELSE @]
      BY <1>4 DEF Retry
    <3> QED
      BY <3>1, <3>2
  <2> QED
    BY <1>4, <2>1 DEF Retry, Types, CallTypes, ClientTypes, LifeTypes, StoreTypes, clientVars, lifeVars, storeVars
<1>5. CASE FileOpened(u)
  <2>1. Sets(u, "using", 0) /\ UNCHANGED <<tries, clientVars>>
    BY <1>5 DEF FileOpened
  <2>2. CallTypes'
    BY <1>1, <2>1, SetsTyped DEF Types, CallTypes, clientVars
  <2> QED
    BY <1>5, <2>2 DEF FileOpened, Types, ClientTypes, LifeTypes, StoreTypes, clientVars, lifeVars, storeVars
<1>6. CASE Answers(u) \/ Raises(u)
  <2>1. Leaves(u) /\ Ended(u) /\ UNCHANGED <<client, opened, live, ready, storeVars, kind, phase, todo>>
    BY <1>6 DEF Answers, Raises, clientVars
  <2>2. CallTypes'
    BY <1>1, <2>1, LeavesTyped DEF Types
  <2>3. refreshing' \in BOOLEAN
    BY <1>1, <2>1 DEF Ended
  <2>4. lost' \in Nat
    BY <1>6 DEF Answers, Raises, clientVars, Types, ClientTypes
  <2> QED
    BY <2>1, <2>2, <2>3, <2>4 DEF Types, ClientTypes, LifeTypes, StoreTypes, storeVars
<1>7. CASE u \in Callers /\ Observes(u)
  BY <1>7 DEF Observes, Types, CallTypes, ClientTypes, LifeTypes, StoreTypes,
              callVars, clientVars, lifeVars, storeVars
<1> QED
  BY <1>2, <1>3, <1>4, <1>5, <1>6, <1>7, <1>8 DEF Goes
\* A task is started, and the store changes.
LEMMA OtherTypes ==
  ASSUME Types, Store \/ \E s \in Searches : StartRefresh(s) PROVE Types'
<1>1. CASE \E s \in Searches : StartRefresh(s)
  BY <1>1 DEF StartRefresh, Types, CallTypes, ClientTypes, LifeTypes, StoreTypes, callVars, clientVars, storeVars
<1>2. CASE GoesDown \/ ComesUp
  <2>1. outages' \in 0..MaxOutages
    BY <1>2, ServerAssumption DEF GoesDown, ComesUp, Types, StoreTypes
  <2> QED
    BY <1>2, <2>1 DEF GoesDown, ComesUp, Types, CallTypes, ClientTypes, LifeTypes, StoreTypes,
     callVars, clientVars, lifeVars
<1>3. CASE Lock \/ Unlock \/ Creates
  BY <1>3 DEF Lock, Unlock, Creates, Types, CallTypes, ClientTypes, LifeTypes, StoreTypes,
     callVars, clientVars, lifeVars
<1>4. CASE Indexes \/ Passes
  BY <1>4 DEF Indexes, Passes, Types, CallTypes, ClientTypes, LifeTypes, StoreTypes,
     callVars, clientVars, lifeVars, storeVars
<1> QED
  BY <1>1, <1>2, <1>3, <1>4 DEF Store

\* A step of lifespan, a signal, and a step that raises.
LEMMA LifeTyped ==
  ASSUME Types, Life \/ Signal \/ StepFails PROVE Types'
<1> USE DEF Types, LifeTypes, StoreTypes, storeVars
<1>1. CASE Warms \/ CloseNext
  <2>1. todo # <<>>
    BY <1>1 DEF Warms, CloseNext
  <2>2. Tail(todo) \in Seq({"accessor", "embedder", "llm", "reranker", "prepare"})
    BY <2>1
  <2> QED
    BY <1>1, <2>2 DEF Warms, CloseNext, CallTypes, ClientTypes, callVars, clientVars
<1>2. CASE Starts \/ LifespanEnds \/ Exits \/ Signal \/ StepFails
  BY <1>2 DEF Starts, LifespanEnds, Exits, Signal, StepFails, CallTypes, ClientTypes, callVars, clientVars
<1>3. CASE BeginClose
  <2>1. CallTypes'
    <3>1. CASE kind = "file"
      BY <1>3, <3>1 DEF BeginClose, PollerStops, CallTypes, callVars, clientVars
    <3>2. CASE kind # "file"
      BY <1>3, <3>2, LeavesTyped, UserFacts, ServerAssumption DEF BeginClose, PollerStops, ClientTypes, clientVars
    <3> QED
      BY <3>1, <3>2
  <2>2. todo' \in Seq({"accessor", "embedder", "llm", "reranker", "prepare"})
    BY <1>3 DEF BeginClose, Closers
  <2> QED
    BY <1>3, <2>1, <2>2 DEF BeginClose, ClientTypes, clientVars
<1>4. CASE CloseAccessor
  <2>1. todo # <<>>
    BY <1>4 DEF CloseAccessor, Closers
  <2>2. Tail(todo) \in Seq({"accessor", "embedder", "llm", "reranker", "prepare"})
    BY <2>1
  <2>3. live' \subseteq live /\ client' = 0 /\ UNCHANGED <<opened, ready, lost>>
    BY <1>4 DEF CloseAccessor
  <2>4. ClientTypes'
    BY <2>3 DEF ClientTypes
  <2> QED
    BY <1>4, <2>2, <2>4 DEF CloseAccessor, CallTypes, callVars
<1> QED
  BY <1>1, <1>2, <1>3, <1>4 DEF Life

\* Types are kept by every step.
LEMMA StepTypes == Types /\ [Next]_vars => Types'
<1> SUFFICES ASSUME Types, [Next]_vars PROVE Types'
  OBVIOUS
<1>1. CASE \E u \in Users : Enter(u) \/ Goes(u)
  <2> PICK u \in Users : Enter(u) \/ Goes(u)
    BY <1>1
  <2>1. CASE Enter(u)
    <3>1. CallTypes' /\ ClientTypes'
      BY <2>1, EnsureTypes DEF Enter
    <3> QED
      BY <2>1, <3>1 DEF Enter, Types, LifeTypes, StoreTypes, lifeVars, storeVars
  <2> QED
    BY <2>1, GoesTypes
<1>2. CASE UNCHANGED vars
  BY <1>2 DEF vars, Types, CallTypes, ClientTypes, LifeTypes, StoreTypes, callVars, clientVars, lifeVars, storeVars
<1> QED
  BY <1>1, <1>2, OtherTypes, LifeTyped DEF Next

\* And hold at the start.
LEMMA InitTypes == Init => Types
<1> SUFFICES ASSUME Init PROVE Types
  OBVIOUS
<1>1. CallTypes
  BY ServerAssumption DEF Init, CallTypes, Stages
<1>2. ClientTypes
  BY ServerAssumption DEF Init, ClientTypes
<1>3. LifeTypes
  <2>1. WarmUp \in Seq({"accessor", "embedder", "llm", "reranker", "prepare"})
    BY DEF WarmUp
  <2>2. kind \in Kinds /\ phase = "starting" /\ todo = WarmUp /\ refreshing = FALSE
    BY DEF Init
  <2> QED
    BY <2>1, <2>2 DEF LifeTypes
<1>4. StoreTypes
  <2>1. outages = 0 /\ file \in {"absent", "table"} /\ up = TRUE /\ locked = FALSE
    BY DEF Init
  <2>2. outages \in 0..MaxOutages
    BY <2>1, ServerAssumption
  <2> QED
    BY <2>1, <2>2, Zenon DEF StoreTypes
<1> QED
  BY <1>1, <1>2, <1>3, <1>4 DEF Types

\* The types of the server's variables and of the tracker it is built around.
THEOREM TypeCorrect == Spec => []TypeOK
<1>1. Init => TrackerInv /\ Types
  BY InitTypes, TrackerInitInv DEF Init
<1>2. TrackerInv /\ Types /\ [Next]_vars => (TrackerInv /\ Types)'
  BY StepTypes, ServerIsTracker, TrackerStepInv
<1>3. TrackerInv /\ Types => TypeOK
  BY TypesAreTypeOK DEF TrackerInv
<1> QED
  BY <1>1, <1>2, <1>3, PTL DEF Spec
-----------------------------------------------------------------------------
(* Nobody works with a client that is closed.                              *)

\* A call holds a client that is open; a reader of a file has none.
Owned ==
    /\ client # 0 => client \in live /\ kind # "file"
    /\ \A u \in Users :
         /\ stage[u] = "trying" => kind = "file"
         /\ stage[u] \in {"opening", "looking", "connecting"} => kind # "file"
         /\ stage[u] = "looking" => opened \in live
         /\ stage[u] \in {"looking", "connecting", "using"} =>
              IF kind = "file" THEN holds[u] = 0 ELSE holds[u] \in live

RequestsOut == \A r \in Handlers \cup Searches : stage[r] = "out"

PollerOut == stage[Poller] = "out" \/ kind = "file"

\* Who may still be at work in each phase, and whether there is a client.
Ordered ==
    /\ stage[Refresher] # "out" => refreshing
    /\ phase = "starting" => client = 0 /\ ~refreshing /\ \A u \in Users : stage[u] = "out"
    /\ phase \in {"closing", "exiting", "stopped"} => RequestsOut /\ PollerOut
    /\ phase \in {"exiting", "stopped"} => ~refreshing
    /\ phase \in {"closing", "exiting", "stopped"} /\ todo # Closers => client = 0 /\ ~refreshing

ServerInv == Types /\ Owned /\ Ordered

\* The two properties are what the invariant says at once.
LEMMA ServerInvUse == ServerInv => InUseIsOpen /\ ClosedForGood
<1> SUFFICES ASSUME ServerInv PROVE InUseIsOpen /\ ClosedForGood
  OBVIOUS
<1>1. InUseIsOpen
  BY DEF ServerInv, Owned, InUseIsOpen
<1>2. ClosedForGood
  <2> SUFFICES ASSUME AccessorClosed
               PROVE  client = 0 /\ \A u \in Users : stage[u] = "out" \/ (kind = "file" /\ u = Poller)
    BY DEF ClosedForGood
  <2>1. client = 0 /\ ~refreshing /\ RequestsOut /\ PollerOut
    BY DEF AccessorClosed, ServerInv, Ordered
  <2>2. stage[Refresher] = "out"
    BY <2>1 DEF ServerInv, Ordered
  <2> QED
    BY <2>1, <2>2, UserFacts DEF RequestsOut, PollerOut
<1> QED
  BY <1>1, <1>2

\* A server begins with nothing open and nobody calling.
LEMMA ServerInitInv == Init => ServerInv
<1> SUFFICES ASSUME Init PROVE ServerInv
  OBVIOUS
<1>1. Owned
  BY DEF Init, Owned
<1>2. Ordered
  BY UserFacts DEF Init, Ordered
<1> QED
  BY <1>1, <1>2, InitTypes DEF ServerInv

\* What a step of one user does to a call: its own moves, the others stay.
LEMMA SetsOwn ==
  ASSUME Types, NEW u \in Users, NEW where, NEW c, Sets(u, where, c)
  PROVE  /\ stage'[u] = where /\ holds'[u] = c
         /\ \A v \in Users \ {u} : stage'[v] = stage[v] /\ holds'[v] = holds[v]
  BY DEF Types, CallTypes, Sets

\* A client that is opened belongs to nobody else, and nobody loses theirs.
LEMMA OwnedStep ==
  ASSUME ServerInv, NEW u \in Users, NEW where, NEW c, Sets(u, where, c),
         kind' = kind, live \subseteq live', opened' = opened \/ opened' \in live',
         client' # 0 => client' \in live' /\ kind # "file",
         where = "trying" => kind = "file",
         where \in {"opening", "looking", "connecting"} => kind # "file",
         where = "looking" => opened' \in live',
         where \in {"looking", "connecting", "using"} => IF kind = "file" THEN c = 0 ELSE c \in live'
  PROVE  Owned'
<1>1. ASSUME NEW v \in Users
      PROVE  /\ stage'[v] = "trying" => kind = "file"
             /\ stage'[v] \in {"opening", "looking", "connecting"} => kind # "file"
             /\ stage'[v] = "looking" => opened' \in live'
             /\ stage'[v] \in {"looking", "connecting", "using"} =>
                  IF kind = "file" THEN holds'[v] = 0 ELSE holds'[v] \in live'
  <2>1. CASE v = u
    BY <2>1, SetsOwn DEF ServerInv
  <2>2. CASE v # u
    BY <2>2, SetsOwn DEF ServerInv, Owned
  <2> QED
    BY <2>1, <2>2
<1> QED
  BY <1>1 DEF Owned

\* How a call begins.
LEMMA EnsureOwned ==
  ASSUME ServerInv, NEW u \in Users, Ensure(u), kind' = kind PROVE Owned'
<1>1. CASE FindsClient(u)
  <2>1. client # 0 /\ Sets(u, "using", client) /\ UNCHANGED <<client, live, opened>>
    BY <1>1 DEF FindsClient, clientVars
  <2>2. client \in live /\ kind # "file"
    BY <2>1 DEF ServerInv, Owned
  <2> QED
    BY <2>1, <2>2, OwnedStep
<1>2. CASE OpensAtOnce(u) \/ StartsLooking(u) \/ StartsConnecting(u)
  <2>1. PICK where \in {"using", "looking", "connecting"} : Sets(u, where, opened')
    BY <1>2 DEF OpensAtOnce, StartsLooking, StartsConnecting
  <2>2. /\ kind # "file" /\ NewClient(opened + 1) /\ client' \in {client, opened'}
    BY <1>2 DEF OpensAtOnce, StartsLooking, StartsConnecting
  <2>3. opened' \in live' /\ live \subseteq live'
    BY <2>2, NewClientTyped DEF ServerInv, Types
  <2>4. client # 0 => client \in live
    BY DEF ServerInv, Owned
  <2>5. client' # 0 => client' \in live' /\ kind # "file"
    BY <2>2, <2>3, <2>4
  <2> QED
    BY <2>1, <2>2, <2>3, <2>5, OwnedStep
<1>3. CASE StartsOpening(u)
  <2>1. kind # "file" /\ client = 0 /\ Sets(u, "opening", 0) /\ UNCHANGED <<client, live, opened>>
    BY <1>3 DEF StartsOpening, clientVars
  <2> QED
    BY <2>1, OwnedStep
<1>4. CASE StartsThread(u)
  <2>1. kind = "file" /\ Sets(u, "trying", 0) /\ UNCHANGED <<client, live, opened>>
    BY <1>4 DEF StartsThread, clientVars
  <2>2. client' # 0 => client' \in live' /\ kind # "file"
    BY <2>1 DEF ServerInv, Owned
  <2> QED
    BY <2>1, <2>2, OwnedStep
<1> QED
  BY <1>1, <1>2, <1>3, <1>4 DEF Ensure

\* How it goes on.
LEMMA GoesOwned ==
  ASSUME ServerInv, NEW u \in Users, Goes(u) PROVE Owned'
<1>1. CASE Opened(u)
  <2>1. /\ stage[u] = "opening" /\ NewClient(opened + 1) /\ client' \in {client, opened'} /\ kind' = kind
    BY <1>1 DEF Opened, Keep, lifeVars
  <2>2. opened' \in live' /\ live \subseteq live'
    BY <2>1, NewClientTyped DEF ServerInv, Types
  <2>3. kind # "file" /\ (client # 0 => client \in live)
    BY <2>1 DEF ServerInv, Owned
  <2>4. client' # 0 => client' \in live' /\ kind # "file"
    BY <2>1, <2>2, <2>3
  <2>5. PICK where \in {"using", "looking"} : Sets(u, where, opened')
    BY <1>1 DEF Opened
  <2> QED
    BY <2>1, <2>2, <2>3, <2>4, <2>5, OwnedStep
<1>2. CASE Connected(u)
  <2>1. stage[u] = "connecting" /\ Sets(u, "using", holds[u]) /\ UNCHANGED <<client, live, opened, kind>>
    BY <1>2 DEF Connected, lifeVars
  <2>2. kind # "file" /\ holds[u] \in live /\ (client # 0 => client \in live)
    BY <2>1 DEF ServerInv, Owned
  <2> QED
    BY <2>1, <2>2, OwnedStep
<1>3. CASE FileOpened(u)
  <2>1. stage[u] = "trying" /\ Sets(u, "using", 0) /\ UNCHANGED <<client, live, opened, kind>>
    BY <1>3 DEF FileOpened, clientVars, lifeVars
  <2>2. kind = "file" /\ (client # 0 => client \in live /\ kind # "file")
    BY <2>1 DEF ServerInv, Owned
  <2> QED
    BY <2>1, <2>2, OwnedStep
<1>4. CASE Answers(u) \/ Raises(u)
  <2>1. Sets(u, "out", 0) /\ UNCHANGED <<client, live, opened, kind>>
    BY <1>4 DEF Answers, Raises, Leaves, clientVars
  <2>2. client # 0 => client \in live /\ kind # "file"
    BY DEF ServerInv, Owned
  <2> QED
    BY <2>1, <2>2, OwnedStep
<1>6. CASE LooksUp(u)
  <2>1. /\ stage[u] = "looking" /\ client' = Maker(u) /\ Sets(u, "using", Maker(u))
        /\ UNCHANGED <<live, opened, kind>>
    BY <1>6 DEF LooksUp, Keep, lifeVars
  <2>2. kind # "file" /\ Maker(u) \in live
    BY <2>1 DEF ServerInv, Owned, Maker
  <2> QED
    BY <2>1, <2>2, OwnedStep
<1>5. CASE Retry(u) \/ (u \in Callers /\ Observes(u))
  BY <1>5 DEF Retry, Observes, callVars, clientVars, lifeVars, ServerInv, Owned
<1> QED
  BY <1>1, <1>2, <1>3, <1>4, <1>5, <1>6 DEF Goes

\* A call begins while the server serves or drains, or in the refresh.
LEMMA MayCallWhen ==
  ASSUME NEW u \in Users, MayCall(u)
  PROVE  stage[u] = "out" /\ (phase \in {"serving", "draining"} \/ (u = Refresher /\ refreshing))
<1>1. CASE u \in Handlers \cup Searches
  BY <1>1 DEF MayCall
<1>2. CASE u = Poller
  BY <1>2, UserFacts DEF MayCall
<1>3. CASE u = Refresher
  BY <1>3, UserFacts DEF MayCall
<1> QED
  BY <1>1, <1>2, <1>3, UserFacts

\* What the step of a user leaves alone, and where it may be at work.
LEMMA UserStep ==
  ASSUME ServerInv, NEW u \in Users, Enter(u) \/ Goes(u)
  PROVE  /\ UNCHANGED <<kind, phase, todo>>
         /\ \A v \in Users \ {u} : stage'[v] = stage[v]
         /\ stage'[u] = "out" \/ stage[u] # "out" \/ MayCall(u)
         /\ client' = client \/ (kind # "file" /\ (stage[u] # "out" \/ MayCall(u)))
         /\ refreshing' = refreshing \/ (u = Refresher /\ ~refreshing' /\ stage'[u] = "out")
<1> USE DEF ServerInv
<1>1. CASE Enter(u)
  <2>1. MayCall(u) /\ Ensure(u) /\ UNCHANGED lifeVars
    BY <1>1 DEF Enter
  <2>2. PICK where, c : Sets(u, where, c)
    BY <2>1 DEF Ensure, FindsClient, OpensAtOnce, StartsOpening, StartsLooking, StartsConnecting,
                StartsThread
  <2>3. client' = client \/ kind # "file"
    BY <2>1 DEF Ensure, FindsClient, OpensAtOnce, StartsOpening, StartsLooking, StartsConnecting,
                StartsThread, clientVars
  <2> QED
    BY <2>1, <2>2, <2>3, SetsOwn DEF lifeVars
<1>2. CASE Opened(u)
  <2>1. stage[u] = "opening" /\ UNCHANGED lifeVars
    BY <1>2 DEF Opened
  <2>2. kind # "file"
    BY <2>1 DEF Owned
  <2>3. PICK where \in {"using", "looking"} : Sets(u, where, opened')
    BY <1>2 DEF Opened
  <2> QED
    BY <2>1, <2>2, <2>3, SetsOwn DEF lifeVars
<1>7. CASE LooksUp(u)
  <2>1. stage[u] = "looking" /\ Sets(u, "using", Maker(u)) /\ UNCHANGED lifeVars
    BY <1>7 DEF LooksUp
  <2>2. kind # "file"
    BY <2>1 DEF Owned
  <2> QED
    BY <2>1, <2>2, SetsOwn DEF lifeVars
<1>3. CASE Connected(u)
  <2>1. stage[u] = "connecting" /\ Sets(u, "using", holds[u]) /\ client' = client /\ UNCHANGED lifeVars
    BY <1>3 DEF Connected
  <2> QED
    BY <2>1, SetsOwn DEF lifeVars
<1>4. CASE FileOpened(u)
  <2>1. stage[u] = "trying" /\ Sets(u, "using", 0) /\ UNCHANGED <<clientVars, lifeVars>>
    BY <1>4 DEF FileOpened
  <2> QED
    BY <2>1, SetsOwn DEF clientVars, lifeVars
<1>5. CASE Answers(u) \/ Raises(u)
  <2>1. Sets(u, "out", 0) /\ Ended(u) /\ UNCHANGED <<client, kind, phase, todo>>
    BY <1>5 DEF Answers, Raises, Leaves, clientVars
  <2> QED
    BY <2>1, SetsOwn DEF Ended
<1>6. CASE Retry(u) \/ (u \in Callers /\ Observes(u))
  BY <1>6 DEF Retry, Observes, callVars, clientVars, lifeVars
<1> QED
  BY <1>1, <1>2, <1>3, <1>4, <1>5, <1>6, <1>7 DEF Goes

\* So it keeps the order of the phases.
LEMMA UserOrdered ==
  ASSUME ServerInv, NEW u \in Users, Enter(u) \/ Goes(u) PROVE Ordered'
<1>1. /\ UNCHANGED <<kind, phase, todo>>
      /\ \A v \in Users \ {u} : stage'[v] = stage[v]
      /\ stage'[u] = "out" \/ stage[u] # "out" \/ MayCall(u)
      /\ client' = client \/ (kind # "file" /\ (stage[u] # "out" \/ MayCall(u)))
      /\ refreshing' = refreshing \/ (u = Refresher /\ ~refreshing' /\ stage'[u] = "out")
  BY UserStep
<1>2. MayCall(u) => phase \in {"serving", "draining"} \/ (u = Refresher /\ refreshing)
  BY MayCallWhen
<1>3. stage'[Refresher] # "out" => refreshing'
  <2>1. stage[Refresher] # "out" => refreshing
    BY DEF ServerInv, Ordered
  <2>2. CASE u = Refresher
    <3>1. MayCall(u) => refreshing
      BY <2>2, UserFacts DEF MayCall
    <3> QED
      BY <1>1, <2>1, <2>2, <3>1
  <2>3. CASE u # Refresher
    BY <1>1, <2>1, <2>3, UserFacts
  <2> QED
    BY <2>2, <2>3
<1>4. phase' = "starting" => client' = 0 /\ ~refreshing' /\ \A v \in Users : stage'[v] = "out"
  <2> SUFFICES ASSUME phase = "starting"
               PROVE  client' = 0 /\ ~refreshing' /\ \A v \in Users : stage'[v] = "out"
    BY <1>1
  <2>1. client = 0 /\ ~refreshing /\ \A v \in Users : stage[v] = "out"
    BY DEF ServerInv, Ordered
  <2>2. ~MayCall(u)
    BY <1>2, <2>1
  <2> QED
    BY <1>1, <2>1, <2>2
<1>5. phase' \in {"closing", "exiting", "stopped"} => RequestsOut' /\ PollerOut'
  <2> SUFFICES ASSUME phase \in {"closing", "exiting", "stopped"} PROVE RequestsOut' /\ PollerOut'
    BY <1>1
  <2>1. RequestsOut /\ PollerOut
    BY DEF ServerInv, Ordered
  <2>2. u # Refresher => ~MayCall(u)
    BY <1>2
  <2> QED
    BY <1>1, <2>1, <2>2, UserFacts DEF RequestsOut, PollerOut
<1>6. phase' \in {"exiting", "stopped"} => ~refreshing'
  BY <1>1 DEF ServerInv, Ordered
<1>7. phase' \in {"closing", "exiting", "stopped"} /\ todo' # Closers => client' = 0 /\ ~refreshing'
  <2> SUFFICES ASSUME phase \in {"closing", "exiting", "stopped"}, todo # Closers
               PROVE  client' = 0 /\ ~refreshing'
    BY <1>1
  <2>1. client = 0 /\ ~refreshing /\ RequestsOut /\ PollerOut
    BY DEF ServerInv, Ordered
  <2>2. stage[Refresher] = "out"
    BY <2>1 DEF ServerInv, Ordered
  <2>3. ~MayCall(u)
    BY <1>2, <2>1
  <2>4. kind # "file" => stage[u] = "out"
    BY <2>1, <2>2, UserFacts DEF RequestsOut, PollerOut
  <2> QED
    BY <1>1, <2>1, <2>3, <2>4
<1> QED
  BY <1>3, <1>4, <1>5, <1>6, <1>7 DEF Ordered

\* Every step keeps both.
LEMMA ServerStepInv == ServerInv /\ [Next]_vars => ServerInv'
<1> SUFFICES ASSUME ServerInv, [Next]_vars PROVE Owned' /\ Ordered'
  BY StepTypes DEF ServerInv
<1>1. CASE \E u \in Users : Enter(u) \/ Goes(u)
  <2> PICK u \in Users : Enter(u) \/ Goes(u)
    BY <1>1
  <2>1. CASE Enter(u)
    BY <2>1, EnsureOwned, UserOrdered DEF Enter, lifeVars
  <2>2. CASE Goes(u)
    BY <2>2, GoesOwned, UserOrdered
  <2> QED
    BY <2>1, <2>2
<1>2. CASE \E s \in Searches : StartRefresh(s)
  <2> PICK s \in Searches : StartRefresh(s)
    BY <1>2
  <2>1. /\ stage[s] = "using" /\ s \in Users /\ refreshing'
        /\ UNCHANGED <<kind, phase, todo, stage, holds, client, live, opened>>
    BY UserFacts DEF StartRefresh, callVars, clientVars
  <2>2. phase \notin {"starting", "closing", "exiting", "stopped"}
    BY <2>1 DEF ServerInv, Ordered, RequestsOut
  <2>3. Owned'
    BY <2>1 DEF ServerInv, Owned
  <2>4. Ordered'
    BY <2>1, <2>2 DEF ServerInv, Ordered
  <2> QED
    BY <2>3, <2>4
<1>3. CASE Store \/ UNCHANGED vars
  <2>1. UNCHANGED <<kind, phase, todo, refreshing, stage, holds, client, live, opened>>
    BY <1>3 DEF Store, GoesDown, ComesUp, Lock, Unlock, Creates, Indexes, Passes, vars, callVars, clientVars, lifeVars
  <2> QED
    BY <2>1 DEF ServerInv, Owned, Ordered, RequestsOut, PollerOut
<1>4. CASE Warms \/ Starts \/ Signal
  <2>1. /\ UNCHANGED <<kind, refreshing, stage, holds, client, live, opened>>
        /\ phase' \in {"starting", "serving", "draining"} /\ (phase' = "starting" => phase = "starting")
    BY <1>4 DEF Warms, Starts, Signal, callVars, clientVars
  <2> QED
    BY <2>1 DEF ServerInv, Owned, Ordered
<1>5. CASE BeginClose
  <2>1. /\ phase = "draining" /\ Drained /\ phase' = "closing" /\ todo' = Closers
        /\ UNCHANGED <<kind, refreshing, client, live, opened>>
        /\ IF kind = "file" THEN UNCHANGED callVars ELSE Leaves(Poller)
    BY <1>5 DEF BeginClose, PollerStops, clientVars
  <2>2. CASE kind = "file"
    BY <2>1, <2>2 DEF ServerInv, Owned, Ordered, RequestsOut, PollerOut, Drained, callVars
  <2>3. CASE kind # "file"
    <3>1. Sets(Poller, "out", 0) /\ Poller \in Users
      BY <2>1, <2>3, UserFacts DEF Leaves
    <3>2. stage'[Poller] = "out" /\ \A v \in Users \ {Poller} : stage'[v] = stage[v]
      BY <3>1, SetsOwn DEF ServerInv
    <3>3. Owned'
      BY <2>1, <3>1, OwnedStep DEF ServerInv, Owned
    <3>4. Ordered'
      BY <2>1, <3>2, UserFacts DEF ServerInv, Ordered, RequestsOut, PollerOut, Drained
    <3> QED
      BY <3>3, <3>4
  <2> QED
    BY <2>2, <2>3
<1>6. CASE CloseAccessor
  <2>1. /\ phase = "closing" /\ phase' = phase /\ ~refreshing /\ client' = 0
        /\ UNCHANGED <<kind, refreshing, stage, holds>>
    BY <1>6 DEF CloseAccessor, RefreshDone, callVars
  <2>2. RequestsOut /\ PollerOut /\ stage[Refresher] = "out"
    BY <2>1 DEF ServerInv, Ordered
  <2>3. \A u \in Users : stage[u] = "out" \/ kind = "file"
    BY <2>2, UserFacts DEF RequestsOut, PollerOut
  <2>4. Owned'
    BY <2>1, <2>3 DEF ServerInv, Owned
  <2>5. Ordered'
    BY <2>1, <2>2 DEF ServerInv, Ordered, RequestsOut, PollerOut
  <2> QED
    BY <2>4, <2>5
<1>7. CASE CloseNext \/ LifespanEnds
  <2>1. /\ phase = "closing" /\ todo # Closers /\ phase' \in {"closing", "exiting"}
        /\ UNCHANGED <<kind, refreshing, stage, holds, client, live, opened>>
    BY <1>7 DEF CloseNext, LifespanEnds, Closers, callVars, clientVars
  <2> QED
    BY <2>1 DEF ServerInv, Owned, Ordered, RequestsOut, PollerOut
<1>8. CASE Exits
  <2>1. /\ phase = "exiting" /\ phase' = "stopped"
        /\ UNCHANGED <<kind, todo, refreshing, stage, holds, client, live, opened>>
    BY <1>8 DEF Exits, callVars, clientVars
  <2> QED
    BY <2>1 DEF ServerInv, Owned, Ordered, RequestsOut, PollerOut
<1>9. CASE StepFails
  <2>1. /\ phase \in {"starting", "closing"} /\ phase' = "exiting" /\ (todo = Closers => ~refreshing)
        /\ UNCHANGED <<kind, todo, refreshing, stage, holds, client, live, opened>>
    BY <1>9 DEF StepFails, callVars, clientVars
  <2>2. CASE phase = "starting"
    BY <2>1, <2>2, UserFacts DEF ServerInv, Owned, Ordered, RequestsOut, PollerOut
  <2>3. CASE phase = "closing"
    BY <2>1, <2>3 DEF ServerInv, Owned, Ordered, RequestsOut, PollerOut
  <2> QED
    BY <2>1, <2>2, <2>3
<1> QED
  BY <1>1, <1>2, <1>3, <1>4, <1>5, <1>6, <1>7, <1>8, <1>9 DEF Next, Life

\* main.py:267-275, hybrid.py:257-261: no client is closed under a call,
\* whatever the accessor, and however many requests and searches there are.
THEOREM NeverClosedInUse == Spec => []InUseIsOpen
<1>1. ServerInv => InUseIsOpen
  BY ServerInvUse
<1> QED
  BY <1>1, ServerInitInv, ServerStepInv, PTL DEF Spec

\* main.py:268-270: after the accessor is closed no client is opened and no
\* call begins, although the poller is cancelled and not awaited.
THEOREM StaysClosed == Spec => []ClosedForGood
<1>1. ServerInv => ClosedForGood
  BY ServerInvUse
<1> QED
  BY <1>1, ServerInitInv, ServerStepInv, PTL DEF Spec
-----------------------------------------------------------------------------
(* How many clients are opened, and lost.                                  *)

Shared == Callers \cup Searches
Opens == {u \in Shared : stage[u] = "opening"}
Waits == {u \in Shared : stage[u] \in {"opening", "looking"}}
Shut == phase \in {"closing", "exiting", "stopped"} /\ todo # Closers
Early == phase \in {"starting", "serving", "draining"}

\* Whoever opens a client began while there was none, and nobody begins to
\* once there is one. Until then every client opened was lost, or is that of
\* a call which still waits: one more call, one more client. A refresh, which
\* only a search that has a client starts, opens none.
Counted ==
    /\ opened + Cardinality(Opens) <= Cardinality(Shared) + lost
    /\ Early /\ client = 0 => opened + Cardinality(Opens) <= Cardinality(Waits) + lost
    /\ Len(todo) <= 4
    /\ ~Shut /\ kind # "file" /\ (refreshing \/ \E u \in Users : stage[u] \in {"connecting", "using"})
         => client # 0
    /\ \A u \in Users : stage[u] \in {"opening", "looking"} => u # Refresher
    /\ \A u \in Users : stage[u] = "looking" => holds[u] # 0

CountInv == ServerInv /\ Counted

\* Sets of users are finite, and a smaller one has no more members.
LEMMA Fewer ==
  ASSUME NEW S, NEW T, S \subseteq T, T \subseteq Shared
  PROVE  /\ IsFiniteSet(T) /\ Cardinality(S) \in Nat /\ Cardinality(T) \in Nat
         /\ Cardinality(S) <= Cardinality(T)
<1>1. IsFiniteSet(Shared)
  <2>1. IsFiniteSet({Poller})
    BY FS_Singleton
  <2>2. IsFiniteSet(Handlers \cup {Poller})
    BY <2>1, FS_Union, TrackerAssumption
  <2> QED
    BY <2>2, FS_Union, ServerAssumption DEF Shared, Callers
<1>2. T \in SUBSET Shared
  OBVIOUS
<1>3. IsFiniteSet(T)
  BY <1>1, <1>2, FS_Subset
<1>4. S \in SUBSET T
  OBVIOUS
<1>5. IsFiniteSet(S) /\ Cardinality(S) <= Cardinality(T)
  BY <1>3, <1>4, FS_Subset
<1> QED
  BY <1>3, <1>5, FS_CardinalityType

\* There is somebody, the poller.
LEMMA SomebodyCounts == Cardinality(Shared) \in Nat /\ Cardinality(Shared) >= 1
<1>1. {Poller} \subseteq Shared
  BY DEF Shared, Callers
<1>2. Cardinality({Poller}) = 1
  BY FS_Singleton
<1> QED
  BY <1>1, <1>2, Fewer

\* What is counted is a number.
LEMMA Numbers ==
  ASSUME CountInv
  PROVE  /\ opened \in Nat /\ lost \in Nat
         /\ Opens \subseteq Waits /\ Waits \subseteq Shared
         /\ Cardinality(Opens) \in Nat /\ Cardinality(Waits) \in Nat
<1>1. Opens \subseteq Waits /\ Waits \subseteq Shared
  BY DEF Opens, Waits
<1> QED
  BY <1>1, Fewer DEF CountInv, ServerInv, Types, ClientTypes

\* A step after which no more are opened, and no more wait to.
LEMMA NoMoreOpened ==
  ASSUME CountInv, opened' = opened, lost' \in Nat, lost <= lost',
         \A u \in Users : stage'[u] = "opening" => stage[u] = "opening"
  PROVE  opened' + Cardinality(Opens') <= Cardinality(Shared) + lost'
<1>1. Opens' \subseteq Opens /\ Opens \subseteq Shared
  BY DEF Opens, Shared, Users
<1>2. opened \in Nat /\ lost \in Nat
  BY Numbers
<1>3. Cardinality(Opens') \in Nat /\ Cardinality(Opens) \in Nat /\ Cardinality(Opens') <= Cardinality(Opens)
  BY <1>1, Fewer
<1>4. Cardinality(Shared) \in Nat
  BY SomebodyCounts
<1> QED
  BY <1>2, <1>3, <1>4 DEF CountInv, Counted

\* A call that finds no client may be the one more.
LEMMA OneMore ==
  ASSUME CountInv, NEW u \in Users, MayCall(u), client = 0, kind # "file"
  PROVE  /\ u \in Shared /\ u \notin Waits /\ Early /\ ~Shut /\ ~refreshing
         /\ \A v \in Users : stage[v] \notin {"connecting", "using"}
         /\ Cardinality(Waits \cup {u}) = Cardinality(Waits) + 1
         /\ Cardinality(Waits) + 1 <= Cardinality(Shared)
<1>1. stage[u] = "out" /\ (phase \in {"serving", "draining"} \/ (u = Refresher /\ refreshing))
  BY MayCallWhen
<1>2. ~Shut
  BY <1>1 DEF Shut, CountInv, ServerInv, Ordered
<1>3. ~refreshing /\ \A v \in Users : stage[v] \notin {"connecting", "using"}
  BY <1>2 DEF CountInv, Counted
<1>4. u # Refresher
  BY <1>3, UserFacts DEF MayCall
<1>5. u \in Shared /\ u \notin Waits
  BY <1>1, <1>4 DEF Shared, Users, Waits
<1>6. Waits \subseteq Waits \cup {u} /\ Waits \cup {u} \subseteq Shared
  BY <1>5 DEF Waits
<1>7. IsFiniteSet(Waits) /\ Cardinality(Waits \cup {u}) <= Cardinality(Shared)
  BY <1>6, Fewer
<1>8. Cardinality(Waits \cup {u}) = Cardinality(Waits) + 1
  BY <1>5, <1>7, FS_AddElement
<1> QED
  BY <1>1, <1>2, <1>3, <1>5, <1>7, <1>8 DEF Early

\* The one it opens, or will.
LEMMA OneOpens ==
  ASSUME CountInv, NEW u \in Users, MayCall(u), client = 0, kind # "file", lost' = lost,
         \/ opened' = opened + 1 /\ \A v \in Users : stage'[v] = "opening" => stage[v] = "opening"
         \/ opened' = opened /\ \A v \in Users : stage'[v] = "opening" => v = u \/ stage[v] = "opening"
  PROVE  /\ opened' + Cardinality(Opens') <= Cardinality(Waits) + 1 + lost
         /\ opened' + Cardinality(Opens') <= Cardinality(Shared) + lost'
<1>1. /\ u \in Shared /\ u \notin Waits /\ Early
      /\ Cardinality(Waits) + 1 <= Cardinality(Shared)
  BY OneMore
<1>2. /\ opened \in Nat /\ lost \in Nat /\ Cardinality(Opens) \in Nat /\ Cardinality(Waits) \in Nat
      /\ Opens \subseteq Waits /\ Waits \subseteq Shared
  BY Numbers
<1>3. Cardinality(Shared) \in Nat
  BY SomebodyCounts
<1>4. opened + Cardinality(Opens) <= Cardinality(Waits) + lost
  BY <1>1 DEF CountInv, Counted
<1>5. opened' \in Nat /\ Cardinality(Opens') \in Nat
  <2>1. Opens' \subseteq Shared
    BY DEF Opens
  <2>2. Cardinality(Opens') \in Nat
    BY <2>1, Fewer
  <2> QED
    BY <1>2, <2>2
<1>6. opened' + Cardinality(Opens') <= opened + Cardinality(Opens) + 1
  <2>1. CASE opened' = opened + 1 /\ \A v \in Users : stage'[v] = "opening" => stage[v] = "opening"
    <3>1. Opens' \subseteq Opens /\ Opens \subseteq Shared
      BY <2>1 DEF Opens, Shared, Users
    <3>2. Cardinality(Opens') <= Cardinality(Opens)
      BY <3>1, Fewer
    <3> QED
      BY <1>2, <1>5, <2>1, <3>2
  <2>2. CASE opened' = opened /\ \A v \in Users : stage'[v] = "opening" => v = u \/ stage[v] = "opening"
    <3>1. Opens' \subseteq Opens \cup {u} /\ Opens \cup {u} \subseteq Shared
      BY <1>1, <2>2 DEF Opens, Shared, Users
    <3>2. Cardinality(Opens') <= Cardinality(Opens \cup {u})
      BY <3>1, Fewer
    <3>3. IsFiniteSet(Opens) /\ u \notin Opens
      BY <1>1, <1>2, Fewer
    <3>4. Cardinality(Opens \cup {u}) = Cardinality(Opens) + 1
      BY <3>3, FS_AddElement
    <3> QED
      BY <1>2, <1>5, <2>2, <3>2, <3>4
  <2> QED
    BY <2>1, <2>2
<1> HIDE DEF Opens, Waits, Shared
<1> QED
  BY <1>1, <1>2, <1>3, <1>4, <1>5, <1>6

\* One that was waited for.
LEMMA OneOpened ==
  ASSUME CountInv, NEW u \in Users, stage[u] = "opening", opened' = opened + 1, lost' = lost,
         \A v \in Users : stage'[v] = "opening" => v # u /\ stage[v] = "opening"
  PROVE  opened' + Cardinality(Opens') <= opened + Cardinality(Opens)
<1>1. u \in Opens /\ Opens \subseteq Shared
  BY DEF CountInv, Counted, Opens, Shared, Users
<1>2. Opens' \subseteq Opens \ {u} /\ Opens \ {u} \subseteq Shared
  BY <1>1 DEF Opens, Shared, Users
<1>3. IsFiniteSet(Opens) /\ Cardinality(Opens) \in Nat
  BY <1>1, Fewer
<1>4. Cardinality(Opens \ {u}) = Cardinality(Opens) - 1
  BY <1>1, <1>3, FS_RemoveElement
<1>5. Cardinality(Opens') \in Nat /\ Cardinality(Opens') <= Cardinality(Opens \ {u})
  BY <1>2, Fewer
<1>6. opened \in Nat
  BY Numbers
<1> QED
  BY <1>3, <1>4, <1>5, <1>6

\* The call of one that waited raises: either nothing was opened, or what was
\* is lost.
LEMMA OneRaises ==
  ASSUME CountInv, NEW u \in Users, stage[u] \in {"opening", "looking"}, opened' = opened,
         lost' = IF stage[u] = "looking" THEN lost + 1 ELSE lost,
         stage'[u] = "out", \A v \in Users \ {u} : stage'[v] = stage[v]
  PROVE  opened + Cardinality(Opens) <= Cardinality(Waits) + lost
           => opened' + Cardinality(Opens') <= Cardinality(Waits') + lost'
<1>1. u \in Waits /\ Opens \subseteq Waits /\ Waits \subseteq Shared
  BY DEF CountInv, Counted, Opens, Waits, Shared, Users
<1>2. Waits' = Waits \ {u} /\ Opens' = Opens \ {u}
  BY <1>1 DEF Waits, Opens, Shared, Users
<1>3. IsFiniteSet(Waits) /\ IsFiniteSet(Opens)
  BY <1>1, Fewer
<1>4. Cardinality(Waits') = Cardinality(Waits) - 1
  BY <1>1, <1>2, <1>3, FS_RemoveElement
<1>5. opened \in Nat /\ lost \in Nat /\ Cardinality(Opens) \in Nat /\ Cardinality(Waits) \in Nat
  BY Numbers
<1>6. CASE stage[u] = "opening"
  <2>1. u \in Opens
    BY <1>1, <1>6 DEF Opens, Waits
  <2>2. Cardinality(Opens') = Cardinality(Opens) - 1
    BY <1>2, <1>3, <2>1, FS_RemoveElement
  <2> QED
    BY <1>4, <1>5, <1>6, <2>2
<1>7. CASE stage[u] = "looking"
  <2>1. Opens' = Opens
    BY <1>2, <1>7 DEF Opens
  <2> QED
    BY <1>4, <1>5, <1>7, <2>1
<1> QED
  BY <1>6, <1>7

\* A step that opens nothing and ends no wait, while the phase stays what it
\* is or leads to one in which nobody begins a call.
LEMMA Calmer ==
  ASSUME CountInv, UNCHANGED <<kind, opened, lost>>, Len(todo') <= 4,
         Shut' \/ (~Shut /\ client' = client), refreshing' => refreshing,
         \A v \in Users : stage'[v] = "opening" => stage[v] = "opening",
         \A v \in Users : stage'[v] = "looking" => stage[v] = "looking" /\ holds'[v] = holds[v],
         Early' => Early /\ \A v \in Users : stage[v] \in {"opening", "looking"} => stage'[v] = stage[v],
         \A v \in Users : stage'[v] \in {"connecting", "using"} =>
            kind = "file" \/ \E w \in Users : stage[w] \in {"connecting", "using"}
  PROVE  Counted'
<1>1. opened' + Cardinality(Opens') <= Cardinality(Shared) + lost'
  BY NoMoreOpened, Numbers
<1>2. /\ \A v \in Users : stage'[v] \in {"opening", "looking"} => v # Refresher
      /\ \A v \in Users : stage'[v] = "looking" => holds'[v] # 0
  BY DEF CountInv, Counted
<1>3. Early' /\ client' = 0 => opened' + Cardinality(Opens') <= Cardinality(Waits') + lost'
  <2> SUFFICES ASSUME Early', client' = 0
               PROVE  opened' + Cardinality(Opens') <= Cardinality(Waits') + lost'
    OBVIOUS
  <2>1. ~Shut' /\ Early
    BY DEF Shut, Early
  <2>2. Opens' = Opens /\ Waits' = Waits
    BY DEF Opens, Waits, Shared, Users
  <2> QED
    BY <2>1, <2>2 DEF CountInv, Counted
<1>4. ~Shut' /\ kind' # "file" /\ (refreshing' \/ \E v \in Users : stage'[v] \in {"connecting", "using"})
        => client' # 0
  BY DEF CountInv, Counted
<1> QED
  BY <1>1, <1>2, <1>3, <1>4 DEF Counted, Shared

\* The step of a user that leaves the field set.
LEMMA HasClient ==
  ASSUME CountInv, NEW u \in Users, NEW where \in {"using", "connecting"}, NEW c, Sets(u, where, c),
         UNCHANGED <<kind, todo>>, client' # 0,
         opened' + Cardinality(Opens') <= Cardinality(Shared) + lost'
  PROVE  Counted'
<1>1. \A v \in Users : stage'[v] \in {"opening", "looking"} => stage'[v] = stage[v] /\ holds'[v] = holds[v]
  BY SetsOwn DEF CountInv, ServerInv
<1>2. /\ \A v \in Users : stage'[v] \in {"opening", "looking"} => v # Refresher
      /\ \A v \in Users : stage'[v] = "looking" => holds'[v] # 0
  BY <1>1 DEF CountInv, Counted
<1>3. Len(todo') <= 4
  BY DEF CountInv, Counted
<1> QED
  BY <1>2, <1>3 DEF Counted, Shared

\* And one that leaves it empty, and has somebody wait.
LEMMA HasWaiter ==
  ASSUME CountInv, NEW u \in Users, MayCall(u), client = 0, kind # "file",
         NEW where \in {"opening", "looking"}, NEW c, Sets(u, where, c),
         where = "looking" => c # 0,
         where = "opening" => opened' = opened, where = "looking" => opened' = opened + 1,
         UNCHANGED <<kind, phase, todo, refreshing, client, lost>>
  PROVE  Counted'
<1>1. /\ stage'[u] = where /\ holds'[u] = c
      /\ \A v \in Users \ {u} : stage'[v] = stage[v] /\ holds'[v] = holds[v]
  BY SetsOwn DEF CountInv, ServerInv
<1>2. /\ u \in Shared /\ ~refreshing /\ \A v \in Users : stage[v] \notin {"connecting", "using"}
      /\ Cardinality(Waits \cup {u}) = Cardinality(Waits) + 1
  BY OneMore
<1>3. \/ opened' = opened + 1 /\ \A v \in Users : stage'[v] = "opening" => stage[v] = "opening"
      \/ opened' = opened /\ \A v \in Users : stage'[v] = "opening" => v = u \/ stage[v] = "opening"
  BY <1>1
<1>4. /\ opened' + Cardinality(Opens') <= Cardinality(Waits) + 1 + lost
      /\ opened' + Cardinality(Opens') <= Cardinality(Shared) + lost'
  BY <1>3, OneOpens
<1>5. Waits' = Waits \cup {u}
  BY <1>1, <1>2 DEF Waits, Shared, Users
<1>6. opened' + Cardinality(Opens') <= Cardinality(Waits') + lost'
  BY <1>2, <1>4, <1>5
<1>7. u # Refresher
  BY <1>2, UserFacts DEF Shared, Callers
<1>8. /\ \A v \in Users : stage'[v] \in {"opening", "looking"} => v # Refresher
      /\ \A v \in Users : stage'[v] = "looking" => holds'[v] # 0
      /\ \A v \in Users : stage'[v] \notin {"connecting", "using"}
  BY <1>1, <1>2, <1>7 DEF CountInv, Counted
<1>9. Len(todo') <= 4 /\ ~refreshing'
  BY <1>2 DEF CountInv, Counted
<1> QED
  BY <1>4, <1>6, <1>8, <1>9 DEF Counted, Shared

\* A call begins.
LEMMA EnterCounts ==
  ASSUME CountInv, NEW u \in Users, Enter(u) PROVE Counted'
<1>1. Ensure(u) /\ MayCall(u) /\ UNCHANGED <<kind, phase, todo, refreshing>>
  BY DEF Enter, lifeVars
<1>2. stage[u] = "out" /\ ~Shut
  BY <1>1, MayCallWhen DEF Shut, CountInv, ServerInv, Ordered
<1>3. CASE FindsClient(u)
  <2>1. client # 0 /\ Sets(u, "using", client) /\ UNCHANGED <<client, opened, lost>>
    BY <1>3 DEF FindsClient, clientVars
  <2>2. \A v \in Users : stage'[v] = "opening" => stage[v] = "opening"
    BY <2>1, SetsOwn DEF CountInv, ServerInv
  <2>3. opened' + Cardinality(Opens') <= Cardinality(Shared) + lost'
    BY <2>1, <2>2, NoMoreOpened, Numbers
  <2> QED
    BY <1>1, <2>1, <2>3, HasClient
<1>4. CASE OpensAtOnce(u) \/ StartsConnecting(u)
  <2>1. kind # "file" /\ client = 0 /\ client' = opened' /\ NewClient(opened + 1)
    BY <1>4 DEF OpensAtOnce, StartsConnecting
  <2>2. opened' = opened + 1 /\ lost' = lost /\ client' # 0
    BY <2>1, NewClientTyped DEF CountInv, ServerInv, Types
  <2>3. PICK where \in {"using", "connecting"} : Sets(u, where, opened')
    BY <1>4 DEF OpensAtOnce, StartsConnecting
  <2>4. \A v \in Users : stage'[v] = "opening" => stage[v] = "opening"
    BY <2>3, SetsOwn DEF CountInv, ServerInv
  <2>5. opened' + Cardinality(Opens') <= Cardinality(Shared) + lost'
    BY <1>1, <2>1, <2>2, <2>4, OneOpens
  <2> QED
    BY <1>1, <2>2, <2>3, <2>5, HasClient
<1>5. CASE StartsOpening(u)
  <2>1. kind # "file" /\ client = 0 /\ Sets(u, "opening", 0) /\ UNCHANGED <<client, opened, lost>>
    BY <1>5 DEF StartsOpening, clientVars
  <2> QED
    BY <1>1, <2>1, HasWaiter
<1>6. CASE StartsLooking(u)
  <2>1. kind # "file" /\ client = 0 /\ Sets(u, "looking", opened') /\ client' = client /\ NewClient(opened + 1)
    BY <1>6 DEF StartsLooking
  <2>2. opened' = opened + 1 /\ lost' = lost /\ opened' # 0
    BY <2>1, NewClientTyped DEF CountInv, ServerInv, Types
  <2> QED
    BY <1>1, <2>1, <2>2, HasWaiter
<1>7. CASE StartsThread(u)
  <2>1. kind = "file" /\ Sets(u, "trying", 0) /\ UNCHANGED <<client, opened, lost>>
    BY <1>7 DEF StartsThread, clientVars
  <2>2. stage'[u] = "trying" /\ \A v \in Users \ {u} : stage'[v] = stage[v] /\ holds'[v] = holds[v]
    BY <2>1, SetsOwn DEF CountInv, ServerInv
  <2>3. Len(todo') <= 4
    BY <1>1 DEF CountInv, Counted
  <2> QED
    BY <1>1, <1>2, <2>1, <2>2, <2>3, Calmer DEF Early
<1> QED
  BY <1>1, <1>3, <1>4, <1>5, <1>6, <1>7 DEF Ensure

\* A client that was waited for is there.
LEMMA OpenedCounts ==
  ASSUME CountInv, NEW u \in Users, Opened(u) PROVE Counted'
<1>1. stage[u] = "opening" /\ NewClient(opened + 1) /\ UNCHANGED <<kind, phase, todo, refreshing>>
  BY DEF Opened, lifeVars
<1>2. opened' = opened + 1 /\ opened' # 0 /\ lost' = lost
  BY <1>1, NewClientTyped DEF CountInv, ServerInv, Types
<1>3. PICK where \in {"using", "looking"} :
        /\ Sets(u, where, opened')
        /\ where = "using" => client' = opened'
        /\ where = "looking" => client' = client
  BY DEF Opened, Keep
<1>4. /\ stage'[u] = where /\ holds'[u] = opened'
      /\ \A v \in Users \ {u} : stage'[v] = stage[v] /\ holds'[v] = holds[v]
  BY <1>3, SetsOwn DEF CountInv, ServerInv
<1>5. opened' + Cardinality(Opens') <= opened + Cardinality(Opens)
  BY <1>1, <1>2, <1>4, OneOpened
<1>6. /\ opened' + Cardinality(Opens') \in Nat /\ opened + Cardinality(Opens) \in Nat
      /\ Cardinality(Waits) \in Nat /\ lost \in Nat /\ Cardinality(Shared) \in Nat
  <2>1. Opens' \subseteq Shared
    BY DEF Opens
  <2>2. Cardinality(Opens') \in Nat
    BY <2>1, Fewer
  <2> QED
    BY <1>2, <2>2, Numbers, SomebodyCounts
<1>7. opened' + Cardinality(Opens') <= Cardinality(Shared) + lost'
  BY <1>2, <1>5, <1>6 DEF CountInv, Counted
<1>8. CASE where = "using"
  BY <1>1, <1>2, <1>3, <1>7, <1>8, HasClient
<1>9. CASE where = "looking"
  <2>1. Waits' = Waits
    BY <1>1, <1>4, <1>9 DEF Waits, Shared, Users
  <2>2. Early' /\ client' = 0 => opened' + Cardinality(Opens') <= Cardinality(Waits') + lost'
    BY <1>1, <1>2, <1>3, <1>5, <1>6, <1>9, <2>1 DEF CountInv, Counted, Early
  <2>3. /\ \A v \in Users : stage'[v] \in {"opening", "looking"} => v # Refresher
        /\ \A v \in Users : stage'[v] = "looking" => holds'[v] # 0
        /\ \A v \in Users : stage'[v] \in {"connecting", "using"} => stage'[v] = stage[v]
    BY <1>1, <1>2, <1>4, <1>9 DEF CountInv, Counted
  <2>4. ~Shut' /\ kind' # "file" /\ (refreshing' \/ \E v \in Users : stage'[v] \in {"connecting", "using"})
          => client' # 0
    BY <1>1, <1>3, <1>9, <2>3 DEF CountInv, Counted, Shut
  <2>5. Len(todo') <= 4
    BY <1>1 DEF CountInv, Counted
  <2> QED
    BY <1>7, <2>2, <2>3, <2>4, <2>5 DEF Counted, Shared
<1> QED
  BY <1>8, <1>9

\* A call ends.
LEMMA LeavingCounts ==
  ASSUME CountInv, NEW u \in Users, Answers(u) \/ Raises(u) PROVE Counted'
<1>1. /\ Sets(u, "out", 0) /\ UNCHANGED <<client, opened, kind, phase, todo>>
      /\ refreshing' => refreshing
  BY DEF Answers, Raises, Leaves, Ended, clientVars
<1>2. /\ stage'[u] = "out" /\ \A v \in Users \ {u} : stage'[v] = stage[v] /\ holds'[v] = holds[v]
  BY <1>1, SetsOwn DEF CountInv, ServerInv
<1>3. Len(todo') <= 4
  BY <1>1 DEF CountInv, Counted
<1>4. lost' = IF stage[u] = "looking" THEN lost + 1 ELSE lost
  BY DEF Answers, Raises, clientVars
<1>5. CASE stage[u] \notin {"opening", "looking"}
  <2>1. lost' = lost
    BY <1>4, <1>5
  <2> QED
    BY <1>1, <1>2, <1>3, <1>5, <2>1, Calmer DEF Shut, Early
<1>6. CASE stage[u] \in {"opening", "looking"}
  <2>1. lost \in Nat /\ lost' \in Nat /\ lost <= lost'
    BY <1>4, Numbers
  <2>2. opened' + Cardinality(Opens') <= Cardinality(Shared) + lost'
    BY <1>1, <1>2, <2>1, NoMoreOpened
  <2>3. Early' /\ client' = 0 => opened' + Cardinality(Opens') <= Cardinality(Waits') + lost'
    BY <1>1, <1>2, <1>4, <1>6, OneRaises DEF CountInv, Counted, Early
  <2>4. /\ \A v \in Users : stage'[v] \in {"opening", "looking"} => v # Refresher
        /\ \A v \in Users : stage'[v] = "looking" => holds'[v] # 0
        /\ \A v \in Users : stage'[v] \in {"connecting", "using"} => stage'[v] = stage[v]
    BY <1>2 DEF CountInv, Counted
  <2>5. ~Shut' /\ kind' # "file" /\ (refreshing' \/ \E v \in Users : stage'[v] \in {"connecting", "using"})
          => client' # 0
    BY <1>1, <2>4 DEF CountInv, Counted, Shut
  <2> QED
    BY <1>3, <2>2, <2>3, <2>4, <2>5 DEF Counted, Shared
<1> QED
  BY <1>5, <1>6

\* A call goes on. A phase in which it may do so is not over.
LEMMA GoesCounts ==
  ASSUME CountInv, NEW u \in Users, Goes(u) PROVE Counted'
<1>1. Len(todo) <= 4
  BY DEF CountInv, Counted
<1>2. CASE LooksUp(u)
  <2>1. /\ stage[u] = "looking" /\ client' = Maker(u) /\ Sets(u, "using", Maker(u))
        /\ UNCHANGED <<opened, lost, kind, todo>>
    BY <1>2 DEF LooksUp, Keep, lifeVars
  <2>2. holds[u] # 0 /\ holds[u] \in 0..opened /\ opened \in Nat
    BY <2>1, Numbers DEF CountInv, Counted, ServerInv, Types, CallTypes
  <2>3. client' # 0
    BY <2>1, <2>2 DEF Maker
  <2>4. \A v \in Users : stage'[v] = "opening" => stage[v] = "opening"
    BY <2>1, SetsOwn DEF CountInv, ServerInv
  <2>5. opened' + Cardinality(Opens') <= Cardinality(Shared) + lost'
    BY <2>1, <2>4, NoMoreOpened, Numbers
  <2> QED
    BY <2>1, <2>3, <2>5, HasClient
<1>3. CASE Connected(u) \/ FileOpened(u)
  <2>1. /\ stage[u] = "connecting" \/ (stage[u] = "trying" /\ kind = "file")
        /\ Sets(u, "using", holds[u]) \/ Sets(u, "using", 0)
        /\ UNCHANGED <<client, opened, lost, kind, phase, todo, refreshing>>
    BY <1>3 DEF Connected, FileOpened, clientVars, lifeVars, CountInv, ServerInv, Owned
  <2>2. stage'[u] = "using" /\ \A v \in Users \ {u} : stage'[v] = stage[v] /\ holds'[v] = holds[v]
    BY <2>1, SetsOwn DEF CountInv, ServerInv
  <2> QED
    BY <1>1, <2>1, <2>2, Calmer DEF Shut, Early
<1>4. CASE Retry(u) \/ (u \in Callers /\ Observes(u))
  <2>1. UNCHANGED <<stage, holds, client, opened, lost, kind, phase, todo, refreshing>>
    BY <1>4 DEF Retry, Observes, callVars, clientVars, lifeVars
  <2> QED
    BY <1>1, <2>1, Calmer DEF Shut, Early
<1> QED
  BY <1>2, <1>3, <1>4, OpenedCounts, LeavingCounts DEF Goes

\* Every step keeps the count.
LEMMA CountStep == CountInv /\ [Next]_vars => CountInv'
<1> SUFFICES ASSUME CountInv, [Next]_vars PROVE Counted'
  BY ServerStepInv DEF CountInv
<1>1. Len(todo) <= 4 /\ Len(todo) \in Nat /\ todo \in Seq({"accessor", "embedder", "llm", "reranker", "prepare"})
  BY DEF CountInv, Counted, ServerInv, Types, LifeTypes
<1>2. CASE \E u \in Users : Enter(u) \/ Goes(u)
  BY <1>2, EnterCounts, GoesCounts
<1>3. CASE \E s \in Searches : StartRefresh(s)
  <2> PICK s \in Searches : StartRefresh(s)
    BY <1>3
  <2>1. stage[s] = "using" /\ s \in Users /\ UNCHANGED <<stage, holds, client, opened, lost, kind, phase, todo>>
    BY UserFacts DEF StartRefresh, callVars, clientVars
  <2>2. kind # "file" /\ ~Shut => client # 0
    BY <2>1 DEF CountInv, Counted
  <2>3. Opens' = Opens /\ Waits' = Waits
    BY <2>1 DEF Opens, Waits
  <2> QED
    BY <1>1, <2>1, <2>2, <2>3 DEF CountInv, Counted, Shut, Early, Shared
<1>4. CASE Store \/ Signal \/ Starts \/ UNCHANGED vars
  <2>1. UNCHANGED <<stage, holds, client, opened, lost, kind, todo, refreshing>>
    BY <1>4 DEF Store, GoesDown, ComesUp, Lock, Unlock, Creates, Indexes, Passes, Signal, Starts, vars,
                callVars, clientVars, lifeVars
  <2>2. phase' = phase \/ (phase \in {"starting", "serving"} /\ phase' \in {"serving", "draining"})
    <3>1. CASE Store \/ UNCHANGED vars
      <4>1. UNCHANGED lifeVars
        BY <3>1 DEF Store, GoesDown, ComesUp, Lock, Unlock, Creates, Indexes, Passes, vars
      <4> QED
        BY <4>1 DEF lifeVars
    <3>2. CASE Signal \/ Starts
      BY <3>2 DEF Signal, Starts
    <3> QED
      BY <1>4, <3>1, <3>2
  <2> QED
    BY <1>1, <2>1, <2>2, Calmer DEF Shut, Early
<1>5. CASE Warms \/ CloseNext \/ LifespanEnds
  <2>1. UNCHANGED <<stage, holds, client, opened, lost, kind, refreshing>>
    BY <1>5 DEF Warms, CloseNext, LifespanEnds, callVars, clientVars
  <2>2. Len(todo') <= 4 /\ (Len(todo') < 4 \/ todo' = todo)
    <3>1. CASE todo # <<>> /\ todo' = Tail(todo)
      BY <1>1, <3>1
    <3>2. CASE todo' = todo
      BY <1>1, <3>2
    <3> QED
      BY <1>5, <3>1, <3>2 DEF Warms, CloseNext, LifespanEnds
  <2>3. Len(Closers) = 4
    BY DEF Closers
  <2>4. \/ phase = "starting" /\ phase' = phase
        \/ phase = "closing" /\ phase' \in {"closing", "exiting"} /\ todo # Closers
    <3>1. Closers # <<>>
      BY DEF Closers
    <3> QED
      BY <3>1, <1>5 DEF Warms, CloseNext, LifespanEnds
  <2>5. Shut' \/ ~Shut
    <3>1. CASE phase = "starting"
      BY <3>1 DEF Shut
    <3>2. CASE phase # "starting"
      <4>1. todo # Closers
        BY <2>4, <3>2
      <4>2. CASE todo' = todo
        BY <2>4, <3>2, <4>1, <4>2 DEF Shut
      <4>3. CASE Len(todo') < 4
        <5>1. todo' # Closers
          <6>1. ASSUME todo' = Closers PROVE FALSE
            <7>1. Len(todo') = 4
              BY <2>3, <6>1, Zenon
            <7> QED
              BY <4>3, <7>1
          <6> QED
            BY <6>1
        <5> QED
          BY <2>4, <3>2, <5>1 DEF Shut
      <4> QED
        BY <2>2, <4>2, <4>3
    <3> QED
      BY <3>1, <3>2
  <2> QED
    BY <2>1, <2>2, <2>4, <2>5, Calmer DEF Early
<1>6. CASE BeginClose
  <2>1. /\ phase = "draining" /\ phase' = "closing" /\ todo' = Closers
        /\ UNCHANGED <<client, opened, lost, kind, refreshing>>
        /\ Leaves(Poller) \/ UNCHANGED <<stage, holds>>
    BY <1>6 DEF BeginClose, PollerStops, clientVars, callVars
  <2>2. \A v \in Users : stage'[v] = "out" \/ (stage'[v] = stage[v] /\ holds'[v] = holds[v])
    <3>1. CASE Leaves(Poller)
      BY <3>1, UserFacts, SetsOwn DEF Leaves, CountInv, ServerInv
    <3> QED
      BY <2>1, <3>1
  <2>3. Len(todo') <= 4
    BY <2>1 DEF Closers
  <2> QED
    BY <2>1, <2>2, <2>3, Calmer DEF Shut, Early
<1>7. CASE CloseAccessor
  <2>1. /\ phase' = "closing" /\ todo = Closers /\ todo' = Tail(todo)
        /\ UNCHANGED <<stage, holds, opened, lost, kind, refreshing>>
    BY <1>7 DEF CloseAccessor, callVars
  <2>2. Len(Closers) = 4 /\ Len(todo') <= 4 /\ Len(todo') # 4
    <3>1. Len(Closers) = 4
      BY DEF Closers
    <3>2. todo # <<>>
      BY <2>1 DEF Closers
    <3>3. Len(Tail(todo)) = Len(todo) - 1
      BY <1>1, <3>2
    <3>4. Len(todo) = 4
      BY <2>1, <3>1
    <3>5. Len(todo') = 3
      BY <2>1, <3>3, <3>4
    <3> QED
      BY <3>1, <3>5
  <2>3. Shut'
    BY <2>1, <2>2 DEF Shut
  <2> QED
    BY <2>1, <2>2, <2>3, Calmer DEF Early
<1>8. CASE Exits \/ StepFails
  <2>1. UNCHANGED <<stage, holds, client, opened, lost, kind, todo, refreshing>>
    BY <1>8 DEF Exits, StepFails, callVars, clientVars
  <2>2. /\ phase \in {"starting", "closing", "exiting"} /\ phase' \in {"exiting", "stopped"}
    BY <1>8 DEF Exits, StepFails
  <2> QED
    BY <1>1, <2>1, <2>2, Calmer DEF Shut, Early
<1> QED
  BY <1>2, <1>3, <1>4, <1>5, <1>6, <1>7, <1>8 DEF Next, Life

\* Nobody waits at the start.
LEMMA CountInit == Init => CountInv
<1> SUFFICES ASSUME Init PROVE Counted
  BY ServerInitInv DEF CountInv
<1>1. opened = 0 /\ client = 0 /\ lost = 0 /\ ~refreshing /\ \A u \in Users : stage[u] = "out"
  BY DEF Init
<1>2. Opens = {} /\ Waits = {}
  BY <1>1 DEF Opens, Waits, Shared, Users
<1>3. Cardinality(Opens) = 0 /\ Cardinality(Waits) = 0
  BY <1>2, FS_EmptySet
<1>4. Len(todo) <= 4
  BY DEF Init, WarmUp
<1> QED
  BY <1>1, <1>3, <1>4, SomebodyCounts DEF Counted

\* pgvector.py:45-50, chroma.py:48-62, pinecone.py:36-53: however many calls
\* come together and however often a connection fails, no more clients are
\* opened in the life of a server than there are callers, and one for each
\* look-up that raised. Their number has no bound: the poller alone makes one
\* of them every round for as long as the collection is missing.
THEOREM ClientsAreBounded == Spec => []ClientsBounded
<1>1. CountInv => ClientsBounded
  <2> SUFFICES ASSUME CountInv PROVE ClientsBounded
    OBVIOUS
  <2>1. Opens \subseteq Shared
    BY DEF Opens
  <2>2. Cardinality(Opens) \in Nat /\ Cardinality(Shared) \in Nat
    BY <2>1, Fewer
  <2>3. opened \in Nat /\ lost \in Nat
    BY Numbers
  <2> QED
    BY <2>2, <2>3 DEF CountInv, Counted, ClientsBounded, Shared
<1> QED
  BY <1>1, CountInit, CountStep, PTL DEF Spec
=============================================================================
