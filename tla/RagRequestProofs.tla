--------------------------- MODULE RagRequestProofs ---------------------------
(***************************************************************************)
(* Proofs about RagRequest, for any k, factor, number of iterations, limit *)
(* and sizes of prompts: the budget, the number of LLM calls, the sources, *)
(* the notice and which failures may fail a request.                       *)
(***************************************************************************)
EXTENDS RagRequest, TLAPS

\* The locals the arithmetic is about.
Sizes ==
    /\ conf \in Confs
    /\ left \in Int /\ k \in Nat /\ round \in Nat /\ found \in Nat
    /\ hits \in Nat /\ given \in Nat
    /\ calls \in Nat /\ spent \in Int /\ unpaid \in Nat
    /\ listed \in BOOLEAN

\* The budget never goes below zero and accounts for what was sent.
Accounts ==
    /\ left >= 0
    /\ listed => spent = conf.limit - left
    /\ pc = "start" => left = conf.limit /\ spent = 0

\* The sources of the last attempt are what it was given.
Sources == hits = given /\ given <= k /\ found <= k

\* The notice is on the last response only, and true.
Notice == resp.cut => listed /\ exhausted /\ pc = "responded"

\* A request fails for a failure that is not caught.
Failures == resp.mode = "error" => raised \cap {"search", "complete", "document_chunks"} # {}

Arbiter == IF arbitrated THEN 1 ELSE 0

\* What a decomposition and r rounds send outside the budget, at most, when no
\* more than p chunks are rated in each.
Cap(r, p) == 1 + r * p

\* Calls so far: one in each round that is over, the arbiter, and after the
\* loop one more.  What is asked outside the budget grows with the rounds.
Counts ==
    /\ round < MaxIter
    /\ ~conf.adaptive => round = 0
    /\ pc \in {"start", "names", "queries"} => calls = 0 /\ unpaid = 0
    /\ pc \in {"search", "attempt"} => calls <= round + Arbiter
    /\ pc = "arbiter" => ~arbitrated
    /\ pc # "responded" => calls <= round + 1 + Arbiter
    /\ calls <= round + 2 + Arbiter
    /\ pc = "search" => unpaid <= Cap(round, Pool)
    /\ unpaid <= Cap(round + 1, Pool)

IInv == Sizes /\ Accounts /\ Sources /\ Notice /\ Failures /\ Counts

-----------------------------------------------------------------------------
\* The numbers of a configuration.
LEMMA ConfSizes ==
  ASSUME NEW c \in Confs PROVE c.limit \in Nat /\ c.candidates \in Nat
<1>1. c \in [adaptive : BOOLEAN, documents : BOOLEAN, decompose : BOOLEAN,
             llmRerank : BOOLEAN, candidates : Candidates, limit : Limits]
  BY DEF Confs
<1> QED  BY <1>1, RagAssumption

\* What Kept returns: at most n items, and with the prompt no more than left.
LEMMA KeptBounds ==
  ASSUME left \in Int, left >= 0, NEW n \in Nat
  PROVE  /\ Kept(n) \in Nat /\ Kept(n) <= n /\ Given(n) \in Nat /\ Given(n) <= n
         /\ ~Refused(n) => Prompt + Kept(n) <= left
  BY RagAssumption DEF Kept, Min2, Refused, Given

\* A charged call keeps the account: what it sends is what is taken off.
LEMMA ChargeAccounts ==
  ASSUME Sizes, Accounts, NEW n \in Nat, Charge(n)
  PROVE  /\ left' \in Int /\ left' >= 0 /\ spent' \in Int
         /\ listed => spent' = conf.limit - left'
         /\ calls' \in Nat /\ calls' <= calls + 1
         /\ exhausted => exhausted'
         /\ NotMade(n) => listed /\ exhausted'
         /\ Given(n) < n => listed /\ exhausted'
<1>1. /\ Kept(n) \in Nat /\ Kept(n) <= n
      /\ ~Refused(n) => Prompt + Kept(n) <= left
  BY KeptBounds DEF Sizes, Accounts
<1>2. Prompt \in Nat /\ conf.limit \in Nat
  BY RagAssumption, ConfSizes DEF Sizes
<1>3. CASE listed
  <2>1. CASE Refused(n)
    <3>1. left' = left /\ calls' = calls /\ spent' = spent /\ exhausted' = TRUE
      BY <1>3, <2>1 DEF Charge
    <3> QED  BY <1>2, <1>3, <3>1 DEF Sizes, Accounts
  <2>2. CASE ~Refused(n)
    <3>1. /\ left' = left - Prompt - Kept(n) /\ calls' = calls + 1
          /\ spent' = spent + Prompt + Kept(n)
          /\ exhausted' = (exhausted \/ Kept(n) < n)
      BY <1>3, <2>2 DEF Charge
    <3>2. ~NotMade(n) /\ Given(n) = Kept(n)
      BY <1>3, <2>2 DEF NotMade, Given
    <3>3. left \in Int /\ spent \in Int /\ calls \in Nat /\ spent = conf.limit - left
      BY <1>3 DEF Sizes, Accounts
    <3>4. /\ left' \in Int /\ left' >= 0 /\ spent' \in Int
          /\ spent' = conf.limit - left' /\ calls' \in Nat /\ calls' <= calls + 1
      BY <1>1, <1>2, <2>2, <3>1, <3>3
    <3> QED  BY <1>3, <3>1, <3>2, <3>4
  <2> QED  BY <2>1, <2>2
<1>4. CASE ~listed
  BY <1>1, <1>2, <1>4 DEF Sizes, Accounts, Charge, NotMade, Given
<1> QED  BY <1>3, <1>4

\* A pool is a number of chunks, and the next one is no smaller.
LEMMA PoolSize ==
  ASSUME Sizes PROVE Pool \in Nat /\ k <= Pool
  BY ConfSizes DEF Sizes, Pool

LEMMA PoolGrows ==
  ASSUME Sizes, k' = k * Factor, conf' = conf
  PROVE  k' \in Nat /\ k <= k' /\ Pool' \in Nat /\ Pool <= Pool'
<1>1. k \in Nat /\ conf.candidates \in Nat
  BY ConfSizes DEF Sizes
<1>2. Factor \in Nat /\ Factor >= 1
  BY RagAssumption
<1>3. k' \in Nat /\ k <= k'
  BY <1>1, <1>2
<1> QED  BY <1>1, <1>3 DEF Pool

\* More rounds and a larger pool rate no fewer chunks.
LEMMA CapGrows ==
  ASSUME NEW r \in Nat, NEW s \in Nat, r <= s, NEW p \in Nat, NEW q \in Nat, p <= q
  PROVE  Cap(r, p) \in Nat /\ Cap(r, p) <= Cap(s, q)
<1>1. \A a, b \in Nat : a <= b => \A c \in Nat : c * a <= c * b /\ a * c <= b * c
  OBVIOUS
<1>2. r * p <= r * q /\ r * q <= s * q
  BY <1>1
<1>3. r * p \in Nat /\ r * q \in Nat /\ s * q \in Nat
  OBVIOUS
<1> QED  BY <1>2, <1>3 DEF Cap

\* The decomposition is always within it.
LEMMA CapLeast ==
  ASSUME NEW r \in Nat, NEW p \in Nat
  PROVE  Cap(r, p) \in Nat /\ 1 <= Cap(r, p)
<1>1. r * p \in Nat
  OBVIOUS
<1> QED  BY <1>1 DEF Cap

\* One more round rates one more pool.
LEMMA CapNext ==
  ASSUME NEW r \in Nat, NEW p \in Nat
  PROVE  Cap(r + 1, p) = Cap(r, p) + p
<1>1. (r + 1) * p = r * p + p /\ r * p \in Nat
  OBVIOUS
<1> QED  BY <1>1 DEF Cap

-----------------------------------------------------------------------------
\* The invariant holds at the start.
LEMMA InitInv == Init => IInv
<1> SUFFICES ASSUME Init PROVE IInv
  OBVIOUS
<1>1. conf.limit \in Nat /\ conf.candidates \in Nat /\ MaxIter > 0 /\ K \in Nat
  BY RagAssumption, ConfSizes DEF Init
<1>2. Sizes
  <2>1. conf \in Confs /\ left \in Int
    BY <1>1 DEF Init
  <2>4. listed \in BOOLEAN
    BY DEF Init
  <2>2. k \in Nat /\ round \in Nat /\ found \in Nat /\ hits \in Nat /\ given \in Nat
    BY <1>1 DEF Init
  <2>3. calls \in Nat /\ spent \in Int /\ unpaid \in Nat
    BY DEF Init
  <2> QED  BY <2>1, <2>2, <2>3, <2>4 DEF Sizes
<1>5. Accounts
  BY <1>1 DEF Init, Accounts
<1>3. Sources /\ Notice /\ Failures
  BY <1>1 DEF Init, Sources, Notice, Failures, NoResponse
<1>4. Counts
  <2>1. Pool \in Nat /\ Cap(round, Pool) \in Nat /\ Cap(round + 1, Pool) \in Nat
    <3>1. Pool \in Nat
      BY <1>2, PoolSize
    <3> QED  BY <3>1, <1>2, CapGrows DEF Sizes
  <2> QED  BY <1>1, <2>1 DEF Init, Counts, Arbiter
<1> QED  BY <1>2, <1>3, <1>4, <1>5 DEF IInv

\* The steps before the first attempt keep the invariant.
LEMMA BeginInv ==
  ASSUME IInv, GetCatalog \/ LookForNames \/ Decompose PROVE IInv'
<1> USE DEF BudgetUnchanged, LoopUnchanged, CostsUnchanged
<1>1. Sizes'
  BY DEF IInv, Sizes, GetCatalog, LookForNames, Decompose
<1>2. Accounts' /\ Sources' /\ Notice' /\ Failures'
  BY DEF IInv, Sizes, Accounts, Sources, Notice, Failures, GetCatalog, LookForNames, Decompose
<1>3. /\ UNCHANGED <<conf, k, round, arbitrated, calls>>
      /\ unpaid' = unpaid \/ unpaid' = unpaid + 1
      /\ pc \in {"start", "names", "queries"}
      /\ pc' \in {"names", "queries", "resolve", "search"}
      /\ pc' \in {"names", "queries"} => unpaid' = unpaid
  BY DEF GetCatalog, LookForNames, Decompose
<1>4. Counts'
  <2>1. calls = 0 /\ unpaid = 0
    BY <1>3 DEF IInv, Counts
  <2>2. calls' = 0 /\ unpaid' \in {0, 1} /\ (pc' \in {"names", "queries"} => unpaid' = 0)
    BY <1>3, <2>1
  <2>3. Pool \in Nat /\ Pool' = Pool /\ round \in Nat /\ round' = round
    BY <1>3, PoolSize DEF IInv, Sizes, Pool
  <2>4. round' \in Nat /\ round' + 1 \in Nat /\ Pool' \in Nat
    BY <2>3
  <2>5. /\ Cap(round', Pool') \in Nat /\ 1 <= Cap(round', Pool')
        /\ Cap(round' + 1, Pool') \in Nat /\ 1 <= Cap(round' + 1, Pool')
    BY <2>4, CapLeast
  <2>6. unpaid' <= Cap(round', Pool') /\ unpaid' <= Cap(round' + 1, Pool')
    BY <2>2, <2>5
  <2>7. ~(pc' \in {"attempt", "arbiter", "start", "responded"})
    BY <1>3
  <2>8. Arbiter' \in Nat
    BY DEF Arbiter
  <2>9. \A x, y \in Nat : 0 <= x + y /\ 0 <= x + 1 + y /\ 0 <= x + 2 + y
    OBVIOUS
  <2>10. round < MaxIter /\ (~conf.adaptive => round = 0)
    BY DEF IInv, Counts
  <2> QED  BY <1>3, <2>2, <2>3, <2>4, <2>6, <2>7, <2>8, <2>9, <2>10 DEF Counts
<1> QED  BY <1>1, <1>2, <1>4 DEF IInv

\* A search keeps the invariant.
LEMMA SearchInv ==
  ASSUME IInv, Search PROVE IInv'
<1> USE DEF BudgetUnchanged, Fail
<1>1. PICK n \in 0..Pool :
        /\ unpaid' = unpaid + Rated(n)
        /\ \/ found' = Min2(n, k) /\ pc' = "attempt" /\ UNCHANGED <<raised, resp>>
           \/ Fail("search") /\ UNCHANGED found
  BY DEF Search
<1>2. Pool \in Nat
  BY PoolSize DEF IInv
<1>3. n \in Nat /\ n <= Pool /\ Rated(n) \in Nat /\ Rated(n) <= n
  BY <1>1, <1>2 DEF Rated
<1>4. unpaid' \in Nat /\ unpaid' <= unpaid + Pool
  BY <1>1, <1>2, <1>3 DEF IInv, Sizes
<1>5. found' \in Nat /\ found' <= k
  BY <1>1, <1>3 DEF IInv, Sizes, Sources, Min2
<1>6. Sizes' /\ Sources'
  BY <1>4, <1>5 DEF IInv, Sizes, Sources, Search
<1>7. Accounts' /\ Notice' /\ Failures'
  BY <1>1 DEF IInv, Sizes, Accounts, Notice, Failures, Search
<1>8. Cap(round + 1, Pool) = Cap(round, Pool) + Pool
  BY <1>2, CapNext DEF IInv, Sizes
<1>9. Counts'
  <2>1. pc = "search" /\ round' = round /\ k' = k /\ calls' = calls /\ conf' = conf
        /\ arbitrated' = arbitrated /\ pc' \in {"attempt", "responded"}
    BY <1>1 DEF Search
  <2>2. Pool' = Pool
    BY <2>1 DEF Pool
  <2>4. Cap(round, Pool) \in Nat
    BY <1>2, CapGrows DEF IInv, Sizes
  <2>3. unpaid' <= Cap(round + 1, Pool)
    BY <1>2, <1>4, <1>8, <2>1, <2>4 DEF IInv, Sizes, Counts
  <2> QED  BY <2>1, <2>2, <2>3 DEF IInv, Sizes, Counts, Arbiter
<1> QED  BY <1>6, <1>7, <1>9 DEF IInv

\* An answering call of the loop keeps the invariant.
LEMMA AttemptInv ==
  ASSUME IInv, Attempt PROVE IInv'
<1>1. /\ left' \in Int /\ left' >= 0 /\ spent' \in Int
      /\ listed => spent' = conf.limit - left'
      /\ calls' \in Nat /\ calls' <= calls + 1
      /\ exhausted => exhausted'
      /\ Given(found) \in Nat /\ Given(found) <= found
  BY ChargeAccounts, KeptBounds DEF IInv, Attempt, Sizes, Accounts
<1>2. /\ pc = "attempt" /\ pc' \in {"finish", "responded", "arbiter", "again"}
      /\ pc' = "arbiter" => ~arbitrated
      /\ UNCHANGED <<conf, listed, k, round, found, arbitrated, unpaid>>
      /\ \/ UNCHANGED <<hits, given>>
         \/ hits' = Given(found) /\ given' = Given(found)
  BY DEF Attempt, OutOfBudget, Fail, Keep
<1>3. UNCHANGED <<raised, resp>> \/ Fail("complete")
  BY DEF Attempt
<1>4. Sizes' /\ Accounts' /\ Sources'
  BY <1>1, <1>2 DEF IInv, Sizes, Accounts, Sources
<1>5. Notice' /\ Failures'
  <2>1. CASE UNCHANGED <<raised, resp>>
    BY <1>1, <1>2, <2>1 DEF IInv, Notice, Failures
  <2>2. CASE Fail("complete")
    BY <2>2 DEF Fail, Notice, Failures
  <2> QED  BY <1>3, <2>1, <2>2
<1>6. Counts'
  BY <1>1, <1>2 DEF IInv, Sizes, Counts, Arbiter, Pool
<1> QED  BY <1>4, <1>5, <1>6 DEF IInv

\* So does the arbiter.
LEMMA ArbitrateInv ==
  ASSUME IInv, Arbitrate PROVE IInv'
<1>1. Listing \in Nat
  BY RagAssumption
<1>2. Sizes' /\ Accounts'
  <2>1. CASE Listing > left
    BY <1>1, <2>1 DEF IInv, Sizes, Accounts, Arbitrate, Ask
  <2>2. CASE ~(Listing > left)
    <3>1. /\ pc = "arbiter" /\ pc' # "start"
          /\ left' = left - Listing /\ calls' = calls + 1 /\ spent' = spent + Listing
          /\ UNCHANGED <<conf, listed, k, round, found, hits, given, unpaid>>
      BY <2>2 DEF Arbitrate
    <3>2. left \in Int /\ spent \in Int /\ calls \in Nat
      BY DEF IInv, Sizes
    <3>3. conf.limit \in Nat
      BY ConfSizes DEF IInv, Sizes
    <3> QED  BY <1>1, <2>2, <3>1, <3>2, <3>3 DEF IInv, Sizes, Accounts
  <2> QED  BY <2>1, <2>2
<1>3. Sources' /\ Notice' /\ Failures'
  BY DEF IInv, Sources, Notice, Failures, Arbitrate, Ask
<1>4. /\ calls' <= calls + 1 /\ pc = "arbiter" /\ arbitrated' = TRUE
      /\ pc' \in {"again", "catalog", "resolve"}
      /\ UNCHANGED <<conf, k, round, unpaid>>
  BY DEF IInv, Sizes, Arbitrate, Ask
<1>5. Counts'
  BY <1>2, <1>4 DEF IInv, Sizes, Counts, Arbiter, Pool
<1> QED  BY <1>2, <1>3, <1>5 DEF IInv

\* The next round, or the end of the loop.
LEMMA AgainInv ==
  ASSUME IInv, Again PROVE IInv'
<1> USE DEF BudgetUnchanged, CostsUnchanged
<1>1. CASE LastRound
  <2>1. Sizes' /\ Accounts' /\ Sources' /\ Notice' /\ Failures'
    BY <1>1 DEF IInv, Sizes, Accounts, Sources, Notice, Failures, Again
  <2>2. Counts'
    BY <1>1 DEF IInv, Sizes, Counts, Arbiter, Pool, Again
  <2> QED  BY <2>1, <2>2 DEF IInv
<1>2. CASE ~LastRound
  <2>1. pc = "again" /\ pc' = "search" /\ k' = k * Factor /\ round' = round + 1
        /\ UNCHANGED <<left, exhausted, calls, spent, unpaid, conf, listed, found, arbitrated,
                       answer, hits, given, raised, resp>>
    BY <1>2 DEF Again
  <2>2. k' \in Nat /\ k <= k' /\ Pool \in Nat /\ Pool' \in Nat /\ Pool <= Pool'
    BY <2>1, PoolSize, PoolGrows DEF IInv
  <2>3. conf.adaptive /\ round + 1 < MaxIter
    BY <1>2, RagAssumption DEF LastRound, IInv, Sizes, Counts
  <2>4. Sizes' /\ Accounts' /\ Sources' /\ Notice' /\ Failures'
    BY <2>1, <2>2 DEF IInv, Sizes, Accounts, Sources, Notice, Failures
  <2>5. unpaid' <= Cap(round', Pool') /\ unpaid' <= Cap(round' + 1, Pool')
    <3>1. unpaid' <= Cap(round', Pool) /\ unpaid' \in Nat
      BY <2>1 DEF IInv, Sizes, Counts
    <3>2. round' \in Nat /\ round' + 1 \in Nat /\ round' <= round' + 1 /\ round' <= round'
      BY <2>1 DEF IInv, Sizes
    <3>3. Cap(round', Pool) \in Nat /\ Cap(round', Pool) <= Cap(round', Pool')
      BY <2>2, <3>2, CapGrows
    <3>4. Pool' <= Pool'
      BY <2>2
    <3>5. Cap(round', Pool') \in Nat /\ Cap(round', Pool') <= Cap(round' + 1, Pool')
      BY <2>2, <3>2, <3>4, CapGrows
    <3>6. Cap(round' + 1, Pool') \in Nat
      BY <2>2, <3>2, <3>4, CapGrows
    <3> QED  BY <3>1, <3>3, <3>5, <3>6
  <2>6. Counts'
    BY <2>1, <2>3, <2>5 DEF IInv, Sizes, Counts, Arbiter
  <2> QED  BY <2>4, <2>6 DEF IInv
<1> QED  BY <1>1, <1>2

\* The steps that make no call and end the loop or walk the document mode.
LEMMA PassInv ==
  ASSUME IInv, Finish \/ Resolve \/ ReadDocuments PROVE IInv'
<1> USE DEF BudgetUnchanged, LoopUnchanged, CostsUnchanged, Fail, Respond, LoopNotice
<1>1. Sizes' /\ Accounts' /\ Sources'
  BY DEF IInv, Sizes, Accounts, Sources, Finish, Resolve, ReadDocuments
<1>2. Notice' /\ Failures'
  <2>1. CASE Finish
    BY <2>1 DEF IInv, Notice, Failures, Finish
  <2>2. CASE Resolve
    BY <2>2 DEF IInv, Notice, Failures, Resolve
  <2>3. CASE ReadDocuments
    BY <2>3 DEF IInv, Notice, Failures, ReadDocuments
  <2> QED  BY <2>1, <2>2, <2>3
<1>3. Counts'
  BY DEF IInv, Sizes, Counts, Arbiter, Pool, Finish, Resolve, ReadDocuments
<1> QED  BY <1>1, <1>2, <1>3 DEF IInv

\* A last call of the document mode keeps the invariant, however the response
\* comes about.
LEMMA LastCall ==
  ASSUME IInv, NEW n \in Nat, Charge(n), LoopUnchanged, UNCHANGED <<conf, listed, unpaid>>,
         pc \in {"catalog", "build", "unresolved"}, pc' = "responded",
         resp'.cut => NotMade(n) \/ Given(n) < n,
         resp'.mode = "error" => "complete" \in raised'
  PROVE  IInv'
<1>1. /\ left' \in Int /\ left' >= 0 /\ spent' \in Int
      /\ listed => spent' = conf.limit - left'
      /\ calls' \in Nat /\ calls' <= calls + 1
      /\ NotMade(n) => listed /\ exhausted'
      /\ Given(n) < n => listed /\ exhausted'
  BY ChargeAccounts DEF IInv
<1>2. Sizes' /\ Accounts' /\ Sources'
  BY <1>1 DEF IInv, Sizes, Accounts, Sources, LoopUnchanged
<1>3. Notice' /\ Failures'
  BY <1>1 DEF Notice, Failures
<1>4. Counts'
  BY <1>1 DEF IInv, Sizes, Counts, Arbiter, Pool, LoopUnchanged
<1> QED  BY <1>2, <1>3, <1>4 DEF IInv

\* The three last calls are of that form.
LEMMA DocumentInv ==
  ASSUME IInv, AnswerCatalog \/ AnswerDocuments \/ Explain PROVE IInv'
<1> USE DEF Respond, Fail
<1>1. CASE AnswerCatalog
  <2>1. /\ resp'.cut => NotMade(2)
        /\ resp'.mode = "error" => "complete" \in raised'
    BY <1>1 DEF AnswerCatalog
  <2> QED  BY <1>1, <2>1, LastCall DEF AnswerCatalog
<1>2. CASE AnswerDocuments
  <2>1. MaxParts + 1 \in Nat
    BY RagAssumption
  <2>2. PICK n \in 1..MaxParts + 1 :
          /\ Charge(n)
          /\ \/ NotMade(n) /\ Respond("documents", TRUE) /\ UNCHANGED raised
             \/ ~NotMade(n) /\ Respond("documents", Given(n) < n) /\ UNCHANGED raised
             \/ ~NotMade(n) /\ Fail("complete")
    BY <1>2 DEF AnswerDocuments
  <2>3. n \in Nat
    BY <2>1, <2>2
  <2>4. /\ pc' = "responded"
        /\ resp'.cut => NotMade(n) \/ Given(n) < n
        /\ resp'.mode = "error" => "complete" \in raised'
    <3>1. CASE NotMade(n) /\ Respond("documents", TRUE)
      BY <3>1
    <3>2. CASE Respond("documents", Given(n) < n)
      BY <3>2
    <3>3. CASE Fail("complete")
      BY <3>3
    <3> QED  BY <2>2, <3>1, <3>2, <3>3
  <2> QED  BY <1>2, <2>2, <2>3, <2>4, LastCall DEF AnswerDocuments
<1>3. CASE Explain
  <2>1. resp'.cut = FALSE /\ resp'.mode = "unresolved" /\ pc' = "responded"
    BY <1>3 DEF Explain, Explained
  <2> QED  BY <1>3, <2>1, LastCall DEF Explain
<1> QED  BY <1>1, <1>2, <1>3

\* Every step keeps the invariant.
LEMMA NextInv == IInv /\ [Next]_vars => IInv'
<1> SUFFICES ASSUME IInv, [Next]_vars PROVE IInv'
  OBVIOUS
<1>1. CASE Step
  BY <1>1, BeginInv, SearchInv, AttemptInv, ArbitrateInv, AgainInv, PassInv, DocumentInv DEF Step
<1>2. CASE UNCHANGED vars
  BY <1>2 DEF vars, IInv, Sizes, Accounts, Sources, Notice, Failures, Counts, Arbiter, Pool
<1> QED  BY <1>1, <1>2 DEF Next, Responded

\* The invariant holds for every value of the constants.
THEOREM Invariance == Spec => []IInv
  BY InitInv, NextInv, PTL DEF Spec

\* With a catalog the budgeted calls never send more than the limit.
THEOREM BudgetGuarantee == Spec => []BudgetRespected
<1>1. IInv => BudgetRespected
  BY DEF IInv, Accounts, BudgetRespected
<1> QED  BY <1>1, Invariance, PTL

\* The loop, the arbiter and the answer make MaxIter + 2 calls at most, and
\* what is asked outside the budget is bounded by the chunks fetched for rating.
THEOREM CallGuarantee == Spec => []CallsBounded
<1>1. IInv => CallsBounded
  BY RagAssumption DEF IInv, Sizes, Counts, Arbiter, Cap, CallsBounded
<1> QED  BY <1>1, Invariance, PTL

\* A search answer is returned with the chunks it was given, and no other.
THEOREM SourceGuarantee == Spec => []SourcesWereGiven
<1>1. IInv => SourcesWereGiven
  BY DEF IInv, Sources, SourcesWereGiven
<1> QED  BY <1>1, Invariance, PTL

\* A notice is only given when the budget cut something.
THEOREM NoticeGuarantee == Spec => []NoticeHonest
<1>1. IInv => NoticeHonest
  BY DEF IInv, Notice, NoticeHonest
<1> QED  BY <1>1, Invariance, PTL

\* The catalog, the arbiter and the wording never fail a request.
THEOREM FailureGuarantee == Spec => []AdvisoryCallsDontFail
<1>1. IInv => AdvisoryCallsDontFail
  BY DEF IInv, Failures, AdvisoryCallsDontFail
<1> QED  BY <1>1, Invariance, PTL
=============================================================================
