----------------------------- MODULE RagRequest -----------------------------
(***************************************************************************)
(* One /rag request (server/main.py, rag): the catalog, the adaptive loop, *)
(* the arbiter and the document mode, within one character budget          *)
(* (server/documents.py, Budget).                                          *)
(*                                                                         *)
(* Texts are lengths, in units: a retrieved chunk, a header or a line of   *)
(* context is one unit.  What the LLM, the arbiter and the store answer,   *)
(* and whether they raise, is chosen freely at each call.                  *)
(***************************************************************************)
EXTENDS Integers, FiniteSets

CONSTANTS
    K,            \* the k of the request
    Factor,       \* rag.adaptive.factor
    MaxIter,      \* rag.adaptive.max_iterations
    Candidates,   \* values of the larger of reranker.candidates and
                  \* rag.mmr.candidates, 0 with neither
    Limits,       \* values of rag.documents.max_request_chars, in units
    MinCall,      \* Budget._MIN_CALL
    Prompt,       \* system prompt plus question
    Listing,      \* the arbiter's prompt
    MaxParts      \* bound: items a document context is built of

ASSUME RagAssumption ==
    /\ K \in Nat \ {0} /\ Factor \in Nat \ {0} /\ MaxIter \in Nat \ {0}
    /\ Candidates \subseteq Nat /\ Limits \subseteq Nat /\ MinCall \in Nat
    /\ Prompt \in Nat /\ Listing \in Nat /\ MaxParts \in Nat

VARIABLES
    conf,       \* the rag section of the configuration
    pc,         \* the step the request is at
    listed,     \* the catalog is not empty (so there is a budget)
    left,       \* budget.left
    exhausted,  \* budget.exhausted
    k,          \* chunks to retrieve next
    round,      \* iterations of the loop so far
    found,      \* chunks the last search returned
    arbitrated, \* the arbiter was asked
    answer,     \* none yet, a refusal (it holds the marker) or an answer
    hits,       \* the sources that go with it
    given,      \* ghost: the chunks the LLM was given for that answer
    calls,      \* ghost: LLM calls of the loop, the arbiter and the answers
    spent,      \* ghost: what those calls sent
    unpaid,     \* ghost: what decomposition and reranking sent to an LLM
    raised,     \* ghost: the calls of this request that raised
    resp        \* the response: mode and whether the budget notice is on it

vars == <<conf, pc, listed, left, exhausted, k, round, found, arbitrated, answer,
          hits, given, calls, spent, unpaid, raised, resp>>

\* A reranker has candidates to rate.
Confs ==
    {c \in [adaptive : BOOLEAN, documents : BOOLEAN, decompose : BOOLEAN,
            llmRerank : BOOLEAN, candidates : Candidates, limit : Limits] :
        c.llmRerank => c.candidates > 0}

NoResponse == [mode |-> "none", cut |-> FALSE]

Min2(a, b) == IF a < b THEN a ELSE b

Respond(mode, cut) ==
    /\ pc' = "responded"
    /\ resp' = [mode |-> mode, cut |-> cut]

\* An exception leaves rag(): the request fails.
Fail(what) ==
    /\ pc' = "responded"
    /\ resp' = [mode |-> "error", cut |-> FALSE]
    /\ raised' = raised \cup {what}

BudgetUnchanged == UNCHANGED <<left, exhausted>>
LoopUnchanged == UNCHANGED <<k, round, found, arbitrated, answer, hits, given>>
CostsUnchanged == UNCHANGED <<calls, spent, unpaid>>

-----------------------------------------------------------------------------
(* Budget.                                                                 *)

\* Mutated form: the prompt is not counted.
Kept_NoPrompt(n) == IF left < 0 THEN 0 ELSE Min2(n, left)

\* The leading items of a context of n that still fit beside the prompt.
Kept(n) == IF left - Prompt < 0 THEN 0 ELSE Min2(n, left - Prompt)

\* fit returns None: no call.
Refused(n) ==
    \/ n > 0 /\ Kept(n) = 0
    \/ left < Prompt
    \/ left < MinCall

\* A call with n items of context: with a budget it is charged before it is
\* made, for what is left of the context; without one it is sent as it is.
Charge(n) ==
    IF listed
      THEN /\ left' = IF Refused(n) THEN left ELSE left - Prompt - Kept(n)
           /\ exhausted' = (exhausted \/ Kept(n) < n \/ Refused(n))
           /\ calls' = IF Refused(n) THEN calls ELSE calls + 1
           /\ spent' = IF Refused(n) THEN spent ELSE spent + Prompt + Kept(n)
      ELSE /\ calls' = calls + 1
           /\ spent' = spent + Prompt + n
           /\ UNCHANGED <<left, exhausted>>

NotMade(n) == listed /\ Refused(n)
Given(n) == IF listed THEN Kept(n) ELSE n

-----------------------------------------------------------------------------
(* The catalog, and the two ways into the loop.                            *)

\* _catalog: an exception, or an empty index, means no document mode.
GetCatalog ==
    /\ pc = "start"
    /\ \E has \in BOOLEAN, fails \in BOOLEAN :
         /\ has => conf.documents /\ ~fails
         /\ fails => conf.documents
         /\ listed' = has
         /\ raised' = IF fails THEN raised \cup {"list_documents"} ELSE raised
         /\ pc' = IF has THEN "names" ELSE "queries"
    /\ BudgetUnchanged /\ LoopUnchanged /\ CostsUnchanged /\ UNCHANGED <<conf, resp>>

\* mentioned_names: a file named in the question goes to document mode.
LookForNames ==
    /\ pc = "names"
    /\ pc' \in {"resolve", "queries"}
    /\ BudgetUnchanged /\ LoopUnchanged /\ CostsUnchanged
    /\ UNCHANGED <<conf, listed, raised, resp>>

\* decompose_query, outside the budget; when it raises the question is enough.
Decompose ==
    /\ pc = "queries"
    /\ pc' = "search"
    /\ unpaid' = IF conf.decompose THEN unpaid + 1 ELSE unpaid
    /\ BudgetUnchanged /\ LoopUnchanged
    /\ UNCHANGED <<conf, listed, calls, spent, raised, resp>>

\* What is fetched, for a reranker or MMR to choose from.
Pool == IF k > conf.candidates THEN k ELSE conf.candidates

\* An LLM reranker rates every chunk of the pool, outside the budget.
Rated(n) == IF conf.llmRerank THEN n ELSE 0

\* _search: at most k chunks of those that were fetched and rated.  When the
\* store or a rating raises, others may have been sent.
Search ==
    /\ pc = "search"
    /\ \E n \in 0..Pool :
         /\ unpaid' = unpaid + Rated(n)
         /\ \/ found' = Min2(n, k) /\ pc' = "attempt" /\ UNCHANGED <<raised, resp>>
            \/ Fail("search") /\ UNCHANGED found
    /\ BudgetUnchanged
    /\ UNCHANGED <<conf, listed, k, round, arbitrated, answer, hits, given, calls, spent>>

-----------------------------------------------------------------------------
(* The loop.                                                               *)

\* Without adaptive and without a catalog there is no marker to look for.
Plain == ~conf.adaptive /\ ~listed

\* Mutated form: every chunk found is a source.
Keep_All(n) == answer' \in {"refusal", "real"} /\ hits' = n /\ given' = Given(n)

\* The sources of the answer are the chunks it was given.
Keep(n) == answer' \in {"refusal", "real"} /\ hits' = Given(n) /\ given' = Given(n)

\* Mutated form: the call is made again instead.
OutOfBudget_Retry == pc' = "attempt"

\* break
OutOfBudget == pc' = "finish"

\* One answering call on the chunks found.  Out of budget, the outcome of the
\* previous attempt stands.
Attempt ==
    /\ pc = "attempt"
    /\ Charge(found)
    /\ \/ NotMade(found) /\ OutOfBudget /\ UNCHANGED <<answer, hits, given, raised, resp>>
       \/ ~NotMade(found) /\ Fail("complete") /\ UNCHANGED <<answer, hits, given>>
       \/ /\ ~NotMade(found)
          /\ Keep(found)
          /\ pc' = IF answer' = "real" \/ Plain THEN "finish"
                   ELSE IF listed /\ ~arbitrated THEN "arbiter" ELSE "again"
          /\ UNCHANGED <<raised, resp>>
    /\ UNCHANGED <<conf, listed, k, round, found, arbitrated, unpaid>>

\* Mutated form: the arbiter is asked after every failed attempt.
Ask_EveryTime == UNCHANGED arbitrated
Ask == arbitrated' = TRUE

\* budget.take for the arbiter's prompt.
Arbitrate ==
    /\ pc = "arbiter"
    /\ Ask
    /\ IF Listing > left
         THEN /\ pc' = "again"
              /\ exhausted' = TRUE
              /\ UNCHANGED <<left, calls, spent, raised>>
         ELSE /\ left' = left - Listing /\ calls' = calls + 1 /\ spent' = spent + Listing
              /\ \/ pc' \in {"again", "catalog", "resolve"} /\ UNCHANGED raised
                 \/ pc' = "again" /\ raised' = raised \cup {"arbiter"}
              /\ UNCHANGED exhausted
    /\ UNCHANGED <<conf, listed, k, round, found, answer, hits, given, unpaid, resp>>

\* The loop ends without an answer: not adaptive, nothing more to find, or
\* max_iterations reached.
LastRound == ~conf.adaptive \/ found < k \/ round + 1 = MaxIter

Again ==
    /\ pc = "again"
    /\ IF LastRound
         THEN pc' = "finish" /\ UNCHANGED <<k, round>>
         ELSE pc' = "search" /\ k' = k * Factor /\ round' = round + 1
    /\ BudgetUnchanged /\ CostsUnchanged
    /\ UNCHANGED <<conf, listed, found, arbitrated, answer, hits, given, raised, resp>>

\* Mutated form: the notice does not ask whether the budget is exhausted.
LoopNotice_Always == listed /\ answer # "real"

\* Only a refusal is commented on.
LoopNotice == listed /\ answer # "real" /\ exhausted

Finish ==
    /\ pc = "finish"
    /\ Respond("search", LoopNotice)
    /\ BudgetUnchanged /\ LoopUnchanged /\ CostsUnchanged /\ UNCHANGED <<conf, listed, raised>>

-----------------------------------------------------------------------------
(* Document mode.                                                          *)

\* _answer_catalog: the totals and the list; out of budget, the totals alone.
AnswerCatalog ==
    /\ pc = "catalog"
    /\ Charge(2)
    /\ \/ NotMade(2) /\ Respond("catalog", TRUE) /\ UNCHANGED raised
       \/ ~NotMade(2) /\ Respond("catalog", FALSE) /\ UNCHANGED raised
       \/ ~NotMade(2) /\ Fail("complete")
    /\ LoopUnchanged /\ UNCHANGED <<conf, listed, unpaid>>

\* resolve_names: something is missing or ambiguous, or the documents are read.
Resolve ==
    /\ pc = "resolve"
    /\ pc' \in {"unresolved", "read"}
    /\ BudgetUnchanged /\ LoopUnchanged /\ CostsUnchanged
    /\ UNCHANGED <<conf, listed, raised, resp>>

\* document_chunks of each entry: the store may have lost one since it was
\* listed.  Then the question is embedded.
ReadDocuments ==
    /\ pc = "read"
    /\ \/ pc' \in {"unresolved", "build"} /\ UNCHANGED <<raised, resp>>
       \/ Fail("document_chunks")
    /\ BudgetUnchanged /\ LoopUnchanged /\ CostsUnchanged /\ UNCHANGED <<conf, listed>>

\* The header and up to MaxParts parts or differences; the header alone
\* stands when no call is made.
AnswerDocuments ==
    /\ pc = "build"
    /\ \E n \in 1..MaxParts + 1 :
         /\ Charge(n)
         /\ \/ NotMade(n) /\ Respond("documents", TRUE) /\ UNCHANGED raised
            \/ ~NotMade(n) /\ Respond("documents", Given(n) < n) /\ UNCHANGED raised
            \/ ~NotMade(n) /\ Fail("complete")
    /\ LoopUnchanged /\ UNCHANGED <<conf, listed, unpaid>>

\* Mutated form: an exception of the LLM is not caught.
Explained_Raises ==
    \/ Respond("unresolved", FALSE) /\ UNCHANGED raised
    \/ Fail("explain")

\* The facts stand alone when the LLM raises.
Explained ==
    /\ Respond("unresolved", FALSE)
    /\ raised' \in {raised, raised \cup {"explain"}}

\* _unresolved: the LLM words the facts, or they are sent as they are.
Explain ==
    /\ pc = "unresolved"
    /\ Charge(1)
    /\ IF NotMade(1) THEN Respond("unresolved", FALSE) /\ UNCHANGED raised
       ELSE Explained
    /\ LoopUnchanged /\ UNCHANGED <<conf, listed, unpaid>>

-----------------------------------------------------------------------------
Init ==
    /\ conf \in Confs
    /\ pc = "start" /\ listed = FALSE
    /\ left = conf.limit /\ exhausted = FALSE
    /\ k = K /\ round = 0 /\ found = 0 /\ arbitrated = FALSE
    /\ answer = "none" /\ hits = 0 /\ given = 0
    /\ calls = 0 /\ spent = 0 /\ unpaid = 0 /\ raised = {}
    /\ resp = NoResponse

Step ==
    \/ GetCatalog \/ LookForNames \/ Decompose \/ Search \/ Attempt \/ Arbitrate
    \/ Again \/ Finish \/ AnswerCatalog \/ Resolve \/ ReadDocuments
    \/ AnswerDocuments \/ Explain

Responded == pc = "responded" /\ UNCHANGED vars

Next == Step \/ Responded

Spec == Init /\ [][Next]_vars

\* Every call the request awaits returns or raises.
FairSpec == Spec /\ WF_vars(Step)

-----------------------------------------------------------------------------
(* What the code is expected to guarantee.                                 *)

\* Types of the request's locals.
TypeOK ==
    /\ conf \in Confs
    /\ pc \in {"start", "names", "queries", "search", "attempt", "arbiter", "again",
               "finish", "catalog", "resolve", "read", "build", "unresolved", "responded"}
    /\ listed \in BOOLEAN /\ exhausted \in BOOLEAN /\ arbitrated \in BOOLEAN
    /\ left \in Int /\ k \in Nat /\ round \in 0..MaxIter - 1 /\ found \in Nat
    /\ answer \in {"none", "refusal", "real"} /\ hits \in Nat /\ given \in Nat
    /\ calls \in Nat /\ spent \in Int /\ unpaid \in Nat
    /\ raised \subseteq {"list_documents", "search", "complete", "arbiter",
                         "document_chunks", "explain"}
    /\ resp.mode \in {"none", "search", "catalog", "documents", "unresolved", "error"}
    /\ resp.cut \in BOOLEAN

\* documents.py:348-356: with a catalog, the attempts, the routing and the
\* answer together never send more than the ceiling.
BudgetRespected == listed => left >= 0 /\ spent = conf.limit - left

\* documents.py:353-354, the number of calls "is bounded elsewhere": the loop,
\* one arbiter and one answer.  What an LLM is asked outside the budget is one
\* decomposition and, in each round, one rating of every chunk that was
\* fetched, which are more than the k it returns.
CallsBounded ==
    /\ calls <= (IF conf.adaptive THEN MaxIter ELSE 1) + 2
    /\ unpaid <= 1 + (round + 1) * Pool

\* The sources of a search response are what the LLM saw for that answer,
\* also when a later attempt found more and could not be made.
SourcesWereGiven == resp.mode = "search" => hits = given /\ given <= k

\* A response that says the budget was reached is right.
NoticeHonest == resp.cut => listed /\ exhausted

\* main.py:499-501: the catalog, the arbiter and the wording of a problem
\* never fail a request; only the ordinary path and an explicit read can.
AdvisoryCallsDontFail ==
    resp.mode = "error" => raised \cap {"search", "complete", "document_chunks"} # {}

\* Every request is answered.
Answered == <>(pc = "responded")

\* docs/README.md:264, max_request_chars: "a call that no longer fits is cut
\* down or not made, and `notice` says so".
CutIsNoted == pc = "responded" /\ resp.mode # "error" /\ exhausted => resp.cut
=============================================================================
