----------------------------- MODULE Retrieval ------------------------------
(***************************************************************************)
(* What the LLM is given: the retrieval pipeline of server/main.py         *)
(* (_search: decompose, fetch a pool, merge, rerank, MMR, cut to k) with   *)
(* the pure functions of server/ranking.py, and the adaptive loop that     *)
(* searches again with a larger k.                                         *)
(*                                                                         *)
(* A chunk is its text: hits with one text are one hit to the fusions, and *)
(* a text may be stored more than once (two versions of a file).  Scores   *)
(* of the vector and keyword legs are given by the order they induce.      *)
(***************************************************************************)
EXTENDS Ordering

CONSTANTS
    Texts,       \* texts of chunks
    Question,    \* the query of the request
    SubQueries,  \* what decomposition may turn it into
    Confs,       \* the rag sections explored: see ConfType
    Ks,          \* the k of the request
    Factor,      \* rag.adaptive.factor
    MaxIter,     \* rag.adaptive.max_iterations
    MaxCopies,   \* bound: chunks with one text
    MaxStored    \* bound: chunks in the store

\* decompose: max_subqueries, 0 when off.  rerank, mmr: the candidates of the
\* stage, 0 when it is off.  diversity is counted in halves.
ConfType == [decompose : Nat, hybrid : BOOLEAN, rerank : Nat, mmr : Nat, diversity : 0..2]

ASSUME RetrievalAssumption ==
    /\ IsFiniteSet(Texts)
    /\ Question \notin SubQueries
    /\ Confs \subseteq ConfType
    /\ Ks \subseteq Nat \ {0} /\ Factor \in Nat \ {0} /\ MaxIter \in Nat \ {0}
    /\ MaxCopies \in Nat /\ MaxStored \in Nat

Queries == {Question} \cup SubQueries

VARIABLES
    conf,      \* the rag section
    copies,    \* the store: how many chunks have each text
    meaning,   \* per query, the texts by falling similarity
    words,     \* per query, the texts that share words with it, by falling BM25
    rating,    \* the reranker's score of each text for the question
    pc,        \* the step the request is at
    queries,   \* the retrieval queries, the question first
    lists,     \* per query, the hits fetched for it
    arrived,   \* the fetches that have returned
    k,         \* chunks to return
    round,     \* searches made before this one
    hits,      \* what the search returns
    contexts   \* ghost: the hits of every search of this request

vars == <<conf, copies, meaning, words, rating, pc, queries, lists, arrived,
          k, round, hits, contexts>>

inputs == <<conf, copies, meaning, words, rating>>

Hit(text, score) == [text |-> text, score |-> score]
TextsOf(s) == {s[i].text : i \in DOMAIN s}

-----------------------------------------------------------------------------
(* ranking.py                                                              *)

RRF_K == 60

\* 1 / (RRF_K + rank), times a common multiple of the denominators that the
\* first four ranks have: exact for those, and rounded down beyond them.
Scale == 61 * 62 * 63 * 64
Weight(rank) == Scale \div (RRF_K + rank)

\* The slots where a text is met for the first time, in the given order.
FirstSeen(ls, order) ==
    {s \in Slots(ls) : ~\E o \in Slots(ls) :
                          Precedes(order, o, s) /\ At(ls, o).text = At(ls, s).text}

SlotsOf(ls, text) == {s \in Slots(ls) : At(ls, s).text = text}

\* Mutated form: the contribution of one list replaces that of another.
Fused_LastList(ls, text) ==
    LET last == CHOOSE s \in SlotsOf(ls, text) :
                  \A o \in SlotsOf(ls, text) : o = s \/ Precedes(ByList, o, s)
    IN  Weight(last[2])

\* The fused score of a text: every slot it has contributes.
Fused(ls, text) == SumFunction([s \in SlotsOf(ls, text) |-> Weight(s[2])])

\* By falling fused score, ties in the order of the dict.
ByScore(ls, slots) ==
    LET score == [s \in slots |-> Fused(ls, At(ls, s).text)] IN
    {p \in slots \X slots : \/ score[p[1]] > score[p[2]]
                            \/ score[p[1]] = score[p[2]] /\ Precedes(ByList, p[1], p[2])}

RrfMerge(ls, limit) ==
    LET first == FirstSeen(ls, ByList)
        order == InOrder(first, ByScore(ls, first))
        text == [n \in DOMAIN order |-> At(ls, order[n]).text]
    IN  Cut([n \in DOMAIN order |-> Hit(text[n], Fused(ls, text[n]))], limit)

\* Every text once, where it is met first.
MergedIn(order, ls, limit) ==
    LET first == FirstSeen(ls, order)
        walked == InOrder(first, Walk(first, order))
    IN  Cut([n \in DOMAIN walked |-> At(ls, walked[n])], limit)

\* Mutated form: one list after the other.
InterleaveMerge_Concat(ls, limit) == MergedIn(ByList, ls, limit)

\* interleave_merge: every list's first hit, then every second, each text once.
InterleaveMerge(ls, limit) == MergedIn(ByRank, ls, limit)

\* _cosine of the embeddings of two texts: distinct texts are unrelated.
Cosine(t, u) == IF t = u THEN 1 ELSE 0

\* The best trade of relevance against redundancy among the hits that are not
\* chosen, the earlier hit when two are equal.
Best(s, diversity, chosen) ==
    LET scores == {s[i].score : i \in DOMAIN s}
        span == IF Max(scores) = Min(scores) THEN 1 ELSE Max(scores) - Min(scores)
        redundancy(i) == Max({0} \cup {Cosine(s[i].text, s[j].text) : j \in chosen})
        value(i) == (2 - diversity) * (s[i].score - Min(scores)) - diversity * span * redundancy(i)
        left == DOMAIN s \ chosen
        top == Max({value(i) : i \in left})
    IN  Min({i \in left : value(i) = top})

\* mmr_select: one hit after the other, each the best after those before it.
Picks(s, diversity) ==
    LET pick[m \in DOMAIN s] == Best(s, diversity, {pick[j] : j \in 1..m - 1})
    IN  pick

MmrSelect(s, n, diversity) ==
    IF n >= Len(s) THEN s ELSE [m \in 1..n |-> s[Picks(s, diversity)[m]]]

\* reranker.rerank: a stable sort by the reranker's score, cut to n.
ByRating(s) ==
    {p \in (DOMAIN s) \X (DOMAIN s) :
        LET r == rating[s[p[1]].text]
            q == rating[s[p[2]].text]
        IN  r > q \/ (r = q /\ p[1] < p[2])}

Rerank(s, n) ==
    LET order == InOrder(DOMAIN s, ByRating(s))
    IN  Cut([m \in DOMAIN order |-> Hit(s[order[m]].text, rating[s[order[m]].text])], n)

-----------------------------------------------------------------------------
(* One search.                                                             *)

\* Mutated form: the pool grows faster than k.
Pool_TwiceK(n) == Max({2 * n, conf.rerank, conf.mmr})

\* For n chunks: a reranker or MMR selects them out of a wider pool.
Pool(n) == Max({n, conf.rerank, conf.mmr})

\* The stored chunks in the order of `texts`, scored by their place in it.
Stored(texts) == UNION {{<<i, c>> : c \in 1..copies[texts[i]]} : i \in DOMAIN texts}

Ranked(texts) ==
    LET order == InOrder(Stored(texts), Walk(Stored(texts), ByList))
    IN  [m \in DOMAIN order |-> Hit(texts[order[m][1]], Len(texts) - order[m][1])]

Leg(texts, n) == Cut(Ranked(texts), n)

\* retrieve_ex: the vector hits, fused with the keyword leg unless it is empty.
Retrieved(q, n) ==
    LET vector == Leg(meaning[q], n)
        keyword == Leg(words[q], n)
    IN  IF ~conf.hybrid \/ keyword = <<>> THEN vector
        ELSE RrfMerge(<<vector, keyword>>, n)

Merged(ls, n) == IF Len(ls) = 1 THEN ls[1] ELSE InterleaveMerge(ls, Pool(n))

Reranked(ls, n) ==
    IF conf.rerank = 0 THEN Merged(ls, n)
    ELSE Rerank(Merged(ls, n), IF conf.mmr > 0 THEN Max({n, conf.mmr}) ELSE n)

Diversified(ls, n) ==
    IF conf.mmr = 0 THEN Reranked(ls, n) ELSE MmrSelect(Reranked(ls, n), n, conf.diversity)

\* _search, once the fetches have returned.
Search(ls, n) == Cut(Diversified(ls, n), n)

-----------------------------------------------------------------------------
(* decompose_query, once per request: the lines of the reply that do not   *)
(* repeat the question, at most max_subqueries; none when the LLM raises.  *)

Others(reply) ==
    LET kept == {i \in DOMAIN reply : reply[i] # Question}
        order == InOrder(kept, {p \in kept \X kept : p[1] < p[2]})
    IN  [n \in DOMAIN order |-> reply[order[n]]]

Decompose ==
    /\ pc = "queries"
    /\ \E reply \in BoundedSeq(Queries, 2) :
         /\ conf.decompose = 0 => reply = <<>>
         /\ queries' = <<Question>> \o Cut(Others(reply), conf.decompose)
    /\ lists' = [i \in DOMAIN queries' |-> <<>>]
    /\ pc' = "fetch"
    /\ UNCHANGED <<inputs, arrived, k, round, hits, contexts>>

\* asyncio.gather: the fetches return in any order, each to its own place.
Fetch(i) ==
    /\ pc = "fetch"
    /\ i \in DOMAIN queries \ arrived
    /\ lists' = [lists EXCEPT ![i] = Retrieved(queries[i], Pool(k))]
    /\ arrived' = arrived \cup {i}
    /\ UNCHANGED <<inputs, pc, queries, k, round, hits, contexts>>

\* All have returned: merge, rerank, diversify, cut.
Select ==
    /\ pc = "fetch"
    /\ arrived = DOMAIN queries
    /\ hits' = Search(lists, k)
    /\ contexts' = Append(contexts, TextsOf(hits'))
    /\ pc' = "answer"
    /\ UNCHANGED <<inputs, queries, lists, arrived, k, round>>

\* An embedding, a backend or a reranker raises: the request fails.
SearchFails ==
    /\ pc = "fetch"
    /\ pc' = "failed"
    /\ UNCHANGED <<inputs, queries, lists, arrived, k, round, hits, contexts>>

-----------------------------------------------------------------------------
(* The loop around it.                                                     *)

\* The LLM answers from the context.
Answers ==
    /\ pc = "answer"
    /\ pc' = "answered"
    /\ UNCHANGED <<inputs, queries, lists, arrived, k, round, hits, contexts>>

\* Mutated form: off by one.
NothingMore_OrAll == Len(hits) <= k

\* "Retrieval returned less than asked".
NothingMore == Len(hits) < k

\* The LLM cannot answer, and a wider search is of no use.
Exhausted ==
    /\ pc = "answer" /\ NothingMore
    /\ pc' = "exhausted"
    /\ UNCHANGED <<inputs, queries, lists, arrived, k, round, hits, contexts>>

\* The LLM cannot answer: search again with a larger k, up to max_iterations.
Widen ==
    /\ pc = "answer" /\ ~NothingMore
    /\ round' = round + 1
    /\ k' = k * Factor
    /\ IF round' = MaxIter
         THEN pc' = "unanswered" /\ UNCHANGED <<lists, arrived, hits>>
         ELSE /\ pc' = "fetch"
              /\ lists' = [i \in DOMAIN queries |-> <<>>]
              /\ arrived' = {} /\ hits' = <<>>
    /\ UNCHANGED <<inputs, queries, contexts>>

-----------------------------------------------------------------------------
\* The orders in which the backend can rank the texts by similarity.
Orders == SetToSeqs(Texts)

\* Bm25Index.search: the texts that share a word with the query, best first.
Matches == UNION {SetToSeqs(S) : S \in SUBSET Texts}

\* The ratings of a cross-encoder or an LLM; 0 is also that of a reply without
\* a number.  A text keeps its rating when it is rated again.
Ratings == [Texts -> 0..1]

\* Only what the configuration reads is varied.
Init ==
    /\ conf \in Confs
    /\ copies \in {f \in [Texts -> 0..MaxCopies] : MapThenSumSet(LAMBDA t : f[t], Texts) <= MaxStored}
    /\ meaning \in {f \in [Queries -> Orders] :
                      conf.decompose = 0 => \A q \in SubQueries : f[q] = f[Question]}
    /\ words \in {f \in [Queries -> Matches] :
                    /\ ~conf.hybrid => \A q \in Queries : f[q] = <<>>
                    /\ conf.decompose = 0 => \A q \in SubQueries : f[q] = f[Question]}
    /\ rating \in {f \in Ratings : conf.rerank = 0 => \A t \in Texts : f[t] = 0}
    /\ pc = "queries" /\ queries = <<>> /\ lists = <<>> /\ arrived = {}
    /\ k \in Ks /\ round = 0 /\ hits = <<>> /\ contexts = <<>>

Next ==
    \/ Decompose
    \/ \E i \in DOMAIN queries : Fetch(i)
    \/ Select
    \/ SearchFails
    \/ Answers
    \/ Exhausted
    \/ Widen

Spec == Init /\ [][Next]_vars

-----------------------------------------------------------------------------
(* What the code is expected to guarantee.                                 *)

\* Types of the locals of _search and of the loop.
TypeOK ==
    /\ conf \in Confs /\ copies \in [Texts -> 0..MaxCopies]
    /\ pc \in {"queries", "fetch", "answer", "answered", "exhausted", "unanswered", "failed"}
    /\ queries \in Seq(Queries) /\ arrived \subseteq DOMAIN queries
    /\ TextsOf(hits) \subseteq {t \in Texts : copies[t] > 0}
    /\ k \in Nat /\ round \in 0..MaxIter /\ Len(hits) <= k

\* main.py:424-425, "grow the context": pools, merges, reranker and MMR are
\* tuned so that a wider search never loses a chunk an earlier one has shown.
\* (With the keyword leg it may: see the README.)
ContextGrows ==
    ~conf.hybrid =>
        \A i, j \in DOMAIN contexts : i < j => contexts[i] \subseteq contexts[j]

\* ranking.py:50-53: the best hit of every sub-query reaches the LLM, however
\* the other lists are filled - as long as k leaves a slot for each and no
\* later stage reorders them.
SlotPerQuery ==
    pc = "answer" /\ Len(queries) > 1 /\ conf.rerank = 0 /\ conf.mmr = 0 /\ k >= Len(queries)
        => \A i \in DOMAIN lists : lists[i] # <<>> => lists[i][1].text \in TextsOf(hits)

\* main.py:460-464: the loop gives up early only when the LLM has seen all
\* there is - as long as no text is stored twice.
ExhaustionIsReal ==
    pc = "exhausted" /\ (\A t \in Texts : copies[t] <= 1)
        => {t \in Texts : copies[t] > 0} \subseteq TextsOf(hits)

\* ranking.py:24-29: fusion respects consensus.  A text no lower than another
\* in both legs is not below it in what they are fused to, when each is stored
\* once.
ConsensusWins ==
    \A i \in arrived : conf.hybrid =>
        LET vector == Leg(meaning[queries[i]], Pool(k))
            keyword == Leg(words[queries[i]], Pool(k))
            Beats(s, t, u) == \A n \in DOMAIN s : s[n].text = u =>
                                \E m \in 1..n - 1 : s[m].text = t
            Place(t) == {n \in DOMAIN lists[i] : lists[i][n].text = t}
        IN  \A t, u \in Texts :
              /\ t # u /\ copies[t] = 1 /\ copies[u] = 1
              /\ t \in TextsOf(vector) \cup TextsOf(keyword)
              /\ Beats(vector, t, u) /\ Beats(keyword, t, u)
              => \A n \in Place(u) : \E m \in Place(t) : m < n
=============================================================================
