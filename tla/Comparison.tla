----------------------------- MODULE Comparison -----------------------------
(***************************************************************************)
(* The document mode of /rag (server/main.py, _answer_documents): the      *)
(* named documents are read from the store one after the other and made    *)
(* into a context - one document by its parts, two versions of one text by *)
(* their differences, others by excerpts (server/documents.py).            *)
(*                                                                         *)
(* A document is a sequence of chunks, a chunk a sequence of lines as      *)
(* _squash leaves them.  A line has length 1.                              *)
(***************************************************************************)
EXTENDS Ordering

CONSTANTS
    Lines,        \* lines of at least _MIN_LINE characters
    Short,        \* a line that is too short to be compared
    Mask,         \* [Lines -> masks]: the line with its digits masked
    Within,       \* pairs <<l, m>>: line l, or what a page header glued to it
                  \* leaves of it, is found whole inside line m
    Words,        \* [Lines -> sets of words]
    Topical,      \* the lines that are about the question
    Stores,       \* the named documents in the store: sequences of documents
    Updates,      \* what the indexer may replace one of them with
    Budgets,      \* values of rag.documents.max_context_chars
    EdgeLines,    \* _EDGE_LINES
    RunningLines, \* _RUNNING_LINES
    MaxPairings,  \* _MAX_PAIRINGS
    Substantial   \* _SUBSTANTIAL

\* A document is a sequence of chunks, a chunk a sequence of lines.
Documents == Seq(Seq(Lines \cup {Short}))

ASSUME ComparisonAssumption ==
    /\ Short \notin Lines
    /\ Within \subseteq Lines \X Lines
    /\ DOMAIN Mask = Lines
    /\ DOMAIN Words = Lines /\ \A l \in Lines : IsFiniteSet(Words[l])
    /\ Stores \subseteq Seq(Documents) \ {<<>>} /\ Updates \subseteq Documents
    /\ Budgets \subseteq Nat \ {0}
    /\ EdgeLines \in Nat \ {0, 1, 2} /\ RunningLines \in Nat \ {0}
    /\ MaxPairings \in Nat /\ Substantial \in Nat

VARIABLES
    store,   \* the documents as they are now, <<>> when one is gone
    budget,  \* rag.documents.max_context_chars
    chunks,  \* the documents read so far
    phase,   \* read, build, answer or unresolved
    built    \* what the context was built of: see Nothing

compareVars == <<store, budget, chunks, phase, built>>

\* kind: none, whole, excerpts or diff.  sources are the chunks the context
\* holds, or was made of, as the response names them.  Of a comparison, old and
\* new are the passages only in the first and only in the second document;
\* pairs, removed and added say by number what became of them; sizes are those
\* of the differences, shown the numbers of those the context holds.
Nothing == [kind |-> "none", sources |-> {}, old |-> <<>>, new |-> <<>>, pairs |-> <<>>,
            removed |-> {}, added |-> {}, sizes |-> <<>>, shown |-> {}]

-----------------------------------------------------------------------------
(* _Lines: a document as lines, independent of its chunks.                 *)

\* The rows of a chunk that are compared: a long chunk of several loses its
\* first and its last, which the splitter may have cut.
Rows(doc, i) ==
    IF Len(doc) > 1 /\ Len(doc[i]) >= EdgeLines
      THEN SubSeq(doc[i], 2, Len(doc[i]) - 1)
      ELSE doc[i]

\* lines
LinesOf(doc) == {l \in Lines : \E i \in DOMAIN doc : l \in Range(Rows(doc, i))}

\* The lines of the whole text, those that are not compared included.
TextLines(doc) == {l \in Lines : \E i \in DOMAIN doc : l \in Range(doc[i])}

\* masked: how many lines have this form.
Masked(doc, mask) == Cardinality({l \in LinesOf(doc) : Mask[l] = mask})

\* contains_line: the line, or a longer one around it, is in the text.
ContainsLine(doc, l) == \E m \in TextLines(doc) : m = l \/ <<l, m>> \in Within

\* Page headers and numbered rows, in both documents: their digits are ignored.
Running(doc, other, l) ==
    /\ Masked(doc, Mask[l]) >= RunningLines
    /\ Masked(other, Mask[l]) >= RunningLines

\* present
Present(doc, other, l) ==
    \/ l \in LinesOf(other)
    \/ Running(doc, other, l)
    \/ ContainsLine(other, l)

\* overlap, at least _VERSION_OVERLAP (0.3).
Versions(a, b) ==
    LET total == Cardinality(LinesOf(a)) + Cardinality(LinesOf(b))
    IN  total > 0 /\ 20 * Cardinality(LinesOf(a) \cap LinesOf(b)) >= 3 * total

\* by_chunk
AllRows(doc) == [i \in DOMAIN doc |-> Rows(doc, i)]

\* Mutated form: a line may start another passage when it comes again.
Repeats_Never(rows, s) == FALSE

\* A line is reported where it comes first: chunks overlap.
Repeats(rows, s) == \E o \in Slots(rows) : Precedes(ByList, o, s) /\ At(rows, o) = At(rows, s)

\* The places of the lines that the other document does not have.
Reported(doc, other) ==
    LET rows == AllRows(doc)
    IN  {s \in Slots(rows) : /\ At(rows, s) \in Lines
                             /\ ~Present(doc, other, At(rows, s))
                             /\ ~Repeats(rows, s)}

\* The last place of the run that starts at s.
EndOf(reported, s, rows) ==
    Max({n \in s[2]..Len(rows[s[1]]) : \A m \in s[2]..n : <<s[1], m>> \in reported})

\* The runs of such places, each within a chunk.
RunsOf(reported, rows) ==
    LET starts == {s \in reported : <<s[1], s[2] - 1>> \notin reported}
        order == InOrder(starts, Walk(starts, ByList))
    IN  [n \in DOMAIN order |->
            [lines |-> SubSeq(rows[order[n][1]], order[n][2], EndOf(reported, order[n], rows)),
             chunk |-> order[n][1]]]

\* passages_missing_from
Passages(doc, other) == RunsOf(Reported(doc, other), AllRows(doc))

-----------------------------------------------------------------------------
(* _pair_changed: which passages are one passage edited.                   *)

WordsOf(passage) == UNION {Words[l] : l \in Range(passage.lines)}

\* A pair is <<number in a, number in b>>.
Shared(a, b, p) == Cardinality(WordsOf(a[p[1]]) \cap WordsOf(b[p[2]]))
Total(a, b, p) == Cardinality(WordsOf(a[p[1]]) \cup WordsOf(b[p[2]]))

\* Word overlap of at least _CHANGED_SIMILARITY (0.5).
Similar(a, b) ==
    {p \in (DOMAIN a) \X (DOMAIN b) :
        /\ WordsOf(a[p[1]]) # {} /\ WordsOf(b[p[2]]) # {}
        /\ 2 * Shared(a, b, p) >= Total(a, b, p)}

\* By falling overlap; of equal ones the later passages first.
Closer(a, b, p, r) ==
    LET left == Shared(a, b, p) * Total(a, b, r)
        right == Shared(a, b, r) * Total(a, b, p)
    IN  \/ left > right
        \/ left = right /\ (p[1] > r[1] \/ (p[1] = r[1] /\ p[2] > r[2]))

ByOverlap(a, b, S) == {q \in S \X S : Closer(a, b, q[1], q[2])}

\* Mutated form: a passage of the second document may be used twice.
Free_AnyNew(pairs, p) == \A r \in pairs : r[1] # p[1]

\* used_a, used_b
Free(pairs, p) == \A r \in pairs : r[1] # p[1] /\ r[2] # p[2]

\* scored.sort(reverse=True)
InTurn(a, b, S) == InOrder(S, ByOverlap(a, b, S))

\* Each pair in turn when both of its passages are free.
Accepted(order) ==
    LET paired[n \in 0..Len(order)] ==
            IF n = 0 THEN {}
            ELSE LET pairs == paired[n - 1]
                 IN  pairs \cup {p \in {order[n]} : Free(pairs, p)}
    IN  paired[Len(order)]

Greedy(a, b) == Accepted(InTurn(a, b, Similar(a, b)))

PairChanged(a, b) ==
    IF Len(a) * Len(b) > MaxPairings THEN <<>> ELSE InTurn(a, b, Greedy(a, b))

-----------------------------------------------------------------------------
(* The context builders.                                                   *)

\* Similarity of a chunk to the question.
Score(chunk) == Cardinality(Range(chunk) \cap Topical)

\* _rank: the numbers of a document's chunks, by falling score.
Closest(doc) ==
    LET Above(i, j) == \/ Score(doc[i]) > Score(doc[j])
                       \/ Score(doc[i]) = Score(doc[j]) /\ i < j
    IN  InOrder(DOMAIN doc, {p \in (DOMAIN doc) \X (DOMAIN doc) : Above(p[1], p[2])})

\* _take, of document d: the leading chunks that fit, always one.
Take(d, limit) ==
    LET order == Closest(chunks[d])
        size == [n \in DOMAIN order |-> Len(chunks[d][order[n]])]
        fitting == {n \in DOMAIN order : SumFunctionOnSet(size, 1..n) <= limit}
    IN  {<<d, order[n]>> : n \in 1..Max({Min({1, Len(order)})} \cup fitting)}

\* single_document_context
Whole == [Nothing EXCEPT !.kind = "whole", !.sources = Take(1, budget)]

\* compare_context, for documents that are no versions of one text: an even
\* share of the budget for each.
Share == Max({budget \div Len(chunks), 1})

Excerpts == [Nothing EXCEPT !.kind = "excerpts",
                            !.sources = UNION {Take(d, Share) : d \in DOMAIN chunks}]

\* The differences: <<1, n>> is the n-th pair, <<2, j>> the j-th passage of b
\* and <<3, i>> the i-th of a that is in none.
Differences(pairs, removed, added) ==
    ({1} \X DOMAIN pairs) \cup ({2} \X added) \cup ({3} \X removed)

\* The passages of a difference: <<document, number>>.
Parts(pairs, d) ==
    CASE d[1] = 1 -> {<<1, pairs[d[2]][1]>>, <<2, pairs[d[2]][2]>>}
      [] d[1] = 2 -> {<<2, d[2]>>}
      [] d[1] = 3 -> {<<1, d[2]>>}

\* The substantial ones first, among those the ones closer to the question.
ByWeight(S, size, score) ==
    {p \in S \X S :
        LET Weighty(d) == size[d] >= Substantial
        IN  \/ Weighty(p[1]) /\ ~Weighty(p[2])
            \/ Weighty(p[1]) = Weighty(p[2]) /\ score[p[1]] > score[p[2]]
            \/ /\ Weighty(p[1]) = Weighty(p[2]) /\ score[p[1]] = score[p[2]]
               /\ Precedes(ByList, p[1], p[2])}

\* The first difference is always shown, cut down to the budget.
Cuts(size, order) ==
    [n \in DOMAIN order |->
        IF n = 1 THEN Min({size[order[n]], budget}) ELSE size[order[n]]]

\* Which differences are shown: each in turn when it still fits.
Fill(sizes) ==
    LET shown[n \in 0..Len(sizes)] ==
            IF n = 0 THEN {}
            ELSE LET before == shown[n - 1]
                 IN  before \cup {m \in {n} : SumFunctionOnSet(sizes, before) + sizes[m] <= budget}
    IN  shown[Len(sizes)]

\* _diff_context
Diff ==
    LET a == Passages(chunks[1], chunks[2])
        b == Passages(chunks[2], chunks[1])
        pairs == PairChanged(a, b)
        removed == DOMAIN a \ {p[1] : p \in Range(pairs)}
        added == DOMAIN b \ {p[2] : p \in Range(pairs)}
        all == Differences(pairs, removed, added)
        Passage(o) == At(<<a, b>>, o)
        From(d) == {<<o[1], Passage(o).chunk>> : o \in Parts(pairs, d)}
        size == [d \in all |-> SumFunction([o \in Parts(pairs, d) |-> Len(Passage(o).lines)])]
        score == [d \in all |-> Max({Score(At(chunks, c)) : c \in From(d)})]
        order == InOrder(all, ByWeight(all, size, score))
        sizes == Cuts(size, order)
        shown == Fill(sizes)
    IN  [kind |-> "diff", sources |-> UNION {From(order[n]) : n \in shown},
         old |-> a, new |-> b, pairs |-> pairs, removed |-> removed, added |-> added,
         sizes |-> sizes, shown |-> shown]

-----------------------------------------------------------------------------
(* The request.                                                            *)

\* document_chunks of the next document: nothing when it has gone since the
\* catalog was listed.
ReadDocument ==
    /\ phase = "read"
    /\ chunks' = Append(chunks, store[Len(chunks) + 1])
    /\ phase' = CASE Len(chunks') < Len(store) -> "read"
               [] Len(chunks') = Len(store) /\ <<>> \in Range(chunks') -> "unresolved"
               [] OTHER -> "build"
    /\ UNCHANGED <<store, budget, built>>

\* Meanwhile the indexer replaces or removes a document (bound: once each).
IndexerReplaces(d) ==
    /\ phase = "read"
    /\ store[d] \notin Updates
    /\ \E u \in Updates : store' = [store EXCEPT ![d] = u]
    /\ UNCHANGED <<budget, chunks, phase, built>>

\* single_document_context or compare_context.
BuildContext ==
    /\ phase = "build"
    /\ built' = IF Len(chunks) = 1 THEN Whole
                ELSE IF Len(chunks) = 2 /\ Versions(chunks[1], chunks[2]) THEN Diff
                ELSE Excerpts
    /\ phase' = "answer"
    /\ UNCHANGED <<store, budget, chunks>>

CompareInit ==
    /\ store \in Stores
    /\ budget \in Budgets
    /\ chunks = <<>> /\ phase = "read" /\ built = Nothing

CompareNext ==
    \/ ReadDocument
    \/ \E d \in DOMAIN store : IndexerReplaces(d)
    \/ BuildContext

CompareSpec == CompareInit /\ [][CompareNext]_compareVars

-----------------------------------------------------------------------------
(* What the code is expected to guarantee.                                 *)

\* Types of the locals of _answer_documents; what is named was read.
CompareTypeOK ==
    /\ budget \in Budgets
    /\ store \in Seq(Documents) /\ chunks \in Seq(Documents) /\ Len(chunks) <= Len(store)
    /\ phase \in {"read", "build", "answer", "unresolved"}
    /\ built.kind \in {"none", "whole", "excerpts", "diff"}
    /\ built.sources \subseteq Slots(chunks)

\* A line of doc the reader of other would miss: it is neither there, whole
\* or inside a longer one, nor running matter of both.
Missing(doc, other) ==
    {l \in TextLines(doc) :
        /\ \A m \in TextLines(other) : m # l /\ <<l, m>> \notin Within
        /\ \/ Cardinality({m \in TextLines(doc) : Mask[m] = Mask[l]}) < RunningLines
           \/ Cardinality({m \in TextLines(other) : Mask[m] = Mask[l]}) < RunningLines}

\* How often passages hold a line.
Times(passages, l) ==
    LET lines == [n \in DOMAIN passages |-> passages[n].lines]
    IN  Cardinality({s \in Slots(lines) : At(lines, s) = l})

\* Every missing line is in one passage, once, and nothing else is in any.
TellsApart(passages, doc, other) ==
    LET missing == Missing(doc, other)
    IN  \A l \in Lines : Times(passages, l) = IF l \in missing THEN 1 ELSE 0

\* No line of the document is lost at the edges of its chunks.
EdgesRepeated(doc) == TextLines(doc) \subseteq LinesOf(doc)

\* documents.py:838-841: for two versions of one text the differences are
\* those of the documents, however they were cut into overlapping chunks -
\* where the overlap repeats every line a chunk has at its edge.
DifferencesReported ==
    built.kind = "diff" /\ (\A d \in 1..2 : EdgesRepeated(chunks[d]))
        => /\ TellsApart(built.old, chunks[1], chunks[2])
           /\ TellsApart(built.new, chunks[2], chunks[1])

\* documents.py:689-691: the first and the last line of a chunk need not be
\* compared, for "the chunk overlap carries the same lines whole in the
\* neighbouring chunk".
EdgesAreElsewhere ==
    built.kind = "diff"
        => /\ TellsApart(built.old, chunks[1], chunks[2])
           /\ TellsApart(built.new, chunks[2], chunks[1])

\* documents.py:836-841, "with the exact totals computed here", "within one
\* budget": the totals count every passage once - as changed with its
\* counterpart, as removed or as added -, no two passages left over are one
\* edited, and what is shown of them fits the budget.
DifferencesAccounted ==
    built.kind = "diff" =>
        /\ SumFunctionOnSet(built.sizes, built.shown) <= budget
        /\ built.sizes # <<>> => built.shown # {}
        /\ Len(built.pairs) + Cardinality(built.removed) = Len(built.old)
        /\ Len(built.pairs) + Cardinality(built.added) = Len(built.new)
        /\ Len(built.old) * Len(built.new) <= MaxPairings =>
             \A i \in built.removed, j \in built.added :
                LET v == WordsOf(built.old[i])
                    w == WordsOf(built.new[j])
                IN  2 * Cardinality(v \cap w) < Cardinality(v \cup w) \/ v \cap w = {}

=============================================================================
