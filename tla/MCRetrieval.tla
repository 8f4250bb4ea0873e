---------------------------- MODULE MCRetrieval -----------------------------
(* Instances of Retrieval for TLC.                                         *)
EXTENDS Retrieval, TLC

Conf(d, h, r, m, v) == [decompose |-> d, hybrid |-> h, rerank |-> r, mmr |-> m, diversity |-> v]

\* Each stage alone, and the combinations that meet in one request.
SomeConfs ==
    { Conf(2, FALSE, 0, 0, 0),    \* decomposed
      Conf(0, TRUE, 0, 0, 0),     \* hybrid
      Conf(1, TRUE, 0, 0, 0),     \* both, one sub-query at most
      Conf(1, FALSE, 2, 0, 0),    \* decomposed and reranked
      Conf(0, FALSE, 0, 3, 1),    \* diversified
      Conf(1, FALSE, 3, 2, 1) }   \* decomposed, reranked and diversified

\* No list here is longer than the ranks Weight is exact for.
ASSUME RanksAreExact ==
    /\ \A n \in Ks : n * Factor ^ (MaxIter - 1) <= 4
    /\ \A c \in Confs : c.rerank <= 4 /\ c.mmr <= 4

TextSymmetry == Permutations(Texts)
=============================================================================
