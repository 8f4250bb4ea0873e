------------------------------ MODULE MCIndexer ------------------------------
(* Instances of Indexer for TLC.                                            *)
EXTENDS Indexer, TLC

CONSTANTS a, b, p1, p2

\* A start from the command line, and the longest way: `serviette up` with an
\* indexer of several workers.
TwoModes == {[up |-> FALSE, workers |-> FALSE], [up |-> TRUE, workers |-> TRUE]}

\* The two configurations name embedders of different dimensions.
TwoDims == a :> 1 @@ b :> 2
=============================================================================
