---------------------------- MODULE MCHybridIndex ----------------------------
(* Instances of HybridIndex for TLC.                                        *)
EXTENDS HybridIndex, TLC

CONSTANTS c1, c2, q1, q2

\* The rows are scrolled page by page (Qdrant); with one page a SELECT returns
\* them all (DuckDB, pgvector).
TwoPages == << {c1}, {c2} >>
=============================================================================
