---------------------------- MODULE MCCatalogCache ----------------------------
(* Instances of CatalogCache for TLC.                                       *)
EXTENDS CatalogCache, TLC

CONSTANTS q1, q2, s1, s2, s3
=============================================================================
