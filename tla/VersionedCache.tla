---------------------------- MODULE VersionedCache ----------------------------
(***************************************************************************)
(* What the two in-process caches of the server promise (server/hybrid.py, *)
(* lines 10-16 and 174-182): one value built from the stored chunks and    *)
(* labelled with the change signal it was built for.  The value may be     *)
(* replaced or relabelled at any time, by anyone, but                      *)
(*   - a label is a signal the store really had, no later than the rows of *)
(*     the value were read, and                                            *)
(*   - no row is replaced by a row read earlier.                           *)
(***************************************************************************)
EXTENDS Naturals, Sequences

CONSTANTS
    Keys,       \* the rows of a cached value
    NoLabel     \* not a signal: a value that must be rebuilt before it is used

VARIABLES
    store,      \* the signals the store has had, oldest first
    cache       \* the cached value

Nothing == [built |-> FALSE]

\* `at` tells for each row when it was read, as an index into store.
Init ==
    /\ Len(store) = 1
    /\ cache = Nothing

\* The indexer commits a batch; the signal takes some value, a new one or not.
StoreMoves ==
    /\ Len(store') = Len(store) + 1
    /\ store' = Append(store, store'[Len(store')])
    /\ UNCHANGED cache

\* s was the signal at some moment before every row of the value was read.
Honest(at, s) ==
    \E e \in 1..Len(store) :
        /\ store[e] = s
        /\ \A k \in Keys : at[k] \in e..Len(store)

\* The value is rebuilt or its label set.
Replace ==
    /\ cache'.built
    /\ cache'.label = NoLabel \/ Honest(cache'.at, cache'.label)
    /\ cache.built => \A k \in Keys : cache'.at[k] >= cache.at[k]
    /\ UNCHANGED store

Next == StoreMoves \/ Replace

Spec == Init /\ [][Next]_<<store, cache>>
=============================================================================
