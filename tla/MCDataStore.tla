----------------------------- MODULE MCDataStore -----------------------------
(* Two threads, two keys and two values in a store of up to four slots. *)
EXTENDS DataStore, TLC

CONSTANTS t1, t2, k1, k2, v1, v2

MCThreads == {t1, t2}
MCKeys    == {k1, k2}
MCValues  == {v1, v2}
MCSizes   == {0, 1, 2}

\* Neither the threads nor the keys nor the values are told apart by the code.
MCSymmetry == Permutations(MCThreads) \cup Permutations(MCKeys) \cup Permutations(MCValues)
=============================================================================
