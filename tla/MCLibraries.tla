----------------------------- MODULE MCLibraries ------------------------------
(***************************************************************************)
(* Four libraries that share no state, checked in one run: a behaviour     *)
(* chooses one of them and takes its steps.                                *)
(***************************************************************************)
EXTENDS ByteThings, WillFinalize, CompileCache, Reactor, TLC

VARIABLE part

CONSTANTS n1, n2, i1, i2, q1, q2

\* The finalized objects are named as the processes are, and the functions as the cache
\* files: a behaviour has one of them only, and they are symmetric in both.
MCNames == {n1, n2}
MCFiles == {i1, i2}
MCRealms == {q1, q2}
MCSymmetry == Permutations(MCNames) \cup Permutations(MCFiles) \cup Permutations(MCRealms)

TypeOK == ByteTypeOK /\ FinalizeTypeOK /\ CacheTypeOK /\ ReactorTypeOK

Init ==
  /\ part \in {"bytes", "finalizers", "cache", "reactor"}
  /\ ByteInit /\ FinalizeInit /\ CacheInit /\ ReactorInit

ByteStep ==
  part = "bytes" /\ ByteNext /\ UNCHANGED <<part, wfVars, cacheVars, reactorVars>>
FinalizeStep ==
  part = "finalizers" /\ FinalizeNext /\ UNCHANGED <<part, byteVars, cacheVars, reactorVars>>
CacheStep ==
  part = "cache" /\ CacheNext /\ UNCHANGED <<part, byteVars, wfVars, reactorVars>>
ReactorStep ==
  part = "reactor" /\ ReactorNext /\ UNCHANGED <<part, byteVars, wfVars, cacheVars>>

Next == ByteStep \/ FinalizeStep \/ CacheStep \/ ReactorStep

Spec == Init /\ [][Next]_<<part, byteVars, wfVars, cacheVars, reactorVars>>
=============================================================================
