------------------------- MODULE MC_SessionRegistry -------------------------
(* SessionRegistry for TLC: one instance of the store, or one per thread.  *)
EXTENDS SessionRegistry, TLC

CONSTANTS t1, t2, m1, m2

MCThreads == {t1, t2}
MCManifests == {m1, m2}
OneInstance == [t \in MCThreads |-> 1]
TwoInstances == (t1 :> 1) @@ (t2 :> 2)

Symmetry == Permutations(MCThreads) \cup Permutations(MCManifests)
=============================================================================
