-------------------------- MODULE MC_MessageQueue --------------------------
(* A small instance of MessageQueue.  No thread and no object is special,  *)
(* and only invariants are checked, so that they may be interchanged.      *)
EXTENDS MessageQueue

CONSTANTS t1, t2, t3, o1, o2, o3, o4

MCThreads == {t1, t2, t3}
MCObjects == {o1, o2, o3, o4}
Symmetry == Permutations(MCThreads) \cup Permutations(MCObjects)
=============================================================================
