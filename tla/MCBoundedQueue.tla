--------------------------- MODULE MCBoundedQueue ---------------------------
(* Small instances of BoundedQueue for TLC.                                *)
EXTENDS BoundedQueue, TLC

\* Threads differ in nothing but their name, and so do values.
Symmetric == Permutations(Threads) \cup Permutations(Values)
=============================================================================
