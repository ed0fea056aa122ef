---------------------------- MODULE MCReconciler ----------------------------
(* Reconciler on a small instance.                                            *)
EXTENDS Reconciler, TLC

\* For the safety runs: revisions are alike, and so are pods.
Symmetry == Permutations(Revs) \cup Permutations(Slots)

\* TLC does not check liveness under symmetry, so the liveness run starts with
\* one wanted revision instead of either of them.
InitFromOne == Init /\ ask.wanted = CHOOSE w \in Revs : TRUE
FairSpecFromOne == InitFromOne /\ [][Next]_vars /\ Fairness
=============================================================================
