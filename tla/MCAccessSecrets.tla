--------------------------- MODULE MCAccessSecrets ---------------------------
(* A small instance of AccessSecrets for TLC.                               *)
EXTENDS AccessSecrets, TLC

\* Bundle names are interchangeable, since the code compares them only for
\* equality and, as hashes, in an arbitrary order: the first configuration may
\* be any bundle.
InitFromOne == Init /\ desired = CHOOSE b \in Bundles : TRUE
SpecFromOne == InitFromOne /\ [][Next]_vars /\ Fairness
=============================================================================
