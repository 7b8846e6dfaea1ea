------------------------------ MODULE MCClient ------------------------------
(* Small instances of Client for TLC.                                      *)
EXTENDS Client, TLC

\* Tasks and engine objects are interchangeable.
Symmetry == Permutations(Tasks) \cup Permutations(Engines)

=============================================================================
