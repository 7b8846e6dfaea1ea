------------------------------- MODULE MCIds --------------------------------
(* Small instances of Ids for TLC.                                         *)
EXTENDS Ids, TLC

\* Threads are interchangeable.
WorkerSymmetry == Permutations(Workers)

=============================================================================
