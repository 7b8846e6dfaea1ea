--------------------------- MODULE MCSharedEngine ---------------------------
(* Small instances of SharedEngine for TLC.                                *)
EXTENDS SharedEngine, TLC

CONSTANTS a, b, c, ka, kb, p1, p2, p3, p4

\* Two engines contend for one datasource, a third uses another one.
TwoKeys == (a :> ka) @@ (b :> ka) @@ (c :> kb)

\* Three engines contend for one datasource.
OneKey == [e \in {a, b, c} |-> ka]

\* Processes are interchangeable.
ProcSymmetry == Permutations(Procs)

=============================================================================
