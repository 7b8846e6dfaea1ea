--------------------------- MODULE MCTransactions ---------------------------
(* Small instances of Transactions for TLC.                                *)
EXTENDS Transactions, TLC

\* Managers, transactions, queries and engines are interchangeable.
Symmetry ==
  Permutations(Managers) \cup Permutations(Txs) \cup Permutations(Queries)
    \cup Permutations(Engines)

=============================================================================
