----------------------------- MODULE RelationDepth -----------------------------
(***************************************************************************)
(* max_relation_chain_depth() of generator/models.py: the length of the    *)
(* longest chain of distinct models that are linked by relations, found by *)
(* an iterative search in depth, one step per turn of its loop.  The       *)
(* number is rendered into the client, which sizes the recursion limit and *)
(* the stack of its builds by it.  A graph with too many chains uses the   *)
(* budget up, and counts as one chain through all models.                  *)
(***************************************************************************)
EXTENDS Integers, FiniteSets, Sequences

CONSTANTS
  Models,   \* the models of the schema
  Schemas,  \* which models each model has relations to, itself aside: the schemas
  Budget    \* how many times the search may go deeper

ASSUME ModelsAssumption  == IsFiniteSet(Models) /\ Models # {}
ASSUME SchemasAssumption == Schemas \subseteq [Models -> SUBSET Models]
ASSUME BudgetAssumption  == Budget \in Nat \ {0}

VARIABLES
  relates,  \* adj
  starts,   \* the models no search has started from
  path,     \* stack: the models of the current chain,
  untried,  \* and the neighbours of each that are left to try
  best,     \* the longest chain so far
  budget,   \* how many times it may still go deeper
  depth     \* the result; 0 while the search goes on

measure == <<relates, starts, path, untried, best, budget, depth>>

N == Cardinality(Models)
Rest == untried[Len(untried)]
OnPath == {path[i] : i \in DOMAIN path}

MeasureInit ==
  /\ relates \in Schemas
  /\ starts = Models
  /\ path = <<>> /\ untried = <<>>
  /\ best = 1
  /\ budget = Budget
  /\ depth = 0

\* return: the search is over and forgotten.
Answer(d) ==
  /\ depth' = d
  /\ starts' = {} /\ path' = <<>> /\ untried' = <<>> /\ best' = 1 /\ budget' = 0
  /\ UNCHANGED relates

\* for start in adj
Start(m) ==
  /\ depth = 0 /\ path = <<>>
  /\ m \in starts
  /\ starts' = starts \ {m}
  /\ path' = <<m>> /\ untried' = <<relates[m]>>
  /\ UNCHANGED <<relates, best, budget, depth>>

\* Goes on to a neighbour that is not in the chain yet.
Deeper(m) ==
  /\ depth = 0 /\ path # <<>> /\ best < N
  /\ budget > 1
  /\ m \in Rest \ OnPath
  /\ path' = Append(path, m)
  /\ untried' = Append([untried EXCEPT ![Len(path)] = @ \ {m}], relates[m])
  /\ best' = IF Len(path) + 1 > best THEN Len(path) + 1 ELSE best
  /\ budget' = budget - 1
  /\ UNCHANGED <<relates, starts, depth>>

\* Without a budget it answers that all models may be one chain.  (Slip: it
\* answers with what it has found so far.)
OutOfBudgetBest ==
  /\ depth = 0 /\ path # <<>> /\ best < N
  /\ budget <= 1
  /\ ~(Rest \subseteq OnPath)
  /\ Answer(best)
OutOfBudget ==
  /\ depth = 0 /\ path # <<>> /\ best < N
  /\ budget <= 1
  /\ ~(Rest \subseteq OnPath)
  /\ Answer(N)

\* Every neighbour was tried, or is in the chain.
Back ==
  /\ depth = 0 /\ path # <<>> /\ best < N
  /\ Rest \subseteq OnPath
  /\ path' = SubSeq(path, 1, Len(path) - 1)
  /\ untried' = SubSeq(untried, 1, Len(path) - 1)
  /\ UNCHANGED <<relates, starts, best, budget, depth>>

\* No chain is longer than one through all models.
AllModels ==
  /\ depth = 0 /\ best >= N
  /\ Answer(N)

Exhausted ==
  /\ depth = 0 /\ best < N /\ path = <<>> /\ starts = {}
  /\ Answer(best)

Measure ==
  \/ \E m \in Models : Start(m) \/ Deeper(m)
  \/ OutOfBudget \/ Back \/ AllModels \/ Exhausted

-----------------------------------------------------------------------------
(* What it is the measure of: chains of models, none of them twice.        *)

Chains ==
  {p \in UNION {[1 .. k -> Models] : k \in 1 .. N} :
     /\ \A i \in 1 .. Len(p) - 1 : p[i + 1] \in relates[p[i]]
     /\ \A i, j \in 1 .. Len(p) : p[i] = p[j] => i = j}
ChainsFrom(m) == {p \in Chains : p[1] = m}
=============================================================================
