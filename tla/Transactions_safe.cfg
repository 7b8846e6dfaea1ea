CONSTANTS
  Managers = {m1, m2}
  Txs = {t1, t2}
  Queries = {q1, q2}
  Engines = {e1, e2}
  NoTx = NoTx
  NoEngine = NoEngine
  NoQuery = NoQuery
SPECIFICATION Spec
SYMMETRY Symmetry
INVARIANT FailedBodyLeavesNothing
INVARIANT ReturnedIsDurable
INVARIANT InvisibleInBody
PROPERTY OnlyWholeBlocks
CHECK_DEADLOCK FALSE
