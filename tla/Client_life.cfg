CONSTANTS
  Tasks = {t1, t2}
  Engines = {e1, e2, e3}
  Root = Root
  Copy = Copy
  Interfaces = {TRUE, FALSE}
  KeepsManager = TRUE
  NoEngine = NoEngine
SPECIFICATION Spec
SYMMETRY Symmetry
INVARIANT NoStrayProcess
INVARIANT StaysUsable
PROPERTY EngineOutlivesUsers
CHECK_DEADLOCK FALSE
