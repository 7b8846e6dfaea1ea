CONSTANTS
  None = None
  u1 = u1
  u2 = u2
  p1 = p1
  p2 = p2
  Datamodel <- TwoModels
  Partials <- PartialTypes
  Aliases <- KeyAliases
  Database <- Rows
  Leaves <- LeafValues
  Options <- AllClients
  Calls <- AllCalls
  ErrorLists <- Lists
  Request <- MethodRequest
  Refusals <- QueryRefusals
  Replies <- EngineAnswers
  OnePass <- ResponseDecoder
  ParseRecord <- MsgspecRecord
  Result <- MethodResult
  Users = {t1, t2}
  Owner = t1
  MaxBatch = 3
  MaxCommits = 3
SPECIFICATION Spec
CHECK_DEADLOCK FALSE
INVARIANT AnswersAreTheRows
INVARIANT ErrorsAreNeverResults
INVARIANT BatchAppliesOnce
