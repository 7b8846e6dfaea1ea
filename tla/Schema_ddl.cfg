CONSTANTS
  Datamodels <- AllDatamodels
  NativeTypes = {"VarChar", "Date", "Timestamptz", "SmallInt"}
  BuiltinClasses = {"JsonbOps", "OddOps"}
  OperatorClasses = {"JsonbOps"}
  PlainSequences <- LowerCaseSequences
SPECIFICATION Spec
CHECK_DEADLOCK FALSE
INVARIANT ForeignKeysAreTheRelations
INVARIANT SidesAgree
INVARIANT InsertsAreComplete
INVARIANT ClassesDescribeTheirTables
INVARIANT DiffIsTruth
