CONSTANTS
  Schemas <- MCSchemas
  Separate <- MCSeparate
  Minimal <- MCMinimal
  Rejected <- MCRejected
  Absent = Absent
SPECIFICATION Spec
INVARIANT WholeClient
PROPERTY SuccessMeansComplete
