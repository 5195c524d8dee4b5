SPECIFICATION Spec
CONSTANTS
  Volatile = {"KubeconfigSecret", "HostedPipeline"}
  Editable = {"HostedPipeline"}
  MaxGeneration = 3
  MaxDisturbances = 2
  CommitsFail = FALSE
INVARIANTS
  TypeOK
  FailureIsRetried
  GenerationsDescend
PROPERTIES
  GenerationsAdvance
  ImplementsReports
