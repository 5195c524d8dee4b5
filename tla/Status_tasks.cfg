SPECIFICATION Spec
CONSTANTS
  Volatile = {"Tasks"}
  Editable = {}
  MaxGeneration = 1
  MaxDisturbances = 0
  CommitsFail = FALSE
PROPERTIES
  TasksReadyMeansPresent
