SPECIFICATION FairSpec
CONSTANTS
  Volatile = {"KubeconfigSecret", "CertifiedIndex"}
  Editable = {}
  MaxGeneration = 2
  MaxDisturbances = 2
  CommitsFail = TRUE
PROPERTIES
  StatusConverges
