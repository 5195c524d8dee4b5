SPECIFICATION FairSpec
CONSTANTS
  p1 = p1
  p2 = p2
  ci = ci
  task = task
  stream = stream
  r1 = r1
  r2 = r2
  Pipelines = {p1, p2}
  TektonPipelines = {ci}
  Tasks = {task}
  ImageStreams = {stream}
  Order <- OneOfEach
  Releases = {r1}
  Requests <- OneSwitchesOn
  Nobody = Nobody
  Nothing = Nothing
  MaxPublished = 2
  MaxDisturbances = 1
INVARIANTS
  TypeOK
  ManifestsAreOwned
PROPERTIES
  OwnersAreKept
  ObjectsReturn
  StreamsGetOwners
  NothingIsLeft
CHECK_DEADLOCK FALSE
