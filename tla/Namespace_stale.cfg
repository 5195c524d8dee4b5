SPECIFICATION FairSpec
CONSTANTS
  p1 = p1
  p2 = p2
  ci = ci
  task = task
  stream = stream
  r1 = r1
  r2 = r2
  Pipelines = {p1}
  TektonPipelines = {ci}
  Tasks = {task}
  ImageStreams = {stream}
  Order <- OneOfEach
  Releases = {r1, r2}
  Requests <- AllOn
  Nobody = Nobody
  Nothing = Nothing
  MaxPublished = 2
  MaxDisturbances = 1
PROPERTIES
  ObjectsAreUpToDate
CHECK_DEADLOCK FALSE
