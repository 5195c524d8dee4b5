SPECIFICATION FairSpec
CONSTANTS
  Pipelines = {p1}
  Branches <- MCBranches
  Tags <- MCTags
  Default = "main"
  Releases = {"main"}
  EndsWith <- MCEndsWith
  NoPipeline = NoPipeline
  Annotated = {}
  NoCommit = NoCommit
  TagObject = TagObject
  Mixed = Mixed
  MaxCommits = 2
  MaxDisturbances = 1
PROPERTIES
  LatestIsInstalled
