SPECIFICATION FairSpec
CONSTANTS
  Pipelines = {p1, p2}
  Branches <- MCBranches
  Tags <- MCTags
  Default = "main"
  Releases = {"main", "pre-v1", "v1"}
  EndsWith <- MCEndsWith
  NoPipeline = NoPipeline
  Annotated = {"v1"}
  NoCommit = NoCommit
  TagObject = TagObject
  Mixed = Mixed
  MaxCommits = 2
  MaxDisturbances = 3
INVARIANTS
  TypeOK
  SuccessInstallsAMatch
  SuccessInstallsTheRelease
PROPERTIES
  ReleaseConverges
  LeftoversAreHarmless
  OnlyAPodRepairsAClone
