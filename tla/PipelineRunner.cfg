SPECIFICATION FairSpec
CONSTANTS
  Runners = {"r1", "r2"}
  Works <- AllWorks
  Hosts = {"ghcr.io", "registry.gitlab.com", "registry.local"}
  CachePaths <- TwoPaths
  TTL = TRUE
  MaxLogBytes = 3
  MaxArtifactsBytes = 1
  OutputSizes = {0, 2}
  FileCounts = {0, 1, 2}
PROPERTIES EveryRunnerEnds
INVARIANTS TypeOK ScopeIsolated EvidenceOfTheImage StatusIsBacked SnapshotsOfSuccess EntryIsWhole LoginLastsForTheBuild
CHECK_DEADLOCK FALSE
