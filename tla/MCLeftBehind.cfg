\* What Taskfile.yml says of the media migration, with two runs of it after
\* one another.
CONSTANTS
  i1 = i1  i2 = i2  m1 = m1  m2 = m2
  ann = ann  bob = bob  uuidA = uuidA  uuidB = uuidB
  Web = Web
  Items <- TwoProducts
  ImportName <- ByExternalId
  Gallery = 1
  AlwaysUpdate = TRUE
  Feeds <- ProductFeeds
  BatchSize = 2
  Workers = 1
  Imports = {i1}
  Migrators = {m1, m2}
SPECIFICATION Spec
PROPERTY NothingPendingMeansMigrated
CHECK_DEADLOCK FALSE
