\* An import and two media migrations of the users table.
CONSTANTS
  i1 = i1  i2 = i2  m1 = m1  m2 = m2
  ann = ann  bob = bob  uuidA = uuidA  uuidB = uuidB
  Web = Web
  Items <- TwoUsers
  ImportName <- ByUuid
  Gallery = 0
  AlwaysUpdate = FALSE
  Feeds <- UserFeeds
  BatchSize = 1
  Workers = 2
  Imports = {i1}
  Migrators = {m1, m2}
SPECIFICATION FairSpec
INVARIANTS CountedIsStored UsersInv
PROPERTIES AvatarsKept RunsEnd
CHECK_DEADLOCK FALSE
