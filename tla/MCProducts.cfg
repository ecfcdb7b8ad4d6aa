\* Two imports and a media migration of the products table, overlapping or in
\* any order, with failures and kills at every step.
CONSTANTS
  i1 = i1  i2 = i2  m1 = m1  m2 = m2
  ann = ann  bob = bob  uuidA = uuidA  uuidB = uuidB
  Web = Web
  Items <- TwoProducts
  ImportName <- ByExternalId
  Gallery = 1
  AlwaysUpdate = TRUE
  Feeds <- ProductFeeds
  BatchSize = 2
  Workers = 1
  Imports = {i1, i2}
  Migrators = {m1}
SYMMETRY ImportRuns
SPECIFICATION Spec
INVARIANTS PictureInv ReferencesResolve 
CHECK_DEADLOCK FALSE
