\* Two servers, a migrator and an importer; two uploads; one browser.
CONSTANTS
  s1 = s1  s2 = s2  m1 = m1  i1 = i1  u1 = u1  u2 = u2
  t1 = t1  t2 = t2  p1 = p1  p2 = p2  f1 = f1  v1 = v1
  Servers = {s1, s2}
  Migrators = {m1}
  Importers = {i1}
  Uploads = {u1, u2}
  Instants = {t1, t2}
  Pictures = {p1, p2}
  Fixed = {f1}
  Viewers = {v1}
  None = None
  MaxFailures = 1
SPECIFICATION MediaSpec
INVARIANTS MediaInv AnswersAreTimely UploadsKept
PROPERTIES ServersComeUp
CHECK_DEADLOCK FALSE
