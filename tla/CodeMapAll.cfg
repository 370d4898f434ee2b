SPECIFICATION FairSpec
CONSTANTS
  c = c  p = p  q = q  o = o
  c1 = c1  c2 = c2  p1 = p1  p2 = p2  q1 = q1
  f1 = f1  f2 = f2  NoFile = NoFile  Top = Top
  Twins = FALSE
  Files <- MCFiles
  Cfcs = {c}
  Outside = {o}
  Volatile = {q}
  Text <- MCText
  TextsOf <- MCTextsOf
  Funcs <- MCFuncs
  Calls <- MCCalls
  Refs <- MCRefs
  Incls <- MCIncls
  Flags = {plain}
  Workers = {w1, w2}
  FlushAt = 2
  Room = 1
  MaxEdits = 1  MaxBuilds = 2  MaxFailures = 1
INVARIANTS TypeOK RowsAreScans MapIsTheFiles RebuildIsCached
PROPERTIES BuildEnds
CHECK_DEADLOCK FALSE
