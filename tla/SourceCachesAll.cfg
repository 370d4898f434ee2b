SPECIFICATION Spec
CONSTANTS
  Folders = {2}
  Targets = {1}
  Parents = {A}
  Discovery = {2}
  Queries = {q1, q2}
  Reporters = {w1, w2}
  Resolvers = {r1, r2, r3}
  Nothing = Nothing
  MaxChanges = 2
SYMMETRY Interchangeable
INVARIANTS OnlyOverlappedIsStale
CHECK_DEADLOCK FALSE
