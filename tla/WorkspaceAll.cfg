SPECIFICATION Spec
CONSTANTS
  f = f
  g = g
  A = A
  Files = {f, g}
  Folders = {A}
  FolderOf <- OneFolder
  Calls = {"register", "edit"}
  Scans = {s1, s2}
  Batches = {b1, b2}
  Edited = {f}
  Room = 1
  Settings = {100}
  MaxChanges = 2
  MaxRequests = 1

INVARIANTS OnlyOvertakenLags CollectorRestored NeverStuck
CHECK_DEADLOCK FALSE
