SPECIFICATION ViewsSpec
CONSTANTS
  Names <- MCNames
  Kind <- MCKind
  FileOf <- MCFileOf
  PackageOf <- MCPackageOf
  Built <- MCBuilt
  Scopes <- MCScopes
  Starts <- MCStarts
INVARIANTS LiveStaysLive ScopeKeepsNeighbours CyclesAreTheKnots
CHECK_DEADLOCK FALSE
