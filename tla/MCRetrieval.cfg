CONSTANTS
  Analyses = {1, 2, 3, 4}
  Clients = {c1}
  Filters <- AllOrOdd
  PageSizes = {1, 2}
  MaxPage = 3
  None = None
SPECIFICATION Spec
INVARIANTS
  RetrievalInv
  WalkMissesNothing
  ItemsReachTotal
  CachedIsStored
PROPERTY TotalPagesExact
