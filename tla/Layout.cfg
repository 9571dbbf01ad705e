SPECIFICATION FairSpec
CONSTANTS
  NQ = 3
  Names <- SomeNames
  Programs <- SomePrograms
  CouplingOrders <- SomeOrders
  CNOTCount <- RingCount
  MaxCNOTs = 3
INVARIANTS
  OnePlaceEach
  PlacedIfRoom
  NoCouplingWasted
PROPERTY LayoutEnds
CHECK_DEADLOCK FALSE
