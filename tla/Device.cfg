SPECIFICATION FairSteinerSpec
CONSTANTS
  NQ = 4
  Infinite = 5
  Costs = {0, 2}
  Digraphs <- SomeDigraphs
INVARIANTS
  HopsAgree
  WalkIsPath
  AnswerIsCheapest
  TopologicalTree
  SpansTerminals
  NearlyMinimal
PROPERTY EveryQueryAnswered
