SPECIFICATION GraphSpec
CONSTANTS
  a = a
  b = b
  c = c
  d = d
  Start = Start
  Keys <- FourKeys
  Configs <- OneConfig
  Templates <- OneStep
INVARIANTS
  GraphIsPaths
  CompiledIsTheChain
  RepairNeedsOneConnection
PROPERTIES
  DeletionKeepsOrder
SYMMETRY KeysAreAlike
