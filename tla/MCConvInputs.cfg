CONSTANTS
  Feat <- MCFeat
  Nets <- MCNets
SPECIFICATION RepairSpec
INVARIANTS
  RepairIsComplete
  SameWidthKeepsOrder
CHECK_DEADLOCK FALSE
