CONSTANTS
  modelA = modelA
  modelB = modelB
  eps5 = eps5
  eps6 = eps6
  DefaultEps = eps6
  Setups <- MCSetups
  MaxStarts = 9
SPECIFICATION Spec
INVARIANT ExportUsesCheckpointEps
CHECK_DEADLOCK FALSE
