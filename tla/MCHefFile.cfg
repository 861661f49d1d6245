CONSTANTS
  Paths = {"a", "b"}
  Versions = {1, 2, 3}
  Tokenizers <- MCTokenizers
  Built <- MCBuilt
  Asked <- MCAsked
  CcwsSize = 118
  MaxPatches = 3
SPECIFICATION Spec
INVARIANTS
  ServedAsVerified
  OthersUntouched
  AuditReadsWhatIsSigned
  ServerTokenizesAlike
CHECK_DEADLOCK FALSE
