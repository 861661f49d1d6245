CONSTANTS
  MaxBlocks = 3
  MaxShards = 4
  Vocabs = {6, 7}
  Nets <- MCNets
  Archs <- MCArchs
  Recipes <- MCRecipes
SPECIFICATION RecipeSpec
INVARIANTS
  GraphClosed
  OperandsKept
  LogitsInOrder
  WeightsFollowLayers
  NormalizationFanOut
  NamesExist
  CalibrationFollowsScript
  DefaultRecipeIsBuiltIn
  RolesNameTheirLayers
PROPERTIES
  SavedIffItFits
CHECK_DEADLOCK FALSE
