CONSTANTS
  Mjds <- MCMjds
  Types <- MCTypes
  lower <- MCLower
  Funcs <- MCFuncs
  Windows <- MCWindows
  MaxLists = 3
  MaxLen = 4
SPECIFICATION TargetSpec
INVARIANT TypesRecognised
