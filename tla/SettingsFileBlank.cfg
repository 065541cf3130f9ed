SPECIFICATION FileSpec
CONSTANTS
  inverted = inverted
  magic = magic
  torque = torque
  mask = mask
  NoValue = NoValue
  NoSection = NoSection
  Object <- MCObject
  Objects <- MCObjects
  Subcategory <- MCSubcategory
  ParamName <- MCParamNameBlank
  TypeOf <- MCTypeOf
  Hex <- MCHex
  Loadable <- MCLoadable
  Trim <- MCTrim
  Infinity = 6
  Tolerance = 1
  HandWritten <- NoTexts
  Tables <- FewTables
INVARIANTS
  SavedReadsBack
