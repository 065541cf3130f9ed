SPECIFICATION ReadersSpec
CONSTANTS
  name = name
  serial = serial
  gain = gain
  limit = limit
  low = low
  high = high
  NoData = NoData
  NoObject = NoObject
  Texts <- MCTexts
  Numbers <- MCNumbers
  About <- MCAbout
  Param <- MCParam
  Missing <- MCNumbers
  Pieces <- MCPieces
  Blank = {}
  Data <- MCData
  Default = low
  MaxInFlight = 2
SYMMETRY MCSymmetry
INVARIANTS
  WholeString
PROPERTIES
  ParamIsCurrent
  NothingForAReason
