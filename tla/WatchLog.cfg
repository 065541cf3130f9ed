SPECIFICATION Spec
CONSTANTS
  vDC = vDC
  speed = speed
  low = low
  high = high
  NoData = NoData
  N = 3
  Period = {1, 2}
  MaxPeriod = 2
  Watched <- MCFloats
  Floats <- MCFloats
  Mapped <- MCMapped
  Keys <- MCKeys
  Data <- MCData
  Capacity = {1, 2}
INVARIANTS
  ShownIsDrawn
  ExportIsWhole
PROPERTIES
  RoundRobin
  AskedAgainAndAgain
