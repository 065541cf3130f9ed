SPECIFICATION ClientSpec
CONSTANTS
  Server = {a, b}
  NodeId <- MCNodeId
  d1 = d1
  d2 = d2
  d3 = d3
  none = none
  Fd <- Descriptors
INVARIANTS
  IdsDistinct
  RoutesExact
  TakenByItsOwner
  DescriptorsKept
PROPERTIES
  ConnectReturns
  TurnsGoOn
CHECK_DEADLOCK FALSE
