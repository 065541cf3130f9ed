SPECIFICATION RpdoSafeSpec
CONSTANTS
  rpdo1 = rpdo1
  rpdo2 = rpdo2
  rpdo3 = rpdo3
  Rpdo <- MCRpdo
  Interlocked <- MCInterlocked
INVARIANT
  CommandsStayOff
