SPECIFICATION PanelSpec
CONSTANTS
  command = command
  idle = idle
  purge = purge
  Rpdo <- MCRpdo
  Interlocked <- MCRpdo
  Command = command
  Mode <- MCMode
  Contactor <- Main
  Contactors <- OneContactor
INVARIANTS
  OldCommandGoneOnceDrawn
PROPERTIES
  PurgeStartsOpen
  TroubleClearsLevels
