SPECIFICATION SettingsSpec
CONSTANTS
  gain = gain
  node_id = node_id
  restart = restart
  low = low
  high = high
  NoData = NoData
  Entry <- MCEntry
  Data <- MCData
  Readable <- MCEntry
  Writable <- MCWritable
  Plans <- MCPlans
  MaxAttempts = 1
  MaxUnanswered = 2
  Listed <- MCListed
  Manual <- MCManual
  Restart = restart
  Zero = low
  Same <- MCSame
  Files <- MCFiles
  inverted = inverted
  magic = magic
  torque = torque
  mask = mask
  NoValue = NoValue
  NoSection = NoSection
  Object <- MCObject
  Objects <- MCObjects
  Subcategory <- MCSubcategory
  ParamName <- MCParamName
  TypeOf <- MCTypeOf
  Hex <- MCHex
  Loadable <- MCLoadable
  Trim <- MCTrim
  Infinity = 6
  Tolerance = 1
  HandWritten <- MCHandWritten
  Tables <- MCTables
INVARIANTS
  ResultsFitRows
  GreenIsProven
  TableTellsTheTruth
  IdsWrittenByHand
  LastLineCounts
  SavedReadsBack
  NothingDroppedSilently
PROPERTIES
  PutDownOnceWritten
  ResultIsTaken
