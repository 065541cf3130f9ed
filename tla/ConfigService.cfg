\* One server's bulk transfers under the most general environment.
SPECIFICATION Spec
CONSTANTS
  gain = gain
  serial = serial
  password = password
  v1 = v1
  v2 = v2
  NoData = NoData
  Entry <- MCEntry
  Data <- MCData
  Readable <- MCReadable
  Writable <- MCWritable
  Plans <- MCPlans
  MaxAttempts = 2
  MaxUnanswered = 3
INVARIANTS
  InOrder
  OutcomeTruthful
  SilenceCounted
PROPERTIES
  ImplementsBulkTransfer
