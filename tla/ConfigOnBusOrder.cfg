SPECIFICATION BusSpec
CONSTANTS
  gain = gain
  serial = serial
  v1 = v1
  v2 = v2
  NoData = NoData
  Entry <- MCEntry
  Data <- MCData
  Readable <- MCReadable
  Writable <- MCWritable
  Plans <- MCPlans
  MaxAttempts = 2
  MaxUnanswered = 3
  MaxLoud = 0
  MaxInFlight = 3
INVARIANT
  AnswersInOrder
