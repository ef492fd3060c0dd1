CONSTANTS
  NoTask = NoTask
  Names <- MCNames
  BootOrder <- MCBootOrder
  Settable <- MCSettable
  Divisor <- MCDivisor
  FixedRecur <- MCFixedRecur
  SendData <- MCSendData
  Intervals <- NonZeroBytes
  BootTicks <- MCBootTicks
  UniqueNames = TRUE
  Capacity = 5
  Base = 3
  W = 9
  SendUnit = 2
  ByteValues = 5
  TornReads = FALSE
  PassTicks = 0
  NetTicks = 1
  SinceSlack = 2
SPECIFICATION MainSpec
PROPERTY
  NeverEarly
