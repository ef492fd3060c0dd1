CONSTANTS
  upload = upload
  lcd = lcd
  Callers <- MCCallers
  NoCaller = NoCaller
  NumFd = 3
  Statuses <- MCStatuses
  NoTask = NoTask
  Names <- MCNames
  BootOrder <- MCBootOrder
  Settable <- MCSettable
  Divisor <- MCDivisor
  FixedRecur <- LagFixedRecur
  SendData <- MCSendData
  Intervals <- LagBytes
  BootTicks <- MCBootTicks
  UniqueNames = TRUE
  Capacity = 5
  Base = 2
  W = 4
  SendUnit = 1
  ByteValues = 3
  TornReads = TRUE
  PassTicks = 1
  NetTicks = 1
  SinceSlack = 0
SPECIFICATION LagTcpSpec
INVARIANTS
  TasksStay
  ReplyReachesItsCaller
  OnceEach
PROPERTIES
  ChangeKeepsOrder
  ServedByNextPass
  ImplementsChannel
