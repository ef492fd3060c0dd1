CONSTANTS
  Gateways = {"gw"}
  NoAddress = "none"
  Fallback = "fallback"
  Hosts = {"lanName", "wanName", "lanAddress"}
  HostIp <- MCHostIp
  HostNames = {"lanName", "wanName"}
  Lan = {"lan"}
  DelayWrap = 2
  DnsTids = 2
  NoTask = NoTask
  Names <- MCNames
  BootOrder <- MCBootOrder
  Settable <- MCSettable
  Divisor <- MCDivisor
  FixedRecur <- MCFixedRecur
  SendData <- MCSendData
  Intervals <- NonZeroBytes
  BootTicks <- MCBootTicks
  UniqueNames = TRUE
  Capacity = 5
  Base = 3
  W = 9
  SendUnit = 2
  ByteValues = 5
  TornReads = FALSE
  PassTicks = 0
  NetTicks = 1
  SinceSlack = 2
SPECIFICATION NetworkSpec
INVARIANTS
  OnTime
  MacsRight
  AnswerIsForHost
PROPERTIES
  UploadsContinue
  GatewayFound
