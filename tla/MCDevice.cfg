CONSTANTS
  Slots = 2
  Channels = 1
  RomBits = 3
  Family <- MCFamily
  Pads <- MCPads
  PowerOn <- MCPowerOn
  Alarms <- MCAlarms
  DhtPins = 2
  Air <- MCAir
  Noise <- MCNoise
  NumRelays = 1
  Byte = 2
  NumAnalog = 1
  NumDigital = 1
  Layouts <- MCLayouts
  Passwords <- MCPasswords
  Types <- MCTypes
  Readings <- MCReadings
  MaxPulses = 2
  RXSTOP_INIT = 11
  Memory = 16
  FrameSizes = {2, 4, 6}
  MaxFrames = 4
  Browsers = {"b1"}
  Requests = {"page", "save"}
  Base = 2
  Seqnum = 1
  Isns = {15}
  GetLen = 4
  PageLens = {5}
  Inputs = {3, 15}
  Outputs = {0, 240}
  Octet = 6
  Echo = 2
  Udp = 3
  Tcp = 1
  MaxData = 3
  Texts <- MCTexts
  Numbers <- MCNumbers
  CellValues = 11
  PassLimit = 10
  TextLimit = 10
  Factory <- MCFactory
SPECIFICATION DeviceSpec
INVARIANTS
  FramesInOrder
  FramesKept
  OneEntryEach
  ReadingsTold
  ScanFindsAll
  CountsMigrated
  CanBeReached
  CountsEdges
  ServedUnlessLost
  BusReleased
  ResultsTrue
  SentIsTaken
  SavedAsTyped
