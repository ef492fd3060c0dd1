CONSTANTS
  Servers = {"s1"}
  NoIp = "none"
  Delay = 4
  SixSeconds = 1
  Counts = 3
  Tids = 2
  initial_tid = 1
SPECIFICATION FairDhcpSpec
PROPERTY
  AsksAgain
