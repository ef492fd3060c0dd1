CONSTANTS
  Names <- MCNames
  NoTask = NoTask
  W = 2
  Capacity = 2
  UniqueNames = TRUE
  Items <- MCItems
  NoItem = NoItem
  Depth = 4
  Screens = 3
  Octet = 3
  Retry = 1
  Renew = 2
  Early = 1
  Times = {0, 1, 2, 3}
  Statuses = {0, 200}
  Slots = 2
  NumRelays = 2
  Byte = 3
  Word = 4
  Ids <- MCIds
  Requests <- MCRequests
SPECIFICATION TasksSpec
INVARIANTS
  RingInv
  ShownIsDefined
  EventsRunOnce
  NonePassedOver
PROPERTIES
  ImplementsFifo
  ImplementsTable
  EveryScreenShown
  TextsRenewed
  KeepsToWishes
  TimersEnd
  ImplementsTimers
