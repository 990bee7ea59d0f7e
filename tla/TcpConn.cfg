SPECIFICATION TcpFairSpec
CONSTANTS
  SeqSpace = 32
  MSS = 1
  TCP_WND = 2
  TCP_SND_BUF = 2
  TCP_MAXRTX = 2
  TCP_SYNMAXRTX = 1
  ClientISS = 31
  BoardISS = 30
  ToWrite <- MCToWrite
  MaxInFlight = 2
  MaxOpens = 1
  MaxFaults = 1
  MayStarve = TRUE
INVARIANTS
  StreamDelivered
  QueuesExact
PROPERTIES
  WindowNeverShrinks
  PcbIsFreed
CHECK_DEADLOCK FALSE
