SPECIFICATION ReaderSpec
CONSTANTS
  MEMP_NUM_TCP_PCB = 2
  MEMP_NUM_NETCONN = 2
  DEFAULT_TCP_RECVMBOX_SIZE = 2
  DEFAULT_ACCEPTMBOX_SIZE = 1
  ListenBacklog = 2
  SndBuf = 1
  WriteLen = 2
  RecvWindow = 3
  ClosePolls = 1
  MaxNoMem = 1
PROPERTIES
  EofReachesReader
CHECK_DEADLOCK FALSE
