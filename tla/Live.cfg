SPECIFICATION LiveSpec
CONSTANTS
  Parts = {"traffic", "timeouts", "api", "transmit"}
  audio_buffer_sizes = 2
  ByteRange = 2
  Samples <- MCSamples
  Pit1Handler = FALSE
  Ports = {50007, 50009}
  DefaultPort = 50007
  NullWords = {0}
  Cells = {c1}
  NoCell = NoCell
  Lengths = {1, 2}
  MboxSize = 1
  MaxFrames = 2
  TimeWrap = 17
  CyclicTimers = {"arp"}
  Interval <- MCInterval
  NumTimeouts = 2
  MaxLag = 1
  ARP_TABLE_SIZE = 2
  ArpHosts = {"a", "b", "c"}
  NoHost = "none"
  ARP_MAXAGE = 4
  ARP_MAXPENDING = 2
  ARP_AGE_REREQUEST_USED_UNICAST = 2
  ARP_AGE_REREQUEST_USED_BROADCAST = 3
  FragIds = {"d", "e", "f"}
  DatagramLen = 5
  FRAG_UNIT = 2
  IP_HLEN = 1
  Mtus = {3, 5}
  PbufLen = 2
  MEMP_NUM_REASSDATA = 2
  IP_REASS_MAX_PBUFS = 4
  IP_REASS_MAXAGE = 2
  MEMP_NUM_TCP_PCB = 1
  MEMP_NUM_NETCONN = 2
  DEFAULT_TCP_RECVMBOX_SIZE = 2
  DEFAULT_ACCEPTMBOX_SIZE = 1
  ListenBacklog = 2
  SndBuf = 1
  WriteLen = 2
  RecvWindow = 3
  ClosePolls = 1
  MaxNoMem = 1
  ENET_RXBD_NUM = 3
  FrameBuffers = {1, 2}
  PBUF_POOL_SIZE = 4
  TCPIP_MBOX_SIZE = 2
  MEMP_NUM_TCPIP_MSG_INPKT = 3
  MaxRxFrames = 4
  ENET_TXBD_NUM = 3
  configTIMER_QUEUE_LENGTH = 1
  MaxTxFrames = 6
  MEM_SIZE_ALIGNED = 15
  SIZEOF_STRUCT_MEM = 2
  MIN_SIZE_ALIGNED = 1
  MallocSizes = {1, 2, 5}
  TrimSizes = {1, 3}
  NumPbufs = 3
  BytesPerPbuf = 2
  PbufThreads = {"isr", "tcpip"}
  MaxPbufRefs = 2
  OfferedAddrs = {"a"}
  ANY = "any"
  Leases <- MCLeases
  REQUEST_TRIES = 1
  REBOOT_TRIES = 1
  MAX_TRIES = 2
  XidWrap = 2
  MaxRequests = 1
  MaxReplies = 2
  NUM_SOCKETS = 2
  NumConns = 2
  Selectors = {"app", "other"}
  Owner = "app"
  Interests <- MCInterests
  SockMboxSize = 1
  Ends = {"a", "b"}
  FsmFlags <- MCFlags
  Grantable <- MCGrantable
  MaxConfReqs = 1
  MaxTermReqs = 1
  MaxNakLoops = 1
  IdWrap = 4
  LinkLen = 2
  MaxCalls = 5

  
PROPERTIES
  SelectedPortIsBound
  CyclicTimersRun
  
  FramesAreSent
CHECK_DEADLOCK FALSE
