SPECIFICATION BoardSpec
CONSTANTS
  audio_buffer_sizes = 1
  ByteRange = 1
  Samples <- MCSamples
  Pit1Handler = FALSE
  Ports = {50007, 50009}
  DefaultPort = 50007
  NullWords = {0}
  Cells = {c1, c2}
  NoCell = NoCell
  Lengths = {1}
  MboxSize = 1
  MaxFrames = 1
  Fragments <- MCFragments
  MaxFragments = 1
  MaxSegments = 3
  StatusSender = TRUE
  MEMP_NUM_UDP_PCB = 3
  LocalAddrs = {"x", "y"}
  AnyAddr = "any"
  RemoteAddrs = {"p", "q"}
  RemotePorts = {7}
  Peers = {"p", "any"}
  FixedPorts = {9}
  RANGE_START = 8
  RANGE_END = 9
  FifoSize = 2
  RingBufferSize = 3
  XferSizes = {2}
  MaxChars = 3
  MaxXfers = 3
  TPR_MOD = 9
  TPR_AHEAD = 2
  LoopTicks = 10
  TrimModes = {"PEE", "FEI"}
  TrimOuts = {4000000, 8000000, 16000000, 24000000, 100000000, 120000000}
  TrimFreqs = {4000, 31249, 31250, 39062, 39063, 2999999, 3000000, 5000000, 5000001}
  Dividers = {1, 4}
INVARIANTS
  
  PortCellHandover
  
  
  UdpBlocksSound
  DatagramToItsBlock
  UartSound
  
  TrimSound

  
CHECK_DEADLOCK FALSE
