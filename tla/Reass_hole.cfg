SPECIFICATION IpFragSpec
CONSTANTS
  FragIds = {"d"}
  DatagramLen = 7
  FRAG_UNIT = 2
  IP_HLEN = 1
  Mtus = {3}
  PbufLen = 2
  MEMP_NUM_REASSDATA = 2
  IP_REASS_MAX_PBUFS = 5
  IP_REASS_MAXAGE = 1
INVARIANTS
  ReassembledHasNoHole
CHECK_DEADLOCK FALSE
