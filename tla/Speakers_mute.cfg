SPECIFICATION Spec
CONSTANTS
  audio_buffer_sizes = 2
  ByteRange = 2
  Samples <- MCSamples
  Pit1Handler = TRUE
  Ports = {50007, 50009}
  DefaultPort = 50007
  NullWords = {0}
  Cells = {c1, c2}
  NoCell = NoCell
  Lengths = {2}
  MboxSize = 1
  MaxFrames = 2
  Fragments <- MCFragments
  MaxFragments = 1
  MaxSegments = 3
  StatusSender = TRUE
PROPERTIES
  MuteTurnsOff
CHECK_DEADLOCK FALSE
