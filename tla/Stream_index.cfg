SPECIFICATION Spec
CONSTANTS
  audio_buffer_sizes = 4
  ByteRange = 2
  Samples <- MCSamples
  Pit1Handler = TRUE
  Ports = {50007, 50009}
  DefaultPort = 50007
  NullWords = {0}
  Cells = {c1}
  NoCell = NoCell
  Lengths = {4}
  MboxSize = 1
  MaxFrames = 2
PROPERTIES
  IndexIsReset
CHECK_DEADLOCK FALSE
