SPECIFICATION FairSpec
CONSTANTS
  audio_buffer_sizes = 2
  ByteRange = 2
  Samples <- MCSamples
  Pit1Handler = TRUE
  Ports = {50007, 50009}
  DefaultPort = 50007
  NullWords = {0}
  Cells = {c1}
  NoCell = NoCell
  Lengths = {2}
  MboxSize = 2
  MaxFrames = 0
PROPERTIES
  QueueBreaksTheLoop
CHECK_DEADLOCK FALSE
