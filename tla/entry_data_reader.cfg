CONSTANTS
  Streams <- CutStreams
  Base = 4
  IntBytes = 1
  MaxInt = 2
  ChunkFaults = 2
  ZlibEntries <- SmallZlib
  InputBytes = 2
  MaxYield = 2
  MaxStream = 2
  FrameEntries <- SmallFrames
  Slices = {1, 5, 16}
  MaxOutput = 3
  DecoderFaults = 1
  Requests = {0, 1, 2, 3}
  Unlimited = Unlimited
  MaxSize = 4
SPECIFICATION Spec
INVARIANTS
  EndMeansWhole
  EndIsTheStreams
  EndIsTheFrames
PROPERTIES
  EveryReadReturns
  ImplementsDecoder
CHECK_DEADLOCK FALSE
