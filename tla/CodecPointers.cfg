SPECIFICATION MCSpec
CONSTANTS
  W = 3
  Byte = {0, 1}
  MaxLen = 5
  Sources <- MCSources
  Half = 256
  Cap = 24
  WordSize = 2
  Selector = 1
  MaxHead = 6
  Types <- SliceTypes
  Params <- SliceParams
  Sizes = {2, 6, 9, 14, 20}
  Offsets <- SliceOffsets
  Lengths = {0, 1, 2, 3, 5, 12, 24, 25, 511}
  Indices = {0, 1, 2, 3, 511}
  Cursors = {4, 18}
  CodecTypes <- PointerShapes
  Codecs = {"decode"}
  Scenarios = {"codec"}
INVARIANT EncodesWhatArrived
CHECK_DEADLOCK FALSE
