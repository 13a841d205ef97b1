SPECIFICATION AllocSpec
CONSTANTS
  MIN_CHUNK_SIZE = 4
  PAGE_SIZE = 8
  AddressBits = 6
  StackLow = 40
  NullSize = 8
  Segments <- OddSegments
  Header = 1
  Sizes = {5, 12, 61}
  Alignments = {8}
  MaxBlocks = 2
CHECK_DEADLOCK FALSE
INVARIANT
  ChunksWellFormed
