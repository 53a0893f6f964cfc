SPECIFICATION Spec
CONSTANTS
  Capacity = 16
  WordSize = 64
  ClockSize = 5
  Silence = 2
  MaxPass = 1
  Seqs = {1}
  Crcs = {0, 1}
  Sizes <- MCSizes
  Offsets <- RepeatOffsets
  Counts <- RepeatCounts
PROPERTIES BeginAckIsForThisImage
