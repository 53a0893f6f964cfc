SPECIFICATION Spec
CONSTANTS
  Capacity = 16
  WordSize = 64
  ClockSize = 5
  Silence = 2
  MaxPass = 2
  Seqs = {1, 2}
  Crcs = {0, 1}
  Sizes <- MCSizes
  Offsets <- MCOffsets
  Counts <- MCCounts
INVARIANTS TypeOK OffsetInBounds CommittedIsWhole RememberedAnswerHolds
PROPERTIES SilentEndNeedsSilence SilentHostFreesWire
