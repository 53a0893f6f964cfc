SPECIFICATION BoardSpec
CONSTANTS
  Capacity = 16
  WordSize = 64
  ClockSize = 4
  Silence = 1
  MaxPass = 1
  Seqs = {1, 2}
  Crcs <- MCCrcs
  Sizes <- MCSizes
  Offsets <- MCOffsets
  Counts <- MCCounts
  Images <- MCImages
  Words <- MCWords
  Erased <- MCErased
  Torn <- MCTorn
  First <- MCFirst
  CrcOf <- MCCrcOf
  RecordOf <- MCRecordOf
  Payloads <- MCPayloads
  Deliveries <- MCConfirmedAlone
  OptionFaults = FALSE
  LaunchFaults = FALSE
  MaxCuts = 0
PROPERTIES RollbackReturnsToWorkingImage
CHECK_DEADLOCK FALSE
