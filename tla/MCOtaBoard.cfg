SPECIFICATION BoardSpec
CONSTANTS
  Capacity = 16
  WordSize = 64
  ClockSize = 4
  Silence = 1
  MaxPass = 1
  Seqs = {1, 2}
  Crcs <- MCCrcs
  Sizes <- MCSizes
  Offsets <- MCOffsets
  Counts <- MCCounts
  Images <- MCArmedImages
  Words <- MCWords
  Erased <- MCErased
  Torn <- MCTorn
  First <- MCFirst
  CrcOf <- MCCrcOf
  RecordOf <- MCRecordOf
  Payloads <- MCPayloads
  Deliveries <- MCArmedDeliveries
  OptionFaults = TRUE
  LaunchFaults = TRUE
  MaxCuts = 1
INVARIANTS OptionsFollowCommit NoUnaskedConfirmation InfoStillTrue DataMeetsErasedCells CommittedIsAnnounced
PROPERTIES BootBankKept SafeUpdateSpec RollBackIsDeserved HungTrialReplaced CommitEndsInReset
VIEW MCView
CHECK_DEADLOCK FALSE
