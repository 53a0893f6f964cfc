SPECIFICATION MCSpec
CONSTANTS
  WindowSamples = 4
  Samples <- MCSamples
  Reach = 8
  MilliGPerCount = 4
  PowersOfTwo = {1, 2, 4, 8, 16, 32}
  TopPower = 32
  Word = 4096
  Octets <- MCOctets
  Damages <- MCDamages
  MaxBurst = 16
  MaxFrame = 4
  MaxImage = 7
  Calibrations <- MCCalibrations
  Genuine <- MCGenuine
  Dies <- MCDies
  Supplies <- MCSupplies
  Bytes = {0, 1, 2, 3}
  Start = 1
  HeaderLen = 2
  MaxPayload = 2
  Checksum <- MCChecksum
  MaxReceived = 8
  CounterSize = 8
  TicksPerMs = 2
  MillisSize = 8
  MaxGap = 4
  Debounce = 4
  Bounce = 2
  Openings = "calm"
  ReleaseBounces = FALSE
INVARIANTS CandidateIsOpen DeliveriesAreTrue NoFrameLost RootIsFloor ReadingIsTrue SumsProtect
INVARIANTS VerifyIsTrue LineIsTrue ClockIsTrue HeldPressIsCounted
PROPERTIES ReadingEnds OnlyPressesCount
CHECK_DEADLOCK FALSE
