SPECIFICATION Spec
CONSTANTS
  Depth = 4
  Window = 6
  PollPeriod = 2
  ReportPeriod = 3
  ClockSize = 8
  MaxPass = 1
  Sessions = TRUE
  BusFaults = FALSE
  Rewiring = FALSE
PROPERTIES VibKeepsComing
