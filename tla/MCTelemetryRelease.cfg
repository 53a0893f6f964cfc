SPECIFICATION ButtonSpec
CONSTANTS
  CounterSize = 8
  TicksPerMs = 2
  MillisSize = 8
  MaxGap = 4
  Debounce = 4
  Bounce = 2
  Openings = "never"
  ReleaseBounces = TRUE
PROPERTIES OnlyPressesCount
