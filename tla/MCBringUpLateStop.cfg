SPECIFICATION Spec
CONSTANTS
  Wirings <- MCMaybeSensor
  I2C1_TIMEOUT_MS = 1
  Jams = TRUE
  BusErrors = FALSE
  UartPins = {"A2"}
  LedPin = "A5"
  ButtonPin = "C13"
  I2cPins <- MCI2cPins
  FreePins = {}
  HeldPins = {"B8"}
  SCAN_LAST_ADDRESS = 2
  AltLow = 2
  AltHigh = 1
  SAMPLES_TO_SHOW = 1
  SampleBytes = 2
INVARIANTS EveryOkMeansMoved
