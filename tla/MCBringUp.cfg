SPECIFICATION Spec
CONSTANTS
  Wirings <- MCWirings
  I2C1_TIMEOUT_MS = 1
  Jams = TRUE
  BusErrors = TRUE
  UartPins = {"A2"}
  LedPin = "A5"
  ButtonPin = "C13"
  I2cPins <- MCI2cPins
  FreePins = {"C9", "C0"}
  HeldPins = {"A2", "B8", "C9"}
  SCAN_LAST_ADDRESS = 2
  AltLow = 2
  AltHigh = 1
  SAMPLES_TO_SHOW = 1
  SampleBytes = 2
VIEW MCView
INVARIANTS OkMeansMoved PinsKeepTheirJobs ReportIsTrue SensorSetUpSafely
PROPERTIES NobodyWaitsForEver
