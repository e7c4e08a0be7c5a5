SPECIFICATION Spec
CONSTANTS
  Inputs <- MCInputs
  MaxLines = 1
  MaxEvents = 2
  MaxSignals = 0
  SpuriousWakeups = FALSE
  StdinFails = TRUE
INVARIANTS
  DrainedOnReturn
  AsyncModeRestored
PROPERTIES
  SessionKept
  QuitIsFinal
