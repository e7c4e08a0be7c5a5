SPECIFICATION FairSpec
CONSTANTS
  Inputs <- MCFileOnly
  MaxLines = 1
  MaxEvents = 2
  MaxSignals = 1
  SpuriousWakeups = TRUE
  StdinFails = TRUE
PROPERTIES
  Termination
  EveryEventHandled
