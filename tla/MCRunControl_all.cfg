SPECIFICATION Spec

CONSTANTS
  Modes <- AllModes
  Reasons <- AllReasons
  MaxRuns = 2
  MaxStops = 3
  MaxOutput = 2
  MaxSignals = 1
  MaxSwitches = 1

INVARIANTS
  RunningReported
  StopReportedIfUndisturbed
  ReportedOnce
  ExitReported
  OutputBeforeStop
