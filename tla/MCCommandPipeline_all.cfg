SPECIFICATION Spec

CONSTANTS
  Commands = {"exec-continue", "stack-list-arguments"}
  Unknown = {"no-such-command"}
  Silent = {"stack-list-arguments"}
  MaxLines = 3
  MaxSignals = 2
  LogMayFail = TRUE

INVARIANTS
  OneAnswer
  AnswersInOrder
  NothingLeftBehind
  UsesOnlyTheLiving
  DeleteLoopIsDefined

CHECK_DEADLOCK FALSE
