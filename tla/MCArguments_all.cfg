SPECIFICATION Spec

CONSTANTS
  Commands <- AllCommands
  MaxOptions = 2
  MaxWords = 3
  MaxChars = 4
  Typed <- Console

INVARIANTS
  ArgumentsFound
  OmissionRefused
  WordsKept
  ConsoleCommandKept

CHECK_DEADLOCK FALSE
