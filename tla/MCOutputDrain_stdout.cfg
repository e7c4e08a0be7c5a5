SPECIFICATION FairSpec

CONSTANTS
  ChunkSize = 2
  MaxWritten = 4
  Breaks <- StdoutOnly

INVARIANTS
  OutputPreserved
  OutputBeforePrompt

PROPERTIES
  DrainEnds
