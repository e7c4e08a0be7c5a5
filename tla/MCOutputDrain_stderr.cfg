SPECIFICATION FairSpec

CONSTANTS
  ChunkSize = 2
  MaxWritten = 3
  Breaks <- Streams

PROPERTIES
  DrainEnds
