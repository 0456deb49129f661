SPECIFICATION ChunksSpec
CONSTANTS
  NrChunks = 2
  Units = 2
  MaxRetries = 1
  Slots = {1, 2}
  MayBeLeft = {1}
  MaxFaults = 1
INVARIANT OneFetcher
INVARIANT PartIsRight
INVARIANT CompletedIsThere
PROPERTY Terminates
CHECK_DEADLOCK FALSE
