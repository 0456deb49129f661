SPECIFICATION Spec
CONSTANTS
  ChunkSize = 8
  OndemandSize = 2
  MergeThreshold = 2
  MinFileSize = 16
  Sizes <- MCSizes
  Lengths <- MCLengths
  MaxFaults = 3
INVARIANT Tiles
INVARIANT RecoveryAccepts
INVARIANT OnlyStaleLeft
PROPERTY EventuallyWhole
CHECK_DEADLOCK FALSE
