SPECIFICATION FairSpec
CONSTANTS
  Versions <- MCVersions
  Size <- MCSize
  Wanted = 1
  Mirrors <- MCMirrors
  Ranged <- MCRanged
  Kinds = {"mutable", "checked", "unchecked"}
  MaxRetries = 6
  MaxFaults = 3
INVARIANTS WholeUnlessLeftover ReceiverGotFile
PROPERTIES UnchangedIsCurrent EventuallyExact
