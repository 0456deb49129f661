SPECIFICATION MCSpec
CONSTANTS
  Names <- MCNames
  MaxVersion = 2
  MaxGen = 3
  Specs <- MCSpecs
  Essential = {1}
  Meta = {3}
  Markers = {4}
  Short = {1}
  Release = 3
  Samples <- MCSamples
INVARIANT OnePerName
INVARIANT NoFalseDependents
INVARIANT ExposedHasWrapper
INVARIANT VersionsOrdered
PROPERTY RestoreExact
PROPERTY RequirementsMet
CHECK_DEADLOCK FALSE
