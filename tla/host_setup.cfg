\* A host whose packages, kernel modules and PATH change in any order.
SPECIFICATION Spec
CONSTANTS
  Versions <- SomeVersions
  Rows <- SomeRows
INVARIANTS
  VerdictFitsUse
  BestOfItsPackage
PROPERTIES
  InstallingNeverBlocks
