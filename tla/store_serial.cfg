\* Creates of one VM do not overlap; loads, lists, copies and crashes do.
SPECIFICATION Spec
CONSTANTS
  TomlIntMax = 100000
  Clients = {c1, c2}
  Names <- TwoNames
  Requested <- SerialRequests
  Edits <- UserEdits
  Copying = TRUE
  Overlapping = FALSE
  Absent = Absent
  Claimed = Claimed
INVARIANTS
  TypeOK
  ReadyHasDisk
  LoadsAsCreated
  ListMissesNone
PROPERTIES
  DiskNeverOverwritten
