\* Creates of one VM do not overlap, and nobody edits or copies its files.
SPECIFICATION FairSpec
CONSTANTS
  TomlIntMax = 100000
  Clients = {c1, c2}
  Names <- TwoNames
  Requested <- SerialRequests
  Edits <- NoEdits
  Copying = FALSE
  Overlapping = FALSE
  Absent = Absent
  Claimed = Claimed
PROPERTIES
  ImplementsRegistry
  CallsReturn
