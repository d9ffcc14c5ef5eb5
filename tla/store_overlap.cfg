\* Three clients create, load and list the same VM at the same time.
SPECIFICATION Spec
CONSTANTS
  TomlIntMax = 100000
  Clients = {c1, c2, c3}
  Names <- OneName
  Requested <- OverlapRequests
  Edits <- UserEdits
  Copying = FALSE
  Overlapping = TRUE
  Absent = Absent
  Claimed = Claimed
INVARIANTS
  HalfCreatedNeedsFault
