\* create is asked for configurations that validate but cannot be saved.
SPECIFICATION Spec
CONSTANTS
  TomlIntMax = 100000
  Clients = {c1, c2}
  Names <- OneName
  Requested <- UnsavableRequests
  Edits <- NoEdits
  Copying = FALSE
  Overlapping = FALSE
  Absent = Absent
  Claimed = Claimed
INVARIANTS
  HalfCreatedNeedsFault
