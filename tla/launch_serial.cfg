\* Three runs of one VM after another, each on either host; each may fail or be killed.
SPECIFICATION Spec
CONSTANTS
  Runs = {r1, r2, r3}
  Vms = {v1}
  Hosts <- TwoHosts
  TpmVms = {v1}
  IsoVms = {}
  LongSocket = {}
  Overlapping = FALSE
  Failing = TRUE
  None = None
CHECK_DEADLOCK FALSE
INVARIANTS
  TypeOK
  OwnTpm
  CutOnlyIfFailed
PROPERTIES
  VarsMadeOnce
SYMMETRY Symmetry
