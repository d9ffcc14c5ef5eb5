\* A VM with a TPM and one with a medium, created, run, removed and made anew.
SPECIFICATION LifeSpec
CONSTANTS
  Runs = {r1, r2}
  Vms = {v1, v2}
  Hosts <- LackingHosts
  TpmVms = {v1}
  IsoVms = {v2}
  LongSocket = {}
  Overlapping = FALSE
  Failing = FALSE
  None = None
  Claimed = Claimed
  MaxRemovals = 1
CHECK_DEADLOCK FALSE
INVARIANTS
  ChecksSuffice
  TakenNamesExplained
  OwnTpmOrStray
SYMMETRY Symmetry
