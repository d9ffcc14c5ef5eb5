\* A second run of a VM, after the first has ended as it should.
SPECIFICATION Spec
CONSTANTS
  Runs = {r1, r2}
  Vms = {v1}
  Hosts <- OneHost
  TpmVms = {v1}
  IsoVms = {}
  LongSocket = {}
  Overlapping = FALSE
  Failing = FALSE
  None = None
CHECK_DEADLOCK FALSE
INVARIANTS
  ListeningBeforeQemu
