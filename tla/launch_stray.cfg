\* A launch that fails after swtpm has started; nothing is killed.
SPECIFICATION Spec
CONSTANTS
  Runs = {r1, r2}
  Vms = {v1}
  Hosts <- OneHost
  TpmVms = {v1}
  IsoVms = {}
  LongSocket = {}
  Overlapping = FALSE
  Failing = FALSE
  None = None
CHECK_DEADLOCK FALSE
INVARIANTS
  NothingLeftRunning
