\* Weak fairness of the runs alone; swtpm, QEMU and guests do as they please.
SPECIFICATION FairSpec
CONSTANTS
  Runs = {r1, r2}
  Vms = {v1, v2}
  Hosts <- OneHost
  TpmVms = {v1}
  IsoVms = {}
  LongSocket = {}
  Overlapping = TRUE
  Failing = TRUE
  None = None
CHECK_DEADLOCK FALSE
INVARIANTS
  StrayOnlyIfLaunchFailed
PROPERTIES
  LaunchDecides
  EmulatorFollowsGuest
  ImplementsSession
