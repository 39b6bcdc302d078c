SPECIFICATION FairSpec
CONSTANTS
  SessionID = {1, 2}
  ProjectID = {1}
  ProjectOf <- OneProject
  Key = {web}
  Range <- TwoPorts
  Caller = {c1}
  Stripes = 1
  MaxLeases = 2
  Deleters = {"DeleteSession", "Reconcile", "DeleteProject"}
  LateCalls = FALSE
INVARIANTS
  PortsUnique
  HookLeaseRegistered
  HookKeyHasOnePort
PROPERTIES
  LeasesOutlastSetup
  FinalizeExcludesDeletion
  SetupSettles
CHECK_DEADLOCK FALSE
