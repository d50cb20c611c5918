CONSTANTS
  MaxEvents = 4
  MaxTurbulence = 2
  MaxTexts = 2
  MaxSends = 3
  MaxLeaves = 2
  Clients = {c1, c2}
  MaxScripts = 2
  Callers = {s1, s2}
  MaxBackends = 2
  MaxSessions = 2
SPECIFICATION AppSpec
INVARIANTS
  AppTypeOK
  ReadsAsWritten
  ResumesWithoutGap
  NoMessageLost
  OneScriptControls
  NoBackendLeaks
PROPERTIES
  CatchesUp
  LeavingSends
  MachineFreed
  KeepsLease
  NoStaleBackend
CHECK_DEADLOCK FALSE
