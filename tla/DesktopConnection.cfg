SPECIFICATION Spec
CONSTANTS
  Window = {main, board}
  Main = main
  Local = local
  Remote = {remote}
  NoOrigin = none
  Bounds <- MCBounds
INVARIANTS
  TypeOK
  CredentialStaysHome
  NoWindowStranded
  LocalCredentialKept
PROPERTIES
  ServesLastRequest
  RefusalEndsOnlyItsSession
  EventuallyAgree
CHECK_DEADLOCK FALSE
