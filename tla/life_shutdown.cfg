SPECIFICATION FairSpec
CONSTANTS
  c1 = c1  c2 = c2
  Listeners = {https}
  TlsListeners = {https}
  Conns = {c1, c2}
  MaxBytes = 1
INVARIANTS TypeOK DrainedClean OneLateAccept CleanExitFiled
PROPERTIES FileGrows ShutdownEnds
CHECK_DEADLOCK FALSE
