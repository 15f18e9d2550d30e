SPECIFICATION Spec
CONSTANTS
  c1 = c1  c2 = c2
  Listeners = {https}
  TlsListeners = {https}
  Conns = {c1}
  MaxBytes = 1
INVARIANT WebSocketsCounted
CHECK_DEADLOCK FALSE
