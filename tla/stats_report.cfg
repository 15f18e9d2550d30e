SPECIFICATION Spec
CONSTANTS
  f1 = f1  f2 = f2
  Nobody = Nobody
  Flushers = {f1}
  Readers = {r1}
  NCells = 1
  NShards = 2
  KeepDays = 1
  MaxTraffic = 2
  MaxStreams = 2
  MaxDay = 2
INVARIANTS ScanBounds ReportConsistent GaugeBounds
