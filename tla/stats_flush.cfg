SPECIFICATION Spec
CONSTANTS
  f1 = f1  f2 = f2
  Nobody = Nobody
  Flushers = {f1, f2}
  Readers = {}
  NCells = 2
  NShards = 1
  KeepDays = 2
  MaxTraffic = 2
  MaxStreams = 0
  MaxDay = 3
SYMMETRY FlusherSymmetry
INVARIANTS TypeOK FlushCovers KeptDays
PROPERTY ImplementsLedger
