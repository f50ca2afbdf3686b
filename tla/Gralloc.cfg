SPECIFICATION Spec
CONSTANTS
  t1 = t1
  t2 = t2
  b1 = b1
  b2 = b2
  a1 = a1
  a2 = a2
  Threads <- MCThreads
  Buffers <- MCBuffers
  Addrs <- MCAddrs
  Infos <- MCInfos
  MaxFuncs = 2
  MaxRefused = 1
  Word = 128
  PitchAlign = 4
  Null = Null
  MAP_FAILED = MAP_FAILED
SYMMETRY Symmetry
INVARIANTS DeviceAndBuffersHeld PlanesFit
