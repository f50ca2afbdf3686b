SPECIFICATION WifiSpec
CONSTANTS
  Freqs = {channel, wide1, wide2}
  Known = {channel}
  Phys = {HT}
  Null = Null
  c1 = c1
  c2 = c2
  c36 = c36
  TwoG = {c1, c2}
  FiveG = {c36}
  Asked <- MCAsked
  Unknown = Unknown
  Absent = Absent
  MaxScans = 2
  MaxProbes = 1
  MaxChanges = 1
  Macs = {m1, m2}
  Modes = {Station, AP}
  AP = AP
  Station = Station
  m1 = m1
  m2 = m2
  Domains <- MCDomains
  MaxInits = 2
  MaxFrames = 2
  Rooms = {0, 5, 6, 9, 24, 32, 33, 41, 50, 60}
  AddrLen = 6
  HeaderLength = 32
  EntryLength = 9
  MaxStations = 3
INVARIANTS StartsAsConfigured ClientKnows StationExplained NetDeviceExplained AnswersExplained
CHECK_DEADLOCK FALSE
