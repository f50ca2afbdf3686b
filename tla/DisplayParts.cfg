SPECIFICATION PartsSpec
CONSTANTS
  AppLayers = {a}
  ClientLayer = c
  MaxFd = 3
  MaxFrames = 2
  MaxLost = 2
  crtc1 = crtc1
  crtc2 = crtc2
  p1 = p1
  p2 = p2
  p3 = p3
  p4 = p4
  ObjCrtcs = {crtc1, crtc2}
  PlaneRes <- MCPlanes
  PossibleCrtcs <- MCPossible
  PlaneKind <- MCKind
  WindowName <- MCWindow
  PlaneMaskProp <- MCMask
  ObjFormats <- MCObjFormats
  NoPipe = NoPipe
  CtlDisplays = {d1, d2}
  Stranger = d3
  Dimmable = {d1, d2}
  Levels = {3, 50, 95, 110, 250}
  Word = 256
  Negative = 9
  Positive = 99
  MaxLevel = 90
  MaxTables = 2
  AttrDisplays = {d1}
  AttrLayers = {l1}
  NoSuch = NoSuch
  Values = {v1, v2}
  Garbage = Garbage
  s1 = s1
  s2 = s2
  Screens = {s1, s2}
  ModeCount <- MCModeCount
  NoScreen = NoScreen
  ConnectorType = "HDMIB"
  CallLayers = 2
  Retry = 6
INVARIANTS FencesHaveOwners PlanesServeDisplays ReportsAreExplained DrawsWhatWasSet CallsStayInBounds SuccessMeansSynced
CHECK_DEADLOCK FALSE
