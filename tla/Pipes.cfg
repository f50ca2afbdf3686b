SPECIFICATION FairSpec
CONSTANTS
  dsi = dsi  hdmi = hdmi
  e1 = e1  e2 = e2
  k1 = k1  k2 = k2
  panel = panel  tv1 = tv1  tv2 = tv2
  m1 = m1  m2 = m2
  None = None
  Connectors <- MCConnectors
  Encoders <- MCEncoders
  Crtcs <- MCCrtcs
  Possible <- MCPossible
  Reach <- MCReach
  Monitors <- MCMonitors
  Plugs <- MCPlugs
  ModeList <- MCModeList
  Preferred <- MCPreferred
  Half = 2
  Asked <- MCAsked
CHECK_DEADLOCK FALSE
INVARIANTS CrtcsKeptApart ModesFollowMonitor
PROPERTIES ReplugGetsMode
