SPECIFICATION AudioSpec
CONSTANTS
  Render = Render
  Capture = Capture
  Rates <- MCRates
  Parent <- MCParent
  ValueBits = 8
  CtlRegs <- MCRegs
  Kcontrols <- MCControls
  StartupItems <- MCStartup
  DefaultItems <- MCDefaults
  OtherDrivers = {"DMA_RK3568"}
  MaxLoads = 2
  MaxProbes = 2
  MaxOverstops = 1
INVARIANTS PitchIsRight FaultExplained ControlsHold DriversExplained ReadsExplained
CHECK_DEADLOCK FALSE
