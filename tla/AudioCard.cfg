SPECIFICATION CardSpec
CONSTANTS
  Render = Render
  Capture = Capture
  BUTT = BUTT
  Rates = {8000, 48000}
  MaxStray = 1
  MaxFaults = 1
INVARIANTS InterfaceServesRunning CodecServesStreams
