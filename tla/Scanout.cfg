SPECIFICATION MCSpec
CONSTANTS
  d1 = d1  d2 = d2
  p1 = p1  p2 = p2
  b1 = b1  b2 = b2
  NoBuffer = NoBuffer
  NoDisplay = NoDisplay
  Displays <- MCDisplays
  Planes <- MCPlanes
  Candidates <- MCCandidates
  Masked <- MCMasked
  CrtcOk <- MCCrtcOk
  Buffers <- MCBuffers
  MaxId = 5
CHECK_DEADLOCK FALSE
INVARIANTS ScreenShowsWhatIsHeld
PROPERTIES ScreenServesFrames
