\* A built-in panel and one HDMI connector, with two callbacks and a socket
\* that holds two uevents.
SPECIFICATION FairSpec
CONSTANTS
  Displays = {panel, hdmi}
  Hot = {hdmi}
  Callbacks = {f, g}
  Null = Null
  Capacity = 2
CHECK_DEADLOCK FALSE
INVARIANTS ClientsKnow
PROPERTIES KernelStateReached
