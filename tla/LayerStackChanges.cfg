SPECIFICATION Spec
CONSTANTS
  l1 = l1  l2 = l2  l3 = l3
  c1 = c1  c2 = c2
  NoBuffer = NoBuffer
  Layers <- OneLayer
  ZOrders <- MCZOrders
  DefaultZ = 1
  AskedTypes <- MCTypes
  ClientBuffers <- MCBuffers
  FirstBuffer = c1
CHECK_DEADLOCK FALSE
PROPERTY OnlyChangedReported
