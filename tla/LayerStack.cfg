SPECIFICATION Spec
CONSTANTS
  l1 = l1  l2 = l2  l3 = l3
  c1 = c1  c2 = c2
  NoBuffer = NoBuffer
  Layers <- MCLayers
  ZOrders <- MCZOrders
  DefaultZ = 1
  AskedTypes <- MCTypes
  ClientBuffers <- MCBuffers
  FirstBuffer = c1
SYMMETRY Symmetry
CHECK_DEADLOCK FALSE
INVARIANTS StackIsReadAlive FreshPlanIsStack
PROPERTIES DroppedOnlyWithSibling TornOnlyInPlace
