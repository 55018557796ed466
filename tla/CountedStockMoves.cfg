\* A stock row imported over an empty balance that is being counted.
SPECIFICATION Spec
SYMMETRY WorkerSymmetry
CONSTANTS
  NoWorker = NoWorker
  SKU = {k1}
  Worker = {w1, w2}
  NumOrders = 1
  MaxQty = 1
  MaxStock = 1
  MaxUnlocked = 0
PROPERTIES
  CountFreezesStock
