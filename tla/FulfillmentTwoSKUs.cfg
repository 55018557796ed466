\* Orders with two lines, each SKU with its own count.
SPECIFICATION Spec
SYMMETRY SKUSymmetry
CONSTANTS
  NoWorker = NoWorker
  SKU = {k1, k2}
  Worker = {w1}
  NumOrders = 2
  MaxQty = 1
  MaxStock = 1
  MaxUnlocked = 0
PROPERTIES
  ImplementsLedger
