\* Two orders compete for one SKU: lines of two units, partial reservations,
\* partial shipments, revived reservations, counts that fall short.
SPECIFICATION Spec
SYMMETRY WorkerSymmetry
CONSTANTS
  NoWorker = NoWorker
  SKU = {k1}
  Worker = {w1, w2}
  NumOrders = 2
  MaxQty = 2
  MaxStock = 3
  MaxUnlocked = 1
INVARIANTS
  BalanceMatchesReservations
  LineMatchesReservation
  WorkWithinReservation
  CountedShelvesAreWhole
  PendingCancellationStopsWork
  OnlyConfirmedOrdersHoldStock
PROPERTIES
  ShippedUnitsAreFinal
  CountFreezesReservations
  StrandedOnlyByCount
  ShortfallFallsOnNewest
  ImplementsLedger
