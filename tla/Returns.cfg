\* A shipment of two lines, two returns, three inspections, two decisions; three
\* commands at a shelf that does not exist yet; three uploads to two records.
SPECIFICATION MCSpec
CONSTANTS
  l1 = l1
  l2 = l2
  Line = {l1, l2}
  Shipped <- ShippedUnits
  Tax <- ShippedTax
  MaxUnits = 3
  Return = {r1, r2}
  Inspection = {i1, i2, i3}
  Disposition = {d1, d2}
  Command = {c1, c2, c3}
  MaxStock = 2
  Record = {a1, a2}
  File = {f1, f2, f3}
  Infected = {f3}
  Upload = {u1, u2, u3}
  MaxFiles = 1
SYMMETRY Symmetry
CHECK_DEADLOCK FALSE
INVARIANTS
  UnitsAccountedFor
  StatusTellsProgress
  CreditsReturnTheTax
  AttachmentsWithinLimit
PROPERTIES
  ShelfFollowsLedger
  OnlyUnseenDisturbCounts
