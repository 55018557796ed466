\* Four entries: a shipment, its credit and two refunds of the credit, or two
\* shipments with a credit each, settled in different months.
SPECIFICATION Spec
SYMMETRY RowSymmetry
CONSTANTS
  Entry = {e1, e2, e3, e4}
  Payment = {}
  NumMonths = 4
  MaxAmount = 2
CHECK_DEADLOCK FALSE
INVARIANTS
  CreditsNotOverrefunded
PROPERTIES
  CreditsAdjustLaterMonths
  OnlyLateCommitsAreLeftOut
