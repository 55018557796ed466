\* A shipment, a credit for it and one month: the credit is dated into a month
\* that is already drafted.
SPECIFICATION Spec
SYMMETRY RowSymmetry
CONSTANTS
  Entry = {e1, e2, e3}
  Payment = {p1}
  NumMonths = 3
  MaxAmount = 2
CHECK_DEADLOCK FALSE
INVARIANTS
  NoCreditLeftOut
