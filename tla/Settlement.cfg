\* Three entries: a shipment, a credit or a second shipment, a refund; two
\* payments that share settlements; a month to carry into.
SPECIFICATION Spec
SYMMETRY RowSymmetry
CONSTANTS
  Entry = {e1, e2, e3}
  Payment = {p1, p2}
  NumMonths = 3
  MaxAmount = 2
CHECK_DEADLOCK FALSE
INVARIANTS
  PaymentsNotOverused
  SettlementsNotOverpaid
PROPERTY
  ImplementsPaymentBook
