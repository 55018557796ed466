\* Two processes and one notification, three attempts and one manual retry,
\* two crashes, takeovers and late results without limit.
SPECIFICATION FairSpec
CONSTANTS
  Notification = {n1}
  Process = {p1, p2}
  MaxAttempts = 3
  MaxRetries = 1
  MaxCrashes = 2
CHECK_DEADLOCK FALSE
INVARIANTS
  TypeOK
  SendsAreBounded
  StuckRowsAreCrashes
PROPERTIES
  ImplementsAtLeastOnce
  EventuallySentOrExhausted
