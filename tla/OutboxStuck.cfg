\* One process, one notification, one crash: enough for a row to stay in
\* processing after its last claim.
SPECIFICATION FairSpec
CONSTANTS
  Notification = {n1}
  Process = {p1}
  MaxAttempts = 2
  MaxRetries = 1
  MaxCrashes = 1
CHECK_DEADLOCK FALSE
PROPERTIES
  StuckIsRecovered
