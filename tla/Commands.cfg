\* Two clients of any kind of page, three requests of pages or of callers that
\* repeat theirs.
SPECIFICATION FairSpec
CONSTANTS
  Client = {c1, c2}
  NumAttempts = 3
CHECK_DEADLOCK FALSE
INVARIANTS
  OneEffectOneAnswer
  RowMatchesEvents
  ConfirmedWereWanted
PROPERTIES
  PagesRecover
  ImplementsAtMostOnce
