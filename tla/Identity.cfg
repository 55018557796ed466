\* Two administrators, two sessions, two tokens; two e-mails and two addresses; a
\* wrong code before a factor is locked, two failures before a key is blocked.
SPECIFICATION MCSpec
CONSTANTS
  User = {u1, u2}
  Session = {s1, s2}
  Token = {t1, t2}
  MaxCodes = 1
  MaxWrong = 1
  MaxFailures = 2
  MaxHashing = 2
  Email = {e1, e2}
  Address = {i1, i2}
  Local = {i2}
SYMMETRY Symmetry
CHECK_DEADLOCK FALSE
INVARIANTS
  SessionsAreCurrent
  TokensAreCurrent
  AuthorityIsCurrent
  FailuresBounded
PROPERTIES
  EndedStaysEnded
  AdministratorRemains
