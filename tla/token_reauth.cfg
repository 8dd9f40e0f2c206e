SPECIFICATION Spec
CONSTANTS
  Callers = {c1, c2}
  Validator = v
  Grants = {1}
  BareGrants = {}
  MaxGen = 2
  MaxRestarts = 0
  NoOne = none
INVARIANTS ReauthIsLastResort
CHECK_DEADLOCK FALSE
