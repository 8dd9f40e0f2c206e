SPECIFICATION FairSpec
CONSTANTS
  Callers = {c1}
  Validator = v
  Grants = {1, 2}
  BareGrants = {2}
  MaxGen = 2
  MaxRestarts = 1
  NoOne = none
INVARIANTS SingleFlight StoredPairUsable HandedWereStored
PROPERTIES TokensSettle
CHECK_DEADLOCK FALSE
