SPECIFICATION Spec
CONSTANTS
  MaxDepth = 6
  MaxMagnitude = 2
  MaxSelectors = 2
  MaxPath = 2
  MaxOneOf = 2
  Major = {1, 2}
  Operation = {"read", "write"}
  SelectorList <- MCSelectorList
  Argument <- MCArgument
  MaxGrants = 1
  MaxRequests = 1
  MaxServed = 1
  Nesting = 7
INVARIANTS
  HolderNotBetrayed
  IssuerObeyed
  NothingLost
CHECK_DEADLOCK FALSE
