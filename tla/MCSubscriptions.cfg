SPECIFICATION Spec
CONSTANTS
  Calls = {c1, c2, c3}
  DollarLevels <- MCDollarLevels
  StrippedPrefixes <- MCStrippedPrefixes
  Order <- MCOrder
  Rejected <- MCRejected
  Kept <- MCKept
  Decorated <- MCDecorated
  Topics <- MCTopics
  Requests <- MCRequests
INVARIANTS Exclusion GuardsCounted BrokerAgrees IndexExact RecipientIsBest NoWaitCycle
SYMMETRY Interchangeable
CHECK_DEADLOCK FALSE
