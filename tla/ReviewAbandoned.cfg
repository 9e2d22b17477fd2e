\* Failed operations need not be retried before others run.
SPECIFICATION Spec
CONSTANTS
  a = a
  b = b
  Flows = {a, b}
  SlotOf <- OneSlot
  StatementOf <- SameStatement
  OwnerSubject = {a, b}
  ContradictionIds = {}
  Callers <- OwnerWritesB
  LegacyRatified = {a}
  RetryFirst = FALSE
  MaxFailures = 2
INVARIANTS
  ApprovedHasCanon
PROPERTIES
  OwnerAuthority
