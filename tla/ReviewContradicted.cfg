\* A participant's and the owner's claims contradict each other; failures are retried.
SPECIFICATION FairSpec
CONSTANTS
  a = a
  b = b
  Flows = {a, b}
  SlotOf <- OneSlot
  StatementOf <- TwoStatements
  OwnerSubject = {a, b}
  ContradictionIds = {b}
  Callers <- OwnerWritesB
  LegacyRatified = {a}
  RetryFirst = TRUE
  MaxFailures = 2
INVARIANTS
  ContradictionRecorded
PROPERTIES
  EvidenceKept
  RecoveryCompletes
