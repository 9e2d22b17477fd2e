\* A refused claim about the owner, read back; nothing fails.
SPECIFICATION Spec
CONSTANTS
  a = a
  b = b
  Flows = {a, b}
  SlotOf <- OneSlot
  StatementOf <- SameStatement
  OwnerSubject = {a, b}
  ContradictionIds = {}
  Callers <- OwnerWritesB
  LegacyRatified = {}
  RetryFirst = TRUE
  MaxFailures = 0
PROPERTIES
  EvidenceKept
