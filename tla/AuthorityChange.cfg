\* An owner's claim about the owner, written again by a participant; nothing fails.
SPECIFICATION Spec
CONSTANTS
  a = a
  b = b
  Flows = {a, b}
  SlotOf <- TwoSlots
  StatementOf <- SameStatement
  OwnerSubject = {a}
  ContradictionIds = {}
  Callers <- AnyOwnerOrParticipant
  LegacyRatified = {}
  RetryFirst = TRUE
  MaxFailures = 0
PROPERTIES
  CanonDurable
