\* A failed ratification and a failed closure replayed after the other.
SPECIFICATION Spec
CONSTANTS
  a = a
  b = b
  Flows = {a, b}
  SlotOf <- OneSlot
  StatementOf <- SameStatement
  OwnerSubject = {a}
  ContradictionIds = {}
  Callers <- Participants
  LegacyRatified = {}
  RetryFirst = FALSE
  MaxFailures = 1
INVARIANTS
  OneReviewEnd
