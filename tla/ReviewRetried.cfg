\* Two participants' claims about the owner in one slot; failures are retried.
SPECIFICATION Spec
CONSTANTS
  a = a
  b = b
  Flows = {a, b}
  SlotOf <- OneSlot
  StatementOf <- SameStatement
  OwnerSubject = {a, b}
  ContradictionIds = {}
  Callers <- Participants
  LegacyRatified = {a}
  RetryFirst = TRUE
  MaxFailures = 2
INVARIANTS
  TypeOK
  SlotHasOneCanon
  CanonIffApproved
  ReviewAgrees
  ReviewAudited
PROPERTIES
  EndedReviewsStay
  CanonDurable
  ImplementsReview
