\* A reviewed contradiction is read back; nothing fails.
SPECIFICATION ReviewSpec
CONSTANTS
  fa = fa
  fb = fb
  fc = fc
  Flows <- ThreeClaims
  StatementOf <- Stated
  ObservedAt <- Observed
  WrittenBy <- Speakers
  Gated = {}
  RetryFirst = TRUE
  MaxFailures = 0
INVARIANTS
  ReviewStands
