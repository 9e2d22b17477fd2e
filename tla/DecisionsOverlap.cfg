\* Two callers decide on four proposals of one slot; one decision is abandoned.
SPECIFICATION Spec
CONSTANTS
  p1 = p1
  p2 = p2
  p3 = p3
  p4 = p4
  s1 = s1
  s2 = s2
  Proposals = {p1, p2, p3, p4}
  Operation <- Operations
  Target <- TargetA
  SlotOf <- OneSlot
  HasPacket = {p1, p2}
  Offered <- Considered
  AtOnce <- Hasty
  Sessions = {s1, s2}
  MaxFailures = 1
SYMMETRY Callers
INVARIANTS
  TypeOK
  CanonRatified
  DecisionAccounted
  DispositionComplete
  OneEnd
  PacketTells
  SlotShared
  PageKeepsClaims
