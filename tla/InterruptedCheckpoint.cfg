\* A checkpoint is interrupted between its two writes, and asked for again.
SPECIFICATION Spec
CONSTANTS
  cp1 = cp1
  cp2 = cp2
  cp3 = cp3
  caller1 = caller1
  caller2 = caller2
  Checkpoints = {cp1, cp2, cp3}
  ThreadOf <- OneThread
  Adapters = {"hermes"}
  Callers = {caller1}
  Asked <- NotThird
  Unnamed = Unnamed
  None = None
  MaxFailures = 1
INVARIANTS
  NextGeneration
