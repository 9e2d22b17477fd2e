\* Two callers and three checkpoints, two of one thread; one failure.
SPECIFICATION Spec
CONSTANTS
  cp1 = cp1
  cp2 = cp2
  cp3 = cp3
  caller1 = caller1
  caller2 = caller2
  Checkpoints = {cp1, cp2, cp3}
  ThreadOf <- TwoThreads
  Adapters = {"hermes"}
  Callers = {caller1, caller2}
  Asked <- NotThird
  Unnamed = Unnamed
  None = None
  MaxFailures = 1
SYMMETRY Symmetric
INVARIANTS
  TypeOK
  OneActive
  GenerationsFollow
  Traceable
PROPERTIES
  SupersededStays
  PackOfActive
