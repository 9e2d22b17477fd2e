\* Two processes write the audit log, take in events, maintain the wiki, mature and
\* promote memory or take the store lock; three contradicting claims are reviewed; a
\* runtime is installed, updated and run.  One crash, failed step or slow holder.
SPECIFICATION Spec
CONSTANTS
  proc1 = proc1
  proc2 = proc2
  e1 = e1
  e2 = e2
  e3 = e3
  p1 = p1
  p2 = p2
  c1 = c1
  c2 = c2
  s1 = s1
  s2 = s2
  r1 = r1
  r2 = r2
  r3 = r3
  r4 = r4
  NoRef = NoRef
  Writers <- Procs
  Entries = {e1, e2}
  MaxSlow = 1
  Events = {e1, e2, e3}
  ContentOf <- ContentRefs
  ThreadOf <- OneThread
  SessionOf <- Sessions
  Scenarios <- Deliveries
  TakerProcs <- Procs
  MaxMishaps = 1
  Pages = {p1, p2}
  Claims = {c1, c2}
  Sources = {s1, s2}
  Runs = {r1, r2, r3, r4}
  EventOf <- Maintenance
  Required = {p2}
  RunSets <- Cycles
  Maintainers <- Procs
  MaxHitches = 1
  n1 = n1
  n2 = n2
  n3 = n3
  n4 = n4
  diet = diet
  pet = pet
  tA = tA
  tB = tB
  tC = tC
  Notes = {n1, n2, n3, n4}
  DayOf <- DayOfNote
  Nights = 2
  ItemsOf <- Proposed
  Slots = {diet, pet}
  Topics = {tA, tB, tC}
  ClaimOf <- Said
  AnswersOf <- Answers
  Maturers <- Procs
  MaxClaims = 2
  MaxWorks = 2
  MaxLapses = 1
  Holders <- Procs
  MaxTrouble = 1
  fa = fa
  fb = fb
  fc = fc
  Flows <- ThreeClaims
  StatementOf <- Stated
  ObservedAt <- Observed
  WrittenBy <- Speakers
  Gated = {fc}
  RetryFirst = TRUE
  MaxFailures = 1
  Operators <- Procs
  Asked <- ToInstall
  MaxJobs = 2
  MaxBreaks = 1
  MaxTurns = 2
  TextOf <- Texts
  Slug <- Slugs
SYMMETRY Symmetric
INVARIANTS
  TypeOK
  LoggedOnce
  IntakeWhole
  ThreadKeepsMessages
  WikiWhole
  MaturationWhole
  CanonTraceable
  StoreExclusive
  WaiterProceeds
  ResolutionWhole
  CanonFollowsWorld
  HostServed
PROPERTIES
  PagesOnlyGain
