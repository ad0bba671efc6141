SPECIFICATION Spec
CONSTANTS
  a = a
  b = b
  m = m
  n = n
  r1 = r1
  r2 = r2
  r3 = r3
  r4 = r4
  r5 = r5
  Requests = {r1, r2, r3}
  Providers = {a, b}
  Models = {m, n}
  NoModel = NoModel
  NoTarget = NoTarget
  Unlimited = Unlimited
  NoProvider = NoProvider
  Routes <- PairRoutes
  Timed = {r2}
  Killable = {r1, r2, r3}
  Configs <- PairConfigs
  InitialConfig <- PairConfig
INVARIANTS
  TypeOK
  Lifecycle
  SlotsHaveHolders
  NoIdleCapacity
  QueuedOnce
PROPERTIES
  WithinBudget
  ImplementsPool
