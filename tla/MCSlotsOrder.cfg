SPECIFICATION OvertakingSpec
CONSTANTS
  a = a
  b = b
  m = m
  n = n
  r1 = r1
  r2 = r2
  r3 = r3
  r4 = r4
  r5 = r5
  Requests = {r1, r2, r3, r4}
  Providers = {a}
  Models = {m, n}
  NoModel = NoModel
  NoTarget = NoTarget
  Unlimited = Unlimited
  Routes <- SingleRoutes
  Timed = {r3}
  Killable = {r2}
  Configs <- SingleConfigs
  InitialConfig <- SingleConfig
INVARIANTS
  OvertakingBounded
PROPERTIES
  StrictFifo
  EventuallyServed
