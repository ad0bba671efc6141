SPECIFICATION FairSpec
CONSTANTS
  a = a
  b = b
  m = m
  n = n
  r1 = r1
  r2 = r2
  r3 = r3
  r4 = r4
  r5 = r5
  Requests = {r1, r2, r3, r4, r5}
  Providers = {a, b}
  Models = {m, n}
  NoModel = NoModel
  NoTarget = NoTarget
  Unlimited = Unlimited
  Routes <- MixedRoutes
  Timed = {}
  Killable = {}
  Configs = {}
  InitialConfig <- MixedConfig
PROPERTIES
  EventuallyServed
