SPECIFICATION FairDispatchSpec
CONSTANTS
  a = a
  b = b
  m = m
  r1 = r1
  r2 = r2
  r3 = r3
  Requests = {r1, r3}
  Providers = {a, b}
  Models = {m}
  NoModel = NoModel
  NoTarget = NoTarget
  NoProvider = NoProvider
  Unlimited = Unlimited
  Asked <- PairAsked
  Routes <- PairRoutes
  Streams = {r1}
  Faulty = {}
  Interruptible = {"resolving", "queued", "sending", "errorBody", "errorClosing", "streaming"}
  Timed = {r3}
  Killable = {r1, r3}
  Configs = {}
  InitialConfig <- PairConfig
PROPERTIES
  EveryRequestEnds
  KillEnds
