SPECIFICATION DispatchSpec
CONSTANTS
  a = a
  b = b
  m = m
  r1 = r1
  r2 = r2
  r3 = r3
  Requests = {r1, r2}
  Providers = {a, b}
  Models = {m}
  NoModel = NoModel
  NoTarget = NoTarget
  NoProvider = NoProvider
  Unlimited = Unlimited
  Asked <- PairAsked
  Routes <- PairRoutes
  Streams = {r2}
  Faulty = {}
  Interruptible = {"resolving", "queued", "sending", "errorBody", "errorClosing", "streaming"}
  Timed = {}
  Killable = {r1, r2}
  Configs = {}
  InitialConfig <- PairConfig
INVARIANTS
  SlotsHaveHolders
