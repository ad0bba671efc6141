SPECIFICATION DispatchSpec
CONSTANTS
  a = a
  b = b
  m = m
  r1 = r1
  r2 = r2
  r3 = r3
  Requests = {r1, r2}
  Providers = {a, b}
  Models = {m}
  NoModel = NoModel
  NoTarget = NoTarget
  NoProvider = NoProvider
  Unlimited = Unlimited
  Asked <- PairAsked
  Routes <- PairRoutes
  Streams = {r2}
  Faulty = {r1}
  Interruptible = {"resolving", "queued", "sending", "errorClosing", "streaming"}
  Timed = {r2}
  Killable = {r1, r2}
  Configs <- PairConfigs
  InitialConfig <- PairConfig
INVARIANTS
  DispatchTypeOK
  SlotFollowsRequest
  FeedCountsSlots
  LiveWhileServed
  RowTellsOutcome
PROPERTIES
  UsesSlots
  KilledIsNotForwarded
  FailoverMovesOn
