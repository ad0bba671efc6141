SPECIFICATION PrepareSpec
CONSTANTS
  Backends <- BackendsAB
  Restricted <- RestrictedB
  Priority <- PriorityB
  Bare = Bare
  Inherit = Inherit
  EnabledLists <- Allowed
  ModelMaps <- Renamed
  AliasMaps <- AliasMapsAB
  Groups <- GroupsAB
  Catalogs <- Reported
  Priorities = {1, 2}
  Chats <- SmallChats
  CharsPerToken = 2
  MaxToolResultTokens = 2
  ProtectRecent = 1
  MediaPartTokens = 2
  Frame = 1
  Mark = 2
  ImageChars = 20
  Untouched = Untouched
  Pending = Pending
INVARIANTS
  ListedIsUsable
  PinAgreesWithName
  PairingKept
  FitsOrIsNewest
  DropsNoMoreThanNeeded
CHECK_DEADLOCK FALSE
