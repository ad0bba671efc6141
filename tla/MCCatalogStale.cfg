SPECIFICATION FairSpec
CONSTANTS
  backend = backend
  old = old
  new = new
  l1 = l1
  l2 = l2
  l3 = l3
  Lookups = {l1, l2}
  Providers = {backend}
  Endpoints = {old, new}
  NoModels = NoModels
  Grace = 3
  Retry = 1
  Configs <- OneConfigs
  InitialConfig <- OneConfig
INVARIANTS
  CurrentCatalog
