SPECIFICATION Spec
CONSTANTS
  Shapes = {"old", "new"}
  Priorities = {1, 2}
  Aliases = {1, 2}
  Empty <- NoProviders
  Broken = Broken
  Missing = Missing
  EditorSaves <- Saves
  InitialContent <- Boot
INVARIANTS
  ConfigTypeOK
PROPERTIES
  Converges
  EditIsInEffect
  EditKeepsTheRest
