SPECIFICATION Spec
CONSTANTS
  Inventories <- MCInventories
  Word = {r}
  r = r
  Platforms = {"known", "unknown"}
  Known = {"known"}
  MaxPort = 4
  Text = {"user", "enable", "broken", "fixed", "unknown"}
  NosTables <- MCNosTables
  ReloadTables <- MCReloadTables
  InventoryTables <- MCInventoryTables
  InitialPrompts <- MCInitialPrompts
  HandlerResults <- MCHandlerResults
  Typed <- MCTyped
CHECK_DEADLOCK FALSE
VIEW View
INVARIANT PromptNamesHost
