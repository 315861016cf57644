CONSTANTS
  Entries <- MCEntries
  Paths <- MCPaths
  HostNames <- MCHosts
  TooLong = {"c"}
  Scenes <- MCScenes
SPECIFICATION PanelFair
INVARIANTS
  RoutesRight
  FileSound
  Honest
  PanelReachable
PROPERTIES
  OthersUndisturbed
  PanelResponds
