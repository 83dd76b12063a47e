SPECIFICATION Spec
CONSTANTS
  Arguments <- MCArguments
  GroupPrefixes <- MCPrefixes
  RoutePaths <- MCPaths
  MaxGroups = 4
  MaxRoutes = 1
  MaxGlobals = 1
  MaxSpare = 2
INVARIANTS TypeOK ShallowGroupsIntact RoutesAsDeclared PreflightAnswered PanicsContained LogsTellTheTruth
CHECK_DEADLOCK FALSE
