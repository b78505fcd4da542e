CONSTANTS
  Methods = {"GET", "POST"}
  Paths <- MCPaths
  Patterns <- MCPatterns
  Names = {":id", ":kind"}
  Literal <- MCLiteral
  Groups <- MCGroups
  MaxRoutes = 3
SPECIFICATION Spec
INVARIANTS TypeOK RoutesToFirst ParamsFillPattern
CHECK_DEADLOCK FALSE
