CONSTANTS
  Nul = Nul
  AppMiddlewares = {"auth"}
  Origins = {"site", "other"}
  Configs <- MCConfigs
  AppBodies <- MCBodies
  AppResponses <- MCResponses
  MaxCalls = 2
  MaxMiddlewares = 3
SPECIFICATION Spec
INVARIANTS TypeOK OnionOrder PreflightNotRouted Delimited PreflightPromiseKept OnlyAllowedRead
PROPERTY NeverSentBack
CHECK_DEADLOCK FALSE
