CONSTANTS
  RemoteNames <- MCNames
  Place <- MCPlace
  Known = {"code"}
  Foreign = {}
  Slugs = {"me/fork", "them/proj"}
  Active = "code"
  Upstream = "upstream"
  Origin = "forgejo"
  Given <- OnlyMineAndTheirs
  ByHand <- NoneByHand
SPECIFICATION ContextSpec
INVARIANT TakesEffect
CHECK_DEADLOCK FALSE
