\* Expected violation: `fjo api --paginate` of an endpoint with ?page=2 in it.
SPECIFICATION PageSpec
CONSTANTS
  MaxPages = 5
  MaxItems = 5
  ServerMax = 2
  DefaultPage = 2
  Reported = {2}
  Requested <- NoSizes
  UserLimits <- NoSizes
  Drivers = {"api"}
  BasePages = {1, 2}
  Honours = {TRUE}
  Strips = {FALSE}
CHECK_DEADLOCK FALSE
INVARIANTS
  EachOnce
