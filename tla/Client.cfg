\* Every kind of method and body; four attempts, two between the first and the
\* last.  Three tasks meet a cold cache; time for two entries to lapse.
\* Both drivers, a clamp of 2, headers that come and go, a collection that grows.
SPECIFICATION FairClientSpec
CONSTANTS
  MaxAttempts = 4
  Base = 4
  MaxBackoff = 13
  MaxRetryAfter = 10
  Jitters <- JitterDrawn
  RetryAfters = {0, 3600}
  Methods = {"GET", "DELETE", "POST", "PATCH"}
  Bodies = {TRUE, FALSE}
  Caller = {t1, t2, t3}
  Nobody = Nobody
  Items <- ItemLimits
  Default = 50
  TTL = 2
  MaxTime = 4
  MaxPages = 5
  MaxItems = 5
  ServerMax = 2
  DefaultPage = 2
  Reported = {1, 2, 3}
  Requested <- Sizes
  UserLimits <- Limits
  Drivers = {"stream", "api"}
  BasePages = {1}
  Honours = {TRUE, FALSE}
  Strips = {TRUE, FALSE}
INVARIANTS
  AtMostOnce
  RateLimitedUntouched
  SpentBodySentOnce
  EveryAttemptUsed
  WhatIsServedIsLearnt
  EachOnce
  NothingLost
  LimitRespected
  RunawayIsAnError
PROPERTIES
  OneProbePerTTL
  EveryCallReturns
  Ends
\* A request ends; tasks need not ask again; a walk ends.
CHECK_DEADLOCK FALSE
