SPECIFICATION MCSpec
CONSTANTS
  Requests = {r1, r2}
  SigningKeys = {k1, k2}
  CacheMaxAge = 3
  Cooldown = 1
  Timeout = 1
  Lifetime = 1
  Forged = Forged
  Instances = {old, new}
  Browsers = {browser}
  SessionLength = 2
  TokenLength = 1
  MaxAge = 9
  NoCookie = NoCookie
  Never = Never
  MaxNow = 6
  MaxKeys = 3
  MaxFlight = 1
SYMMETRY Symmetry
INVARIANT NobodySignedOut
PROPERTIES GoodTokensAreNotRefused TakenDownKeysExpire
\* the clock stops at its bound
CHECK_DEADLOCK FALSE
