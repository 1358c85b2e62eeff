SPECIFICATION BudgetSpec
CONSTANTS
  k1 = k1  k2 = k2  k3 = k3
  Keys = {k1, k2, k3}
  Attempts <- MCAttempts
  Window = 3
  SweepAbove = 1
  SweepEvery = 2
  MaxWindows = 2
  Second = 2
  MostAsks = 3
  MaxTime = 6
INVARIANTS RetryAfterSuffices TwiceTheBudgetAtMost
PROPERTY LimiterImplemented
