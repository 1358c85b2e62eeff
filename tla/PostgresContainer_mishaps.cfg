SPECIFICATION FairContainerSpec
CONSTANTS
  atlas = atlas  drizzle = drizzle  drizzle2 = drizzle2  clean = clean
  b1 = b1  b2 = b2  b3 = b3  old = old  new = new  person = person
  Gates = {atlas, drizzle, drizzle2}
  Cleaners = {clean}
  Wants <- MCMixed
  Label <- MCLabel
  Pids <- MCPids
  Legacy <- MCLegacy
  Person = person
  Boxes = {b1, b2, b3}
  NoBox = NoBox
  MaxMishaps = 1
INVARIANTS UsedDatabaseStays FailsOnlyIfDisturbed
PROPERTIES PersonalDataStays LeftoversReaped
\* every task has ended
CHECK_DEADLOCK FALSE
