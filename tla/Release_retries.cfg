SPECIFICATION FairSpec
CONSTANTS
  first = first  middle = middle  last = last  outside = outside
  c1 = c1  c2 = c2  c3 = c3  old = old  new = new
  Packages = {first, middle, last}
  Commits = {c1, c2, c3}
  Bytes <- MCBytes
  Needs <- MCNeeds
  Order <- MCOrder
  Nothing = Nothing
  Untagged = Untagged
  Repository = Repository
  NoCommit = NoCommit
  History <- MCHistory
  MaxFailures = 3
INVARIANT PublishedFromOneCommit
PROPERTIES VersionImplemented EventuallyReleased
\* a version that is released and run no more rests
CHECK_DEADLOCK FALSE
