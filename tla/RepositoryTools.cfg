SPECIFICATION MCSpec
CONSTANTS
  one = one  other = other  m1 = m1  m2 = m2  Nothing = Nothing
  Files = 2
  Contents <- MCContents
  Roles <- MCRoles
  Invocations = {one, other}  MaxVersion = 2
  SkillSets <- MCSkillSets  Trees <- MCTrees  Older <- MCOlder  MostCommits = 2
  BundleNames = {one, other}  MemberNames = {m1, m2}  MostLines = 11
  Runs = {one, other}  Requests <- MCRequests  FILES <- MCFILES
  MostEdits = 2
  Extra = "notes.txt"  MostAdded = 1
SYMMETRY Symmetry
INVARIANTS OriginalNeverWritten VerdictIsTrue CatalogHoldsReviewed SettingsReadRight
  ProjectsStandAlone CreatedIsWhole
PROPERTY CheckPassesOnlyIfCurrent
\* the commands end
CHECK_DEADLOCK FALSE
