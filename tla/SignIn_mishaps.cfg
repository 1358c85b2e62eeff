SPECIFICATION Spec
CONSTANTS
  h1 = h1  h2 = h2  w1 = w1  w2 = w2
  ann = ann  bob = bob  laptop = laptop  shared = shared
  tab1 = tab1  tab2 = tab2  tab3 = tab3
  Handlers = {h1, h2}
  Users = {ann, bob}
  Workspaces = {w1, w2}
  Team = Team  NoOrg = NoOrg  Nobody = Nobody
  Invited = {bob}
  Policy = "personal"
  Faults = {"refuse", "lose", "kill"}
  Browsers = {laptop, shared}
  Nowhere = Nowhere
  Attempts = {tab1, tab2, tab3}
  NoAttempt = NoAttempt
  BrowserOf <- MCBrowserOf
  AccountsOf <- MCAccountsOf
  Mishaps = {"deny", "again", "elsewhere", "expire", "drop"}
SYMMETRY Symmetry
INVARIANTS SessionIsOwnSignIn SomeTabGetsIn OneWorkspaceEach
PROPERTY SignupImplemented
\* once every attempt and request is over the system rests
CHECK_DEADLOCK FALSE
