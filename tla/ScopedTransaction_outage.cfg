SPECIFICATION Spec
CONSTANTS
  tab1 = tab1  put1 = put1  put2 = put2  get3 = get3  solo = solo
  ann = ann  bob = bob  x = x  y = y
  Requests = {tab1, get3}
  Users = {ann, bob}
  Orgs = {x, y}
  NoOrg = NoOrg
  UserOf <- MCUserOf
  OrgOf <- MCOrgOf
  KindOf <- MCKindOf
  Clients = {c1, c2}
  NoClient = NoClient
  NoClaims = NoClaims
  Faults = {"idle"}
INVARIANT OutageKeepsProcess
\* once every request is answered the system rests
CHECK_DEADLOCK FALSE
