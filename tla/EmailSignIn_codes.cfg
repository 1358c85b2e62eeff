SPECIFICATION MCSpec
CONSTANTS
  r1 = r1  r2 = r2  laptop = laptop  phone = phone  ann = ann  bob = bob
  Requests = {r1, r2}
  Browsers = {laptop, phone}
  Users = {ann, bob}
  None = None
  Limits <- MCLimits
  Window = 2
  Lifetime = 2
  MostCodes = 2
  MaxTime = 3
  Mishaps = {"refuse", "lose", "expire", "drop"}
SYMMETRY Symmetry
INVARIANTS CookieNamesAddressee SessionBegunHere GuessesBounded AddressKeptUntilSignedIn
\* once every budget is spent the system rests
CHECK_DEADLOCK FALSE
