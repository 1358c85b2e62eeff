\* Sign-out, revocation, key retirement, crashes, and answers and responses
\* that are lost, between any two steps.
SPECIFICATION Spec
CONSTANTS
    r1 = r1  r2 = r2  i1 = i1  i2 = i2  r3 = r3
    Requests = {r1, r2}
    Instances = {i1, i2}
    Nowhere = Nowhere
    TTL = 3
    Margin = 1
    Tolerance = 1
    ReuseWindow = 1
    KeysMaxAge = 1
    KeysCooldown = 0
    KeysTimeout = 1
    Ahead = {0}
    Lifetime = 1
    MaxTime = 4
    MaxRetired = 1
    VerifyFaults = {"claims"}
    ProviderFaults = {}
    Events = {"revoke", "retire-key", "sign-out", "answer-lost", "response-lost", "crash"}
INVARIANTS
    ServedWasValidWhenSent
    RevocationBites
    RefreshesAreShared
SYMMETRY Symmetry
