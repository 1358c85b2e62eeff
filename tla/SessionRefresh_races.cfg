\* Parallel requests on two instances; outages, but nothing is lost or revoked.
SPECIFICATION Spec
CONSTANTS
    r1 = r1  r2 = r2  i1 = i1  i2 = i2  r3 = r3
    Requests = {r1, r2, r3}
    Instances = {i1, i2}
    Nowhere = Nowhere
    TTL = 7
    Margin = 2
    Tolerance = 1
    ReuseWindow = 4
    KeysMaxAge = 20
    KeysCooldown = 6
    KeysTimeout = 1
    Ahead = {0}
    Lifetime = 2
    MaxTime = 12
    MaxRetired = 0
    VerifyFaults = {"unavailable"}
    ProviderFaults = {"rate-limited"}
    Events = {}
SYMMETRY Symmetry
INVARIANTS
    LiveSessionNeverEnds
    BrowserNeverStranded
