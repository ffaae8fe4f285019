CONSTANTS
    Requests = {r1, r2}
    Uuids = {u1}
    LeaseSeconds <- AnyLength
    MinLease = 1
    MaxLease = 4
    DefaultLease = 4
    CacheLimit = 2
    Period = 1
    Delay = 1
    RenewMargin = 3
    MaxOffset = 1
    MaxTime = 6
    MaxFaults = 1
SYMMETRY Symmetry
SPECIFICATION Spec
INVARIANTS LeaseInv StaysDiscoverable
PROPERTIES RenewalNotUndone
