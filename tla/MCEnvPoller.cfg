CONSTANTS
    Devices = {d1, d2}
    Addresses = {a1, a2}
    Static = {a1}
    Nobody = Nobody
    Interval = 2
    MaxMoves = 2
    MaxFaults = 2
SPECIFICATION FairSpec
INVARIANTS EnvInv
PROPERTIES KeepsReading
