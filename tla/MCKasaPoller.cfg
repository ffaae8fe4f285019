CONSTANTS
    Plugs = {p1, p2}
    Addresses = {a1, a2}
    Static = {a1}
    None = None
    Interval = 2
    MaxMoves = 2
    MaxForgets = 1
    MaxFaults = 1
SPECIFICATION FairSpec
INVARIANTS KasaInv
PROPERTIES DeadSessionReplaced KeepsReading NamesSettle
