CONSTANTS
    amp = amp
    mini = mini
    other = other
    h1 = h1
    Device = {amp, mini, other}
    Facts <- MCFacts
    OnFile <- MCOnFile
    Handler = {h1}
    MaxCrashes = 1
    MaxErrors = 1
    AddressBits = 3
    Network = 4
    Prefix = 1
    Home <- MCHome
    Description <- MCDescription
    Claims <- MCClaims
    ProbePorts = {2}
    MaxBody = 1
    MaxMoves = 1
SPECIFICATION TSpec
INVARIANTS WiimInv FileNeverDamaged OutboundInv
PROPERTIES ScannedStayOnFile
