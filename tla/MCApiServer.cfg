CONSTANTS
    h1 = h1
    h2 = h2
    mixed = mixed
    single = single
    Module = {1, 2}
    Pollable = {1}
    Handler = {h1, h2}
    Body = {mixed}
    Groups <- MCGroups
    MaxAttempts = 2
    MaxCrashes = 1
    MaxErrors = 1
    MaxPort = 9
    Ipv4 <- MCIpv4
    Ipv4Cidr <- MCCidr
    Configs <- MCConfigs
    Uploads <- MCUploads
    PollerOf <- MCPollerOf
    Request <- MCRequest
    MaxConnects = 2
SPECIFICATION AFairSpec
INVARIANTS IngestInv WholePushes
PROPERTIES RequestsAnswered ServesOnceFilesAreGood
