CONSTANTS
    Key = {1, 2, 3, 4, 5, 6}
    None = None
    MaxFailures = 1
    MaxKills = 1
    MaxIssues = 2
    MaxReboots = 1
    MaxStops = 1
SPECIFICATION CFairSpec
INVARIANTS CertificateInv
PROPERTIES IdentityKept RenewalRotatesKey DeclaredGetsIdentity LatestIsServed
