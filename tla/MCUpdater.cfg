CONSTANTS
    good = good
    docs = docs
    bad = bad
    m1 = m1
    m2 = m2
    None = None
    Release = {good, docs, bad}
    Machine = {m1, m2}
    System <- MCSystem
    Build <- MCBuild
    Healthy <- MCHealthy
    Installed <- MCInstalled
    MaxChanges = 3
    MaxReboots = 2
    MaxFlakes = 1
    MaxFailures = 2
SPECIFICATION FairSpec
INVARIANTS UpdaterInv BootWasChecked
PROPERTIES FactsKept GoodReleaseDeployed
