CONSTANTS
    d1 = d1
    d2 = d2
    h1 = h1
    Device = {d1, d2}
    Facts = {"facts"}
    OnFile <- MCOnFile
    Handler = {h1}
    MaxCrashes = 0
    MaxErrors = 0
SPECIFICATION Spec
PROPERTIES LastKnownPersist
