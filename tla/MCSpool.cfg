CONSTANTS
    segment_bytes = 4
    max_bytes = 8
    LineLens = {0, 1, 3}
    MaxAppend = 2
    MaxLines = 5
    MaxCrashes = 1
    MaxErrors = 1
SPECIFICATION Spec
INVARIANTS SpoolInv AcceptedNotLost EvictedAreOldest
PROPERTIES AppendEnforcesCap OwnLinesKept SegmentsImmutable ServedInOrder
