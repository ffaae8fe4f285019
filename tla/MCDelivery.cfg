CONSTANTS
    segment_bytes = 4
    max_bytes = 8
    LineLens = {1, 3}
    MaxAppend = 2
    MaxLines = 3
    MaxCrashes = 1
    MaxErrors = 1
    QuickRestart = FALSE
    MaxLosses = 1
SPECIFICATION FairSpec
INVARIANTS DeliveryInv
PROPERTIES StreamSpec EveryLineDelivered
