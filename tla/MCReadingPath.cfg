CONSTANTS
    mine = mine
    theirs = theirs
    MaxInt = 127
    MaxBody = 80
    MaxPushedBytes = 80
    Million = 2
    BlockSize = 4
    Words = 6
    Holders = {mine, theirs}
    Ours = {mine}
    Seeds = {1, 2, 3, 4, 5, 6}
    MaxRequests = 3
    named <- nicknames
    measured <- power_values
    NameTexts <- MCNameTexts
    EnergyDocs <- MCEnergyDocs
    Nicknames <- MCNicknames
    SensorDocs <- MCSensorDocs
    Replies <- MCReplies
    Pushes <- MCPushes
    Now = 100
    MaxLosses = 2
    MaxTakeovers = 1
SPECIFICATION FairSpec
INVARIANTS ReadingInv OneTextPerIv
PROPERTIES GoodSessionAnswers KeepsReading
