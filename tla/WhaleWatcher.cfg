SPECIFICATION FairSpec
CONSTANTS
    MaxHeight = 4
    MaxTime = 2
    MaxFaults = 1
    MaxBlocksPerPoll = 2
    Cooldown = 1
    Tokens = 1
    Poison = {2}
    Whales <- MixedWhales
INVARIANTS NoSilentLoss RecentBlocksScanned CooldownSpacing
PROPERTIES CatchesUp
