SPECIFICATION FairSpec
CONSTANTS
    Tasks = {t1, t2}
    Keys = {k1, k2}
    EventTimes = {0, 2}
    MaxTime = 3
    MaxCalls = 2
    MaxFaults = 1
    Cooldown = 2
    RateWindow = 1
    MaxAlerts = 1
    MaxAge = 2
    Skew = 0
INVARIANTS CooldownKept BudgetKept NoFalseDelivery DuplicateOnlyIfUnrecorded
PROPERTIES CallsReturn
CHECK_DEADLOCK FALSE
