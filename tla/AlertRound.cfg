SPECIFICATION Spec
CONSTANTS
    k1 = k1
    k2 = k2
    k3 = k3
    s1 = s1
    s2 = s2
    Keys = {k1, k2, k3}
    SymbolOf <- ThreeKeysSymbol
    Cooldown <- ThreeKeysCooldown
    MaxCooldown = 1
    ConsecutiveHits <- ThreeKeysHits
    RetryBase = 1
    RetryMax = 3
    MaxPerSymbol = 2
    MaxPerEvaluation = 3
    Concurrency = 2
    MinRetention = 1
    RetentionSlack = 1
    PrunePeriod = 1
    MaxTime = 0
    MaxBoots = 1
CHECK_DEADLOCK FALSE
INVARIANTS MatchesSerialized
