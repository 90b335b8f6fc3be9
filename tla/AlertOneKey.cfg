SPECIFICATION Spec
CONSTANTS
    k1 = k1
    k2 = k2
    k3 = k3
    s1 = s1
    s2 = s2
    Keys = {k1}
    SymbolOf <- OneKeySymbol
    Cooldown <- OneKeyCooldown
    MaxCooldown = 3
    ConsecutiveHits <- OneKeyHits
    RetryBase = 1
    RetryMax = 3
    MaxPerSymbol = 1
    MaxPerEvaluation = 1
    Concurrency = 1
    MinRetention = 1
    RetentionSlack = 1
    PrunePeriod = 1
    MaxTime = 5
    MaxBoots = 3
CHECK_DEADLOCK FALSE
INVARIANTS TypeOK CooldownSafe SilenceJustified OneUnknownEvent
PROPERTIES NoSendInsideCooldown BackoffRespected GateSpec
