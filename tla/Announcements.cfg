SPECIFICATION Spec
CONSTANTS
    Last = 2
    Wanted <- MCWanted
    Dated <- MCDated
    Clearing <- MCClearing
    Providers = {"api"}
    Enrichment = "enrichment"
    Before = 1
    MaxTime = 1
    MaxExcused = 1
CONSTRAINT Bounded
INVARIANTS TypeOK AlertOnce StatusHonest ReminderOnce
