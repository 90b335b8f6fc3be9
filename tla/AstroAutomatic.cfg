SPECIFICATION Spec
CONSTANTS
    h1 = h1
    h2 = h2
    r1 = r1
    r2 = r2
    Routes = {r1, r2}
    Handlers = {h1, h2}
    Manual = {}
    Expiry = 1
    KeepFor = 1
    MaxTime = 3
    MaxAdds = 3
SYMMETRY Symmetry
CHECK_DEADLOCK FALSE
INVARIANTS TypeOK AtMostOneCard OpenAddIsGuarded
PROPERTIES AutomaticWaits
