\* Two dashboard edits and a catalog import against the collector's rounds and
\* the annotations of the shadow ledger, two publications.
SPECIFICATION Spec
CONSTANTS
    history = history
    shadow = shadow
    e1 = e1
    e2 = e2
    catalog = catalog
    Consumers = {shadow}
    Shadow = shadow
    Editors = {e1, e2, catalog}
    Importers = {catalog}
    MaxGenerations = 2
    MaxAttempts = 3
SYMMETRY EditSymmetry
INVARIANTS TypeOK AnsweredEditsInForce NoRevokedCapability ListOfThisGeneration
