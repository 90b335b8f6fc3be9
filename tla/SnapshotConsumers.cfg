\* Two consumers of different speeds and four publications; nothing is edited.
SPECIFICATION Spec
CONSTANTS
    history = history
    shadow = shadow
    e1 = e1
    e2 = e2
    catalog = catalog
    Consumers = {history, shadow}
    Shadow = shadow
    Editors = {}
    Importers = {}
    MaxGenerations = 4
    MaxAttempts = 1
INVARIANTS PublicationsAccounted
PROPERTIES NoGenerationTwice LatestHandled
