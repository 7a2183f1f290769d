SPECIFICATION Spec
CONSTANTS
    Tasks = {t1}
    NoTask = NULL
    Lens = {0, 1}
    Resetters = {}
    MaxInits = 0
INVARIANT BlocksUntilEnd
