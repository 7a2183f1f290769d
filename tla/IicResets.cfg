SPECIFICATION Spec
CONSTANTS
    Tasks = {t1}
    NoTask = NULL
    Lens = {0, 1}
    Resetters = {t1}
    MaxInits = 2
INVARIANT OwnOutcome
