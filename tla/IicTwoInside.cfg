SPECIFICATION Spec
CONSTANTS
    Tasks = {t1, t2}
    NoTask = NULL
    Lens = {0, 1}
    Resetters = {t2}
    MaxInits = 1
INVARIANT Exclusive
