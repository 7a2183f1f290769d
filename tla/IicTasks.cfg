SPECIFICATION FairSpec
CONSTANTS
    Tasks = {t1, t2}
    NoTask = NULL
    Lens = {1}
    Resetters = {}
    MaxInits = 0
INVARIANTS TypeOK OwnOutcome NoneOutlives Exclusive
PROPERTY Releases
