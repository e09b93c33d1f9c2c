SPECIFICATION Spec
CONSTANTS
    Threads = {t1, t2}
    Period = 2
    Times = {1, 3, 4, 5, 7}
INVARIANTS
    TypeOK
    PeriodApart
PROPERTY StampsAdvance
