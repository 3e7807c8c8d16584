CONSTANTS
    Dirs = {d1}
    Callers = {t1, t2}
    Clean <- MCClean
    Confs <- MCConfs
SPECIFICATION StorageSpec
INVARIANTS
    StorageTypeOK
    PromisesKept
PROPERTY GuestDataKept
SYMMETRY Symmetry
CHECK_DEADLOCK FALSE
