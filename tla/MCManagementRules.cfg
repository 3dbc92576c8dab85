SPECIFICATION Spec
CONSTANTS
    trail = trail
    lock = lock
    flawed = flawed
    limit = limit
    target = target
    naive = naive
    Rules = {trail, lock, flawed, limit, target, naive}
    Parameters <- MCParameters
    Snapshots <- MCSnapshots
    Quantities <- MCQuantities
    Unknown = Unknown
    Incomparable = Incomparable
    MaxTime = 1
INVARIANTS
    TypeOK
    TriggersAreSpentOnce
PROPERTIES
    StopNeverLoosens
    ArmsBeforeItFires
CHECK_DEADLOCK FALSE
