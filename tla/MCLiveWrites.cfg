SPECIFICATION Spec
CONSTANTS
    r1 = r1
    poor = poor
    good = good
    better = better
    Requests = {r1}
    NoEvidence = poor
    Evidence = {poor, good, better}
    Ready = {good, better}
    NoDecision = NoDecision
    Absent = Absent
    TTL = 1
    MaxTime = 3
INVARIANTS
    TypeOK
    DecisionMatchesEvidence
    RevocationHolds
PROPERTY
    RealOrdersAreConsented
CHECK_DEADLOCK FALSE
