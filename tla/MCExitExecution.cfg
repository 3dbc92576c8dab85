SPECIFICATION Spec
CONSTANTS
    p1 = p1
    p2 = p2
    Proposals = {p1, p2}
    Actions <- MCActions
    Quantities <- MCQuantities
SYMMETRY MCSymmetry
INVARIANT
    TypeOK
PROPERTIES
    ExitOnlyReduces
    ExitIsSpentOnce
CHECK_DEADLOCK FALSE
