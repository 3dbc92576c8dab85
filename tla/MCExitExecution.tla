--------------------------- MODULE MCExitExecution ---------------------------
(* A small instance of ExitExecution for TLC. *)
EXTENDS ExitExecution, TLC

CONSTANTS p1, p2

\* A full exit, one of a unit, and one of a half, which rounds down.
MCActions ==
    {[kind |-> "EXIT_ALL", amount |-> 0], [kind |-> "EXIT_QTY", amount |-> 1],
     [kind |-> "EXIT_PERCENT", amount |-> 50]}

MCQuantities == {-2, 0, 3}

MCSymmetry == Permutations(Proposals)
==============================================================================
