--------------------------- MODULE MCEntryExecution --------------------------
(* A small instance of EntryExecution for TLC. *)
EXTENDS EntryExecution, TLC

\* The broker gives order ids in any order.
OrderSymmetry == Permutations(OrderIds)

\* Bound: an order is working or filled.  How else it may stand, and that it moves, is the
\* subject of MCExecutionEngine.
OrdersWorkOrFill ==
    \A o \in OrderIds : truths[o] # <<>> => M!Current(o).status \in {"ACKNOWLEDGED", "FILLED"}
==============================================================================
