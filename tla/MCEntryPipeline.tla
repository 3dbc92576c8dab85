--------------------------- MODULE MCEntryPipeline ---------------------------
(* A small instance of EntryPipeline for TLC. *)
EXTENDS EntryPipeline, TLC

CONSTANTS out, near, shown, far, scan

\* near is also shown with its premium.
MCClean == [c \in Contracts |-> IF c = shown THEN near ELSE c]

Pick(c, x, arms, valid) ==
    [outcome |-> out, contract |-> c, context |-> x, arms |-> arms, valid |-> valid]

\* Two picks to enter on the day their contracts expire, one of them shown with its premium
\* and not from the same scan, and one only to watch.
MCPayloads ==
    {Pick(far, scan, TRUE, {0}), Pick(shown, NoContext, TRUE, {0}), Pick(near, scan, FALSE, {0})}

MCTerms == [outcome: Outcomes, contract: Contracts]

Facts(x, i, t, c, p) ==
    [expired |-> x, invalid |-> i, triggered |-> t, candle |-> c, premium |-> p]

\* One snapshot for each way evaluate can go; two facts that decide at once are there too.
MCSnapshots ==
    {Facts(TRUE, TRUE, TRUE, "PASSES", "INSIDE"), Facts(FALSE, TRUE, TRUE, "PASSES", "INSIDE"),
     Facts(FALSE, FALSE, FALSE, "PASSES", "INSIDE"), Facts(FALSE, FALSE, TRUE, "MISSING", "INSIDE"),
     Facts(FALSE, FALSE, TRUE, "FAILS", "INSIDE"), Facts(FALSE, FALSE, TRUE, "PASSES", "OUTSIDE"),
     Facts(FALSE, FALSE, TRUE, "PASSES", "INSIDE")}
==============================================================================
