---------------------------- MODULE MCExitMonitor ----------------------------
(* Small instances of ExitMonitor for TLC. *)
EXTENDS ExitMonitor

\* A stop loss raises a protective exit; proposals of every class are raised without a rule.
MCRuleClass == [r \in {"stop"} |-> "PROTECTIVE"]
==============================================================================
