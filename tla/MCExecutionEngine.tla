-------------------------- MODULE MCExecutionEngine --------------------------
(* A small instance of ExecutionEngine for TLC. *)
EXTENDS ExecutionEngine
=============================================================================
