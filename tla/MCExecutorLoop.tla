------------------------------ MODULE MCExecutorLoop ------------------------------
(* ExecutorLoop on small instances. *)
EXTENDS ExecutorLoop, TLC

\* Order identifiers are interchangeable (not used for liveness).
IdSymmetry == Permutations(OrderIds)
=============================================================================
