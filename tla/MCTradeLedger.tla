------------------------------ MODULE MCTradeLedger ------------------------------
(* TradeLedger on small instances. *)
EXTENDS TradeLedger, TLC

\* Identifiers of orders and of rows are interchangeable.
LedgerSymmetry == Permutations(OrderIds) \cup Permutations(EntryRows)
=============================================================================
