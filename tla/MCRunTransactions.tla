-------------------------- MODULE MCRunTransactions --------------------------
(* Model of RunTransactions for TLC.                                       *)
EXTENDS RunTransactions, TLC

CONSTANTS c1, c2

InOrder == <<c1, c2>>

Interchangeable == Permutations(Session)
=============================================================================
