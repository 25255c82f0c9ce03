------------------------------ MODULE MCERC20 ------------------------------
(***************************************************************************)
(* Model values and bounds for ERC20Contract.                              *)
(***************************************************************************)
EXTENDS ERC20Contract, TLC

MCAmounts == {-1, 1, 2}

\* A number system that ends soon: balances above 2 overflow.
MCRepresentable == -3..2

\* Slots are interchangeable, and no property of the runs is a liveness one.
TxSymmetry == Permutations(Txs)
=============================================================================
