------------------------------ MODULE MCSequence ------------------------------
(***************************************************************************)
(* Model values and bounds for ContractSequence.                           *)
(***************************************************************************)
EXTENDS ContractSequence, TLC

CONSTANTS collection1, collection2

MCCollections == <<collection1, collection2>>
MCFailing == {collection1, collection2}

TxSymmetry == Permutations(Txs)
=============================================================================
